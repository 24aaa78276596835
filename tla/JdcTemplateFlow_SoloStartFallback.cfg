\* The first initialize_jd fails, so the JDC starts in solo mining with one
\* downstream; a downstream channel then rejects a prev-hash.
CONSTANTS
    ConfigModes = {"CoinbaseOnly"}
    StartConnects = {FALSE}
    NumDownstreams = 1
    NumUpstreams = 1
    MaxTemplates = 2
    MaxFuture = 1
SPECIFICATION Spec
PROPERTY FallbackResolves
CHECK_DEADLOCK FALSE
