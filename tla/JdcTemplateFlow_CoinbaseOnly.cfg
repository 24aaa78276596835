CONSTANTS
    ConfigModes = {"CoinbaseOnly"}
    StartConnects = {TRUE}
    NumDownstreams = 2
    NumUpstreams = 2
    MaxTemplates = 3
    MaxFuture = 1
SPECIFICATION Spec
INVARIANT JobsOnActivatingTip
PROPERTY CustomJobsSettle
PROPERTY FallbackResolves
CHECK_DEADLOCK FALSE
