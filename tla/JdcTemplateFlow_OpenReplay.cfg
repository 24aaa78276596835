\* Both job-declaration modes, one downstream, one upstream entry: the Pool
\* channel opens while the JDC already holds a token and an activated tip.
CONSTANTS
    ConfigModes = {"FullTemplate", "CoinbaseOnly"}
    StartConnects = {TRUE}
    NumDownstreams = 1
    NumUpstreams = 1
    MaxTemplates = 2
    MaxFuture = 1
SPECIFICATION Spec
PROPERTY InitialJobOnOpen
CHECK_DEADLOCK FALSE
