CONSTANTS
    ConfigModes = {"FullTemplate"}
    StartConnects = {TRUE}
    NumDownstreams = 1
    NumUpstreams = 1
    MaxTemplates = 3
    MaxFuture = 2
SPECIFICATION Spec
INVARIANT JobsOnActivatingTip
CHECK_DEADLOCK FALSE
