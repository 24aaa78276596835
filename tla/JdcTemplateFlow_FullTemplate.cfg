CONSTANTS
    ConfigModes = {"FullTemplate"}
    StartConnects = {TRUE}
    NumDownstreams = 1
    NumUpstreams = 2
    MaxTemplates = 4
    MaxFuture = 1
SPECIFICATION Spec
INVARIANT TypeOK
INVARIANT JobsOnActivatingTip
INVARIANT ActivatedDeclaredJobIsSent
INVARIANT DeclaredAtMostOnce
CHECK_DEADLOCK FALSE
