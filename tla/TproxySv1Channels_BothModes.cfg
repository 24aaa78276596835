\* Sv1Server channel lifecycle in both channel modes, vardiff disabled.
SPECIFICATION Spec
CONSTANTS
    Modes = {FALSE, TRUE}
    MaxDownstreams = 2
    MaxMessages = 2
    Targets = {1, 2}
    MaxFallbacks = 1
    NumUpstreams = 2
INVARIANTS
    TypeOK
    HandshakeInOrder
    TargetFollowsPool
    GivesUpOnlyWhenExhausted
    RequestsMatchUpstream
PROPERTIES
    MessagesEventuallyHandled
    FallbackResolves
\* Reactive server: it idles once miners and the Pool stop sending.
CHECK_DEADLOCK FALSE
