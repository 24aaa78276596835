\* A miner that disconnects while its channel open is in flight.
SPECIFICATION Spec
CONSTANTS
    Modes = {FALSE}
    MaxDownstreams = 2
    MaxMessages = 1
    Targets = {1, 2}
    MaxFallbacks = 0
    NumUpstreams = 1
INVARIANT
    NoOrphanChannel
CHECK_DEADLOCK FALSE
