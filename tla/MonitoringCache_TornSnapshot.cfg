\* The JDC's server source alone: refresh against a concurrent channel open.
CONSTANTS
    Configured = {"server"}
    ChannelIds = {1}
    MaxUpdates = 1
    Requests = {r1}
    MaxRequests = 0
    DefaultLimit = 2
    MaxLimit = 3
SPECIFICATION Spec
INVARIANT SnapshotConsistent
