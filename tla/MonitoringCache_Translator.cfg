\* The translator: server channels and Sv1 clients, one /metrics connection.
CONSTANTS
    Configured = {"server", "sv1"}
    ChannelIds = {1, 2}
    MaxUpdates = 3
    Requests = {r1}
    MaxRequests = 3
    \* limits scaled so that a two-channel list spans two pages
    DefaultLimit = 1
    MaxLimit = 1
SPECIFICATION Spec
INVARIANTS
    TypeOK
    MetricsMatchSnapshot
    PaginationSound
PROPERTIES
    CacheConverges
