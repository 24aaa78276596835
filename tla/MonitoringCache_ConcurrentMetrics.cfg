\* The JDC (server channels and Sv2 clients), two concurrent /metrics requests.
CONSTANTS
    Configured = {"server", "clients"}
    ChannelIds = {1}
    MaxUpdates = 1
    Requests = {r1, r2}
    MaxRequests = 2
    DefaultLimit = 2
    MaxLimit = 3
SPECIFICATION Spec
INVARIANT MetricsMatchSnapshot
