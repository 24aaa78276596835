\* Keepalive ntime steps when two miners share the aggregated job list.
SPECIFICATION Spec
CONSTANTS
    Modes = {TRUE}
    NumDownstreams = 2
    MaxUpstreamJobs = 3
    JobTimes = {0, 2}
    KeepaliveInterval = 1
    MaxFutureBlockTime = 3
    U32Max = 4
    MaxShares = 1
PROPERTY
    KeepaliveStep
\* The keepalive loop stops sending once every job is at its cap and the
\* upstream has used its job ids: the translator then idles.
CHECK_DEADLOCK FALSE
