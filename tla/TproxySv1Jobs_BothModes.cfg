\* Job keepalive with one channel per miner and with the aggregated channel.
SPECIFICATION Spec
CONSTANTS
    Modes = {FALSE, TRUE}
    NumDownstreams = 2
    MaxUpstreamJobs = 3
    JobTimes = {0, 2}
    KeepaliveInterval = 1
    MaxFutureBlockTime = 3
    U32Max = 4
    MaxShares = 1
INVARIANTS
    TypeOK
    ShareNamesUpstreamJob
\* The keepalive loop stops sending once every job is at its cap and the
\* upstream has used its job ids: the translator then idles.
CHECK_DEADLOCK FALSE
