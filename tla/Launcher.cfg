\* Two servers and a client on one host, or clients on two hosts for servers that run.
CONSTANTS
    IpConfigs <- OneOrTwo
    PartConfigs = {1, 2}
    num_servers = 2
    num_trainers = 2
    num_samplers = 0
    Foreign = Foreign
    ForeignHost = 1
    MaxTasks = 3
SPECIFICATION FairSpec
INVARIANTS ReportsFailure StateIsThere KilledOrTried
PROPERTIES LauncherEnds
\* The launcher ends, or is stuck after an interrupt before the handler is set.
CHECK_DEADLOCK FALSE
