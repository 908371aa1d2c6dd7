SPECIFICATION FairSpec
CONSTANTS
    Clients = {c1}
    WorkerIds = {w1}
    Tasks = {k1}
    Owner = main
    None = none
    MinWorkers = {1}
    MaxWorkers = {1}
    DisposeEarly = TRUE
CHECK_DEADLOCK FALSE
PROPERTY ClearReturns
