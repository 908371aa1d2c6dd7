SPECIFICATION FairSpec
CONSTANTS
    Clients = {c1, c2}
    WorkerIds = {w1, w2, w3}
    Tasks = {k1, k2}
    Owner = main
    None = none
    MinWorkers = {0, 1}
    MaxWorkers = {0, 2}
    DisposeEarly = FALSE
CHECK_DEADLOCK FALSE
INVARIANTS
    WorkersAreCounted
    TaskInOnePlace
    
 
