SPECIFICATION FairSpec
CONSTANTS
    Clients = {c1}
    Joiners = {j1}
    Workers = {w1, w2}
    Tasks = {k1, k2}
    Pooled = {k1}
    None = none
CHECK_DEADLOCK FALSE
INVARIANT TasksAreOwned
PROPERTY WaitersAreWoken
