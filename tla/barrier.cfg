CONSTANTS
    Threads = {t1, t2, t3}
    NoThread = NoThread
    MaxRounds = 2
SPECIFICATION FairSpec
CHECK_DEADLOCK FALSE
INVARIANTS
    PassesTogether
    EmptyAfterPass
PROPERTY AllRoundsPass
