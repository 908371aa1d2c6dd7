CONSTANTS
    Threads = {t1, t2, t3}
    Data = {1, 2, 3}
    MaxLen = 3
    MaxPushes = 3
SPECIFICATION HistorySpec
INVARIANTS
    NoLostWakeup
    PopOrder
 
