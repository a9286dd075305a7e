SPECIFICATION FairSpec
CONSTANTS
    Threads = {t1, t2, t3}
    Values = {a, b}
    NoValue = NoValue
    MaxEnqueues = 4
INVARIANTS
    TypeOK
    NoLostWakeup
PROPERTIES
    ImplementsFifo
    NeverStuck
