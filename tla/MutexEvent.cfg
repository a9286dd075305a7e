SPECIFICATION HistorySpec
CONSTANTS
    Threads = {t1, t2, t3}
    MaxWorth = 8
SYMMETRY ThreadSymmetry
INVARIANTS
    HistoryTypeOK
    NoStrandedSignal
    GrantsBounded
