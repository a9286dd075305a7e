SPECIFICATION HistorySpec
CONSTANTS
    Threads = {t1, t2}
    MaxWorth = 6
PROPERTY TimedOutWaitKeepsSignal
