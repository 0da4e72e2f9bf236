\* One transfer, whose handler crashes once.
SPECIFICATION Spec
CONSTANTS
    Workers = {w1, w2}
    NoWorker = NoWorker
    Ready = {}
    Create = {t1}
    Cancel = {}
    NoMsg = NoMsg
    Crashing = {t1}
    MaxDeliver = 4
    AckWait = 4
    Lease = 4
    NakDelay = 1
    MaxRun = 2
    MaxTasks = 2
    MaxMoves = 1
    MaxFaults = 1
CHECK_DEADLOCK FALSE
PROPERTY TransferDispatched
