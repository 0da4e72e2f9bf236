\* An order and a transfer come in, the order is cancelled; a crash may hit
\* the handling of the ready event or of the cancellation.
SPECIFICATION Spec
CONSTANTS
    Workers = {w1, w2}
    NoWorker = NoWorker
    Ready = {m1}
    Create = {t1}
    Cancel = {c}
    NoMsg = NoMsg
    Crashing = {m1, c}
    MaxDeliver = 4
    AckWait = 4
    Lease = 4
    NakDelay = 1
    MaxRun = 2
    MaxTasks = 2
    MaxMoves = 1
    MaxFaults = 1
CHECK_DEADLOCK FALSE
 
PROPERTIES OrderDispatched CancelClosesTask
