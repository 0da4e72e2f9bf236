\* The night between two days, at most three deliveries, two replicas, two
\* requests at a time, one run asked for by hand, every fault.
SPECIFICATION Spec
CONSTANTS
    Replicas = {p1, p2}
    Requests = {q1, q2}
    MaxStmts = 2
    MaxDay = 1
    MaxEarned = 3
    MaxByHand = 1
    Faults = {"stop", "answer", "claims"}
CHECK_DEADLOCK FALSE
INVARIANTS TypeOK PaidOnce OneStatementPerDay StatementIsWhole
PROPERTY EveryDayStated
