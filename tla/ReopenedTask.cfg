\* The assignment insert may fail, and is then given back.
SPECIFICATION Spec
CONSTANTS
    Workers = {w1, w2}
    Riders = {r1, r2, r3}
    NoRider = NoRider
    Eligible = {r1, r2}
    PaidPerTask = {r1, r3}
    RowId = {a1, a2}
    SelfClaim = TRUE
    Faults = {"insert"}
SYMMETRY RowsAndWorkers
PROPERTY TerminalIsFinal
