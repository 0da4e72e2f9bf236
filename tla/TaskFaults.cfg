\* The assignment insert may fail. Two handlers in flight, two assignment rows,
\* one rider paid per delivery, one salaried, and a third who is not eligible.
SPECIFICATION Spec
CONSTANTS
    Workers = {w1, w2}
    Riders = {r1, r2, r3}
    NoRider = NoRider
    Eligible = {r1, r2}
    PaidPerTask = {r1, r3}
    RowId = {a1, a2}
    SelfClaim = TRUE
    Faults = {"insert"}
SYMMETRY RowsAndWorkers
INVARIANT EarnedOnce
PROPERTY ProofIsFinal
