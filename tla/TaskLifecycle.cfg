\* Two handlers in flight, three assignment rows, two riders treated alike;
\* handlers may be abandoned between any two statements.
SPECIFICATION Spec
CONSTANTS
    Workers = {w1, w2}
    Riders = {r1, r2}
    NoRider = NoRider
    Eligible = {r1, r2}
    PaidPerTask = {r1, r2}
    RowId = {a1, a2, a3}
    SelfClaim = TRUE
    Faults = {"abandon"}
SYMMETRY RowsWorkersAndRiders
INVARIANTS TypeOK NeverWithoutRider CodeDeliveryByHolder
PROPERTY ImplementsContract
