\* Two managers, three hand-ins, deliveries that may be paid with change, one that
\* may not, and one that is prepaid.
SPECIFICATION Spec
SYMMETRY ManagersAndIds
CONSTANTS
    d1 = d1
    d2 = d2
    d3 = d3
    d4 = d4
    PoDId = {d1, d2, d3, d4}
    Due <- DueAtTheDoor
    Managers = {m1, m2}
    RemittanceId = {i1, i2, i3}
    NoRemittance = NoRemittance
    MaxAmount = 2
CHECK_DEADLOCK FALSE
INVARIANTS TypeOK HandInIsWhole CashConserved
PROPERTY StampedOnce
