\* One handler at a time, three shifts of a rider in a day of four steps.
SPECIFICATION Spec
SYMMETRY KeysAndWorkers
CONSTANTS
    Workers = {w1}
    ShiftId = {s1, s2, s3}
    Early = 1
    OpenEnded = 3
    Longest = 3
    MaxTime = 4
INVARIANTS  RecordedEnd
 
