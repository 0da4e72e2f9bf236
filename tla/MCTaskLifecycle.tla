-------------------------- MODULE MCTaskLifecycle --------------------------
(***************************************************************************)
(* Small instances of TaskLifecycle. Assignment rows and handlers are      *)
(* interchangeable in every instance, riders only where all are eligible   *)
(* and paid alike.                                                         *)
(***************************************************************************)
EXTENDS TaskLifecycle, TLC

RowsAndWorkers == Permutations(RowId) \cup Permutations(Workers)

RowsWorkersAndRiders == RowsAndWorkers \cup Permutations(Riders)
=============================================================================
