--------------------------- MODULE MCRiderShifts ---------------------------
(***************************************************************************)
(* Small instances of RiderShifts. Keys and handlers are interchangeable.  *)
(***************************************************************************)
EXTENDS RiderShifts, TLC

KeysAndWorkers == Permutations(ShiftId) \cup Permutations(Workers)
=============================================================================
