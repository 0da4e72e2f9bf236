---------------------------- MODULE MCRiderCash ----------------------------
(***************************************************************************)
(* A small instance of RiderCash: deliveries that differ in what is due,   *)
(* managers and remittance identifiers that are interchangeable.           *)
(***************************************************************************)
EXTENDS RiderCash, TLC

CONSTANTS d1, d2, d3, d4

DueAtTheDoor == d1 :> 1 @@ d2 :> 2 @@ d3 :> 0 @@ d4 :> 1

ManagersAndIds == Permutations(Managers) \cup Permutations(RemittanceId)
=============================================================================
