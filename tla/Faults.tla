------------------------------- MODULE Faults -------------------------------
(***************************************************************************)
(* Calls that fail and processes that are lost.  Each one that happens is  *)
(* counted; an instance has at most MaxFaults of them.                     *)
(***************************************************************************)
EXTENDS Naturals

CONSTANT MaxFaults   \* bound

ASSUME FaultsAssumption == MaxFaults \in Nat

VARIABLE faults

Fault == faults < MaxFaults /\ faults' = faults + 1
=============================================================================
