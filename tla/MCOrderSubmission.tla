------------------------- MODULE MCOrderSubmission -------------------------
(***************************************************************************)
(* Model-checking properties of OrderSubmission.                           *)
(***************************************************************************)
EXTENDS OrderSubmission, TLC

(* Bound: passes of different processes do not overlap.  A pass still interleaves   *)
(* with every execute, its own process's included.                                  *)
OnePassAtATime == Cardinality({m \in Managers : phase[m] # "off"}) <= 1

(* The two processes are interchangeable. *)
ManagerSymmetry == Permutations(Managers)
=============================================================================
