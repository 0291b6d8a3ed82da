------------------------------ MODULE Replica ------------------------------
(***************************************************************************)
(* What the outbox promises its readers: a copy of the facts committed in  *)
(* PostgreSQL that may lag behind them but never runs ahead, never goes    *)
(* back and never mixes one event with another.                            *)
(***************************************************************************)
EXTENDS Naturals

CONSTANT Facts

VARIABLES source, copy

replicaVars == <<source, copy>>

ReplicaInit == source = [f \in Facts |-> 0] /\ copy = [f \in Facts |-> 0]

Commit(f) ==
  /\ source' = [source EXCEPT ![f] = @ + 1]
  /\ UNCHANGED copy

CatchUp(f) ==
  /\ copy[f] < source[f]
  /\ \E v \in copy[f] + 1..source[f] : copy' = [copy EXCEPT ![f] = v]
  /\ UNCHANGED source

ReplicaNext == \E f \in Facts : Commit(f) \/ CatchUp(f)

ReplicaSpec == ReplicaInit /\ [][ReplicaNext]_replicaVars
=============================================================================
