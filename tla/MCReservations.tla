--------------------------- MODULE MCReservations ---------------------------
(***************************************************************************)
(* Reservations with executions that each share a contract with the next,  *)
(* in two processes.                                                       *)
(***************************************************************************)
EXTENDS Reservations

MCWants ==
    [o \in Owners |-> CASE o = "a" -> {"k1", "k2"} [] o = "b" -> {"k2", "k3"} [] OTHER -> {"k4"}]
MCProcess == [o \in Owners |-> IF o = "a" THEN "p" ELSE "q"]
=============================================================================
