--------------------------- MODULE IntentJournal ---------------------------
(***************************************************************************)
(* The durable order-intent journal (box_order_intents in PostgreSQL) as   *)
(* the functions of src/box/repository.ts see one row of it: the insert    *)
(* that never overwrites, and the guarded compare-and-set that every       *)
(* writer of the order manager goes through.  Both are one transaction     *)
(* that locks the row, so they are operators on a row; the modules that    *)
(* EXTEND this one call them from a single step.                           *)
(*                                                                         *)
(* Of a row's columns only those the guards read or a property needs are   *)
(* kept: the state, the cumulative filled quantity, the broker order id    *)
(* (one broker order at most exists per identity, so the id is present or  *)
(* null) and the no_broker_post mark of the audit trail.                   *)
(***************************************************************************)
EXTENDS Integers

OrderStates == {"CREATED", "SUBMITTING", "ACKNOWLEDGED", "OPEN", "PARTIALLY_FILLED",
                "CANCEL_REQUESTED", "COMPLETE", "CANCELLED", "REJECTED",
                "UNKNOWN", "RECONCILIATION_REQUIRED"}

(* NONTERMINAL_ORDER_STATES: what a restart reloads. *)
NonterminalStates == {"CREATED", "SUBMITTING", "ACKNOWLEDGED", "OPEN", "PARTIALLY_FILLED",
                      "CANCEL_REQUESTED", "UNKNOWN", "RECONCILIATION_REQUIRED"}

TerminalStates == OrderStates \ NonterminalStates

(* RECONCILE_STATES of the order manager: uncertain, quarantined. *)
ReconcileStates == {"UNKNOWN", "RECONCILIATION_REQUIRED"}

(* Mutant of the table: a quarantined row no longer accepts a completion. *)
PredecessorsWithoutQuarantinedCompletion ==
    [s \in OrderStates |->
        CASE s \in {"CREATED", "SUBMITTING"} -> {"CREATED", "SUBMITTING"}
          [] s \in {"COMPLETE", "CANCELLED"} -> OrderStates \ ({"CREATED", "REJECTED"} \cup ReconcileStates)
          [] OTHER                           -> NonterminalStates]

(* INTENT_STATE_PREDECESSORS: the states a row may be in for a write of s. *)
IntentStatePredecessors ==
    [CREATED          |-> {"CREATED"},
     SUBMITTING       |-> {"CREATED", "SUBMITTING"},
     ACKNOWLEDGED     |-> {"SUBMITTING", "ACKNOWLEDGED"} \cup ReconcileStates,
     OPEN             |-> {"SUBMITTING", "ACKNOWLEDGED", "OPEN"} \cup ReconcileStates,
     PARTIALLY_FILLED |-> {"ACKNOWLEDGED", "OPEN", "PARTIALLY_FILLED"} \cup ReconcileStates,
     COMPLETE         |-> OrderStates \ {"CREATED", "REJECTED"},
     CANCEL_REQUESTED |-> {"ACKNOWLEDGED", "OPEN", "PARTIALLY_FILLED", "CANCEL_REQUESTED"}
                            \cup ReconcileStates,
     CANCELLED        |-> {"ACKNOWLEDGED", "OPEN", "PARTIALLY_FILLED", "CANCEL_REQUESTED",
                           "CANCELLED"} \cup ReconcileStates,
     REJECTED         |-> {"CREATED", "SUBMITTING", "ACKNOWLEDGED", "OPEN", "REJECTED"},
     UNKNOWN          |-> NonterminalStates,
     RECONCILIATION_REQUIRED |-> NonterminalStates]

(* A row that has not been inserted yet. *)
NoRow == [exists |-> FALSE, state |-> "CREATED", filled |-> 0,
          bound |-> FALSE, noPost |-> FALSE]

(* What createBoxOrderIntent inserts. *)
FreshRow == [exists |-> TRUE, state |-> "CREATED", filled |-> 0,
             bound |-> FALSE, noPost |-> FALSE]

Rows(maxFill) == [exists : BOOLEAN, state : OrderStates, filled : 0..maxFill,
                  bound : BOOLEAN, noPost : BOOLEAN]

(* INSERT ... ON CONFLICT (client_order_id) DO NOTHING, then the row that is there. *)
CreateIntent(row) == IF row.exists THEN row ELSE FreshRow

(***************************************************************************)
(* updateBoxOrderIntent.  A patch carries the new state, whether it names  *)
(* a broker order id, and a cumulative fill with `fills' saying whether    *)
(* the caller supplied one; `expected' is the caller's expected-state set. *)
(***************************************************************************)
Patch(state, bound, fills, filled, noPost) ==
    [state |-> state, bound |-> bound, fills |-> fills, filled |-> filled, noPost |-> noPost]

AnyState == OrderStates

(* Mutant: the guard on cumulative quantity is dropped. *)
UpdateAcceptedAnyFill(row, patch, expected) ==
    /\ row.exists
    /\ row.state \in IntentStatePredecessors[patch.state]
    /\ row.state \in expected

UpdateAccepted(row, patch, expected) ==
    /\ row.exists
    /\ row.state \in IntentStatePredecessors[patch.state]
    /\ row.state \in expected
    /\ patch.fills => row.filled <= patch.filled

(* Mutant: a cumulative quantity is added as if it were an increment. *)
UpdateIntentIncremental(row, patch, expected) ==
    IF UpdateAccepted(row, patch, expected)
    THEN [exists |-> TRUE,
          state  |-> patch.state,
          filled |-> IF patch.fills THEN row.filled + patch.filled ELSE row.filled,
          bound  |-> patch.bound,
          noPost |-> row.noPost \/ patch.noPost]
    ELSE row

(* A null broker order id in the patch is written too: it is not undefined. *)
UpdateIntent(row, patch, expected) ==
    IF UpdateAccepted(row, patch, expected)
    THEN [exists |-> TRUE,
          state  |-> patch.state,
          filled |-> IF patch.fills THEN patch.filled ELSE row.filled,
          bound  |-> patch.bound,
          noPost |-> row.noPost \/ patch.noPost]
    ELSE row

(* The fill quantity this write established: post-image minus locked pre-image. *)
DurableFillDelta(row, patch, expected) ==
    UpdateIntent(row, patch, expected).filled - row.filled
=============================================================================
