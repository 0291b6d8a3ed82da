----------------------- MODULE OrderSubmissionProofs -----------------------
(***************************************************************************)
(* Theorems about OrderSubmission for any number of processes and orders,  *)
(* any quantity and any number of faults.                                  *)
(***************************************************************************)
EXTENDS OrderSubmission, TLAPS

-----------------------------------------------------------------------------
(* The journal's compare-and-set on one row. *)

(* CREATED is never written over another state, REJECTED is never left, and a         *)
(* terminal row changes only from CANCELLED to COMPLETE.                              *)
LEMMA PredecessorFacts ==
    ASSUME NEW s \in OrderStates, NEW t \in OrderStates, t \in IntentStatePredecessors[s]
    PROVE  /\ s = "CREATED" => t = "CREATED"
           /\ t = "REJECTED" => s = "REJECTED"
           /\ t \in TerminalStates /\ s # t => t = "CANCELLED" /\ s = "COMPLETE"
  BY DEF IntentStatePredecessors, OrderStates, TerminalStates, NonterminalStates, ReconcileStates

Patches == [state : OrderStates, bound : BOOLEAN, fills : BOOLEAN, filled : 0..Quantity,
            noPost : BOOLEAN]

(* A write keeps the row well typed and present, and keeps what the protocol relies on. *)
LEMMA UpdateFacts ==
    ASSUME NEW r \in Rows(Quantity), NEW p \in Patches, NEW e
    PROVE  LET u == UpdateIntent(r, p, e) IN
           /\ u \in Rows(Quantity)
           /\ u.exists <=> r.exists
           /\ r.filled <= u.filled
           /\ r.state # "CREATED" => u.state # "CREATED"
           /\ r.state = "REJECTED" => u.state = "REJECTED"
           /\ r.state \in TerminalStates /\ u.state # r.state =>
                 r.state = "CANCELLED" /\ u.state = "COMPLETE"
           /\ UpdateAccepted(r, p, e) => u.state = p.state /\ (u.noPost <=> (r.noPost \/ p.noPost))
           /\ ~UpdateAccepted(r, p, e) => u = r
           /\ ~p.noPost => (u.noPost <=> r.noPost)
           /\ u.filled = r.filled \/ u.filled = p.filled
  <1>1. CASE UpdateAccepted(r, p, e)
    <2>1. r.state \in OrderStates /\ p.state \in OrderStates BY DEF Rows, Patches
    <2>2. r.state \in IntentStatePredecessors[p.state] /\ (p.fills => r.filled <= p.filled)
          BY <1>1 DEF UpdateAccepted
    <2>3. /\ p.state = "CREATED" => r.state = "CREATED"
          /\ r.state = "REJECTED" => p.state = "REJECTED"
          /\ r.state \in TerminalStates /\ p.state # r.state =>
                r.state = "CANCELLED" /\ p.state = "COMPLETE"
          BY <2>1, <2>2, PredecessorFacts
    <2> DEFINE u == UpdateIntent(r, p, e)
    <2>5. r.exists BY <1>1 DEF UpdateAccepted
    <2>6. u = [exists |-> TRUE, state |-> p.state,
               filled |-> IF p.fills THEN p.filled ELSE r.filled,
               bound |-> p.bound, noPost |-> r.noPost \/ p.noPost]
          BY <1>1 DEF UpdateIntent
    <2>7. r.filled \in 0..Quantity /\ p.filled \in 0..Quantity /\ p.fills \in BOOLEAN
          BY DEF Rows, Patches
    <2>8. u.filled \in 0..Quantity /\ r.filled <= u.filled
          /\ (u.filled = r.filled \/ u.filled = p.filled)
          BY <2>2, <2>6, <2>7, QuantityAssumption
    <2>9. u \in Rows(Quantity)
      <3>1. u.filled = IF p.fills THEN p.filled ELSE r.filled BY <2>6
      <3>2. (IF p.fills THEN p.filled ELSE r.filled) \in 0..Quantity BY <3>1, <2>8
      <3>3. (r.noPost \/ p.noPost) \in BOOLEAN OBVIOUS
      <3>4. p.bound \in BOOLEAN BY DEF Rows, Patches
      <3> HIDE DEF u
      <3> QED BY <2>1, <2>6, <3>2, <3>3, <3>4 DEF Rows
    <2>10. u.exists = TRUE /\ u.state = p.state /\ u.noPost = (r.noPost \/ p.noPost)
      BY <2>6
    <2> HIDE DEF u
    <2>11. /\ u.exists <=> r.exists
           /\ u.noPost <=> (r.noPost \/ p.noPost)
           /\ ~p.noPost => (u.noPost <=> r.noPost)
      BY <2>5, <2>10
    <2> QED BY <1>1, <2>3, <2>8, <2>9, <2>10, <2>11 DEF u
  <1>2. CASE ~UpdateAccepted(r, p, e)
    <2>1. UpdateIntent(r, p, e) = r BY <1>2 DEF UpdateIntent
    <2>2. r.filled <= r.filled BY QuantityAssumption DEF Rows
    <2> QED BY <1>2, <2>1, <2>2
  <1> QED BY <1>1, <1>2

(* The patches execute and the pass build are well typed; only a refusal marks no_broker_post. *)
LEMMA PatchTypes ==
    /\ Refusal \in Patches /\ Refusal.noPost /\ Refusal.state = "REJECTED"
    /\ Submitting \in Patches /\ ~Submitting.noPost /\ Submitting.state = "SUBMITTING"
    /\ \A b \in BOOLEAN : Quarantine(b) \in Patches /\ ~Quarantine(b).noPost
    /\ \A s \in Snapshots : FromBroker(s) \in Patches /\ ~FromBroker(s).noPost
                            /\ FromBroker(s).filled = s.filled
  BY QuantityAssumption
     DEF Refusal, Submitting, Quarantine, FromBroker, Patch, Patches, Snapshots, OrderStates

(* A write through the journal touches one row. *)
LEMMA WriteFacts ==
    ASSUME TypeOK, NEW c \in Orders, NEW p \in Patches, NEW e, Write(c, p, e)
    PROVE  /\ row' \in [Orders -> Rows(Quantity)]
           /\ row'[c] = UpdateIntent(row[c], p, e)
           /\ \A d \in Orders : d # c => row'[d] = row[d]
  BY UpdateFacts DEF Write, TypeOK

(* A snapshot of a broker order, or none, is well typed. *)
LEMMA SnapshotTypes ==
    ASSUME TypeOK, NEW c \in Orders
    PROVE  /\ SnapshotOf(broker[c]) \in Snapshots
           /\ SnapshotOf(broker[c]).filled = broker[c].filled
           /\ NoSnapshot \in Snapshots /\ NoSnapshot.filled = 0
  <1>1. broker[c].filled \in 0..Quantity BY DEF TypeOK
  <1>2. StateOf(broker[c]) \in OrderStates BY DEF StateOf, OrderStates
  <1>3. 0 \in 0..Quantity BY QuantityAssumption
  <1> QED BY <1>1, <1>2, <1>3 DEF SnapshotOf, NoSnapshot, Snapshot, Snapshots, OrderStates

(* What the end of a pass resets is well typed. *)
LEMMA EndPassTypes ==
    ASSUME TypeOK, NEW m \in Managers, EndPass(m)
    PROVE  /\ phase' \in [Managers -> Phases]
           /\ nonterm' \in [Managers -> [Orders -> OrderStates \cup {"none"}]]
           /\ hadId' \in [Managers -> SUBSET Orders]
           /\ owned' \in [Managers -> SUBSET Orders]
           /\ book' \in [Managers -> [Orders -> Snapshots]]
           /\ todo' \in [Managers -> SUBSET Orders]
  <1>1. NoSnapshot \in Snapshots
        BY QuantityAssumption DEF NoSnapshot, Snapshot, Snapshots, OrderStates
  <1> QED BY <1>1 DEF EndPass, TypeOK, Phases

-----------------------------------------------------------------------------
(* Type correctness. *)

(* The initial states are well typed. *)
LEMMA TypeInit == Init => TypeOK
  <1>1. NoSnapshot \in Snapshots
        BY QuantityAssumption DEF NoSnapshot, Snapshot, Snapshots, OrderStates
  <1>2. NoRow \in Rows(Quantity)
        BY QuantityAssumption DEF NoRow, Rows, OrderStates
  <1>3. [status |-> "absent", filled |-> 0] \in [status : BrokerStatus, filled : 0..Quantity]
        BY QuantityAssumption DEF BrokerStatus
  <1> SUFFICES ASSUME Init PROVE TypeOK
    OBVIOUS
  <1>4. 0 \in 0..Quantity BY QuantityAssumption
  <1> QED BY <1>1, <1>2, <1>3, <1>4 DEF Init, TypeOK, PCs, SessionStates, Phases

(* Every step of execute, the pass, the broker or a crash keeps the types. *)
LEMMA TypeStep == TypeOK /\ [Next]_vars => TypeOK'
  <1> SUFFICES ASSUME TypeOK, [Next]_vars PROVE TypeOK'
    OBVIOUS
  <1>1. ASSUME NEW m \in Managers, NEW c \in Orders, Submit(m, c) PROVE TypeOK'
    BY <1>1 DEF Submit, Goto, TypeOK, rec, PCs
  <1>2. ASSUME NEW m \in Managers, NEW c \in Orders, Create(m, c) PROVE TypeOK'
    <2>1. row' \in [Orders -> Rows(Quantity)]
      BY <1>2, QuantityAssumption DEF Create, CreateIntent, FreshRow, NoRow, Rows, TypeOK, OrderStates
    <2> QED BY <1>2, <2>1 DEF Create, Goto, TypeOK, rec, PCs
  <1>3. ASSUME NEW m \in Managers, NEW c \in Orders, RefuseAtDequeue(m, c) PROVE TypeOK'
    <2>1. row' \in [Orders -> Rows(Quantity)]
      BY <1>3, WriteFacts, PatchTypes DEF RefuseAtDequeue
    <2> QED BY <1>3, <2>1 DEF RefuseAtDequeue, Goto, TypeOK, rec, PCs
  <1>4. ASSUME NEW m \in Managers, NEW c \in Orders, Claim(m, c) PROVE TypeOK'
    <2>1. row' \in [Orders -> Rows(Quantity)]
      BY <1>4, WriteFacts, PatchTypes DEF Claim
    <2> QED BY <1>4, <2>1 DEF Claim, Goto, TypeOK, rec, PCs
  <1>5. ASSUME NEW m \in Managers, NEW c \in Orders, RefuseBeforePost(m, c) PROVE TypeOK'
    <2>1. row' \in [Orders -> Rows(Quantity)]
      BY <1>5, WriteFacts, PatchTypes DEF RefuseBeforePost
    <2> QED BY <1>5, <2>1 DEF RefuseBeforePost, Goto, TypeOK, rec, PCs
  <1>6. ASSUME NEW m \in Managers, NEW c \in Orders, Post(m, c) PROVE TypeOK'
    BY <1>6 DEF Post, Goto, TypeOK, rec, PCs
  <1>7. ASSUME NEW m \in Managers, NEW c \in Orders, ReplyTerminal(m, c) PROVE TypeOK'
    BY <1>7, SnapshotTypes DEF ReplyTerminal, Hold, Goto, TypeOK, rec, PCs, SessionStates
  <1>8. ASSUME NEW m \in Managers, NEW c \in Orders, ReplyRefused(m, c) PROVE TypeOK'
    <2>1. Snapshot("REJECTED", 0, FALSE) \in Snapshots
      BY QuantityAssumption DEF Snapshot, Snapshots, OrderStates
    <2> QED BY <1>8, <2>1 DEF ReplyRefused, Hold, Goto, TypeOK, rec, PCs, SessionStates
  <1>9. ASSUME NEW m \in Managers, NEW c \in Orders, ReplyAmbiguous(m, c) PROVE TypeOK'
    <2>1. \A q \in 0..Quantity, b \in BOOLEAN :
             Snapshot("RECONCILIATION_REQUIRED", q, b) \in Snapshots
      BY DEF Snapshot, Snapshots, OrderStates
    <2>2. broker[c].filled \in 0..Quantity BY DEF TypeOK
    <2>3. 0 \in 0..Quantity /\ \A q \in 0..broker[c].filled : q \in 0..Quantity
      BY <2>2, QuantityAssumption
    <2>4. \E t \in Snapshots : seen' = [seen EXCEPT ![m][c] = t]
      BY <1>9, <2>1, <2>3 DEF ReplyAmbiguous, Hold
    <2>5. session' \in [Managers -> [Orders -> SessionStates]]
      <3>1. \E t \in SessionStates : session' = [session EXCEPT ![m][c] = t]
        BY <1>9 DEF ReplyAmbiguous, SessionStates
      <3> QED BY <3>1 DEF TypeOK
    <2>6. seen' \in [Managers -> [Orders -> Snapshots]]
      BY <2>4 DEF TypeOK
    <2> QED BY <1>9, <2>5, <2>6 DEF ReplyAmbiguous, Goto, TypeOK, rec, PCs
  <1>10. ASSUME NEW m \in Managers, NEW c \in Orders, Persist(m, c) PROVE TypeOK'
    <2>1. seen[m][c] \in Snapshots BY DEF TypeOK
    <2>2. row' \in [Orders -> Rows(Quantity)]
      BY <1>10, <2>1, WriteFacts, PatchTypes DEF Persist
    <2>3. breaker' \in [Managers -> BOOLEAN]
      BY <1>10 DEF Persist, NoteFailure, TypeOK
    <2>4. seen' \in [Managers -> [Orders -> Snapshots]]
      BY <1>10, SnapshotTypes DEF Persist, Hold, TypeOK
    <2>5. resolved' \in [Managers -> [Orders -> 0..Quantity]]
      BY <1>10, <2>1 DEF Persist, TypeOK, Snapshots
    <2>6. uncertain' \in [Managers -> BOOLEAN]
      BY <1>10 DEF Persist, TypeOK
    <2> QED BY <1>10, <2>2, <2>3, <2>4, <2>5, <2>6 DEF Persist, Goto, TypeOK, rec, PCs
  <1>11. ASSUME NEW m \in Managers, NEW c \in Orders, PersistAdopted(m, c) PROVE TypeOK'
    <2>1. seen[m][c] \in Snapshots BY DEF TypeOK
    <2>2. row' \in [Orders -> Rows(Quantity)]
      BY <1>11, <2>1, WriteFacts, PatchTypes DEF PersistAdopted
    <2>3. seen' \in [Managers -> [Orders -> Snapshots]]
      BY <1>11, SnapshotTypes DEF PersistAdopted, Hold, TypeOK
    <2>4. resolved' \in [Managers -> [Orders -> 0..Quantity]]
      BY <1>11, <2>1 DEF PersistAdopted, TypeOK, Snapshots
    <2> QED BY <1>11, <2>2, <2>3, <2>4 DEF PersistAdopted, Goto, TypeOK, rec, PCs
  <1>12. ASSUME NEW m \in Managers, NEW c \in Orders, PersistFails(m, c) PROVE TypeOK'
    <2>1. seen[m][c] \in Snapshots BY DEF TypeOK
    <2>2. breaker' \in [Managers -> BOOLEAN]
      BY <1>12 DEF PersistFails, Trip, NoteFailure, TypeOK
    <2>3. seen' \in [Managers -> [Orders -> Snapshots]]
      BY <1>12, SnapshotTypes DEF PersistFails, Hold, TypeOK
    <2>4. resolved' \in [Managers -> [Orders -> 0..Quantity]]
      BY <1>12, <2>1 DEF PersistFails, TypeOK, Snapshots
    <2> QED BY <1>12, <2>2, <2>3, <2>4 DEF PersistFails, Goto, TypeOK, rec, PCs
  <1>13. ASSUME NEW m \in Managers, NEW c \in Orders, AdoptExisting(m, c) PROVE TypeOK'
    <2>1. KnownSnapshot(m, c) \in Snapshots
      BY SnapshotTypes, QuantityAssumption DEF KnownSnapshot, Snapshot, Snapshots, OrderStates
    <2> QED BY <1>13, <2>1 DEF AdoptExisting, Hold, Goto, TypeOK, rec, PCs
  <1>14. ASSUME NEW m \in Managers, NEW c \in Orders, LeaveToReconciliation(m, c) PROVE TypeOK'
    <2>1. breaker' \in [Managers -> BOOLEAN] /\ uncertain' \in [Managers -> BOOLEAN]
      BY <1>14 DEF LeaveToReconciliation, NoteFailure, TypeOK
    <2> QED BY <1>14, <2>1 DEF LeaveToReconciliation, Goto, TypeOK, rec, PCs
  <1>15. ASSUME NEW m \in Managers, ReconcileStart(m) PROVE TypeOK'
    <2>1. \A c \in Orders : row[c].state \in OrderStates BY DEF TypeOK, Rows
    <2>2. nonterm' \in [Managers -> [Orders -> OrderStates \cup {"none"}]]
      BY <1>15, <2>1 DEF ReconcileStart, TypeOK
    <2>3. hadId' \in [Managers -> SUBSET Orders]
      BY <1>15 DEF ReconcileStart, TypeOK
    <2>4. phase' \in [Managers -> Phases]
      BY <1>15 DEF ReconcileStart, TypeOK, Phases
    <2> QED BY <1>15, <2>2, <2>3, <2>4 DEF ReconcileStart, TypeOK
  <1>16. ASSUME NEW m \in Managers, ReconcileLoadOwned(m) PROVE TypeOK'
    <2>1. owned' \in [Managers -> SUBSET Orders]
      BY <1>16 DEF ReconcileLoadOwned, TypeOK
    <2>2. phase' \in [Managers -> Phases]
      BY <1>16 DEF ReconcileLoadOwned, TypeOK, Phases
    <2> QED BY <1>16, <2>1, <2>2 DEF ReconcileLoadOwned, TypeOK
  <1>17. ASSUME NEW m \in Managers, ReconcileList(m) PROVE TypeOK'
    <2>1. [c \in Orders |-> IF Listed(broker[c]) THEN SnapshotOf(broker[c]) ELSE NoSnapshot]
             \in [Orders -> Snapshots]
      BY SnapshotTypes
    <2>2. book' \in [Managers -> [Orders -> Snapshots]]
      BY <1>17, <2>1 DEF ReconcileList, TypeOK
    <2>3. todo' \in [Managers -> SUBSET Orders]
      BY <1>17 DEF ReconcileList, TypeOK
    <2>4. phase' \in [Managers -> Phases]
      BY <1>17 DEF ReconcileList, TypeOK, Phases
    <2> QED BY <1>17, <2>2, <2>3, <2>4 DEF ReconcileList, TypeOK
  <1>18. ASSUME NEW m \in Managers, NEW c \in Orders, ReconcileMatched(m, c) PROVE TypeOK'
    <2>1. book[m][c] \in Snapshots BY DEF TypeOK
    <2>2. row' \in [Orders -> Rows(Quantity)]
      BY <1>18, <2>1, WriteFacts, PatchTypes DEF ReconcileMatched
    <2>3. row'[c].state \in OrderStates BY <2>2 DEF Rows
    <2>4. nonterm' \in [Managers -> [Orders -> OrderStates \cup {"none"}]]
      BY <1>18, <2>3 DEF ReconcileMatched, TypeOK
    <2>5. todo' \in [Managers -> SUBSET Orders]
      BY <1>18 DEF ReconcileMatched, TypeOK
    <2>6. session' \in [Managers -> [Orders -> SessionStates]]
      BY <1>18 DEF ReconcileMatched, TypeOK, SessionStates
    <2> QED BY <1>18, <2>2, <2>4, <2>5, <2>6 DEF ReconcileMatched, TypeOK
  <1>19. ASSUME NEW m \in Managers, NEW c \in Orders, ReconcileMissing(m, c) PROVE TypeOK'
    <2>1. row' \in [Orders -> Rows(Quantity)]
      <3>1. CASE nonterm[m][c] \in {"none", "CREATED"}
        BY <1>19, <3>1 DEF ReconcileMissing, TypeOK
      <3>2. CASE nonterm[m][c] \notin {"none", "CREATED"}
        <4>0. Write(c, Quarantine(c \in hadId[m]), AnyState) /\ (c \in hadId[m]) \in BOOLEAN
          BY <1>19, <3>2 DEF ReconcileMissing
        <4>1. PICK b \in BOOLEAN : Write(c, Quarantine(b), AnyState)
          BY <4>0, Zenon
        <4>2. Quarantine(b) \in Patches BY PatchTypes
        <4> QED BY <4>1, <4>2, WriteFacts
      <3> QED BY <3>1, <3>2
    <2>2. row'[c].state \in OrderStates BY <2>1 DEF Rows
    <2>3. nonterm' \in [Managers -> [Orders -> OrderStates \cup {"none"}]]
      <3>1. \/ nonterm' = nonterm
            \/ nonterm' = [nonterm EXCEPT ![m][c] = row'[c].state]
        BY <1>19 DEF ReconcileMissing
      <3>2. nonterm \in [Managers -> [Orders -> OrderStates \cup {"none"}]]
        BY DEF TypeOK
      <3> HIDE DEF OrderStates
      <3>3. CASE nonterm' = [nonterm EXCEPT ![m][c] = row'[c].state]
        BY <2>2, <3>2, <3>3
      <3> QED BY <3>1, <3>2, <3>3
    <2>4. todo' \in [Managers -> SUBSET Orders]
      BY <1>19 DEF ReconcileMissing, TypeOK
    <2>5. breaker' \in [Managers -> BOOLEAN]
      BY <1>19 DEF ReconcileMissing, Trip, TypeOK
    <2> QED BY <1>19, <2>1, <2>3, <2>4, <2>5 DEF ReconcileMissing, TypeOK
  <1>20. ASSUME NEW m \in Managers, ReconcileFinish(m) PROVE TypeOK'
    BY <1>20, EndPassTypes DEF ReconcileFinish, TypeOK
  <1>21. ASSUME NEW m \in Managers, ReconcileFails(m) PROVE TypeOK'
    BY <1>21, EndPassTypes DEF ReconcileFails, Trip, TypeOK
  <1>22. ASSUME NEW m \in Managers, Crash(m) PROVE TypeOK'
    <2>1. NoSnapshot \in Snapshots /\ 0 \in 0..Quantity
      BY QuantityAssumption DEF NoSnapshot, Snapshot, Snapshots, OrderStates
    <2> QED BY <1>22, <2>1, EndPassTypes DEF Crash, TypeOK, PCs, SessionStates
  <1>23. ASSUME NEW c \in Orders, Network(c) PROVE TypeOK'
    <2>1. \/ \E st \in BrokerStatus : broker' = [broker EXCEPT ![c] = [status |-> st, filled |-> 0]]
          \/ broker' = broker
      <3>1. CASE BrokerAccepts(c) BY <3>1 DEF BrokerAccepts, BrokerStatus
      <3>2. CASE BrokerRefuses(c) BY <3>2 DEF BrokerRefuses, BrokerStatus
      <3>3. CASE PostLost(c) BY <3>3 DEF PostLost
      <3> QED BY <1>23, <3>1, <3>2, <3>3 DEF Network
    <2>2. broker' \in [Orders -> [status : BrokerStatus, filled : 0..Quantity]]
      <3>1. CASE \E st \in BrokerStatus :
                    broker' = [broker EXCEPT ![c] = [status |-> st, filled |-> 0]]
        <4>1. PICK st \in BrokerStatus : broker' = [broker EXCEPT ![c] = [status |-> st, filled |-> 0]]
          BY <3>1
        <4>2. [status |-> st, filled |-> 0] \in [status : BrokerStatus, filled : 0..Quantity]
          BY QuantityAssumption
        <4> QED BY <4>1, <4>2 DEF TypeOK
      <3> QED BY <2>1, <3>1 DEF TypeOK
    <2>3. wire' \subseteq Orders
      BY <1>23 DEF Network, BrokerAccepts, BrokerRefuses, PostLost, TypeOK
    <2> QED BY <1>23, <2>2, <2>3
            DEF Network, BrokerAccepts, BrokerRefuses, PostLost, TypeOK, rec
  <1>24. ASSUME NEW c \in Orders, Exchange(c) PROVE TypeOK'
    <2>1. CASE BrokerFills(c)
      <3>1. broker[c].filled \in 0..Quantity
        BY DEF TypeOK
      <3>2. broker[c].filled + 1 \in 0..Quantity
        BY <2>1, <3>1, QuantityAssumption DEF BrokerFills
      <3>3. \E st \in BrokerStatus :
               broker' = [broker EXCEPT ![c] = [status |-> st, filled |-> broker[c].filled + 1]]
        BY <2>1 DEF BrokerFills, BrokerStatus
      <3>4. broker' \in [Orders -> [status : BrokerStatus, filled : 0..Quantity]]
        BY <3>2, <3>3 DEF TypeOK
      <3> QED BY <2>1, <3>4 DEF BrokerFills, TypeOK, rec
    <2>2. CASE BrokerCancels(c)
      BY <2>2 DEF BrokerCancels, TypeOK, rec, BrokerStatus
    <2>3. CASE BrokerRejects(c)
      BY <2>3 DEF BrokerRejects, TypeOK, rec, BrokerStatus
    <2> QED BY <1>24, <2>1, <2>2, <2>3 DEF Exchange
  <1>25. CASE UNCHANGED vars
    BY <1>25 DEF vars, TypeOK
  <1>26. ASSUME NEW m \in Managers, NEW c \in Orders, ReconcileMatchFails(m, c) PROVE TypeOK'
    <2>1. session' \in [Managers -> [Orders -> SessionStates]]
      BY <1>26 DEF ReconcileMatchFails, TypeOK, SessionStates
    <2>2. todo' \in [Managers -> SUBSET Orders]
      BY <1>26 DEF ReconcileMatchFails, TypeOK
    <2> QED BY <1>26, <2>1, <2>2 DEF ReconcileMatchFails, Trip, TypeOK
  <1> QED
    BY <1>1, <1>2, <1>3, <1>4, <1>5, <1>6, <1>7, <1>8, <1>9, <1>10, <1>11, <1>12, <1>13, <1>14,
       <1>15, <1>16, <1>17, <1>18, <1>19, <1>20, <1>21, <1>22, <1>23, <1>24, <1>25, <1>26
       DEF Next, Execute, Reconcile

(* Every reachable state is well typed. *)
THEOREM TypeCorrect == Spec => []TypeOK
  BY TypeInit, TypeStep, PTL DEF Spec

-----------------------------------------------------------------------------
(* Ownership of an identity. *)

(* The process that won CREATED -> SUBMITTING is the only one that may POST; it has     *)
(* not done so yet, and nobody has recorded a refusal.  Whoever has posted left a row   *)
(* that is past CREATED for good, so the race cannot be won again.                      *)
OwnershipInv ==
    /\ \A c \in Orders : posts[c] <= 1
    /\ \A c \in Orders : ~row[c].exists =>
          row[c].state = "CREATED" /\ ~row[c].noPost /\ row[c].filled = 0
    /\ \A c \in Orders : row[c].noPost => row[c].state = "REJECTED"
    /\ \A c \in Orders : posts[c] > 0 =>
          row[c].exists /\ row[c].state # "CREATED" /\ ~row[c].noPost
    /\ \A m \in Managers, c \in Orders : pc[m][c] = "owner" =>
          posts[c] = 0 /\ row[c].exists /\ row[c].state # "CREATED" /\ ~row[c].noPost
    /\ \A m, n \in Managers, c \in Orders : pc[m][c] = "owner" /\ pc[n][c] = "owner" => m = n

(* What a step may do to a row without touching ownership. *)
KeepsRow(d) ==
    /\ row[d].exists => row'[d].exists
    /\ row[d].state # "CREATED" => row'[d].state # "CREATED"
    /\ row[d].state = "REJECTED" => row'[d].state = "REJECTED"
    /\ row'[d].noPost <=> row[d].noPost
    /\ ~row'[d].exists => row'[d] = row[d]

(* A guarded write that is no refusal touches no ownership. *)
LEMMA WriteKeepsRows ==
    ASSUME TypeOK, NEW c \in Orders, NEW p \in Patches, NEW e, ~p.noPost, Write(c, p, e)
    PROVE  \A d \in Orders : KeepsRow(d)
  <1>1. row[c] \in Rows(Quantity) BY DEF TypeOK
  <1>2. /\ row'[c] = UpdateIntent(row[c], p, e)
        /\ \A d \in Orders : d # c => row'[d] = row[d]
        BY WriteFacts
  <1>3. ~row[c].exists => ~UpdateAccepted(row[c], p, e) BY DEF UpdateAccepted
  <1>4. KeepsRow(c) BY <1>1, <1>2, <1>3, UpdateFacts DEF KeepsRow
  <1>5. \A d \in Orders : d # c => KeepsRow(d) BY <1>2 DEF KeepsRow
  <1> QED BY <1>4, <1>5

(* A step that posts nothing and makes nobody an owner preserves ownership. *)
LEMMA QuietStep ==
    ASSUME TypeOK, OwnershipInv, posts' = posts,
           \A d \in Orders : KeepsRow(d),
           \A n \in Managers, d \in Orders : pc'[n][d] = "owner" => pc[n][d] = "owner"
    PROVE  OwnershipInv'
  BY DEF OwnershipInv, KeepsRow

(* Nobody owns an identity at first. *)
LEMMA OwnershipInit == Init => OwnershipInv
  BY DEF Init, OwnershipInv, NoRow

(* Every step preserves ownership: one case per action of the manager and the world. *)
LEMMA OwnershipStep == TypeOK /\ OwnershipInv /\ [Next]_vars => OwnershipInv'
  <1> SUFFICES ASSUME TypeOK, OwnershipInv, [Next]_vars PROVE OwnershipInv'
    OBVIOUS
  <1> DEFINE NoNewOwner == \A n \in Managers, d \in Orders :
                              pc'[n][d] = "owner" => pc[n][d] = "owner"
             RowsKept == \A d \in Orders : KeepsRow(d)
  <1>0. row' = row => RowsKept BY DEF KeepsRow
  <1>1. ASSUME NEW m \in Managers, NEW c \in Orders, Submit(m, c) PROVE OwnershipInv'
    <2>1. NoNewOwner BY <1>1 DEF Submit, Goto, TypeOK
    <2> QED BY <1>1, <1>0, <2>1, QuietStep DEF Submit
  <1>2. ASSUME NEW m \in Managers, NEW c \in Orders, Create(m, c) PROVE OwnershipInv'
    <2>1. NoNewOwner BY <1>2 DEF Create, Goto, TypeOK
    <2>2. row'[c] = CreateIntent(row[c]) /\ \A d \in Orders : d # c => row'[d] = row[d]
      BY <1>2 DEF Create, TypeOK
    <2>3. KeepsRow(c) \/ ~row[c].exists
      BY <2>2 DEF KeepsRow, CreateIntent
    <2>4. ~row[c].exists => KeepsRow(c)
      BY <2>2 DEF KeepsRow, CreateIntent, FreshRow, OwnershipInv
    <2>5. RowsKept BY <2>2, <2>3, <2>4 DEF KeepsRow
    <2> QED BY <1>2, <2>1, <2>5, QuietStep DEF Create
  <1>3. ASSUME NEW m \in Managers, NEW c \in Orders, RefuseAtDequeue(m, c) PROVE OwnershipInv'
    <2>1. NoNewOwner BY <1>3 DEF RefuseAtDequeue, Goto, TypeOK
    <2>2. /\ row'[c] = UpdateIntent(row[c], Refusal, {"CREATED"})
          /\ \A d \in Orders : d # c => row'[d] = row[d]
          /\ posts' = posts
      BY <1>3, WriteFacts, PatchTypes DEF RefuseAtDequeue
    <2>3. row[c] \in Rows(Quantity) BY DEF TypeOK
    <2>4. CASE ~UpdateAccepted(row[c], Refusal, {"CREATED"})
      <3>1. row'[c] = row[c] BY <2>2, <2>3, <2>4, UpdateFacts, PatchTypes
      <3>2. RowsKept BY <2>2, <3>1 DEF KeepsRow
      <3> QED BY <2>1, <2>2, <3>2, QuietStep
    <2>5. CASE UpdateAccepted(row[c], Refusal, {"CREATED"})
      <3>1. row[c].exists /\ row[c].state = "CREATED" BY <2>5 DEF UpdateAccepted
      <3>2. row'[c].exists /\ row'[c].state = "REJECTED" /\ row'[c].noPost
        BY <2>2, <2>3, <2>5, <3>1, UpdateFacts, PatchTypes
      <3>3. posts[c] = 0 BY <3>1 DEF OwnershipInv, TypeOK
      <3>4. \A n \in Managers : pc[n][c] # "owner" BY <3>1 DEF OwnershipInv
      <3> QED BY <2>1, <2>2, <3>2, <3>3, <3>4 DEF OwnershipInv
    <2> QED BY <2>4, <2>5
  <1>4. ASSUME NEW m \in Managers, NEW c \in Orders, Claim(m, c) PROVE OwnershipInv'
    <2>2. /\ row'[c] = UpdateIntent(row[c], Submitting, {"CREATED"})
          /\ \A d \in Orders : d # c => row'[d] = row[d]
          /\ posts' = posts
      BY <1>4, WriteFacts, PatchTypes DEF Claim
    <2>3. row[c] \in Rows(Quantity) BY DEF TypeOK
    <2>4. CASE ~UpdateAccepted(row[c], Submitting, {"CREATED"})
      <3>1. row'[c] = row[c] BY <2>2, <2>3, <2>4, UpdateFacts, PatchTypes
      <3>2. RowsKept BY <2>2, <3>1 DEF KeepsRow
      <3>3. NoNewOwner BY <1>4, <2>4 DEF Claim, Goto, TypeOK
      <3> QED BY <2>2, <3>2, <3>3, QuietStep
    <2>5. CASE UpdateAccepted(row[c], Submitting, {"CREATED"})
      <3>1. row[c].exists /\ row[c].state = "CREATED" BY <2>5 DEF UpdateAccepted
      <3>2. ~row[c].noPost BY <3>1 DEF OwnershipInv
      <3>3. row'[c].exists /\ row'[c].state = "SUBMITTING" /\ ~row'[c].noPost
        BY <2>2, <2>3, <2>5, <3>1, <3>2, UpdateFacts, PatchTypes
      <3>4. posts[c] = 0 BY <3>1 DEF OwnershipInv, TypeOK
      <3>5. \A n \in Managers : pc[n][c] # "owner" BY <3>1 DEF OwnershipInv
      <3>6. \A n \in Managers, d \in Orders :
               pc'[n][d] = "owner" => pc[n][d] = "owner" \/ (n = m /\ d = c)
        BY <1>4 DEF Claim, Goto, TypeOK
      <3> QED BY <2>2, <3>3, <3>4, <3>5, <3>6 DEF OwnershipInv
    <2> QED BY <2>4, <2>5
  <1>5. ASSUME NEW m \in Managers, NEW c \in Orders, RefuseBeforePost(m, c) PROVE OwnershipInv'
    <2>1. NoNewOwner /\ pc'[m][c] # "owner" /\ pc[m][c] = "owner"
      BY <1>5 DEF RefuseBeforePost, Goto, TypeOK
    <2>2. /\ row'[c] = UpdateIntent(row[c], Refusal, {"SUBMITTING"})
          /\ \A d \in Orders : d # c => row'[d] = row[d]
          /\ posts' = posts
      BY <1>5, WriteFacts, PatchTypes DEF RefuseBeforePost
    <2>3. row[c] \in Rows(Quantity) BY DEF TypeOK
    <2>4. CASE ~UpdateAccepted(row[c], Refusal, {"SUBMITTING"})
      <3>1. row'[c] = row[c] BY <2>2, <2>3, <2>4, UpdateFacts, PatchTypes
      <3>2. RowsKept BY <2>2, <3>1 DEF KeepsRow
      <3> QED BY <2>1, <2>2, <3>2, QuietStep
    <2>5. CASE UpdateAccepted(row[c], Refusal, {"SUBMITTING"})
      <3>1. row[c].exists BY <2>5 DEF UpdateAccepted
      <3>2. row'[c].exists /\ row'[c].state = "REJECTED" /\ row'[c].noPost
        BY <2>2, <2>3, <2>5, <3>1, UpdateFacts, PatchTypes
      <3>3. posts[c] = 0 BY <2>1 DEF OwnershipInv
      <3>4. \A n \in Managers : pc'[n][c] # "owner" BY <2>1 DEF OwnershipInv
      <3> QED BY <2>1, <2>2, <3>2, <3>3, <3>4 DEF OwnershipInv
    <2> QED BY <2>4, <2>5
  <1>6. ASSUME NEW m \in Managers, NEW c \in Orders, Post(m, c) PROVE OwnershipInv'
    <2>1. pc[m][c] = "owner" /\ row' = row BY <1>6 DEF Post
    <2>2. posts'[c] = 1 /\ \A d \in Orders : d # c => posts'[d] = posts[d]
      BY <1>6, <2>1 DEF Post, OwnershipInv, TypeOK
    <2>3. NoNewOwner /\ pc'[m][c] # "owner" BY <1>6 DEF Post, Goto, TypeOK
    <2>4. \A n \in Managers : pc'[n][c] # "owner" BY <2>1, <2>3 DEF OwnershipInv
    <2> QED BY <2>1, <2>2, <2>3, <2>4 DEF OwnershipInv
  <1>7. ASSUME NEW m \in Managers, NEW c \in Orders,
               \/ ReplyTerminal(m, c) \/ ReplyRefused(m, c) \/ ReplyAmbiguous(m, c)
               \/ PersistFails(m, c) \/ AdoptExisting(m, c) \/ LeaveToReconciliation(m, c)
        PROVE  OwnershipInv'
    <2>1. row' = row /\ posts' = posts
      BY <1>7 DEF ReplyTerminal, ReplyRefused, ReplyAmbiguous, PersistFails, AdoptExisting,
                  LeaveToReconciliation
    <2>2. \E l \in PCs \ {"owner"} : Goto(m, c, l)
      BY <1>7 DEF ReplyTerminal, ReplyRefused, ReplyAmbiguous, PersistFails, AdoptExisting,
                  LeaveToReconciliation, PCs
    <2>3. NoNewOwner BY <2>2 DEF Goto, TypeOK
    <2> QED BY <1>0, <2>1, <2>3, QuietStep
  <1>8. ASSUME NEW m \in Managers, NEW c \in Orders, Persist(m, c) \/ PersistAdopted(m, c)
        PROVE  OwnershipInv'
    <2>1. seen[m][c] \in Snapshots BY DEF TypeOK
    <2>2. Write(c, FromBroker(seen[m][c]), AnyState) /\ posts' = posts /\ Goto(m, c, "idle")
      BY <1>8 DEF Persist, PersistAdopted
    <2>3. RowsKept BY <2>1, <2>2, PatchTypes, WriteKeepsRows
    <2>4. NoNewOwner BY <2>2 DEF Goto, TypeOK
    <2> QED BY <2>2, <2>3, <2>4, QuietStep
  <1>9. ASSUME NEW m \in Managers,
               \/ ReconcileStart(m) \/ ReconcileLoadOwned(m) \/ ReconcileList(m)
               \/ ReconcileFinish(m) \/ ReconcileFails(m)
        PROVE  OwnershipInv'
    <2>1. row' = row /\ posts' = posts /\ pc' = pc
      BY <1>9 DEF ReconcileStart, ReconcileLoadOwned, ReconcileList, ReconcileFinish, ReconcileFails
    <2> QED BY <1>0, <2>1, QuietStep
  <1>10. ASSUME NEW m \in Managers, NEW c \in Orders, ReconcileMatched(m, c) PROVE OwnershipInv'
    <2>1. book[m][c] \in Snapshots BY DEF TypeOK
    <2>2. Write(c, FromBroker(book[m][c]), AnyState) /\ posts' = posts /\ pc' = pc
      BY <1>10 DEF ReconcileMatched
    <2>3. RowsKept BY <2>1, <2>2, PatchTypes, WriteKeepsRows
    <2> QED BY <2>2, <2>3, QuietStep
  <1>11. ASSUME NEW m \in Managers, NEW c \in Orders, ReconcileMissing(m, c) PROVE OwnershipInv'
    <2>1. posts' = posts /\ pc' = pc BY <1>11 DEF ReconcileMissing
    <2>2. row' = row \/ Write(c, Quarantine(c \in hadId[m]), AnyState)
      BY <1>11 DEF ReconcileMissing
    <2>3. (c \in hadId[m]) \in BOOLEAN OBVIOUS
    <2>4. CASE row' = row BY <1>0, <2>1, <2>4, QuietStep
    <2>5. CASE Write(c, Quarantine(c \in hadId[m]), AnyState)
      <3>1. PICK b \in BOOLEAN : Write(c, Quarantine(b), AnyState) BY <2>3, <2>5, Zenon
      <3>2. RowsKept BY <3>1, PatchTypes, WriteKeepsRows
      <3> QED BY <2>1, <3>2, QuietStep
    <2> QED BY <2>2, <2>4, <2>5
  <1>12. ASSUME NEW m \in Managers, Crash(m) PROVE OwnershipInv'
    <2>1. row' = row /\ posts' = posts BY <1>12 DEF Crash
    <2>2. NoNewOwner BY <1>12 DEF Crash, TypeOK
    <2> QED BY <1>0, <2>1, <2>2, QuietStep
  <1>13. ASSUME NEW c \in Orders, Network(c) \/ Exchange(c) PROVE OwnershipInv'
    <2>1. row' = row /\ posts' = posts /\ pc' = pc
      BY <1>13 DEF Network, BrokerAccepts, BrokerRefuses, PostLost,
                   Exchange, BrokerFills, BrokerCancels, BrokerRejects
    <2> QED BY <1>0, <2>1, QuietStep
  <1>14. CASE UNCHANGED vars
    BY <1>14 DEF vars, OwnershipInv
  <1>15. ASSUME NEW m \in Managers, NEW c \in Orders, ReconcileMatchFails(m, c) PROVE OwnershipInv'
    <2>1. row' = row /\ posts' = posts /\ pc' = pc BY <1>15 DEF ReconcileMatchFails
    <2> QED BY <1>0, <2>1, QuietStep
  <1> QED
    BY <1>1, <1>2, <1>3, <1>4, <1>5, <1>6, <1>7, <1>8, <1>9, <1>10, <1>11, <1>12, <1>13, <1>14, <1>15
       DEF Next, Execute, Reconcile

(* At most one POST is ever transmitted for an identity: no duplicate broker order,    *)
(* whatever the number of processes and however often they crash.                      *)
THEOREM NoDuplicatePost == Spec => []AtMostOnePost
  <1>1. OwnershipInv => AtMostOnePost BY DEF OwnershipInv, AtMostOnePost
  <1> QED BY <1>1, TypeInit, TypeStep, OwnershipInit, OwnershipStep, PTL DEF Spec

(* A row that carries no_broker_post was never transmitted by anyone. *)
THEOREM RefusalProvenance == Spec => []RefusalProvesNoPost
  <1>1. TypeOK /\ OwnershipInv => RefusalProvesNoPost
    BY DEF TypeOK, OwnershipInv, RefusalProvesNoPost
  <1> QED BY <1>1, TypeInit, TypeStep, OwnershipInit, OwnershipStep, PTL DEF Spec

-----------------------------------------------------------------------------
(* The journal as a ratchet. *)

(* One row, before and after a step. *)
NoRewind(d) ==
    /\ row'[d].filled >= row[d].filled
    /\ row[d].state \in TerminalStates /\ row'[d].state # row[d].state =>
          row[d].state = "CANCELLED" /\ row'[d].state = "COMPLETE"

(* The compare-and-set never lowers a quantity and never reopens a terminal row. *)
LEMMA WriteDoesNotRewind ==
    ASSUME TypeOK, NEW c \in Orders, NEW p \in Patches, NEW e, Write(c, p, e)
    PROVE  \A d \in Orders : NoRewind(d)
  <1>1. \A d \in Orders : row[d] \in Rows(Quantity) BY DEF TypeOK
  <1>2. /\ row'[c] = UpdateIntent(row[c], p, e)
        /\ \A d \in Orders : d # c => row'[d] = row[d]
        BY WriteFacts
  <1>3. /\ row[c].filled <= row'[c].filled
        /\ row[c].state \in TerminalStates /\ row'[c].state # row[c].state =>
              row[c].state = "CANCELLED" /\ row'[c].state = "COMPLETE"
        BY <1>1, <1>2, UpdateFacts
  <1>4. row'[c] \in Rows(Quantity) BY <1>1, <1>2, UpdateFacts
  <1>5. NoRewind(c) BY <1>1, <1>3, <1>4, QuantityAssumption DEF NoRewind, Rows
  <1>6. \A d \in Orders : d # c => NoRewind(d) BY <1>1, <1>2, QuantityAssumption DEF NoRewind, Rows
  <1> QED BY <1>5, <1>6

(* Every step either leaves the rows alone, inserts one, or goes through the            *)
(* compare-and-set with some patch.                                                     *)
LEMMA RowSteps ==
    ASSUME TypeOK, Next
    PROVE  \/ row' = row
           \/ \E c \in Orders : row' = [row EXCEPT ![c] = CreateIntent(@)]
           \/ \E c \in Orders, p \in Patches, e \in SUBSET OrderStates : Write(c, p, e)
  <1> DEFINE Goal == \/ row' = row
                     \/ \E c \in Orders : row' = [row EXCEPT ![c] = CreateIntent(@)]
                     \/ \E c \in Orders, p \in Patches, e \in SUBSET OrderStates : Write(c, p, e)
  <1> HIDE DEF Goal
  <1>0. ASSUME NEW c \in Orders, NEW p \in Patches, NEW e \in SUBSET OrderStates, Write(c, p, e)
        PROVE  Goal
    BY <1>0, Zenon DEF Goal
  <1>1. AnyState \in SUBSET OrderStates /\ {"CREATED"} \in SUBSET OrderStates
        /\ {"SUBMITTING"} \in SUBSET OrderStates
    BY DEF AnyState, OrderStates
  <1>2. row' = row => Goal BY DEF Goal
  <1>3. ASSUME NEW m \in Managers, NEW c \in Orders, Create(m, c) PROVE Goal
    BY <1>3 DEF Goal, Create
  <1>4. ASSUME NEW m \in Managers, NEW c \in Orders,
               RefuseAtDequeue(m, c) \/ RefuseBeforePost(m, c) \/ Claim(m, c)
        PROVE  Goal
    <2>1. \/ Write(c, Refusal, {"CREATED"}) \/ Write(c, Refusal, {"SUBMITTING"})
          \/ Write(c, Submitting, {"CREATED"})
      BY <1>4 DEF RefuseAtDequeue, RefuseBeforePost, Claim
    <2>2. Refusal \in Patches /\ Submitting \in Patches BY PatchTypes
    <2> QED BY <1>0, <1>1, <2>1, <2>2
  <1>5. ASSUME NEW m \in Managers, NEW c \in Orders, Persist(m, c) \/ PersistAdopted(m, c)
        PROVE  Goal
    <2>1. Write(c, FromBroker(seen[m][c]), AnyState) BY <1>5 DEF Persist, PersistAdopted
    <2>2. seen[m][c] \in Snapshots BY DEF TypeOK
    <2>3. FromBroker(seen[m][c]) \in Patches BY <2>2, PatchTypes
    <2> QED BY <1>0, <1>1, <2>1, <2>3
  <1>6. ASSUME NEW m \in Managers, NEW c \in Orders, ReconcileMatched(m, c) PROVE Goal
    <2>1. Write(c, FromBroker(book[m][c]), AnyState) BY <1>6 DEF ReconcileMatched
    <2>2. book[m][c] \in Snapshots BY DEF TypeOK
    <2>3. FromBroker(book[m][c]) \in Patches BY <2>2, PatchTypes
    <2> QED BY <1>0, <1>1, <2>1, <2>3
  <1>7. ASSUME NEW m \in Managers, NEW c \in Orders, ReconcileMissing(m, c) PROVE Goal
    <2>1. row' = row \/ Write(c, Quarantine(c \in hadId[m]), AnyState)
      BY <1>7 DEF ReconcileMissing
    <2>2. (c \in hadId[m]) \in BOOLEAN OBVIOUS
    <2>3. Quarantine(c \in hadId[m]) \in Patches BY <2>2, PatchTypes, Zenon
    <2> QED BY <1>0, <1>1, <1>2, <2>1, <2>3
  <1>8. ASSUME NEW m \in Managers, NEW c \in Orders,
               \/ Submit(m, c) \/ Post(m, c) \/ ReplyTerminal(m, c) \/ ReplyRefused(m, c)
               \/ ReplyAmbiguous(m, c) \/ PersistFails(m, c) \/ AdoptExisting(m, c)
               \/ LeaveToReconciliation(m, c) \/ ReconcileMatchFails(m, c)
        PROVE  Goal
    BY <1>2, <1>8 DEF Submit, Post, ReplyTerminal, ReplyRefused, ReplyAmbiguous, PersistFails,
                      AdoptExisting, LeaveToReconciliation, ReconcileMatchFails
  <1>9. ASSUME NEW m \in Managers,
               \/ ReconcileStart(m) \/ ReconcileLoadOwned(m) \/ ReconcileList(m)
               \/ ReconcileFinish(m) \/ ReconcileFails(m) \/ Crash(m)
        PROVE  Goal
    BY <1>2, <1>9 DEF ReconcileStart, ReconcileLoadOwned, ReconcileList, ReconcileFinish,
                      ReconcileFails, Crash
  <1>10. ASSUME NEW c \in Orders, Network(c) \/ Exchange(c) PROVE Goal
    BY <1>2, <1>10 DEF Network, BrokerAccepts, BrokerRefuses, PostLost,
                       Exchange, BrokerFills, BrokerCancels, BrokerRejects
  <1>11. Goal
    BY <1>3, <1>4, <1>5, <1>6, <1>7, <1>8, <1>9, <1>10 DEF Next, Execute, Reconcile
  <1> QED BY <1>11 DEF Goal

(* A durable quantity never decreases, and a terminal row is never reopened. *)
THEOREM JournalRatchet == Spec => JournalNeverRewinds
  <1>1. TypeOK /\ OwnershipInv /\ [Next]_vars => \A d \in Orders : NoRewind(d)
    <2> SUFFICES ASSUME TypeOK, OwnershipInv, [Next]_vars PROVE \A d \in Orders : NoRewind(d)
      OBVIOUS
    <2>0. \A d \in Orders : row[d] \in Rows(Quantity) BY DEF TypeOK
    <2>1. CASE row' = row
      BY <2>0, <2>1, QuantityAssumption DEF NoRewind, Rows
    <2>2. ASSUME NEW c \in Orders, row' = [row EXCEPT ![c] = CreateIntent(@)]
          PROVE  \A d \in Orders : NoRewind(d)
      <3>1. row'[c] = CreateIntent(row[c]) /\ \A d \in Orders : d # c => row'[d] = row[d]
        BY <2>2 DEF TypeOK
      <3>2. CASE row[c].exists
        <4>1. row' = row BY <2>2, <3>1, <3>2 DEF CreateIntent, TypeOK
        <4> QED BY <2>1, <4>1
      <3>3. CASE ~row[c].exists
        <4>1. row[c].state = "CREATED" BY <3>3 DEF OwnershipInv
        <4>2. row[c].filled = 0 BY <3>3 DEF OwnershipInv
        <4>3. row'[c].filled = 0 /\ row'[c].state = "CREATED" BY <3>1, <3>3 DEF CreateIntent, FreshRow
        <4>4. NoRewind(c) BY <4>1, <4>2, <4>3 DEF NoRewind
        <4>5. \A d \in Orders : d # c => NoRewind(d)
          BY <2>0, <3>1, QuantityAssumption DEF NoRewind, Rows
        <4> QED BY <4>4, <4>5
      <3> QED BY <3>2, <3>3
    <2>3. ASSUME NEW c \in Orders, NEW p \in Patches, NEW e \in SUBSET OrderStates, Write(c, p, e)
          PROVE  \A d \in Orders : NoRewind(d)
      BY <2>3, WriteDoesNotRewind
    <2>4. row' = row \/ Next BY DEF vars
    <2> QED BY <2>1, <2>2, <2>3, <2>4, RowSteps
  <1>2. (\A d \in Orders : NoRewind(d)) =>
          [\A c \in Orders :
            /\ row'[c].filled >= row[c].filled
            /\ row[c].state \in TerminalStates /\ row'[c].state # row[c].state =>
                  row[c].state = "CANCELLED" /\ row'[c].state = "COMPLETE"]_vars
    BY DEF NoRewind
  <1> QED BY <1>1, <1>2, TypeInit, TypeStep, OwnershipInit, OwnershipStep, PTL
          DEF Spec, JournalNeverRewinds

-----------------------------------------------------------------------------
(* What is durable is true of the broker. *)

(* A claim that the order is in state s with q filled, against the broker's own order b.  *)
(* A final claim is only made of an order that is final, so it can go stale in no way     *)
(* that matters; any other claim is a lower bound of the fill.                            *)
Vouches(b, s, q) ==
    /\ q <= b.filled
    /\ s \in {"COMPLETE", "CANCELLED"} => b.status \in {"complete", "cancelled"}
    /\ s = "REJECTED" => b.status \in {"refused", "rejected"}

(* The same of a durable row, whose REJECTED may also be a refusal before the POST. *)
RowTrue(r, b) ==
    /\ r.filled <= b.filled
    /\ r.state \in {"COMPLETE", "CANCELLED"} => b.status \in {"complete", "cancelled"}
    /\ r.state = "REJECTED" => r.noPost \/ b.status \in {"refused", "rejected"}

(* Every copy of the broker's state that some writer may still persist vouches for its    *)
(* order: the answer execute holds, the pass's order list, a refusal the session kept.    *)
CopiesVouch ==
    /\ \A m \in Managers, c \in Orders :
          Vouches(broker[c], seen[m][c].state, seen[m][c].filled)
    /\ \A m \in Managers, c \in Orders :
          Vouches(broker[c], book[m][c].state, book[m][c].filled)
    /\ \A m \in Managers, c \in Orders :
          session[m][c] = "rejected" => broker[c].status = "refused"

(* A POST travels at most once, an order that ended without a fill shows none, and rows   *)
(* and copies are true.                                                                   *)
TruthInv ==
    /\ \A c \in Orders : broker[c].status \in {"absent", "refused", "rejected"} =>
          broker[c].filled = 0
    /\ \A c \in Orders : c \in wire => broker[c].status = "absent"
    /\ \A c \in Orders : posts[c] = 0 => broker[c].status = "absent" /\ c \notin wire
    /\ CopiesVouch
    /\ \A c \in Orders : RowTrue(row[c], broker[c])

(* The adapter's view of a broker order vouches for it, and so does an empty snapshot. *)
LEMMA SnapshotVouches ==
    ASSUME TypeOK, NEW c \in Orders
    PROVE  /\ Vouches(broker[c], SnapshotOf(broker[c]).state, SnapshotOf(broker[c]).filled)
           /\ Vouches(broker[c], NoSnapshot.state, NoSnapshot.filled)
           /\ \A q \in 0..broker[c].filled, b \in BOOLEAN :
                 LET s == Snapshot("RECONCILIATION_REQUIRED", q, b)
                 IN  Vouches(broker[c], s.state, s.filled)
  <1>1. broker[c].filled \in 0..Quantity BY DEF TypeOK
  <1>2. SnapshotOf(broker[c]).filled = broker[c].filled
        /\ SnapshotOf(broker[c]).state = StateOf(broker[c])
        BY DEF SnapshotOf, Snapshot
  <1>3. Vouches(broker[c], StateOf(broker[c]), broker[c].filled)
        BY <1>1, QuantityAssumption DEF Vouches, StateOf
  <1>4. NoSnapshot.filled = 0 /\ NoSnapshot.state = "CREATED" BY DEF NoSnapshot, Snapshot
  <1>5. Vouches(broker[c], "CREATED", 0) BY <1>1, QuantityAssumption DEF Vouches
  <1>6. ASSUME NEW q \in 0..broker[c].filled, NEW b \in BOOLEAN
        PROVE  LET s == Snapshot("RECONCILIATION_REQUIRED", q, b)
               IN  Vouches(broker[c], s.state, s.filled)
    BY <1>1, QuantityAssumption DEF Vouches, Snapshot
  <1> QED BY <1>2, <1>3, <1>4, <1>5, <1>6

(* A patch that vouches for the broker's order, or is a refusal, leaves the rows true. *)
LEMMA WriteStaysTrue ==
    ASSUME TypeOK, \A d \in Orders : RowTrue(row[d], broker[d]),
           NEW c \in Orders, NEW p \in Patches, NEW e, Write(c, p, e), broker' = broker,
           p.noPost \/ Vouches(broker[c], p.state, p.filled),
           p.noPost => p.state = "REJECTED" /\ p.filled = 0
    PROVE  \A d \in Orders : RowTrue(row'[d], broker'[d])
  <1>1. row[c] \in Rows(Quantity) /\ broker[c].filled \in 0..Quantity BY DEF TypeOK
  <1>2. /\ row'[c] = UpdateIntent(row[c], p, e)
        /\ \A d \in Orders : d # c => row'[d] = row[d]
        BY WriteFacts
  <1>3. CASE ~UpdateAccepted(row[c], p, e)
    <2>1. row'[c] = row[c] BY <1>1, <1>2, <1>3, UpdateFacts
    <2> QED BY <1>2, <2>1
  <1>4. CASE UpdateAccepted(row[c], p, e)
    <2>1. /\ row'[c].state = p.state
          /\ row'[c].noPost <=> (row[c].noPost \/ p.noPost)
          /\ row'[c].filled = row[c].filled \/ row'[c].filled = p.filled
      BY <1>1, <1>2, <1>4, UpdateFacts
    <2>2. row[c].filled <= broker[c].filled BY DEF RowTrue
    <2>3. row'[c].filled <= broker[c].filled
      BY <1>1, <2>1, <2>2, QuantityAssumption DEF Vouches
    <2>4. RowTrue(row'[c], broker[c]) BY <2>1, <2>3 DEF RowTrue, Vouches
    <2> QED BY <1>2, <2>4
  <1> QED BY <1>3, <1>4

(* The broker's order only moves forward: what vouched for it still does. *)
LEMMA BrokerMovesForward ==
    ASSUME TypeOK, TruthInv, NEW c \in Orders, Network(c) \/ Exchange(c)
    PROVE  /\ \A d \in Orders : d # c => broker'[d] = broker[d]
           /\ broker[c].filled <= broker'[c].filled
           /\ broker[c].status \in {"complete", "cancelled", "refused", "rejected"} =>
                 broker'[c] = broker[c]
           /\ broker[c].status = "absent" => c \in wire \/ broker'[c] = broker[c]
           /\ broker'[c].status \in {"absent", "refused", "rejected"} => broker'[c].filled = 0
           /\ wire' \subseteq wire
           /\ c \in wire' => broker'[c] = broker[c]
           /\ row' = row /\ posts' = posts /\ seen' = seen /\ book' = book /\ session' = session
  <1>1. /\ broker[c].filled \in 0..Quantity
        /\ broker \in [Orders -> [status : BrokerStatus, filled : 0..Quantity]]
        BY DEF TypeOK
  <1>2. c \in wire => broker[c].status = "absent" /\ broker[c].filled = 0 BY DEF TruthInv
  <1>3. CASE BrokerAccepts(c)
    BY <1>1, <1>2, <1>3, QuantityAssumption DEF BrokerAccepts, rec
  <1>4. CASE BrokerRefuses(c)
    BY <1>1, <1>2, <1>4, QuantityAssumption DEF BrokerRefuses, rec
  <1>5. CASE PostLost(c)
    BY <1>1, <1>2, <1>5, QuantityAssumption DEF PostLost, rec, TruthInv
  <1>6. CASE BrokerFills(c)
    <2>1. broker'[c] = [status |-> IF broker[c].filled + 1 = Quantity THEN "complete" ELSE "working",
                        filled |-> broker[c].filled + 1]
      BY <1>1, <1>6 DEF BrokerFills
    <2>2. broker'[c].filled = broker[c].filled + 1 /\ broker'[c].status \in {"complete", "working"}
      BY <2>1
    <2>3. c \notin wire BY <1>2, <1>6 DEF BrokerFills
    <2> QED BY <1>1, <1>6, <2>2, <2>3, QuantityAssumption DEF BrokerFills, rec
  <1>7. CASE BrokerCancels(c)
    BY <1>1, <1>2, <1>7, QuantityAssumption DEF BrokerCancels, rec
  <1>8. CASE BrokerRejects(c)
    BY <1>1, <1>2, <1>8, QuantityAssumption DEF BrokerRejects, rec
  <1> QED BY <1>3, <1>4, <1>5, <1>6, <1>7, <1>8 DEF Network, Exchange

(* Nothing vouches for anything at first but the empty journal for an absent order. *)
LEMMA TruthInit == Init => TruthInv
  <1> SUFFICES ASSUME Init PROVE TruthInv
    OBVIOUS
  <1>1. \A c \in Orders : broker[c].status = "absent" /\ broker[c].filled = 0 BY DEF Init
  <1>2. \A c \in Orders : row[c].state = "CREATED" /\ row[c].filled = 0 BY DEF Init, NoRow
  <1>3. \A m \in Managers, c \in Orders :
           /\ seen[m][c].state = "CREATED" /\ seen[m][c].filled = 0
           /\ book[m][c].state = "CREATED" /\ book[m][c].filled = 0
           /\ session[m][c] = "none"
    BY DEF Init, NoSnapshot, Snapshot
  <1>4. wire = {} BY DEF Init
  <1> QED BY <1>1, <1>2, <1>3, <1>4 DEF TruthInv, CopiesVouch, Vouches, RowTrue

(* A step of a manager: the broker and the wire do not move. *)
LEMMA ManagerStepStaysTrue ==
    ASSUME TruthInv, broker' = broker, wire' = wire, posts' = posts, CopiesVouch',
           \A d \in Orders : RowTrue(row'[d], broker'[d])
    PROVE  TruthInv'
  BY DEF TruthInv

(* One copy of execute replaced by a snapshot that vouches. *)
LEMMA HoldVouches ==
    ASSUME TypeOK, CopiesVouch, NEW m \in Managers, NEW c \in Orders, NEW s,
           seen' = [seen EXCEPT ![m][c] = s], Vouches(broker[c], s.state, s.filled),
           broker' = broker, book' = book,
           \A n \in Managers, d \in Orders :
              session'[n][d] = "rejected" => broker[d].status = "refused"
    PROVE  CopiesVouch'
  <1>1. \A n \in Managers, d \in Orders :
           seen'[n][d] = IF n = m /\ d = c THEN s ELSE seen[n][d]
    BY DEF TypeOK
  <1> QED BY <1>1 DEF CopiesVouch

(* Every step keeps the journal and the copies true. *)
LEMMA TruthStep == TypeOK /\ OwnershipInv /\ TruthInv /\ [Next]_vars => TruthInv'
  <1> SUFFICES ASSUME TypeOK, OwnershipInv, TruthInv, [Next]_vars PROVE TruthInv'
    OBVIOUS
  <1>0. CopiesVouch /\ \A d \in Orders : RowTrue(row[d], broker[d]) BY DEF TruthInv
  <1>a. ASSUME broker' = broker, seen' = seen, book' = book, session' = session
        PROVE  CopiesVouch'
    BY <1>0, <1>a DEF CopiesVouch
  <1>b. ASSUME broker' = broker, row' = row
        PROVE  \A d \in Orders : RowTrue(row'[d], broker'[d])
    BY <1>0, <1>b
  <1>1. ASSUME NEW m \in Managers, NEW c \in Orders,
               Submit(m, c) \/ LeaveToReconciliation(m, c)
        PROVE  TruthInv'
    <2>1. UNCHANGED <<row, broker, wire, posts, seen, session, book>>
      BY <1>1 DEF Submit, LeaveToReconciliation, rec
    <2> QED BY <1>a, <1>b, <2>1, ManagerStepStaysTrue
  <1>2. ASSUME NEW m \in Managers, NEW c \in Orders, Create(m, c) PROVE TruthInv'
    <2>1. UNCHANGED <<broker, wire, posts, seen, session, book>> BY <1>2 DEF Create, rec
    <2>2. row'[c] = CreateIntent(row[c]) /\ \A d \in Orders : d # c => row'[d] = row[d]
      BY <1>2 DEF Create, TypeOK
    <2>3. row'[c] = row[c] \/ (row'[c].filled = 0 /\ row'[c].state = "CREATED")
      BY <2>2 DEF CreateIntent, FreshRow
    <2>4. broker[c].filled \in 0..Quantity BY DEF TypeOK
    <2>5. RowTrue(row'[c], broker[c]) BY <1>0, <2>3, <2>4, QuantityAssumption DEF RowTrue
    <2>6. \A d \in Orders : RowTrue(row'[d], broker'[d]) BY <1>0, <2>1, <2>2, <2>5
    <2> QED BY <1>a, <2>1, <2>6, ManagerStepStaysTrue
  <1>3. ASSUME NEW m \in Managers, NEW c \in Orders,
               RefuseAtDequeue(m, c) \/ RefuseBeforePost(m, c) \/ Claim(m, c)
        PROVE  TruthInv'
    <2>1. UNCHANGED <<broker, wire, posts, seen, session, book>>
      BY <1>3 DEF RefuseAtDequeue, RefuseBeforePost, Claim, rec
    <2>2. broker[c].filled \in 0..Quantity BY DEF TypeOK
    <2>3. CASE RefuseAtDequeue(m, c) \/ RefuseBeforePost(m, c)
      <3>1. PICK e : Write(c, Refusal, e) BY <2>3 DEF RefuseAtDequeue, RefuseBeforePost
      <3>2. Refusal \in Patches /\ Refusal.noPost /\ Refusal.state = "REJECTED" BY PatchTypes
      <3>3. Refusal.filled = 0 BY DEF Refusal, Patch
      <3>4. \A d \in Orders : RowTrue(row'[d], broker'[d])
        BY <1>0, <2>1, <3>1, <3>2, <3>3, WriteStaysTrue
      <3> QED BY <1>a, <2>1, <3>4, ManagerStepStaysTrue
    <2>4. CASE Claim(m, c)
      <3>1. Write(c, Submitting, {"CREATED"}) BY <2>4 DEF Claim
      <3>2. Submitting \in Patches /\ ~Submitting.noPost /\ Submitting.state = "SUBMITTING"
        BY PatchTypes
      <3>3. Submitting.filled = 0 BY DEF Submitting, Patch
      <3>4. Vouches(broker[c], Submitting.state, Submitting.filled)
        BY <2>2, <3>2, <3>3, QuantityAssumption DEF Vouches
      <3>5. \A d \in Orders : RowTrue(row'[d], broker'[d])
        BY <1>0, <2>1, <3>1, <3>2, <3>4, WriteStaysTrue
      <3> QED BY <1>a, <2>1, <3>5, ManagerStepStaysTrue
    <2> QED BY <1>3, <2>3, <2>4
  <1>4. ASSUME NEW m \in Managers, NEW c \in Orders, Post(m, c) PROVE TruthInv'
    <2>1. UNCHANGED <<row, broker, seen, session, book>> BY <1>4 DEF Post, rec
    <2>2. posts[c] = 0 /\ posts'[c] = 1 /\ \A d \in Orders : d # c => posts'[d] = posts[d]
      BY <1>4 DEF Post, OwnershipInv, TypeOK
    <2>3. broker[c].status = "absent" BY <2>2 DEF TruthInv
    <2>4. wire' = wire \cup {c} BY <1>4 DEF Post
    <2>5. CopiesVouch' BY <1>a, <2>1
    <2> QED BY <2>1, <2>2, <2>3, <2>4, <2>5 DEF TruthInv
  <1>5. ASSUME NEW m \in Managers, NEW c \in Orders, ReplyTerminal(m, c) PROVE TruthInv'
    <2>1. UNCHANGED <<row, broker, wire, posts, book>> BY <1>5 DEF ReplyTerminal, rec
    <2>2. seen' = [seen EXCEPT ![m][c] = SnapshotOf(broker[c])] BY <1>5 DEF ReplyTerminal, Hold
    <2>3. \A n \in Managers, d \in Orders :
             session'[n][d] = "rejected" => broker[d].status = "refused"
      BY <1>0, <1>5 DEF ReplyTerminal, CopiesVouch, TypeOK
    <2>4. CopiesVouch' BY <1>0, <2>1, <2>2, <2>3, SnapshotVouches, HoldVouches
    <2> QED BY <1>b, <2>1, <2>4, ManagerStepStaysTrue
  <1>6. ASSUME NEW m \in Managers, NEW c \in Orders, ReplyRefused(m, c) PROVE TruthInv'
    <2>1. UNCHANGED <<row, broker, wire, posts, book>> BY <1>6 DEF ReplyRefused, rec
    <2>2. /\ seen' = [seen EXCEPT ![m][c] = Snapshot("REJECTED", 0, FALSE)]
          /\ broker[c].status = "refused"
      BY <1>6 DEF ReplyRefused, Hold
    <2>3. \A n \in Managers, d \in Orders :
             session'[n][d] = "rejected" => broker[d].status = "refused"
      BY <1>0, <1>6 DEF ReplyRefused, CopiesVouch, TypeOK
    <2>4. broker[c].filled \in 0..Quantity BY DEF TypeOK
    <2>5. Vouches(broker[c], "REJECTED", 0) BY <2>2, <2>4, QuantityAssumption DEF Vouches
    <2>6. Snapshot("REJECTED", 0, FALSE).state = "REJECTED" /\ Snapshot("REJECTED", 0, FALSE).filled = 0
      BY DEF Snapshot
    <2>7. CopiesVouch' BY <1>0, <2>1, <2>2, <2>3, <2>5, <2>6, HoldVouches
    <2> QED BY <1>b, <2>1, <2>7, ManagerStepStaysTrue
  <1>7. ASSUME NEW m \in Managers, NEW c \in Orders, ReplyAmbiguous(m, c) PROVE TruthInv'
    <2>1. UNCHANGED <<row, broker, wire, posts, book>> BY <1>7 DEF ReplyAmbiguous, rec
    <2>2. broker[c].filled \in 0..Quantity BY DEF TypeOK
    <2>3. 0 \in 0..broker[c].filled BY <2>2, QuantityAssumption
    <2>4. PICK q \in 0..broker[c].filled, b \in BOOLEAN :
             seen' = [seen EXCEPT ![m][c] = Snapshot("RECONCILIATION_REQUIRED", q, b)]
      BY <1>7, <2>3 DEF ReplyAmbiguous, Hold
    <2>5. \A n \in Managers, d \in Orders :
             session'[n][d] = "rejected" => broker[d].status = "refused"
      <3>1. PICK t \in {"quarantined", "bound"} : session' = [session EXCEPT ![m][c] = t]
        BY <1>7 DEF ReplyAmbiguous
      <3> QED BY <1>0, <3>1 DEF CopiesVouch, TypeOK
    <2>6. LET s == Snapshot("RECONCILIATION_REQUIRED", q, b)
          IN  Vouches(broker[c], s.state, s.filled)
      BY SnapshotVouches
    <2>7. CopiesVouch' BY <1>0, <2>1, <2>4, <2>5, <2>6, HoldVouches
    <2> QED BY <1>b, <2>1, <2>7, ManagerStepStaysTrue
  <1>8. ASSUME NEW m \in Managers, NEW c \in Orders, Persist(m, c) \/ PersistAdopted(m, c)
        PROVE  TruthInv'
    <2>1. UNCHANGED <<broker, wire, posts, session, book>> BY <1>8 DEF Persist, PersistAdopted, rec
    <2>2. /\ Write(c, FromBroker(seen[m][c]), AnyState)
          /\ seen' = [seen EXCEPT ![m][c] = NoSnapshot]
      BY <1>8 DEF Persist, PersistAdopted, Hold
    <2>3. seen[m][c] \in Snapshots BY DEF TypeOK
    <2>4. FromBroker(seen[m][c]) \in Patches /\ ~FromBroker(seen[m][c]).noPost
          /\ FromBroker(seen[m][c]).filled = seen[m][c].filled
      BY <2>3, PatchTypes
    <2>5. FromBroker(seen[m][c]).state = seen[m][c].state BY DEF FromBroker, Patch
    <2>6. Vouches(broker[c], seen[m][c].state, seen[m][c].filled) BY <1>0 DEF CopiesVouch
    <2>7. \A d \in Orders : RowTrue(row'[d], broker'[d])
      BY <1>0, <2>1, <2>2, <2>4, <2>5, <2>6, WriteStaysTrue
    <2>8. CopiesVouch'
      <3>1. \A n \in Managers, d \in Orders :
               session'[n][d] = "rejected" => broker[d].status = "refused"
        BY <1>0, <2>1 DEF CopiesVouch
      <3> QED BY <1>0, <2>1, <2>2, <3>1, SnapshotVouches, HoldVouches
    <2> QED BY <2>1, <2>7, <2>8, ManagerStepStaysTrue
  <1>9. ASSUME NEW m \in Managers, NEW c \in Orders, PersistFails(m, c) PROVE TruthInv'
    <2>1. UNCHANGED <<row, broker, wire, posts, session, book>> BY <1>9 DEF PersistFails, rec
    <2>2. seen' = [seen EXCEPT ![m][c] = NoSnapshot] BY <1>9 DEF PersistFails, Hold
    <2>3. \A n \in Managers, d \in Orders :
             session'[n][d] = "rejected" => broker[d].status = "refused"
      BY <1>0, <2>1 DEF CopiesVouch
    <2>4. CopiesVouch' BY <1>0, <2>1, <2>2, <2>3, SnapshotVouches, HoldVouches
    <2> QED BY <1>b, <2>1, <2>4, ManagerStepStaysTrue
  <1>10. ASSUME NEW m \in Managers, NEW c \in Orders, AdoptExisting(m, c) PROVE TruthInv'
    <2>1. UNCHANGED <<row, broker, wire, posts, session, book>> BY <1>10 DEF AdoptExisting, rec
    <2>2. seen' = [seen EXCEPT ![m][c] = KnownSnapshot(m, c)] BY <1>10 DEF AdoptExisting, Hold
    <2>3. \A n \in Managers, d \in Orders :
             session[n][d] = "rejected" => broker[d].status = "refused"
      BY <1>0 DEF CopiesVouch
    <2>4. broker[c].filled \in 0..Quantity BY DEF TypeOK
    <2>5. Vouches(broker[c], KnownSnapshot(m, c).state, KnownSnapshot(m, c).filled)
      <3>1. CASE session[m][c] = "quarantined"
        BY <2>4, <3>1, QuantityAssumption DEF KnownSnapshot, Snapshot, Vouches
      <3>2. CASE session[m][c] = "rejected"
        BY <2>3, <2>4, <3>2, QuantityAssumption DEF KnownSnapshot, Snapshot, Vouches
      <3>3. CASE session[m][c] \notin {"quarantined", "rejected"}
        BY <3>3, SnapshotVouches DEF KnownSnapshot
      <3> QED BY <3>1, <3>2, <3>3
    <2>6. CopiesVouch' BY <1>0, <2>1, <2>2, <2>3, <2>5, HoldVouches
    <2> QED BY <1>b, <2>1, <2>6, ManagerStepStaysTrue
  <1>11. ASSUME NEW m \in Managers, ReconcileStart(m) \/ ReconcileLoadOwned(m) PROVE TruthInv'
    <2>1. UNCHANGED <<row, broker, wire, posts, seen, session, book>>
      BY <1>11 DEF ReconcileStart, ReconcileLoadOwned
    <2> QED BY <1>a, <1>b, <2>1, ManagerStepStaysTrue
  <1>12. ASSUME NEW m \in Managers, ReconcileList(m) PROVE TruthInv'
    <2>1. UNCHANGED <<row, broker, wire, posts, seen, session>> BY <1>12 DEF ReconcileList
    <2>2. \A n \in Managers, d \in Orders :
             book'[n][d] = IF n # m THEN book[n][d]
                           ELSE IF Listed(broker[d]) THEN SnapshotOf(broker[d]) ELSE NoSnapshot
      BY <1>12 DEF ReconcileList, TypeOK
    <2>3. CopiesVouch' BY <1>0, <2>1, <2>2, SnapshotVouches DEF CopiesVouch
    <2> QED BY <1>b, <2>1, <2>3, ManagerStepStaysTrue
  <1>13. ASSUME NEW m \in Managers, NEW c \in Orders, ReconcileMatched(m, c) PROVE TruthInv'
    <2>1. UNCHANGED <<broker, wire, posts, seen, book>> BY <1>13 DEF ReconcileMatched
    <2>2. Write(c, FromBroker(book[m][c]), AnyState) BY <1>13 DEF ReconcileMatched
    <2>3. book[m][c] \in Snapshots BY DEF TypeOK
    <2>4. FromBroker(book[m][c]) \in Patches /\ ~FromBroker(book[m][c]).noPost
          /\ FromBroker(book[m][c]).filled = book[m][c].filled
      BY <2>3, PatchTypes
    <2>5. FromBroker(book[m][c]).state = book[m][c].state BY DEF FromBroker, Patch
    <2>6. Vouches(broker[c], book[m][c].state, book[m][c].filled) BY <1>0 DEF CopiesVouch
    <2>7. \A d \in Orders : RowTrue(row'[d], broker'[d])
      BY <1>0, <2>1, <2>2, <2>4, <2>5, <2>6, WriteStaysTrue
    <2>8. \A n \in Managers, d \in Orders : session'[n][d] = "rejected" => session[n][d] = "rejected"
      BY <1>13 DEF ReconcileMatched, TypeOK
    <2>9. CopiesVouch' BY <1>0, <2>1, <2>8 DEF CopiesVouch
    <2> QED BY <2>1, <2>7, <2>9, ManagerStepStaysTrue
  <1>14. ASSUME NEW m \in Managers, NEW c \in Orders, ReconcileMatchFails(m, c) PROVE TruthInv'
    <2>1. UNCHANGED <<row, broker, wire, posts, seen, book>> BY <1>14 DEF ReconcileMatchFails
    <2>2. \A n \in Managers, d \in Orders : session'[n][d] = "rejected" => session[n][d] = "rejected"
      BY <1>14 DEF ReconcileMatchFails, TypeOK
    <2>3. CopiesVouch' BY <1>0, <2>1, <2>2 DEF CopiesVouch
    <2> QED BY <1>b, <2>1, <2>3, ManagerStepStaysTrue
  <1>15. ASSUME NEW m \in Managers, NEW c \in Orders, ReconcileMissing(m, c) PROVE TruthInv'
    <2>1. UNCHANGED <<broker, wire, posts, seen, session, book>> BY <1>15 DEF ReconcileMissing
    <2>2. row' = row \/ Write(c, Quarantine(c \in hadId[m]), AnyState)
      BY <1>15 DEF ReconcileMissing
    <2>3. CASE row' = row BY <1>a, <1>b, <2>1, <2>3, ManagerStepStaysTrue
    <2>4. CASE Write(c, Quarantine(c \in hadId[m]), AnyState)
      <3>1. (c \in hadId[m]) \in BOOLEAN OBVIOUS
      <3>2. PICK b \in BOOLEAN : Write(c, Quarantine(b), AnyState) BY <2>4, <3>1, Zenon
      <3>3. Quarantine(b) \in Patches /\ ~Quarantine(b).noPost BY PatchTypes
      <3>4. Quarantine(b).state = "RECONCILIATION_REQUIRED" /\ Quarantine(b).filled = 0
        BY DEF Quarantine, Patch
      <3>5. broker[c].filled \in 0..Quantity BY DEF TypeOK
      <3>6. Vouches(broker[c], Quarantine(b).state, Quarantine(b).filled)
        BY <3>4, <3>5, QuantityAssumption DEF Vouches
      <3>7. \A d \in Orders : RowTrue(row'[d], broker'[d])
        BY <1>0, <2>1, <3>2, <3>3, <3>6, WriteStaysTrue
      <3> QED BY <1>a, <2>1, <3>7, ManagerStepStaysTrue
    <2> QED BY <2>2, <2>3, <2>4
  <1>16. ASSUME NEW m \in Managers, ReconcileFinish(m) \/ ReconcileFails(m) \/ Crash(m)
         PROVE  TruthInv'
    <2>1. UNCHANGED <<row, broker, wire, posts>> /\ EndPass(m)
      BY <1>16 DEF ReconcileFinish, ReconcileFails, Crash
    <2>2. \A n \in Managers, d \in Orders :
             book'[n][d] = IF n = m THEN NoSnapshot ELSE book[n][d]
      BY <2>1 DEF EndPass, TypeOK
    <2>3. \A n \in Managers, d \in Orders :
             seen'[n][d] \in {seen[n][d], NoSnapshot} /\ session'[n][d] \in {session[n][d], "none"}
      <3>1. CASE seen' = seen /\ session' = session BY <3>1
      <3>2. CASE Crash(m) BY <3>2 DEF Crash, TypeOK
      <3> QED BY <1>16, <3>1, <3>2 DEF ReconcileFinish, ReconcileFails
    <2>4. CopiesVouch' BY <1>0, <2>1, <2>2, <2>3, SnapshotVouches DEF CopiesVouch
    <2> QED BY <1>b, <2>1, <2>4, ManagerStepStaysTrue
  <1>17. ASSUME NEW c \in Orders, Network(c) \/ Exchange(c) PROVE TruthInv'
    <2>1. \A d \in Orders : broker[d].filled \in 0..Quantity /\ broker'[d].filled \in 0..Quantity
      BY TypeStep DEF TypeOK
    <2>2. ASSUME NEW s, NEW q \in 0..Quantity, Vouches(broker[c], s, q)
          PROVE  Vouches(broker'[c], s, q)
      BY <1>17, <2>1, <2>2, BrokerMovesForward, QuantityAssumption DEF Vouches
    <2>3. RowTrue(row'[c], broker'[c])
      <3>1. row[c].filled \in 0..Quantity BY DEF TypeOK, Rows
      <3> QED BY <1>0, <1>17, <2>1, <3>1, BrokerMovesForward, QuantityAssumption DEF RowTrue
    <2>4. \A n \in Managers, d \in Orders :
             seen[n][d].filled \in 0..Quantity /\ book[n][d].filled \in 0..Quantity
      BY DEF TypeOK, Snapshots
    <2>5. CopiesVouch' BY <1>0, <1>17, <2>2, <2>4, BrokerMovesForward DEF CopiesVouch
    <2>6. \A d \in Orders : RowTrue(row'[d], broker'[d]) BY <1>0, <1>17, <2>3, BrokerMovesForward
    <2> QED BY <1>17, <2>5, <2>6, BrokerMovesForward DEF TruthInv
  <1>18. CASE UNCHANGED vars
    BY <1>a, <1>b, <1>18, ManagerStepStaysTrue DEF vars
  <1> QED
    BY <1>1, <1>2, <1>3, <1>4, <1>5, <1>6, <1>7, <1>8, <1>9, <1>10, <1>11, <1>12, <1>13, <1>14,
       <1>15, <1>16, <1>17, <1>18
       DEF Next, Execute, Reconcile

(* What is durable is true of the broker: no row claims a quantity that was not          *)
(* executed, and a terminal row, which no restart reloads, has no order working and no   *)
(* POST travelling, although writers hold answers and lists others have overtaken.       *)
THEOREM JournalTellsTheTruth == Spec => []JournalIsTrue
  <1>1. TypeOK /\ OwnershipInv /\ TruthInv => JournalIsTrue
    <2> SUFFICES ASSUME TypeOK, OwnershipInv, TruthInv PROVE JournalIsTrue
      OBVIOUS
    <2>1. DurableFillIsReal BY DEF DurableFillIsReal, TruthInv, RowTrue
    <2>2. TerminalHasNoLiveOrder
      <3> SUFFICES ASSUME NEW c \in Orders, row[c].state \in TerminalStates
                   PROVE  broker[c].status # "working" /\ c \notin wire
        BY DEF TerminalHasNoLiveOrder
      <3>1. row[c].state \in {"COMPLETE", "CANCELLED", "REJECTED"}
        BY DEF TerminalStates, OrderStates, NonterminalStates
      <3>2. row[c].noPost => posts[c] = 0 BY DEF OwnershipInv, TypeOK
      <3> QED BY <3>1, <3>2 DEF TruthInv, RowTrue
    <2> QED BY <2>1, <2>2 DEF JournalIsTrue
  <1> QED BY <1>1, TypeInit, TypeStep, OwnershipInit, OwnershipStep, TruthInit, TruthStep, PTL DEF Spec

(* A row written REJECTED, by a refusal or from a broker's answer, hides no fill. *)
THEOREM RejectionHidesNothing == Spec => []RejectedHidesNoFill
  <1>1. TypeOK /\ OwnershipInv /\ TruthInv => RejectedHidesNoFill
    <2> SUFFICES ASSUME TypeOK, OwnershipInv, TruthInv, NEW c \in Orders, row[c].state = "REJECTED"
                 PROVE  broker[c].filled = 0
      BY DEF RejectedHidesNoFill
    <2>1. row[c].noPost => posts[c] = 0 BY DEF OwnershipInv, TypeOK
    <2> QED BY <2>1 DEF TruthInv, RowTrue
  <1> QED BY <1>1, TypeInit, TypeStep, OwnershipInit, OwnershipStep, TruthInit, TruthStep, PTL DEF Spec
=============================================================================
