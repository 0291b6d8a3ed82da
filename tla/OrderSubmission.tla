-------------------------- MODULE OrderSubmission --------------------------
(***************************************************************************)
(* The life of one order identity: BoxOrderManager.execute of              *)
(* src/box/orderManager.ts, split at its awaits, with the durable intent   *)
(* journal, the broker and the reconciliation pass running between them.   *)
(* Several manager processes (an old one and its replacement, or a         *)
(* deployment started twice) may submit the same deterministic identity,   *)
(* any of them may crash, and a POST may be lost, answered late or not     *)
(* answered at all.                                                        *)
(*                                                                         *)
(* The scheduling queue, the hedge-first barrier and the entry guard's     *)
(* other conditions only decide WHETHER a leg is refused before its POST;  *)
(* here a refusal may happen at any checkpoint.  The adapter's early       *)
(* return for an identity its session already holds is not modelled: the   *)
(* winner of the CREATED -> SUBMITTING write never finds one.              *)
(***************************************************************************)
EXTENDS IntentJournal, FiniteSets

CONSTANTS
    Managers,     \* order-manager processes
    Orders,       \* deterministic client order ids
    EntryOrders,  \* those of purpose ENTRY; the others reduce exposure
    Quantity,     \* requested quantity of every order
    MaxFaults     \* bound on crashes and failed database or broker calls

ASSUME QuantityAssumption == Quantity \in Nat \ {0}
ASSUME EntryAssumption == EntryOrders \subseteq Orders
ASSUME FaultsAssumption == MaxFaults \in Nat

VARIABLES
    row,        \* row[c]: the durable intent of c
    broker,     \* broker[c]: the broker's own order for c
    wire,       \* identities whose POST is on its way to the broker
    posts,      \* posts[c]: POSTs transmitted for c, by anyone
    pc,         \* pc[m][c]: where m's execute(c) is
    seen,       \* seen[m][c]: the broker order execute holds before it persists it
    session,    \* session[m][c]: what m's adapter session knows of c
    breaker,    \* breaker[m]: the circuit breaker is open
    uncertain,  \* uncertain[m]: unknownOrders > 0
    phase,      \* phase[m]: where m's reconciliation pass is
    nonterm,    \* nonterm[m][c]: the pass's nonterminal intents and their states
    hadId,      \* hadId[m]: those it loaded with a broker order id
    owned,      \* owned[m]: all the intents it loaded
    book,       \* book[m][c]: the broker's order list it works from
    todo,       \* todo[m]: owned intents it has not come to yet
    resolved,   \* resolved[m][c]: the fill the last promise reported to the caller
    faults      \* faults so far

rec == <<phase, nonterm, hadId, owned, book, todo>>

vars == <<row, broker, wire, posts, pc, seen, session, breaker, uncertain,
          phase, nonterm, hadId, owned, book, todo, resolved, faults>>

BrokerStatus == {"absent", "refused", "working", "complete", "cancelled", "rejected"}

(* The adapter's normalised view of a listed broker order. *)
StateOf(b) == IF b.status = "complete" THEN "COMPLETE"
              ELSE IF b.status = "cancelled" THEN "CANCELLED"
              ELSE IF b.status = "rejected" THEN "REJECTED"
              ELSE IF b.filled > 0 THEN "PARTIALLY_FILLED" ELSE "OPEN"

Listed(b) == b.status \in {"working", "complete", "cancelled", "rejected"}

Snapshot(state, filled, bound) == [state |-> state, filled |-> filled, bound |-> bound]
SnapshotOf(b) == Snapshot(StateOf(b), b.filled, TRUE)
NoSnapshot == Snapshot("CREATED", 0, FALSE)
Snapshots == [state : OrderStates, filled : 0..Quantity, bound : BOOLEAN]

PCs == {"idle", "creating", "checked", "existing", "losing", "owner", "sent", "persisting",
        "adopting"}
SessionStates == {"none", "quarantined", "rejected", "bound"}

Phases == {"off", "loading", "listing", "applying"}

(* Types of the state. *)
TypeOK ==
    /\ row \in [Orders -> Rows(Quantity)]
    /\ broker \in [Orders -> [status : BrokerStatus, filled : 0..Quantity]]
    /\ wire \subseteq Orders
    /\ posts \in [Orders -> Nat]
    /\ pc \in [Managers -> [Orders -> PCs]]
    /\ seen \in [Managers -> [Orders -> Snapshots]]
    /\ session \in [Managers -> [Orders -> SessionStates]]
    /\ breaker \in [Managers -> BOOLEAN]
    /\ uncertain \in [Managers -> BOOLEAN]
    /\ phase \in [Managers -> Phases]
    /\ nonterm \in [Managers -> [Orders -> OrderStates \cup {"none"}]]
    /\ hadId \in [Managers -> SUBSET Orders]
    /\ owned \in [Managers -> SUBSET Orders]
    /\ book \in [Managers -> [Orders -> Snapshots]]
    /\ todo \in [Managers -> SUBSET Orders]
    /\ resolved \in [Managers -> [Orders -> 0..Quantity]]
    /\ faults \in Nat

Init ==
    /\ row = [c \in Orders |-> NoRow]
    /\ broker = [c \in Orders |-> [status |-> "absent", filled |-> 0]]
    /\ wire = {}
    /\ posts = [c \in Orders |-> 0]
    /\ pc = [m \in Managers |-> [c \in Orders |-> "idle"]]
    /\ seen = [m \in Managers |-> [c \in Orders |-> NoSnapshot]]
    /\ session = [m \in Managers |-> [c \in Orders |-> "none"]]
    /\ breaker = [m \in Managers |-> FALSE]
    /\ uncertain = [m \in Managers |-> FALSE]
    /\ phase = [m \in Managers |-> "off"]
    /\ nonterm = [m \in Managers |-> [c \in Orders |-> "none"]]
    /\ hadId = [m \in Managers |-> {}]
    /\ owned = [m \in Managers |-> {}]
    /\ book = [m \in Managers |-> [c \in Orders |-> NoSnapshot]]
    /\ todo = [m \in Managers |-> {}]
    /\ resolved = [m \in Managers |-> [c \in Orders |-> 0]]
    /\ faults = 0

-----------------------------------------------------------------------------
(* Small steps shared by the actions. *)

Goto(m, c, l) == pc' = [pc EXCEPT ![m][c] = l]
Hold(m, c, s) == seen' = [seen EXCEPT ![m][c] = s]
Trip(m) == breaker' = [breaker EXCEPT ![m] = TRUE]

(* noteFailure: the breaker opens when the configured failure count is reached. *)
NoteFailure(m) == \E limitReached \in BOOLEAN :
                    breaker' = [breaker EXCEPT ![m] = @ \/ limitReached]

FromBroker(s) == Patch(s.state, s.bound, TRUE, s.filled, FALSE)
Refusal == Patch("REJECTED", FALSE, FALSE, 0, TRUE)
Submitting == Patch("SUBMITTING", FALSE, FALSE, 0, FALSE)
Quarantine(bound) == Patch("RECONCILIATION_REQUIRED", bound, FALSE, 0, FALSE)

(* A pass ends: what it loaded and listed is dropped. *)
EndPass(m) ==
    /\ phase' = [phase EXCEPT ![m] = "off"]
    /\ nonterm' = [nonterm EXCEPT ![m] = [c \in Orders |-> "none"]]
    /\ hadId' = [hadId EXCEPT ![m] = {}]
    /\ owned' = [owned EXCEPT ![m] = {}]
    /\ book' = [book EXCEPT ![m] = [c \in Orders |-> NoSnapshot]]
    /\ todo' = [todo EXCEPT ![m] = {}]

Write(c, patch, expected) == row' = [row EXCEPT ![c] = UpdateIntent(@, patch, expected)]

-----------------------------------------------------------------------------
(* BoxOrderManager.submit and execute. *)

(* submit: refused while the identity is queued or active in this process. *)
Submit(m, c) ==
    /\ pc[m][c] = "idle"
    /\ c \in EntryOrders => ~breaker[m] /\ ~uncertain[m]
    /\ Goto(m, c, "creating")
    /\ UNCHANGED <<row, broker, wire, posts, seen, session, breaker, uncertain, rec,
                   resolved, faults>>

(* persistence.create: insert, or read back the row that owns the identity. *)
Create(m, c) ==
    /\ pc[m][c] = "creating"
    /\ row' = [row EXCEPT ![c] = CreateIntent(@)]
    /\ Goto(m, c, IF row'[c].state = "CREATED" THEN "checked" ELSE "existing")
    /\ UNCHANGED <<broker, wire, posts, seen, session, breaker, uncertain, rec,
                   resolved, faults>>

(* Mutant: the refusal is written whatever state the row has reached. *)
RefuseAtDequeueUnguarded(m, c) ==
    /\ pc[m][c] = "checked"
    /\ Write(c, Refusal, AnyState)
    /\ Goto(m, c, IF UpdateAccepted(row[c], Refusal, AnyState) THEN "idle" ELSE "losing")
    /\ UNCHANGED <<broker, wire, posts, seen, session, breaker, uncertain, rec,
                   resolved, faults>>

(* Checkpoint 3 refuses: terminalise without a POST, if nobody advanced the row. *)
RefuseAtDequeue(m, c) ==
    /\ pc[m][c] = "checked"
    /\ Write(c, Refusal, {"CREATED"})
    /\ Goto(m, c, IF UpdateAccepted(row[c], Refusal, {"CREATED"}) THEN "idle" ELSE "losing")
    /\ UNCHANGED <<broker, wire, posts, seen, session, breaker, uncertain, rec,
                   resolved, faults>>

(* Mutant: SUBMITTING is written without an expected state, so a second writer wins too. *)
ClaimAnyState(m, c) ==
    /\ pc[m][c] = "checked"
    /\ Write(c, Submitting, AnyState)
    /\ Goto(m, c, IF UpdateAccepted(row[c], Submitting, AnyState) THEN "owner" ELSE "losing")
    /\ UNCHANGED <<broker, wire, posts, seen, session, breaker, uncertain, rec,
                   resolved, faults>>

(* The CREATED -> SUBMITTING compare-and-set: its winner alone may POST. *)
Claim(m, c) ==
    /\ pc[m][c] = "checked"
    /\ Write(c, Submitting, {"CREATED"})
    /\ Goto(m, c, IF UpdateAccepted(row[c], Submitting, {"CREATED"}) THEN "owner" ELSE "losing")
    /\ UNCHANGED <<broker, wire, posts, seen, session, breaker, uncertain, rec,
                   resolved, faults>>

(* Checkpoints 4 and 5 refuse, the latter from the adapter's pre-POST callback. *)
RefuseBeforePost(m, c) ==
    /\ pc[m][c] = "owner"
    /\ Write(c, Refusal, {"SUBMITTING"})
    /\ Goto(m, c, IF UpdateAccepted(row[c], Refusal, {"SUBMITTING"}) THEN "idle" ELSE "losing")
    /\ UNCHANGED <<broker, wire, posts, seen, session, breaker, uncertain, rec,
                   resolved, faults>>

(* adapter.submitOrder: the request leaves for the broker. *)
Post(m, c) ==
    /\ pc[m][c] = "owner"
    /\ c \in EntryOrders => ~breaker[m] /\ ~uncertain[m]
    /\ posts' = [posts EXCEPT ![c] = @ + 1]
    /\ wire' = wire \cup {c}
    /\ Goto(m, c, "sent")
    /\ UNCHANGED <<row, broker, seen, session, breaker, uncertain, rec, resolved, faults>>

(* waitForResolution saw a terminal broker order (acknowledged or found by its tag). *)
ReplyTerminal(m, c) ==
    /\ pc[m][c] = "sent"
    /\ broker[c].status \in {"complete", "cancelled", "rejected"}
    /\ Hold(m, c, SnapshotOf(broker[c]))
    /\ session' = [session EXCEPT ![m][c] = "bound"]
    /\ Goto(m, c, "persisting")
    /\ UNCHANGED <<row, broker, wire, posts, breaker, uncertain, rec, resolved, faults>>

(* BrokerOrderRejectedError: the POST itself was answered with a refusal. *)
ReplyRefused(m, c) ==
    /\ pc[m][c] = "sent"
    /\ broker[c].status = "refused"
    /\ Hold(m, c, Snapshot("REJECTED", 0, FALSE))
    /\ session' = [session EXCEPT ![m][c] = "rejected"]
    /\ Goto(m, c, "persisting")
    /\ UNCHANGED <<row, broker, wire, posts, breaker, uncertain, rec, resolved, faults>>

(* BrokerAmbiguousSubmitError: a timeout before an acknowledgement, or a broker    *)
(* order whose terminal quantity could not be established.                         *)
ReplyAmbiguous(m, c) ==
    /\ pc[m][c] = "sent"
    /\ \/ /\ Hold(m, c, Snapshot("RECONCILIATION_REQUIRED", 0, FALSE))
          /\ session' = [session EXCEPT ![m][c] = "quarantined"]
       \/ /\ Listed(broker[c])
          /\ \E q \in 0..broker[c].filled :
                Hold(m, c, Snapshot("RECONCILIATION_REQUIRED", q, TRUE))
          /\ session' = [session EXCEPT ![m][c] = "bound"]
    /\ Goto(m, c, "persisting")
    /\ UNCHANGED <<row, broker, wire, posts, breaker, uncertain, rec, resolved, faults>>

(* persistOrder of what the adapter returned, and execute's bookkeeping after it. *)
Persist(m, c) ==
    LET s == seen[m][c] IN
    /\ pc[m][c] = "persisting"
    /\ Write(c, FromBroker(s), AnyState)
    /\ IF s.state \in {"COMPLETE", "CANCELLED"}
       THEN UNCHANGED breaker
       ELSE NoteFailure(m)
    /\ uncertain' = [uncertain EXCEPT ![m] = @ \/ s.state \in ReconcileStates]
    /\ resolved' = [resolved EXCEPT ![m][c] = IF s.state \in ReconcileStates THEN @ ELSE s.filled]
    /\ Hold(m, c, NoSnapshot)
    /\ Goto(m, c, "idle")
    /\ UNCHANGED <<broker, wire, posts, session, rec, faults>>

(* persistOrder of an adopted snapshot: no failure is counted. *)
PersistAdopted(m, c) ==
    /\ pc[m][c] = "adopting"
    /\ Write(c, FromBroker(seen[m][c]), AnyState)
    /\ resolved' = [resolved EXCEPT ![m][c] = seen[m][c].filled]
    /\ Hold(m, c, NoSnapshot)
    /\ Goto(m, c, "idle")
    /\ UNCHANGED <<broker, wire, posts, session, breaker, uncertain, rec, faults>>

(* The database fails under persistOrder: a confirmed fill opens the breaker. *)
PersistFails(m, c) ==
    /\ pc[m][c] \in {"persisting", "adopting"}
    /\ faults < MaxFaults
    /\ faults' = faults + 1
    /\ IF seen[m][c].filled > 0 THEN Trip(m) ELSE NoteFailure(m)
    /\ resolved' = [resolved EXCEPT ![m][c] = seen[m][c].filled]
    /\ Hold(m, c, NoSnapshot)
    /\ Goto(m, c, "idle")
    /\ UNCHANGED <<row, broker, wire, posts, session, uncertain, rec>>

(* adapter.getOrder: nothing for an identity this session does not hold. *)
KnownSnapshot(m, c) ==
    IF session[m][c] = "quarantined" THEN Snapshot("RECONCILIATION_REQUIRED", 0, FALSE)
    ELSE IF session[m][c] = "rejected" THEN Snapshot("REJECTED", 0, FALSE)
    ELSE SnapshotOf(broker[c])

(* The identity already left CREATED: adopt what the broker says, never POST. *)
AdoptExisting(m, c) ==
    /\ pc[m][c] \in {"existing", "losing"}
    /\ session[m][c] # "none"
    /\ Hold(m, c, KnownSnapshot(m, c))
    /\ Goto(m, c, "adopting")
    /\ UNCHANGED <<row, broker, wire, posts, session, breaker, uncertain, rec,
                   resolved, faults>>

(* No snapshot: an existing intent is an error, a lost race is left quarantined. *)
LeaveToReconciliation(m, c) ==
    /\ pc[m][c] \in {"existing", "losing"}
    /\ session[m][c] = "none"
    /\ IF pc[m][c] = "existing"
       THEN NoteFailure(m) /\ UNCHANGED uncertain
       ELSE /\ uncertain' = [uncertain EXCEPT ![m] = @ \/ row[c].state \in NonterminalStates]
            /\ UNCHANGED breaker
    /\ Goto(m, c, "idle")
    /\ UNCHANGED <<row, broker, wire, posts, seen, session, rec, resolved, faults>>

-----------------------------------------------------------------------------
(* performReconcile, at most one pass at a time in a process. *)

(* loadNonterminal. *)
ReconcileStart(m) ==
    /\ phase[m] = "off"
    /\ phase' = [phase EXCEPT ![m] = "loading"]
    /\ nonterm' = [nonterm EXCEPT ![m] = [c \in Orders |->
                      IF row[c].exists /\ row[c].state \in NonterminalStates
                      THEN row[c].state ELSE "none"]]
    /\ hadId' = [hadId EXCEPT ![m] = {c \in Orders : row[c].bound}]
    /\ UNCHANGED <<row, broker, wire, posts, pc, seen, session, breaker, uncertain,
                   owned, book, todo, resolved, faults>>

(* loadOwned. *)
ReconcileLoadOwned(m) ==
    /\ phase[m] = "loading"
    /\ phase' = [phase EXCEPT ![m] = "listing"]
    /\ owned' = [owned EXCEPT ![m] = {c \in Orders : row[c].exists}]
    /\ UNCHANGED <<row, broker, wire, posts, pc, seen, session, breaker, uncertain,
                   nonterm, hadId, book, todo, resolved, faults>>

(* listOrders: a snapshot of the broker's book, applied by the steps below. *)
ReconcileList(m) ==
    /\ phase[m] = "listing"
    /\ phase' = [phase EXCEPT ![m] = "applying"]
    /\ todo' = [todo EXCEPT ![m] = owned[m]]
    /\ book' = [book EXCEPT ![m] = [c \in Orders |->
                   IF Listed(broker[c]) THEN SnapshotOf(broker[c]) ELSE NoSnapshot]]
    /\ UNCHANGED <<row, broker, wire, posts, pc, seen, session, breaker, uncertain,
                   nonterm, hadId, owned, resolved, faults>>

(* A listed order owned by durable identity: adoptOrder, then persistOrder. *)
ReconcileMatched(m, c) ==
    LET s == book[m][c] IN
    /\ phase[m] = "applying"
    /\ c \in todo[m] /\ s.bound
    /\ session' = [session EXCEPT ![m][c] = "bound"]
    /\ Write(c, FromBroker(s), AnyState)
    /\ todo' = [todo EXCEPT ![m] = @ \ {c}]
    /\ nonterm' = [nonterm EXCEPT ![m][c] = IF row'[c].state \in TerminalStates
                                            THEN "none" ELSE row'[c].state]
    /\ UNCHANGED <<broker, wire, posts, pc, seen, breaker, uncertain, phase, hadId, owned,
                   book, resolved, faults>>

(* adoptOrder or the write of persistOrder fails: the breaker opens, the pass goes on. *)
ReconcileMatchFails(m, c) ==
    /\ phase[m] = "applying"
    /\ c \in todo[m] /\ book[m][c].bound
    /\ faults < MaxFaults
    /\ faults' = faults + 1
    /\ \E adopted \in BOOLEAN :
          session' = [session EXCEPT ![m][c] = IF adopted THEN "bound" ELSE @]
    /\ Trip(m)
    /\ todo' = [todo EXCEPT ![m] = @ \ {c}]
    /\ UNCHANGED <<row, broker, wire, posts, pc, seen, uncertain, phase, nonterm, hadId, owned,
                   book, resolved>>

(* Mutant: an order absent from the broker's list is taken for one never placed. *)
ReconcileMissingAsRejected(m, c) ==
    LET s == nonterm[m][c] IN
    /\ phase[m] = "applying"
    /\ c \in todo[m] /\ \A d \in todo[m] : ~book[m][d].bound
    /\ IF s \in {"none", "CREATED"}
       THEN UNCHANGED <<row, nonterm>>
       ELSE /\ Write(c, Patch("REJECTED", FALSE, FALSE, 0, FALSE), AnyState)
            /\ nonterm' = [nonterm EXCEPT ![m][c] = row'[c].state]
    /\ IF s = "none" THEN UNCHANGED breaker ELSE Trip(m)
    /\ todo' = [todo EXCEPT ![m] = @ \ {c}]
    /\ UNCHANGED <<broker, wire, posts, pc, seen, session, uncertain, phase, hadId, owned,
                   book, resolved, faults>>

(* After the listed ones, an unlisted order: quarantined when it was loaded as nonterminal, never resent. *)
ReconcileMissing(m, c) ==
    LET s == nonterm[m][c] IN
    /\ phase[m] = "applying"
    /\ c \in todo[m] /\ \A d \in todo[m] : ~book[m][d].bound
    /\ IF s \in {"none", "CREATED"}
       THEN UNCHANGED <<row, nonterm>>
       ELSE /\ Write(c, Quarantine(c \in hadId[m]), AnyState)
            /\ nonterm' = [nonterm EXCEPT ![m][c] = row'[c].state]
    /\ IF s = "none" THEN UNCHANGED breaker ELSE Trip(m)
    /\ todo' = [todo EXCEPT ![m] = @ \ {c}]
    /\ UNCHANGED <<broker, wire, posts, pc, seen, session, uncertain, phase, hadId, owned,
                   book, resolved, faults>>

(* unknownOrders is recounted from what the pass learned. *)
ReconcileFinish(m) ==
    /\ phase[m] = "applying"
    /\ todo[m] = {}
    /\ uncertain' = [uncertain EXCEPT ![m] = \E c \in Orders : nonterm[m][c] \in ReconcileStates]
    /\ EndPass(m)
    /\ UNCHANGED <<row, broker, wire, posts, pc, seen, session, breaker, resolved, faults>>

(* A failed load, listing or quarantine aborts the pass and opens the breaker. *)
ReconcileFails(m) ==
    /\ phase[m] # "off"
    /\ phase[m] = "applying" =>
          \E c \in todo[m] : /\ nonterm[m][c] \notin {"none", "CREATED"}
                             /\ \A d \in todo[m] : ~book[m][d].bound
    /\ faults < MaxFaults
    /\ faults' = faults + 1
    /\ Trip(m)
    /\ EndPass(m)
    /\ UNCHANGED <<row, broker, wire, posts, pc, seen, session, uncertain, resolved>>

-----------------------------------------------------------------------------
(* The broker, and what the network does to a POST (external). *)

BrokerAccepts(c) ==
    /\ c \in wire
    /\ wire' = wire \ {c}
    /\ broker' = [broker EXCEPT ![c] = [status |-> "working", filled |-> 0]]
    /\ UNCHANGED <<row, posts, pc, seen, session, breaker, uncertain, rec, resolved, faults>>

BrokerRefuses(c) ==
    /\ c \in wire
    /\ wire' = wire \ {c}
    /\ broker' = [broker EXCEPT ![c] = [status |-> "refused", filled |-> 0]]
    /\ UNCHANGED <<row, posts, pc, seen, session, breaker, uncertain, rec, resolved, faults>>

PostLost(c) ==
    /\ c \in wire
    /\ wire' = wire \ {c}
    /\ UNCHANGED <<row, broker, posts, pc, seen, session, breaker, uncertain, rec,
                   resolved, faults>>

(* A fill; the one that reaches the requested quantity completes the order. *)
BrokerFills(c) ==
    /\ broker[c].status = "working" /\ broker[c].filled < Quantity
    /\ broker' = [broker EXCEPT ![c] =
                    [status |-> IF @.filled + 1 = Quantity THEN "complete" ELSE "working",
                     filled |-> @.filled + 1]]
    /\ UNCHANGED <<row, wire, posts, pc, seen, session, breaker, uncertain, rec,
                   resolved, faults>>

(* Cancelled: by the adapter's protective cancel, an operator or the exchange. *)
BrokerCancels(c) ==
    /\ broker[c].status = "working"
    /\ broker' = [broker EXCEPT ![c] = [status |-> "cancelled", filled |-> @.filled]]
    /\ UNCHANGED <<row, wire, posts, pc, seen, session, breaker, uncertain, rec,
                   resolved, faults>>

(* Rejected after acceptance, by the broker's risk system or the exchange. *)
BrokerRejects(c) ==
    /\ broker[c].status = "working" /\ broker[c].filled = 0
    /\ broker' = [broker EXCEPT ![c] = [status |-> "rejected", filled |-> 0]]
    /\ UNCHANGED <<row, wire, posts, pc, seen, session, breaker, uncertain, rec,
                   resolved, faults>>

(* A process dies and starts again: memory is lost, the journal and broker are not. *)
Crash(m) ==
    /\ faults < MaxFaults
    /\ faults' = faults + 1
    /\ pc' = [pc EXCEPT ![m] = [c \in Orders |-> "idle"]]
    /\ seen' = [seen EXCEPT ![m] = [c \in Orders |-> NoSnapshot]]
    /\ session' = [session EXCEPT ![m] = [c \in Orders |-> "none"]]
    /\ breaker' = [breaker EXCEPT ![m] = FALSE]
    /\ uncertain' = [uncertain EXCEPT ![m] = FALSE]
    /\ EndPass(m)
    /\ resolved' = [resolved EXCEPT ![m] = [c \in Orders |-> 0]]
    /\ UNCHANGED <<row, broker, wire, posts>>

-----------------------------------------------------------------------------
Execute(m, c) ==
    \/ Create(m, c) \/ RefuseAtDequeue(m, c) \/ Claim(m, c) \/ RefuseBeforePost(m, c)
    \/ Post(m, c) \/ ReplyTerminal(m, c) \/ ReplyRefused(m, c) \/ ReplyAmbiguous(m, c)
    \/ Persist(m, c) \/ PersistAdopted(m, c) \/ AdoptExisting(m, c) \/ LeaveToReconciliation(m, c)

Reconcile(m) ==
    \/ ReconcileStart(m) \/ ReconcileLoadOwned(m) \/ ReconcileList(m)
    \/ \E c \in Orders : ReconcileMatched(m, c) \/ ReconcileMissing(m, c)
    \/ ReconcileFinish(m)

Network(c) == BrokerAccepts(c) \/ BrokerRefuses(c) \/ PostLost(c)
Exchange(c) == BrokerFills(c) \/ BrokerCancels(c) \/ BrokerRejects(c)

Next ==
    \/ \E m \in Managers, c \in Orders : Submit(m, c) \/ Execute(m, c)
                                         \/ PersistFails(m, c) \/ ReconcileMatchFails(m, c)
    \/ \E m \in Managers : Reconcile(m) \/ ReconcileFails(m) \/ Crash(m)
    \/ \E c \in Orders : Network(c) \/ Exchange(c)

Spec == Init /\ [][Next]_vars

(* A process keeps running the steps it has started, and the reconcile timer keeps   *)
(* starting passes.  Nothing is assumed of the broker or of the callers of submit.   *)
FairSpec == /\ Spec
            /\ \A m \in Managers, c \in Orders : WF_vars(Execute(m, c))
            /\ \A m \in Managers : WF_vars(Reconcile(m))

-----------------------------------------------------------------------------
(* Properties. *)

(* However many processes submit an identity, crash, lose the race or get no answer,  *)
(* execute transmits at most one POST for it.                                         *)
AtMostOnePost == \A c \in Orders : posts[c] <= 1

(* The no_broker_post provenance persistLocalPreSubmitRefusal writes is true, and     *)
(* stays true: no process ever transmitted, or will transmit, that identity.          *)
RefusalProvesNoPost == \A c \in Orders : row[c].noPost => posts[c] = 0

(* The journal never claims a quantity the broker has not executed, although its      *)
(* writers hold snapshots that other writers have overtaken.                          *)
DurableFillIsReal == \A c \in Orders : row[c].filled <= broker[c].filled

(* A terminal row is not reloaded after a restart, so the broker must have nothing    *)
(* left to do for it: no live order and no POST still travelling.                     *)
TerminalHasNoLiveOrder ==
    \A c \in Orders : row[c].exists /\ row[c].state \in TerminalStates =>
        broker[c].status # "working" /\ c \notin wire

(* What is durable is true of the broker, in quantity and in state (persistOrder,     *)
(* reconcileOrderToIntent, the missing-order path of performReconcile).               *)
JournalIsTrue == DurableFillIsReal /\ TerminalHasNoLiveOrder

(* A row written REJECTED, by a refusal or from a broker answer, hides no fill. *)
RejectedHidesNoFill ==
    \A c \in Orders : row[c].state = "REJECTED" => broker[c].filled = 0

(* updateBoxOrderIntent never lowers a durable quantity and never reopens a terminal  *)
(* row; the one terminal change is a cancelled order the broker reports complete.     *)
JournalNeverRewinds ==
    [][\A c \in Orders :
        /\ row'[c].filled >= row[c].filled
        /\ row[c].state \in TerminalStates /\ row'[c].state # row[c].state =>
              row[c].state = "CANCELLED" /\ row'[c].state = "COMPLETE"]_vars

(* An order the broker completed is recorded COMPLETE in the end: by the process that *)
(* sent it or, after a crash or an unanswered POST, by the reconciliation timer.      *)
CompletedIsRecorded ==
    \A c \in Orders : broker[c].status = "complete" ~> row[c].state = "COMPLETE"

(* What LIVE_EXECUTION.md says of the breaker: a fill confirmed to the caller is      *)
(* durable, or the loss of its persistence has opened the breaker.                    *)
ConfirmedFillIsDurableOrTripped ==
    \A m \in Managers, c \in Orders : resolved[m][c] <= row[c].filled \/ breaker[m]
=============================================================================
