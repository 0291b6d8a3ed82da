-------------------------- MODULE FillAttribution --------------------------
(***************************************************************************)
(* How BoxOrderManager keeps attributedBoxPositions, the net quantity it   *)
(* believes durable BOX orders hold and the permission boundary for every  *)
(* reduction, in step with the intent journal.  Two kinds of asynchronous  *)
(* writers feed it: execute, which persists the adapter's answer for one   *)
(* order, and the reconciliation pass, which persists broker snapshots of  *)
(* all of them and then rebuilds the map absolutely from the copies it     *)
(* holds.  A database write and the continuation that applies its delta    *)
(* are separate steps, with any other step between them.                   *)
(*                                                                         *)
(* One contract is modelled.  Entries buy it and Exits sell it; Held was   *)
(* bought earlier and is in the journal.  The process is past its first    *)
(* pass, so the reservations are not rebuilt.  The races for an identity   *)
(* and its POST are OrderSubmission's: here create, claim and POST are     *)
(* two steps, and the broker answers.                                      *)
(***************************************************************************)
EXTENDS IntentJournal, FiniteSets, FiniteSetsExt

CONSTANTS
    Entries,    \* orders of purpose ENTRY, side BUY
    Exits,      \* orders of purpose EXIT or EMERGENCY_RESIDUAL, side SELL
    Quantity,   \* quantity of every order
    Held,       \* net quantity of the trades already in the journal
    MaxGross,   \* maxGrossOpenLegQuantity
    MaxFaults   \* bound on failed database or broker calls

ASSUME OrdersAssumption ==
    Entries \cap Exits = {} /\ IsFiniteSet(Entries \cup Exits) /\ "none" \notin Entries \cup Exits
ASSUME QuantitiesAssumption == Quantity \in Nat \ {0} /\ Held \in Nat /\ MaxGross \in Nat
ASSUME FaultBoundAssumption == MaxFaults \in Nat

Orders == Entries \cup Exits

VARIABLES
    row,         \* row[c]: the durable intent
    broker,      \* broker[c]: the broker's order
    job,         \* job[c]: where execute(c) is
    pending,     \* pending[c]: delta of execute's committed write, not applied yet
    answer,      \* answer[c]: the order state that write carried
    image,       \* image[c]: the row state it returned
    attributed,  \* attributedBoxPositions of the contract
    reserved,    \* reserved[c]: entry or reduction quantity reserved for c
    known,       \* known[c]: state of c in knownIntents
    breaker,     \* the circuit breaker is open
    uncertain,   \* unknownOrders > 0
    complete,    \* health.reconciliation_complete
    phase,       \* where the reconciliation pass is
    nonterm,     \* nonterm[c]: nonterminalByClient, its nonterminal intents and their states
    copy,        \* copy[c]: ownedByClient, the rows it loaded or was returned
    book,        \* book[c]: the broker's order list
    position,    \* the broker's position list
    todo,        \* intents it has not come to
    recAt,       \* the intent whose write it awaits, or "none"
    recPending,  \* delta of that write
    recImage,    \* the row it returned
    recMismatch, \* identityMismatchSymbols holds the contract
    faults

exec == <<job, pending, answer, image>>
pass == <<phase, nonterm, copy, book, position, todo, recAt, recPending, recImage,
          recMismatch>>
flags == <<breaker, uncertain, complete>>

vars == <<row, broker, exec, attributed, reserved, known, flags, pass, faults>>

-----------------------------------------------------------------------------
Sign(c) == IF c \in Entries THEN 1 ELSE -1
NetOf(rows) == Held + SumFunction([c \in Orders |-> Sign(c) * rows[c].filled])
Abs(n) == IF n < 0 THEN -n ELSE n

(* What the journal says is held. *)
JournalNet == NetOf(row)

(* Deltas that are durable and whose continuation has not run. *)
PendingNet == SumFunction([c \in Orders |-> Sign(c) * pending[c]])
              + IF recAt = "none" THEN 0 ELSE Sign(recAt) * recPending

Drift == attributed + PendingNet - JournalNet

BrokerNet == NetOf(broker)
ReservedBy(S) == MapThenSumSet(LAMBDA c : reserved[c], S)

StateOf(b) == IF b.status \in {"COMPLETE", "CANCELLED", "REJECTED"} THEN b.status
              ELSE IF b.filled > 0 THEN "PARTIALLY_FILLED" ELSE "OPEN"
Listed(b) == b.status # "absent"
Unlisted == [status |-> "absent", filled |-> 0]
Books == [status : {"absent", "working", "COMPLETE", "CANCELLED", "REJECTED"}, filled : 0..Quantity]

FromBroker(state, filled) == Patch(state, TRUE, TRUE, filled, FALSE)
Jobs == {"new", "queued", "created", "sent", "committed", "done"}
Phases == {"off", "loading", "listing", "positions", "applying"}

(* Types of the state. *)
TypeOK ==
    /\ row \in [Orders -> Rows(Quantity)]
    /\ broker \in [Orders -> Books]
    /\ job \in [Orders -> Jobs]
    /\ pending \in [Orders -> 0..Quantity]
    /\ answer \in [Orders -> OrderStates]
    /\ image \in [Orders -> OrderStates]
    /\ attributed \in Int
    /\ reserved \in [Orders -> 0..Quantity]
    /\ known \in [Orders -> OrderStates]
    /\ {breaker, uncertain, complete} \subseteq BOOLEAN
    /\ phase \in Phases
    /\ nonterm \in [Orders -> OrderStates \cup {"none"}]
    /\ copy \in [Orders -> Rows(Quantity)]
    /\ book \in [Orders -> Books]
    /\ position \in Int
    /\ todo \subseteq Orders
    /\ recAt \in Orders \cup {"none"}
    /\ recPending \in 0..Quantity
    /\ recImage \in Rows(Quantity)
    /\ recMismatch \in BOOLEAN
    /\ faults \in Nat

Init ==
    /\ row = [c \in Orders |-> NoRow]
    /\ broker = [c \in Orders |-> Unlisted]
    /\ job = [c \in Orders |-> "new"]
    /\ pending = [c \in Orders |-> 0]
    /\ answer = [c \in Orders |-> "CREATED"]
    /\ image = [c \in Orders |-> "CREATED"]
    /\ attributed = Held
    /\ reserved = [c \in Orders |-> 0]
    /\ known = [c \in Orders |-> "CREATED"]
    /\ breaker = FALSE /\ uncertain = FALSE /\ complete = TRUE
    /\ phase = "off"
    /\ nonterm = [c \in Orders |-> "none"]
    /\ copy = [c \in Orders |-> NoRow]
    /\ book = [c \in Orders |-> Unlisted]
    /\ position = 0
    /\ todo = {}
    /\ recAt = "none" /\ recPending = 0 /\ recImage = NoRow /\ recMismatch = FALSE
    /\ faults = 0

-----------------------------------------------------------------------------
(* submit, pump and execute. *)

CanEnter == ~breaker /\ ~uncertain /\ complete

(* withinQuantityLimits, at submit. *)
WithinQuantityLimits(c) ==
    IF c \in Entries
    THEN Abs(attributed) + ReservedBy(Entries) + Quantity <= MaxGross
    ELSE attributed > 0 /\ Quantity + ReservedBy(Exits) <= attributed

Submit(c) ==
    /\ job[c] = "new"
    /\ c \in Entries => CanEnter
    /\ WithinQuantityLimits(c)
    /\ job' = [job EXCEPT ![c] = "queued"]
    /\ reserved' = [reserved EXCEPT ![c] = Quantity]
    /\ UNCHANGED <<row, broker, pending, answer, image, attributed, known, flags, pass, faults>>

(* queuedActionBlockReason: the quantity is reserved by now. *)
StillAllowed(c) ==
    IF c \in Entries
    THEN CanEnter /\ Abs(attributed) + ReservedBy(Entries) <= MaxGross
    ELSE attributed > 0 /\ ReservedBy(Exits) <= attributed

(* The pump takes the action off the queue and execute creates its row ... *)
Dequeue(c) ==
    /\ job[c] = "queued"
    /\ StillAllowed(c)
    /\ row' = [row EXCEPT ![c] = CreateIntent(@)]
    /\ known' = [known EXCEPT ![c] = "CREATED"]
    /\ job' = [job EXCEPT ![c] = "created"]
    /\ UNCHANGED <<broker, pending, answer, image, attributed, reserved, flags, pass, faults>>

(* ... or refuses it there. *)
RefuseQueued(c) ==
    /\ job[c] = "queued"
    /\ ~StillAllowed(c)
    /\ job' = [job EXCEPT ![c] = "done"]
    /\ reserved' = [reserved EXCEPT ![c] = 0]
    /\ UNCHANGED <<row, broker, pending, answer, image, attributed, known, flags, pass, faults>>

(* SUBMITTING becomes durable and the POST is transmitted. *)
Post(c) ==
    /\ job[c] = "created"
    /\ row' = [row EXCEPT ![c] = UpdateIntent(@, Patch("SUBMITTING", FALSE, FALSE, 0, FALSE), {"CREATED"})]
    /\ known' = [known EXCEPT ![c] = row'[c].state]
    /\ broker' = [broker EXCEPT ![c] = [status |-> "working", filled |-> 0]]
    /\ job' = [job EXCEPT ![c] = "sent"]
    /\ UNCHANGED <<pending, answer, image, attributed, reserved, flags, pass, faults>>

(* noteFailure: the breaker opens when the configured failure count is reached. *)
NoteFailure == \E limitReached \in BOOLEAN : breaker' = (breaker \/ limitReached)

(* The database write of execute: persistOrder of a terminal snapshot or of one whose *)
(* final quantity the adapter could not establish, or the transition that quarantines *)
(* an order without a snapshot.  A refused quarantine opens the breaker.              *)
Commit(c) ==
    /\ job[c] = "sent"
    /\ \E state \in TerminalStates \cup {"RECONCILIATION_REQUIRED"},
          filled \in 0..broker[c].filled, fills \in BOOLEAN :
          LET p == Patch(state, fills, fills, filled, FALSE) IN
          /\ state \in TerminalStates =>
                state = StateOf(broker[c]) /\ filled = broker[c].filled /\ fills
          /\ ~fills => filled = 0
          /\ row' = [row EXCEPT ![c] = UpdateIntent(@, p, AnyState)]
          /\ pending' = [pending EXCEPT ![c] = DurableFillDelta(row[c], p, AnyState)]
          /\ answer' = [answer EXCEPT ![c] = state]
          /\ image' = [image EXCEPT ![c] = row'[c].state]
          /\ breaker' = (breaker \/ (~fills /\ row'[c].state \notin ReconcileStates))
    /\ job' = [job EXCEPT ![c] = "committed"]
    /\ UNCHANGED <<broker, attributed, reserved, known, uncertain, complete, pass, faults>>

(* Mutant: the delta is taken from the quantity of the intent execute was holding, 0. *)
ContinueFromSnapshot(c) ==
    /\ job[c] = "committed"
    /\ attributed' = attributed + Sign(c) * row[c].filled
    /\ known' = [known EXCEPT ![c] = image[c]]
    /\ reserved' = [reserved EXCEPT ![c] = IF answer[c] \in TerminalStates
                                              \/ image[c] \notin ReconcileStates THEN 0 ELSE @]
    /\ uncertain' = (uncertain \/ answer[c] \in ReconcileStates)
    /\ IF answer[c] \in {"COMPLETE", "CANCELLED"} THEN UNCHANGED breaker ELSE NoteFailure
    /\ pending' = [pending EXCEPT ![c] = 0]
    /\ job' = [job EXCEPT ![c] = "done"]
    /\ UNCHANGED <<row, broker, answer, image, complete, pass, faults>>

(* Its continuation: attribute the delta the write established, keep what it returned  *)
(* in knownIntents, and let the pump release the reservation unless it is quarantined. *)
Continue(c) ==
    /\ job[c] = "committed"
    /\ attributed' = attributed + Sign(c) * pending[c]
    /\ known' = [known EXCEPT ![c] = image[c]]
    /\ reserved' = [reserved EXCEPT ![c] = IF answer[c] \in TerminalStates
                                              \/ image[c] \notin ReconcileStates THEN 0 ELSE @]
    /\ uncertain' = (uncertain \/ answer[c] \in ReconcileStates)
    /\ IF answer[c] \in {"COMPLETE", "CANCELLED"} THEN UNCHANGED breaker ELSE NoteFailure
    /\ pending' = [pending EXCEPT ![c] = 0]
    /\ job' = [job EXCEPT ![c] = "done"]
    /\ UNCHANGED <<row, broker, answer, image, complete, pass, faults>>

(* The write fails instead; the pump decides from what knownIntents held before it. *)
CommitFails(c) ==
    /\ job[c] = "sent"
    /\ faults < MaxFaults
    /\ faults' = faults + 1
    /\ \E confirmed \in BOOLEAN :
          /\ confirmed => broker[c].filled > 0
          /\ IF confirmed THEN breaker' = TRUE ELSE NoteFailure
    /\ reserved' = [reserved EXCEPT ![c] = IF known[c] \in ReconcileStates THEN @ ELSE 0]
    /\ job' = [job EXCEPT ![c] = "done"]
    /\ UNCHANGED <<row, broker, pending, answer, image, attributed, known, uncertain, complete, pass>>

-----------------------------------------------------------------------------
(* performReconcile. *)

ReconcileStart ==
    /\ phase = "off"
    /\ phase' = "loading"
    /\ nonterm' = [c \in Orders |-> IF row[c].exists /\ row[c].state \in NonterminalStates
                                   THEN row[c].state ELSE "none"]
    /\ UNCHANGED <<row, broker, exec, attributed, reserved, known, flags, copy, book, position,
                   todo, recAt, recPending, recImage, recMismatch, faults>>

(* loadOwned; the rows it returns replace those in knownIntents. *)
ReconcileLoadOwned ==
    /\ phase = "loading"
    /\ phase' = "listing"
    /\ copy' = row
    /\ todo' = {c \in Orders : row[c].exists}
    /\ known' = [c \in Orders |-> IF row[c].exists THEN row[c].state ELSE known[c]]
    /\ UNCHANGED <<row, broker, exec, attributed, reserved, flags, nonterm, book, position,
                   recAt, recPending, recImage, recMismatch, faults>>

ReconcileListOrders ==
    /\ phase = "listing"
    /\ phase' = "positions"
    /\ book' = broker
    /\ UNCHANGED <<row, broker, exec, attributed, reserved, known, flags, nonterm, copy, position,
                   todo, recAt, recPending, recImage, recMismatch, faults>>

ReconcileListPositions ==
    /\ phase = "positions"
    /\ phase' = "applying"
    /\ position' = BrokerNet
    /\ UNCHANGED <<row, broker, exec, attributed, reserved, known, flags, nonterm, copy, book,
                   todo, recAt, recPending, recImage, recMismatch, faults>>

(* persistOrder of a listed order, up to the database write. *)
ReconcileCommit(c) ==
    LET p == FromBroker(StateOf(book[c]), book[c].filled) IN
    /\ phase = "applying" /\ recAt = "none"
    /\ c \in todo /\ Listed(book[c])
    /\ row' = [row EXCEPT ![c] = UpdateIntent(@, p, AnyState)]
    /\ recAt' = c
    /\ recPending' = DurableFillDelta(row[c], p, AnyState)
    /\ recImage' = row'[c]
    /\ UNCHANGED <<broker, exec, attributed, reserved, known, flags, phase, nonterm, copy, book,
                   position, todo, recMismatch, faults>>

(* adoptOrder or the write of persistOrder fails: the breaker opens, the pass goes on. *)
ReconcileMatchFails(c) ==
    /\ phase = "applying" /\ recAt = "none"
    /\ c \in todo /\ Listed(book[c])
    /\ faults < MaxFaults
    /\ faults' = faults + 1
    /\ breaker' = TRUE /\ recMismatch' = TRUE
    /\ todo' = todo \ {c}
    /\ UNCHANGED <<row, broker, exec, attributed, reserved, known, uncertain, complete, phase,
                   nonterm, copy, book, position, recAt, recPending, recImage>>

(* Mutant: only execute releases a reservation. *)
ReconcileContinueKeepsReservation ==
    /\ recAt # "none"
    /\ attributed' = attributed + Sign(recAt) * recPending
    /\ known' = [known EXCEPT ![recAt] = recImage.state]
    /\ copy' = [copy EXCEPT ![recAt] = recImage]
    /\ nonterm' = [nonterm EXCEPT ![recAt] = IF recImage.state \in TerminalStates
                                             THEN "none" ELSE recImage.state]
    /\ todo' = todo \ {recAt}
    /\ recAt' = "none" /\ recPending' = 0 /\ recImage' = NoRow
    /\ UNCHANGED <<row, broker, exec, reserved, flags, phase, book, position, recMismatch, faults>>

(* Its continuation. *)
ReconcileContinue ==
    /\ recAt # "none"
    /\ attributed' = attributed + Sign(recAt) * recPending
    /\ known' = [known EXCEPT ![recAt] = recImage.state]
    /\ reserved' = [reserved EXCEPT ![recAt] = IF StateOf(book[recAt]) \in TerminalStates
                                               THEN 0 ELSE @]
    /\ copy' = [copy EXCEPT ![recAt] = recImage]
    /\ nonterm' = [nonterm EXCEPT ![recAt] = IF recImage.state \in TerminalStates
                                             THEN "none" ELSE recImage.state]
    /\ todo' = todo \ {recAt}
    /\ recAt' = "none" /\ recPending' = 0 /\ recImage' = NoRow
    /\ UNCHANGED <<row, broker, exec, flags, phase, book, position, recMismatch, faults>>

(* After the listed ones: a nonterminal intent the broker does not list. *)
ReconcileMissing(c) ==
    /\ phase = "applying" /\ recAt = "none"
    /\ c \in todo /\ \A d \in todo : ~Listed(book[d])
    /\ IF nonterm[c] # "none"
       THEN /\ breaker' = TRUE
            /\ IF nonterm[c] = "CREATED"
               THEN UNCHANGED <<row, nonterm, copy, known>>
               ELSE /\ row' = [row EXCEPT ![c] = UpdateIntent(@,
                                 Patch("RECONCILIATION_REQUIRED", copy[c].bound, FALSE, 0, FALSE), AnyState)]
                    /\ copy' = [copy EXCEPT ![c] = row'[c]]
                    /\ nonterm' = [nonterm EXCEPT ![c] = row'[c].state]
                    /\ known' = [known EXCEPT ![c] = row'[c].state]
       ELSE UNCHANGED <<row, nonterm, copy, known, breaker>>
    /\ todo' = todo \ {c}
    /\ UNCHANGED <<broker, exec, attributed, reserved, uncertain, complete, phase, book,
                   position, recAt, recPending, recImage, recMismatch, faults>>

(* Mutant: only a symbol with a nonterminal intent is rebuilt. *)
ReconcileFinishNonterminalOnly ==
    /\ phase = "applying" /\ todo = {}
    /\ attributed' = IF \A c \in Orders : nonterm[c] = "none" THEN attributed ELSE NetOf(copy)
    /\ LET mismatch == recMismatch \/ attributed' # position
           unlisted == {c \in Orders : nonterm[c] # "none" /\ ~Listed(book[c])}
       IN /\ breaker' = (breaker \/ mismatch)
          /\ uncertain' = (\E c \in Orders : nonterm[c] \in ReconcileStates)
          /\ complete' = (~mismatch /\ unlisted = {} /\ ~uncertain')
    /\ phase' = "off" /\ position' = 0 /\ recMismatch' = FALSE
    /\ nonterm' = [c \in Orders |-> "none"]
    /\ copy' = [c \in Orders |-> NoRow]
    /\ book' = [c \in Orders |-> Unlisted]
    /\ UNCHANGED <<row, broker, exec, reserved, known, todo, recAt, recPending, recImage, faults>>

(* The absolute rebuild from the copies, the position check and the counters. *)
ReconcileFinish ==
    /\ phase = "applying" /\ todo = {}
    /\ attributed' = NetOf(copy)
    /\ LET mismatch == recMismatch \/ attributed' # position
           unlisted == {c \in Orders : nonterm[c] # "none" /\ ~Listed(book[c])}
       IN /\ breaker' = (breaker \/ mismatch)
          /\ uncertain' = (\E c \in Orders : nonterm[c] \in ReconcileStates)
          /\ complete' = (~mismatch /\ unlisted = {} /\ ~uncertain')
    /\ phase' = "off" /\ position' = 0 /\ recMismatch' = FALSE
    /\ nonterm' = [c \in Orders |-> "none"]
    /\ copy' = [c \in Orders |-> NoRow]
    /\ book' = [c \in Orders |-> Unlisted]
    /\ UNCHANGED <<row, broker, exec, reserved, known, todo, recAt, recPending, recImage, faults>>

(* A load, a listing or the quarantine of a missing order fails: the pass is given up and the breaker opens. *)
ReconcileFails ==
    /\ phase # "off" /\ recAt = "none"
    /\ phase = "applying" =>
          \E c \in todo : nonterm[c] \notin {"none", "CREATED"} /\ \A d \in todo : ~Listed(book[d])
    /\ faults < MaxFaults
    /\ faults' = faults + 1
    /\ breaker' = TRUE /\ complete' = FALSE
    /\ phase' = "off" /\ position' = 0 /\ recMismatch' = FALSE /\ todo' = {}
    /\ nonterm' = [c \in Orders |-> "none"]
    /\ copy' = [c \in Orders |-> NoRow]
    /\ book' = [c \in Orders |-> Unlisted]
    /\ UNCHANGED <<row, broker, exec, attributed, reserved, known, uncertain,
                   recAt, recPending, recImage>>

-----------------------------------------------------------------------------
(* The broker (external). *)

BrokerFills(c) ==
    /\ broker[c].status = "working" /\ broker[c].filled < Quantity
    /\ broker' = [broker EXCEPT ![c] =
                    [status |-> IF @.filled + 1 = Quantity THEN "COMPLETE" ELSE "working",
                     filled |-> @.filled + 1]]
    /\ UNCHANGED <<row, exec, attributed, reserved, known, flags, pass, faults>>

BrokerEnds(c) ==
    /\ broker[c].status = "working"
    /\ \E s \in {"CANCELLED", "REJECTED"} :
          /\ s = "REJECTED" => broker[c].filled = 0
          /\ broker' = [broker EXCEPT ![c] = [status |-> s, filled |-> @.filled]]
    /\ UNCHANGED <<row, exec, attributed, reserved, known, flags, pass, faults>>

-----------------------------------------------------------------------------
Execute(c) == Dequeue(c) \/ RefuseQueued(c) \/ Post(c) \/ Commit(c) \/ Continue(c)

Reconcile ==
    \/ ReconcileStart \/ ReconcileLoadOwned \/ ReconcileListOrders \/ ReconcileListPositions
    \/ \E c \in Orders : ReconcileCommit(c) \/ ReconcileMissing(c)
    \/ ReconcileContinue \/ ReconcileFinish

Next ==
    \/ \E c \in Orders : \/ Submit(c) \/ Execute(c) \/ CommitFails(c)
                         \/ BrokerFills(c) \/ BrokerEnds(c)
    \/ Reconcile \/ ReconcileFails \/ \E c \in Orders : ReconcileMatchFails(c)

Spec == Init /\ [][Next]_vars

(* The steps a process has started continue, and the timer keeps starting passes. *)
FairSpec == Spec /\ (\A c \in Orders : WF_vars(Execute(c))) /\ WF_vars(Reconcile)

-----------------------------------------------------------------------------
(* Properties. *)

(* durableFillDelta: whatever the writers hold, and in whatever order their writes     *)
(* and continuations interleave, attribution moves exactly with the journal.  Only     *)
(* the absolute rebuild may change the distance between the two.                       *)
OnlyRebuildMovesDrift == [][Drift' # Drift => phase = "applying" /\ phase' = "off"]_vars

(* "A missed increment is repaired rather than compounded": whatever a pass lost or a  *)
(* failed write left out, attribution ends up equal to the journal and stays so.       *)
DriftIsRepaired == <>[](Drift = 0)

(* No reservation outlives its order: once the broker is done with an order, its       *)
(* quantity is released by the continuation that settles it or, for a quarantined      *)
(* order or one whose write failed, by a later pass.                                   *)
ReservationsDrain ==
    \A c \in Orders : StateOf(broker[c]) \in TerminalStates ~> reserved[c] = 0

(* The three books of a fill stay in step: increments never move them apart, a pass    *)
(* repairs what a lost write moved, and reservations follow the orders (persistOrder,  *)
(* durableFillDelta, performReconcile).                                                *)
AttributionKeepsStep == OnlyRebuildMovesDrift /\ DriftIsRepaired /\ ReservationsDrain

(* What the comments on persistOrder and durableFillDelta say of attribution: over-     *)
(* attribution is the unsafe direction, and the rebuild repairs.  So, with no write in  *)
(* flight, the boundary for reductions is not above what the journal says is held,      *)
(* unless the pass noticed and opened the breaker.                                      *)
BoundaryIsNotInflated == PendingNet = 0 /\ ~breaker => attributed <= JournalNet
=============================================================================
