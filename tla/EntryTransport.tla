--------------------------- MODULE EntryTransport ---------------------------
(***************************************************************************)
(* BoxOrderManager's scheduling of broker operations: the priority queue,  *)
(* its base and entry-burst slots, the five checkpoints an ENTRY leg       *)
(* passes, and the transport gate that holds a SELL leg back until every   *)
(* BUY hedge of its attempt has finished its round trip.                   *)
(*                                                                         *)
(* submit and pump are synchronous: the gateway submits the legs of an     *)
(* attempt in one turn, each submit and each finished execution pumps the  *)
(* queue until its head is not admissible, and nothing else runs meanwhile *)
(* (Busy).  Everything in execute between two awaits is one step.  What    *)
(* is persisted, and who wins an identity, is OrderSubmission's subject.   *)
(***************************************************************************)
EXTENDS Integers, Sequences, FiniteSets, FiniteSetsExt

CONSTANTS
    Attempts,    \* entry attempts
    HedgeCount,  \* BUY legs of an attempt, transport ranks below HedgeCount
    SellCount,   \* uncovered SELL legs, the ranks that follow
    Exits,       \* held contracts, each with one exit order at a time
    Base,        \* maxConcurrentExecutions
    Burst,       \* entrySubmitConcurrency
    Quantity,    \* the lot, quantity of every leg and every exit
    MaxGross     \* maxGrossOpenLegQuantity

ASSUME LegCountAssumption == HedgeCount \in Nat \ {0} /\ SellCount \in Nat
ASSUME SlotsAssumption == Base \in Nat \ {0} /\ Burst \in Nat \ {0}
ASSUME LotAssumption == Quantity \in Nat \ {0} /\ MaxGross \in Nat

Ranks == 0..(HedgeCount + SellCount - 1)
Hedges == 0..(HedgeCount - 1)
Legs == Attempts \X Ranks
AttemptOf(l) == l[1]
RankOf(l) == l[2]
IsHedge(l) == RankOf(l) \in Hedges

VARIABLES
    pc,         \* pc[l]: where the leg is
    posted,     \* legs whose POST began (postBegan)
    slot,       \* slot[l]: the scheduling slot it holds
    gate,       \* gate[a]: entryTransportGates, NoGate when there is none
    filled,     \* filled[l]: what the broker filled
    attributed, \* attributed[l]: its share of attributedBoxPositions
    reserved,   \* legs in reservations
    uncertain,  \* legs whose answer proves nothing (unknownOrders)
    exit,       \* exit[x]: where the exit order is
    held,       \* contracts still held
    queue,      \* queued legs, by sequence
    exitQueue,  \* queued exits, by sequence; they precede every leg
    batch,      \* legs the gateway has still to submit in this turn
    pumping,    \* pump is running
    open,       \* controls, breaker, health and feed allow entries
    wanted,     \* attempts whose stillWanted holds
    disposed

broker == <<filled, posted>>
scheduler == <<queue, exitQueue, batch, pumping>>
exposure == <<attributed, reserved, held>>
controls == <<open, wanted, disposed>>

vars == <<pc, broker, slot, gate, exposure, uncertain, exit, scheduler, controls>>

Stages == {"new", "queued", "creating", "claiming", "parked", "pacing", "refusing", "sent", "settled"}

NoGate == [present |-> FALSE, registered |-> {},
           decided |-> [r \in Ranks |-> "none"], covered |-> {}]
Gates == [present : BOOLEAN, registered : SUBSET Ranks,
          decided : [Ranks -> {"none", "posted", "no_post"}], covered : SUBSET Hedges]

(* Types of the state. *)
TypeOK ==
    /\ pc \in [Legs -> Stages]
    /\ posted \subseteq Legs
    /\ slot \in [Legs -> {"none", "base", "entry_burst"}]
    /\ gate \in [Attempts -> Gates]
    /\ filled \in [Legs -> 0..Quantity]
    /\ attributed \in [Legs -> 0..Quantity]
    /\ reserved \subseteq Legs
    /\ uncertain \subseteq Legs
    /\ exit \in [Exits -> {"idle", "queued", "sent"}]
    /\ held \subseteq Exits
    /\ queue \in Seq(Legs)
    /\ exitQueue \in Seq(Exits)
    /\ batch \in Seq(Legs)
    /\ pumping \in BOOLEAN
    /\ open \in BOOLEAN
    /\ wanted \subseteq Attempts
    /\ disposed \in BOOLEAN

Init ==
    /\ pc = [l \in Legs |-> "new"]
    /\ posted = {}
    /\ slot = [l \in Legs |-> "none"]
    /\ gate = [a \in Attempts |-> NoGate]
    /\ filled = [l \in Legs |-> 0]
    /\ attributed = [l \in Legs |-> 0]
    /\ reserved = {}
    /\ uncertain = {}
    /\ exit = [x \in Exits |-> "idle"]
    /\ held = Exits
    /\ queue = <<>> /\ exitQueue = <<>> /\ batch = <<>>
    /\ pumping = FALSE
    /\ open = TRUE
    /\ wanted = Attempts
    /\ disposed = FALSE

-----------------------------------------------------------------------------
(* Admission. *)

Busy == pumping \/ batch # <<>>

Gross == MapThenSumSet(LAMBDA l : attributed[l], Legs) + Quantity * Cardinality(held)
ReservedEntry == Quantity * Cardinality(reserved)

(* withinQuantityLimits of an ENTRY; a leg already reserved counts twice. *)
WithinQuantityLimits == Gross + ReservedEntry + Quantity <= MaxGross

(* canEnter(); an uncertain order keeps unknownOrders above zero. *)
CanEnter == open /\ uncertain = {} /\ ~disposed

InFlight(kind) == {l \in Legs : slot[l] = kind}
ExitsInFlight == {x \in Exits : exit[x] = "sent"}
BaseInFlight == Cardinality(InFlight("base")) + Cardinality(ExitsInFlight)
BurstInFlight == Cardinality(InFlight("entry_burst"))

(* admitBoxOperation: the slots an ENTRY leg, and an exit, may take now. *)
OtherPipeline(l) == \E k \in Legs : slot[k] # "none" /\ AttemptOf(k) # AttemptOf(l)

BurstAdmits ==
    /\ BaseInFlight >= Base /\ Burst > Base
    /\ ExitsInFlight = {}
    /\ BaseInFlight + BurstInFlight < Burst

(* Mutant: the pipeline is checked for burst slots only. *)
AdmittedSlotAnyPipeline(l) == IF BaseInFlight < Base THEN "base"
                              ELSE IF BurstAdmits /\ ~OtherPipeline(l) THEN "entry_burst" ELSE "none"

AdmittedSlot(l) == IF OtherPipeline(l) THEN "none"
                   ELSE IF BaseInFlight < Base THEN "base"
                   ELSE IF BurstAdmits THEN "entry_burst" ELSE "none"

ExitAdmitted == BaseInFlight < Base

(* The composed guard: controls, ownership and admission. *)
GuardPasses(l) == CanEnter /\ AttemptOf(l) \in wanted /\ WithinQuantityLimits

-----------------------------------------------------------------------------
(* The transport gate. *)

HedgesDecided(g) == \A r \in Hedges : g.decided[r] # "none"
Parked(a) == {l \in Legs : AttemptOf(l) = a /\ pc[l] = "parked"}

Register(g, l) == [g EXCEPT !.present = TRUE, !.registered = @ \cup {RankOf(l)}]

(* decideEntryTransportRank: the gate after leg l decided, "proven" when a   *)
(* terminal snapshot shows its full quantity filled.                         *)
Decide(g, l, outcome, proven) ==
    LET r == RankOf(l)
        first == IF g.decided[r] = "none" THEN outcome ELSE g.decided[r]
        evidence == IF IsHedge(l) /\ proven THEN {r} ELSE {}
    IN [present |-> g.present, registered |-> g.registered,
        decided |-> [g.decided EXCEPT ![r] = first], covered |-> g.covered \cup evidence]

AllDecided(g) == \A r \in g.registered : g.decided[r] # "none"

(* Mutant: the rank decides and nobody is woken. *)
DecideRankWithoutWake(l, outcome, proven, g) ==
    /\ gate' = [gate EXCEPT ![AttemptOf(l)] = Decide(g, l, outcome, proven)]
    /\ pc' = [pc EXCEPT ![l] = "settled"]

(* Leg l leaves execute: its rank decides, the legs it unblocks wake, and a  *)
(* gate nobody waits on and everybody decided is dropped.                    *)
DecideRank(l, outcome, proven, g) ==
    LET d == Decide(g, l, outcome, proven)
        woken == IF g.present /\ HedgesDecided(d) THEN Parked(AttemptOf(l)) ELSE {}
        drop == Parked(AttemptOf(l)) \subseteq woken /\ AllDecided(d)
    IN /\ gate' = [gate EXCEPT ![AttemptOf(l)] =
                      IF ~g.present THEN g ELSE IF drop THEN NoGate ELSE d]
       /\ pc' = [k \in Legs |-> IF k = l THEN "settled"
                                ELSE IF k \in woken THEN "pacing" ELSE pc[k]]

(* Mutant: the slot is given back and the queue is not looked at. *)
ReleaseSlotWithoutPump(l) ==
    /\ slot' = [slot EXCEPT ![l] = "none"]
    /\ UNCHANGED pumping

(* The finally of the execution: the slot is given back and the queue pumped. *)
ReleaseSlot(l) ==
    /\ slot' = [slot EXCEPT ![l] = "none"]
    /\ pumping' = ~disposed

(* Mutant: permission from the absence of an undecided hedge. *)
CoverageByDecision(l) ==
    LET g == gate[AttemptOf(l)]
    IN g.present /\ HedgesDecided(g)

(* entryHedgeCoverageGap: every hedge declared itself and is proven filled. *)
CoverageProven(l) ==
    LET g == gate[AttemptOf(l)]
    IN g.present /\ Hedges \subseteq g.registered /\ Hedges \subseteq g.covered

AlreadyExposed(l) == \E r \in Ranks : gate[AttemptOf(l)].decided[r] = "posted"

-----------------------------------------------------------------------------
(* submit. *)

(* executionGateway submits the legs of an attempt in rank order, in one turn. *)
SubmitAttempt(a) ==
    /\ ~Busy
    /\ pc[<<a, 0>>] = "new"
    /\ batch' = [i \in 1..Cardinality(Ranks) |-> <<a, i - 1>>]
    /\ UNCHANGED <<pc, broker, slot, gate, exposure, uncertain, exit,
                   queue, exitQueue, pumping, controls>>

(* Checkpoint 2 and the limits pass: reserved, queued, pumped. *)
AcceptLeg ==
    /\ batch # <<>> /\ ~pumping
    /\ LET l == Head(batch) IN
        /\ GuardPasses(l)
        /\ pc' = [pc EXCEPT ![l] = "queued"]
        /\ gate' = [gate EXCEPT ![AttemptOf(l)] = Register(@, l)]
        /\ reserved' = reserved \cup {l}
        /\ queue' = Append(queue, l)
    /\ batch' = Tail(batch)
    /\ pumping' = ~disposed
    /\ UNCHANGED <<broker, slot, attributed, held, uncertain, exit, exitQueue, controls>>

(* releaseOnReject: the rank decides at once. *)
RejectLeg ==
    /\ batch # <<>> /\ ~pumping
    /\ LET l == Head(batch) IN
        /\ ~GuardPasses(l)
        /\ DecideRank(l, "no_post", FALSE, Register(gate[AttemptOf(l)], l))
    /\ batch' = Tail(batch)
    /\ UNCHANGED <<broker, slot, exposure, uncertain, exit, queue, exitQueue, pumping, controls>>

SubmitExit(x) ==
    /\ ~Busy /\ ~disposed
    /\ exit[x] = "idle" /\ x \in held
    /\ exit' = [exit EXCEPT ![x] = "queued"]
    /\ exitQueue' = Append(exitQueue, x)
    /\ pumping' = TRUE
    /\ UNCHANGED <<pc, broker, slot, gate, exposure, uncertain, queue, batch, controls>>

-----------------------------------------------------------------------------
(* pump: one turn of its loop. *)

PumpExit ==
    /\ pumping /\ exitQueue # <<>> /\ ExitAdmitted
    /\ exit' = [exit EXCEPT ![Head(exitQueue)] = "sent"]
    /\ exitQueue' = Tail(exitQueue)
    /\ UNCHANGED <<pc, broker, slot, gate, exposure, uncertain, queue, batch, pumping, controls>>

(* queuedActionBlockReason; here the leg's own reservation counts once. *)
StillAllowed == CanEnter /\ Gross + ReservedEntry <= MaxGross

PumpLeg ==
    /\ pumping /\ exitQueue = <<>> /\ queue # <<>>
    /\ LET l == Head(queue) IN
        /\ AdmittedSlot(l) # "none"
        /\ StillAllowed
        /\ slot' = [slot EXCEPT ![l] = AdmittedSlot(l)]
        /\ pc' = [pc EXCEPT ![l] = "creating"]
    /\ queue' = Tail(queue)
    /\ UNCHANGED <<broker, gate, exposure, uncertain, exit, exitQueue, batch, pumping, controls>>

(* The head is admitted and blocked: its promise is rejected and its         *)
(* reservation released.  Its rank is not decided.                           *)
PumpBlocked ==
    /\ pumping /\ exitQueue = <<>> /\ queue # <<>>
    /\ LET l == Head(queue) IN
        /\ AdmittedSlot(l) # "none"
        /\ ~StillAllowed
        /\ reserved' = reserved \ {l}
        /\ pc' = [pc EXCEPT ![l] = "settled"]
    /\ queue' = Tail(queue)
    /\ UNCHANGED <<broker, slot, gate, attributed, held, uncertain, exit, exitQueue, batch, pumping, controls>>

(* The loop returns: nothing is queued, or the head cannot be admitted. *)
PumpReturns ==
    /\ pumping
    /\ IF exitQueue # <<>> THEN ~ExitAdmitted
       ELSE queue # <<>> => AdmittedSlot(Head(queue)) = "none"
    /\ pumping' = FALSE
    /\ UNCHANGED <<pc, broker, slot, gate, exposure, uncertain, exit,
                   queue, exitQueue, batch, controls>>

-----------------------------------------------------------------------------
(* execute. *)

Refuse(l) == pc' = [pc EXCEPT ![l] = "refusing"]

(* The CREATED row exists: checkpoint 3, then the SUBMITTING claim. *)
Created(l) ==
    /\ ~Busy /\ pc[l] = "creating"
    /\ \/ /\ GuardPasses(l)
          /\ pc' = [pc EXCEPT ![l] = "claiming"]
       \/ /\ ~GuardPasses(l)
          /\ Refuse(l)
    /\ UNCHANGED <<broker, slot, gate, exposure, uncertain, exit, scheduler, controls>>

(* The identity is claimed: checkpoint 4, then awaitEntryTransportTurn. *)
Claimed(l) ==
    /\ ~Busy /\ pc[l] = "claiming"
    /\ \/ /\ GuardPasses(l)
          /\ LET g == gate[AttemptOf(l)]
                 waits == g.present /\ ~IsHedge(l) /\ ~HedgesDecided(g)
             IN pc' = [pc EXCEPT ![l] = IF waits THEN "parked" ELSE "pacing"]
       \/ /\ ~GuardPasses(l)
          /\ Refuse(l)
    /\ UNCHANGED <<broker, slot, gate, exposure, uncertain, exit, scheduler, controls>>

(* Checkpoint 5, in the adapter's pre-POST callback: the composed guard, and *)
(* the proven coverage of a SELL.                                            *)
BoundaryPasses(l) == GuardPasses(l) /\ (IsHedge(l) \/ CoverageProven(l))

(* Incoherent books or stale economics refuse too, while the attempt took no *)
(* exposure.                                                                 *)
SendBoundary(l) ==
    /\ ~Busy /\ pc[l] = "pacing"
    /\ \/ /\ BoundaryPasses(l)
          /\ pc' = [pc EXCEPT ![l] = "sent"]
          /\ posted' = posted \cup {l}
       \/ /\ ~BoundaryPasses(l) \/ ~AlreadyExposed(l)
          /\ Refuse(l)
          /\ UNCHANGED posted
    /\ UNCHANGED <<filled, slot, gate, exposure, uncertain, exit, scheduler, controls>>

(* The refusal is durable. *)
RefusalPersisted(l) ==
    /\ ~Busy /\ pc[l] = "refusing"
    /\ DecideRank(l, "no_post", FALSE, gate[AttemptOf(l)])
    /\ reserved' = reserved \ {l}
    /\ ReleaseSlot(l)
    /\ UNCHANGED <<broker, attributed, held, uncertain, exit, queue, exitQueue, batch, controls>>

(* A durable write before the POST failed: health.persistence is unhealthy. *)
StoreFails(l) ==
    /\ ~Busy /\ pc[l] \in {"creating", "claiming", "refusing"}
    /\ DecideRank(l, "no_post", FALSE, gate[AttemptOf(l)])
    /\ reserved' = reserved \ {l}
    /\ open' = FALSE
    /\ ReleaseSlot(l)
    /\ UNCHANGED <<broker, attributed, held, uncertain, exit, queue, exitQueue, batch, wanted, disposed>>

(* The adapter returned a terminal snapshot; persistOrder attributed it. *)
Answer(l) ==
    /\ ~Busy /\ pc[l] = "sent"
    /\ DecideRank(l, "posted", filled[l] >= Quantity, gate[AttemptOf(l)])
    /\ attributed' = [attributed EXCEPT ![l] = filled[l]]
    /\ reserved' = reserved \ {l}
    /\ ReleaseSlot(l)
    /\ UNCHANGED <<broker, held, uncertain, exit, queue, exitQueue, batch, controls>>

(* The answer is terminal and its write fails: it proves nothing. *)
PersistFails(l) ==
    /\ ~Busy /\ pc[l] = "sent"
    /\ DecideRank(l, "posted", FALSE, gate[AttemptOf(l)])
    /\ reserved' = reserved \ {l}
    /\ open' = FALSE
    /\ ReleaseSlot(l)
    /\ UNCHANGED <<broker, attributed, held, uncertain, exit, queue, exitQueue, batch, wanted, disposed>>

(* The answer is ambiguous: no coverage, the reservation stays. *)
AnswerUncertain(l) ==
    /\ ~Busy /\ pc[l] = "sent"
    /\ DecideRank(l, "posted", FALSE, gate[AttemptOf(l)])
    /\ uncertain' = uncertain \cup {l}
    /\ ReleaseSlot(l)
    /\ UNCHANGED <<broker, exposure, exit, queue, exitQueue, batch, controls>>

ExitEnds(x, done) ==
    /\ ~Busy /\ exit[x] = "sent"
    /\ exit' = [exit EXCEPT ![x] = "idle"]
    /\ held' = IF done THEN held \ {x} ELSE held
    /\ pumping' = ~disposed
    /\ UNCHANGED <<pc, broker, slot, gate, attributed, reserved, uncertain,
                   queue, exitQueue, batch, controls>>

-----------------------------------------------------------------------------
(* The surroundings. *)

BrokerFills(l) ==
    /\ ~Busy
    /\ pc[l] = "sent" \/ l \in uncertain
    /\ filled[l] < Quantity
    /\ filled' = [filled EXCEPT ![l] = @ + 1]
    /\ UNCHANGED <<pc, posted, slot, gate, exposure, uncertain, exit, scheduler, controls>>

(* Mutant: every pass adds the cumulative fill instead of setting it. *)
AttributeAgain(l) ==
    /\ ~Busy /\ l \in posted
    /\ attributed' = [attributed EXCEPT ![l] = @ + filled[l]]
    /\ UNCHANGED <<pc, broker, slot, gate, reserved, held, uncertain, exit, scheduler, controls>>

(* A reconciliation pass attributes what a POSTed leg has filled. *)
Attribute(l) ==
    /\ ~Busy /\ l \in posted /\ attributed[l] # filled[l]
    /\ attributed' = [attributed EXCEPT ![l] = filled[l]]
    /\ UNCHANGED <<pc, broker, slot, gate, reserved, held, uncertain, exit, scheduler, controls>>

(* A pass resolves every uncertain order and releases its reservation. *)
Reconcile ==
    /\ ~Busy /\ uncertain # {}
    /\ attributed' = [l \in Legs |-> IF l \in uncertain THEN filled[l] ELSE attributed[l]]
    /\ reserved' = reserved \ uncertain
    /\ uncertain' = {}
    /\ UNCHANGED <<pc, broker, slot, gate, held, exit, scheduler, controls>>

(* Disarming, a tripped breaker or a lost feed; and their recovery. *)
SetOpen(value) ==
    /\ ~Busy /\ ~disposed /\ open # value
    /\ open' = value
    /\ UNCHANGED <<pc, broker, slot, gate, exposure, uncertain, exit, scheduler, wanted, disposed>>

(* The scanner withdraws the candidate, or its lease is lost. *)
Withdraw(a) ==
    /\ ~Busy /\ a \in wanted
    /\ wanted' = wanted \ {a}
    /\ UNCHANGED <<pc, broker, slot, gate, exposure, uncertain, exit, scheduler, open, disposed>>

(* dispose: parked legs wake, the gates go, the queue is rejected. *)
Dispose ==
    /\ ~Busy /\ ~disposed
    /\ disposed' = TRUE
    /\ pc' = [l \in Legs |-> IF pc[l] = "parked" THEN "pacing"
                             ELSE IF pc[l] = "queued" THEN "settled" ELSE pc[l]]
    /\ gate' = [a \in Attempts |-> NoGate]
    /\ reserved' = {l \in reserved : pc[l] # "queued"}
    /\ exit' = [x \in Exits |-> IF exit[x] = "queued" THEN "idle" ELSE exit[x]]
    /\ queue' = <<>> /\ exitQueue' = <<>>
    /\ UNCHANGED <<broker, slot, attributed, held, uncertain, batch, pumping, open, wanted>>

-----------------------------------------------------------------------------
Pump == PumpExit \/ PumpLeg \/ PumpBlocked \/ PumpReturns
Turn == AcceptLeg \/ RejectLeg \/ Pump
Execute(l) == Created(l) \/ Claimed(l) \/ SendBoundary(l) \/ RefusalPersisted(l)
              \/ StoreFails(l) \/ Answer(l) \/ PersistFails(l) \/ AnswerUncertain(l)
ExitRuns(x) == \E done \in BOOLEAN : ExitEnds(x, done)
World == \/ \E l \in Legs : BrokerFills(l) \/ Attribute(l)
         \/ Reconcile \/ Dispose
         \/ \E value \in BOOLEAN : SetOpen(value)
         \/ \E a \in Attempts : Withdraw(a)

Next == \/ Turn
        \/ \E a \in Attempts : SubmitAttempt(a)
        \/ \E x \in Exits : SubmitExit(x) \/ ExitRuns(x)
        \/ \E l \in Legs : Execute(l)
        \/ World

Spec == Init /\ [][Next]_vars

(* A synchronous turn runs to its end, every durable write and every adapter *)
(* call returns or throws: the adapter bounds its HTTP call and its polling  *)
(* by timeouts.                                                              *)
FairSpec == /\ Spec
            /\ WF_vars(Turn)
            /\ \A l \in Legs : WF_vars(Execute(l))
            /\ \A x \in Exits : WF_vars(ExitRuns(x))
-----------------------------------------------------------------------------
(* A POSTed SELL leg has all its BUY hedges filled in full at the broker:    *)
(* whatever is queued, parked, refused or answered in which order, the       *)
(* uncovered leg never wins the race (awaitEntryTransportTurn and            *)
(* entryHedgeCoverageGap).                                                   *)
HedgedBeforeSell ==
    \A l \in posted : ~IsHedge(l) =>
        \A r \in Hedges : filled[<<AttemptOf(l), r>>] >= Quantity

(* No wake-up is lost: a parked SELL has a gate, and a hedge of its attempt  *)
(* that has not decided (wakeEntryTransportWaiters and the gate's removal).  *)
ParkedForAReason ==
    \A l \in Legs : pc[l] = "parked" =>
        gate[AttemptOf(l)].present /\ ~HedgesDecided(gate[AttemptOf(l)])

(* Between turns nothing waits that could run: a queued exit waits only for  *)
(* a base slot, which entry-burst slots never take, and a queued leg waits   *)
(* only behind work in flight (pump after every submit and release).         *)
PumpIsExhausted ==
    ~Busy => /\ exitQueue # <<>> => BaseInFlight = Base
             /\ queue # <<>> => BaseInFlight + BurstInFlight > 0

(* Two Box pipelines never overlap, and they hold no more slots than the     *)
(* policy grants (admitBoxOperation with occupySlot and releaseSlot).        *)
OnePipelineWithinSlots ==
    /\ \A k, l \in Legs : slot[k] # "none" /\ slot[l] # "none" => AttemptOf(k) = AttemptOf(l)
    /\ BaseInFlight <= Base
    /\ BurstInFlight > 0 => Cardinality({l \in Legs : slot[l] # "none"}) <= Burst

(* The pump admits neither too little nor too much: nothing admissible is    *)
(* left waiting, no second pipeline starts and no slot is overspent.         *)
PumpIsExact == PumpIsExhausted /\ OnePipelineWithinSlots

(* A hedge that was refused at the head of the queue left without deciding.  *)
Stranded(a) == /\ gate[a].present
               /\ \E r \in Hedges : pc[<<a, r>>] = "settled" /\ gate[a].decided[r] = "none"

(* A leg parked on the hedge-first barrier always leaves it, and a queued    *)
(* exit always gets its turn, unless a hedge was stranded: no refusal,       *)
(* failed write, ambiguous answer or disposal keeps a slot for ever.         *)
SlotsComeBack ==
    /\ \A l \in Legs : pc[l] = "parked" ~> pc[l] # "parked" \/ Stranded(AttemptOf(l))
    /\ \A x \in Exits : exit[x] = "queued" ~> exit[x] # "queued" \/ \E a \in Attempts : Stranded(a)

(* "Every rank that is admitted releases in a finally, every rank rejected   *)
(* before enqueue releases immediately, and dispose releases the rest": a    *)
(* parked SELL waits for a hedge that is still on its way, never for one     *)
(* that has left the manager without deciding.                               *)
ParkedBehindLiveHedge ==
    \A l \in Legs : pc[l] = "parked" =>
        \E r \in Hedges : /\ gate[AttemptOf(l)].decided[r] = "none"
                          /\ pc[<<AttemptOf(l), r>>] # "settled"

(* "Refusing a leg after siblings have POSTed would manufacture a partial     *)
(* entry": while the controls are open, nothing is uncertain and its hedges   *)
(* are proven, a leg of a wanted attempt is not refused once a leg of that    *)
(* attempt has POSTed (evaluateEntryGuard).                                   *)
EntryNeverSplits ==
    [][\A l \in Legs :
          /\ pc[l] # "refusing" /\ pc'[l] = "refusing"
          /\ CanEnter /\ AttemptOf(l) \in wanted
          /\ IsHedge(l) \/ ~gate[AttemptOf(l)].present \/ CoverageProven(l)
          => \A r \in Ranks : <<AttemptOf(l), r>> \notin posted]_vars
=============================================================================
