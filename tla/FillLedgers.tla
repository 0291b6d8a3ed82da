---------------------------- MODULE FillLedgers ----------------------------
(***************************************************************************)
(* The two fill ledgers of one live order: the order-stream projection,    *)
(* and the order manager's own ledger that trips the breaker when a broker *)
(* reports more than was asked for.  Both are CumulativeFillLedgers; both  *)
(* are fed with every snapshot the manager persists, the projection also   *)
(* with the frames of Kite's stream, which wait in a queue that never      *)
(* drops.  Snapshots and frames are late, repeated and out of order, and a *)
(* broker's trade book runs behind the quantity of its order.              *)
(***************************************************************************)
EXTENDS Naturals, Sequences, FiniteSetsExt

CONSTANTS RequestedLots,   \* quantity of the order, in lots
          Excess,          \* bound: lots filled beyond the request
          Frames,          \* frames of the stream published, at most
          QueueThreshold   \* orderEventQueuePressureThreshold

ASSUME FillAssumption == /\ RequestedLots \in Nat \ {0} /\ Excess \in Nat
                         /\ Frames \in Nat /\ QueueThreshold \in Nat

VARIABLES executed,     \* what the broker has filled
          listed,       \* trades its trade book shows
          snapshots,    \* REST reads of the order, not yet or already persisted
          frameQueue,   \* the order_events stage: cumulative quantities of the queued frames
          published,    \* frames published so far
          overloaded,   \* BoundedQueue.overloaded
          pump,         \* the pump: "idle", "scheduled", "draining"
          backlog,      \* the market-data machine's backlog signal
          projection, tripwire,   \* the two ledgers
          tripped,      \* the breaker
          told          \* told[l]: cumulative quantities reported to ledger l

fillVars == <<executed, listed, snapshots, frameQueue, published, overloaded, pump, backlog,
              projection, tripwire, tripped, told>>

queueVars == <<frameQueue, published, overloaded, pump, backlog>>
brokerVars == <<executed, listed>>

EmptyLedger == [cumulative |-> 0, seen |-> {}]

FillInit ==
    /\ executed = 0 /\ listed = 0 /\ snapshots = {}
    /\ frameQueue = <<>> /\ published = 0 /\ overloaded = FALSE /\ pump = "idle" /\ backlog = FALSE
    /\ projection = EmptyLedger /\ tripwire = EmptyLedger
    /\ tripped = FALSE /\ told = [projection |-> {}, tripwire |-> {}]

-----------------------------------------------------------------------------
(* CumulativeFillLedger *)

\* Mutated form: the newest report is the quantity.
LastReportWins(ledger, cumulative, id) ==
    IF id \in ledger.seen THEN ledger
    ELSE [cumulative |-> cumulative, seen |-> ledger.seen \cup {id}]

\* apply: an event seen before says nothing, and only a higher quantity is taken.
apply(ledger, cumulative, id) ==
    IF id \in ledger.seen THEN ledger
    ELSE [cumulative |-> IF cumulative <= ledger.cumulative THEN ledger.cumulative ELSE cumulative,
          seen |-> ledger.seen \cup {id}]

Advances(ledger, cumulative, id) == apply(ledger, cumulative, id).cumulative > ledger.cumulative
overfill(ledger) == ledger.cumulative > RequestedLots

-----------------------------------------------------------------------------
(* The broker *)

OrderFills ==
    /\ executed < RequestedLots + Excess /\ executed' = executed + 1
    /\ UNCHANGED <<listed, snapshots, queueVars, projection, tripwire, tripped, told>>

TradeBookLists ==
    /\ listed < executed /\ listed' = listed + 1
    /\ UNCHANGED <<executed, snapshots, queueVars, projection, tripwire, tripped, told>>

\* A snapshot's fills are the trade book's; with none listed one aggregate fill stands for them.
\* Its last fill is what the manager knows the snapshot by.
lastFill == CASE executed = 0 -> <<"none">>
              [] listed = 0 -> <<"aggregate", executed>>
              [] OTHER -> <<"trade", listed>>

RestReads ==
    /\ snapshots' = snapshots \cup {[cumulative |-> executed, last |-> lastFill]}
    /\ UNCHANGED <<brokerVars, queueVars, projection, tripwire, tripped, told>>

-----------------------------------------------------------------------------
(* The manager persists a snapshot *)

noteStreamBrokerSnapshot(s) == projection' = apply(projection, s.cumulative, <<"rest", s.cumulative>>)

\* Without a fill there is no id, and the quantity alone decides.
checkOverfillTripwire(s) ==
    IF s.last = <<"none">> THEN UNCHANGED <<tripwire, tripped>>
    ELSE LET after == apply(tripwire, s.cumulative, s.last) IN
         /\ tripwire' = after
         /\ tripped' = (tripped \/ (Advances(tripwire, s.cumulative, s.last) /\ overfill(after)))

persistOrder(s) ==
    /\ s \in snapshots
    /\ noteStreamBrokerSnapshot(s)
    /\ checkOverfillTripwire(s)
    /\ told' = [projection |-> told.projection \cup {s.cumulative}, tripwire |-> told.tripwire \cup {s.cumulative}]
    /\ UNCHANGED <<brokerVars, snapshots, queueVars>>

-----------------------------------------------------------------------------
(* The stream's frames and their queue *)

\* BoundedQueue.reassess of a never-drop stage.
reassess(queue) == Len(queue) > QueueThreshold

\* ingestBoxLaneOrderText.  A pump runs in microtasks: no frame arrives while it drains.
ingestBoxLaneOrderText ==
    /\ published < Frames /\ pump \in {"idle", "scheduled"}
    /\ \E cumulative \in 0 .. executed :
          /\ frameQueue' = Append(frameQueue, cumulative)
          /\ published' = published + 1
          /\ overloaded' = reassess(frameQueue')
          /\ backlog' = (backlog \/ (overloaded' /\ ~overloaded))
    /\ pump' = "scheduled"
    /\ UNCHANGED <<brokerVars, snapshots, projection, tripwire, tripped, told>>

PumpStarts ==
    /\ pump = "scheduled" /\ pump' = "draining"
    /\ UNCHANGED <<brokerVars, snapshots, frameQueue, published, overloaded, backlog, projection, tripwire,
                   tripped, told>>

\* drainStage: one frame, its handler, and the await between two frames.
drainStage ==
    /\ pump = "draining" /\ frameQueue # <<>>
    /\ LET cumulative == Head(frameQueue) IN
         /\ projection' = apply(projection, cumulative, <<"stream", cumulative>>)
         /\ told' = [told EXCEPT !.projection = @ \cup {cumulative}]
    /\ frameQueue' = Tail(frameQueue) /\ overloaded' = reassess(Tail(frameQueue))
    /\ UNCHANGED <<brokerVars, snapshots, published, pump, backlog, tripwire, tripped>>

\* The finally of the pump: the backlog signal is lifted once the queue is within its threshold.
PumpEnds ==
    /\ pump = "draining" /\ frameQueue = <<>>
    /\ pump' = "idle" /\ backlog' = (backlog /\ overloaded)
    /\ UNCHANGED <<brokerVars, snapshots, frameQueue, published, overloaded, projection, tripwire, tripped, told>>

FillNext ==
    \/ OrderFills \/ TradeBookLists \/ RestReads
    \/ \E s \in snapshots : persistOrder(s)
    \/ ingestBoxLaneOrderText \/ PumpStarts \/ drainStage \/ PumpEnds

FillSpec == FillInit /\ [][FillNext]_fillVars

-----------------------------------------------------------------------------
(* The projection holds exactly the highest cumulative quantity any        *)
(* snapshot or frame reported, whatever was repeated, late or out of order *)
(* and whichever of the two sources told it first; no frame waits unseen   *)
(* once the pump has ended, and entries are held back while the queue is   *)
(* over its threshold (OrderUpdateProjection, StagePipeline).              *)
HighestReportStands ==
    /\ projection.cumulative = Max({0} \cup told.projection)
    /\ pump = "idle" => frameQueue = <<>> /\ ~backlog
    /\ Len(frameQueue) > QueueThreshold => backlog

(* The two ledgers never disagree about a quantity both were told, and a   *)
(* snapshot that shows more than was asked for trips the breaker           *)
(* (BoxOrderManager.checkOverfillTripwire).                                *)
TripwireAgrees ==
    /\ tripwire.cumulative = Max({0} \cup told.tripwire)
    /\ (\E c \in told.tripwire : c > RequestedLots) => tripped
=============================================================================
