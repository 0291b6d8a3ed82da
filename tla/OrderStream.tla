---------------------------- MODULE OrderStream ----------------------------
(***************************************************************************)
(* The order-update stream of the live account: the lifecycle machine      *)
(* (OrderStreamStateMachine, box/streamHealthPolicy.ts) and the projection *)
(* (box/orderUpdateProjection.ts) that box/orderStreamConsumer.ts drives,  *)
(* Dhan's order socket (brokers/dhan/orderFeed.ts) under it, and the REST  *)
(* sweeps that must prove the account synchronized before an entry may use *)
(* it.  Events of the broker arrive late, twice, out of order or never.    *)
(***************************************************************************)
EXTENDS Naturals, FiniteSets

CONSTANTS
  StreamOrders,       \* orders this process registers
  StreamQuantity,      \* their requested quantity
  MaxConnects,        \* bound: connections made
  MaxStreamFaults     \* bound: failed sweeps and REST reads, unreadable quantities

ASSUME StreamAssumption ==
  StreamQuantity \in Nat \ {0} /\ MaxConnects \in Nat /\ MaxStreamFaults \in Nat

VARIABLES
  lifecycle, streamGen, everConnected, machineOwed,  \* OrderStreamStateMachine
  projected, projectionOwed,    \* the projection's published state and its own debt
  orderSocket,                  \* Dhan's order socket: "none", "connecting", "open"
  orderTimer,                   \* its reconnect timer
  orderToken,                   \* is there a usable access token
  sweeps,                       \* generations of the sweeps in flight
  sweepBackoff,                 \* the next sweep must wait
  quiet,                        \* the expected-idle bound passed since the last event
  orderTruth,                        \* orderTruth[o]: the broker's order, [filled, label]
  sent,                         \* every event the broker ever published
  fillLedger,                   \* fillLedger[o]: cumulative quantity, and the event ids seen
  merged,                       \* merged[o]: what the adapter holds for o
  forwarded,                    \* forwarded[o]: label and terminal mark of the last forward
  workingOrders, pendingReconciliations,
  connects, streamFaults,       \* bounds
  synced                        \* history: generations a synchronized sweep began and ended in

machineVars == <<lifecycle, streamGen, everConnected, machineOwed>>
projectionVars == <<projected, projectionOwed>>
transportVars == <<orderSocket, orderTimer, orderToken, connects>>
sweepVars == <<sweeps, sweepBackoff, synced>>
orderVars == <<orderTruth, sent, fillLedger, merged, forwarded, workingOrders, pendingReconciliations>>
streamVars == <<machineVars, projectionVars, transportVars, sweepVars, orderVars, quiet,
                streamFaults>>

Labels == {"OPEN", "COMPLETE", "CANCELLED"}
Unregistered == [filled |-> 0, label |-> "none"]

\* Event ids, where the broker publishes one: the same event delivered again has the same id.
StreamEvent == [order : StreamOrders, filled : 0..StreamQuantity, label : Labels]

StreamInit ==
  /\ lifecycle = "DISCONNECTED" /\ streamGen = 0 /\ everConnected = FALSE /\ machineOwed = FALSE
  /\ projected = "DOWN" /\ projectionOwed = FALSE
  /\ orderSocket = "none" /\ orderTimer = FALSE /\ orderToken = TRUE /\ connects = 0
  /\ sweeps = {} /\ sweepBackoff = FALSE /\ synced = {}
  /\ quiet = FALSE /\ streamFaults = 0
  /\ orderTruth = [o \in StreamOrders |-> Unregistered] /\ sent = {}
  /\ fillLedger = [o \in StreamOrders |-> [cumulative |-> 0, ids |-> {}]]
  /\ merged = [o \in StreamOrders |-> Unregistered]
  /\ forwarded = [o \in StreamOrders |-> [label |-> "none", terminal |-> FALSE]]
  /\ workingOrders = {} /\ pendingReconciliations = {}

-----------------------------------------------------------------------------
(* The lifecycle machine and the projection *)

isEstablished == lifecycle \in {"RECONCILING", "READY", "DEGRADED"}

reconcilePending == machineOwed \/ projectionOwed

orderStreamPermissions(state) ==
  [newEntry            |-> state \in {"DISABLED", "READY"},
   manageWorkingOrders |-> state # "AUTH_EXPIRED",
   protectiveCancel    |-> TRUE,
   exitAndReduce       |-> state # "AUTH_EXPIRED"]

\* onConnecting: the machine ignores it on an established stream, the projection does not.
StreamConnecting ==
  /\ lifecycle' = IF isEstablished THEN lifecycle ELSE "CONNECTING"
  /\ projected' = "CONNECTING"

\* onSocketOpen and onAuthenticated, with the sweep they ask for.  Only a new generation
\* clears the backoff; no sweep of its own can be in flight yet.
StreamAuthenticated ==
  /\ ~isEstablished
  /\ lifecycle' = "RECONCILING" /\ streamGen' = streamGen + 1
  /\ everConnected' = TRUE /\ machineOwed' = TRUE
  /\ projected' = IF everConnected THEN "RECONNECTED_PENDING_RECONCILE" ELSE "LIVE"
  /\ projectionOwed' = (projectionOwed \/ everConnected)
  /\ sweeps' = sweeps \cup {streamGen + 1} /\ sweepBackoff' = FALSE
  /\ quiet' = FALSE
  /\ UNCHANGED synced

onStreamDisconnected ==
  /\ projected' = "DOWN" /\ projectionOwed' = TRUE
  /\ IF lifecycle = "AUTH_EXPIRED" THEN UNCHANGED machineVars
     ELSE /\ lifecycle' = "DISCONNECTED" /\ streamGen' = streamGen + 1 /\ machineOwed' = TRUE
          /\ UNCHANGED everConnected

\* onDisconnected, then onSessionLost: two generations, and the session verdict wins.
onStreamSessionLost ==
  /\ lifecycle' = "AUTH_EXPIRED" /\ machineOwed' = TRUE
  /\ streamGen' = streamGen + (IF lifecycle = "AUTH_EXPIRED" THEN 1 ELSE 2)
  /\ projected' = "AUTH_EXPIRED" /\ projectionOwed' = TRUE
  /\ UNCHANGED everConnected

-----------------------------------------------------------------------------
(* Dhan's order socket *)

OrderSocketConnects ==
  /\ orderSocket = "none" /\ orderToken /\ connects < MaxConnects
  /\ connects = 0 \/ orderTimer
  /\ orderSocket' = "connecting" /\ orderTimer' = FALSE /\ connects' = connects + 1
  /\ StreamConnecting
  /\ UNCHANGED <<streamGen, everConnected, machineOwed, projectionOwed, orderToken, sweepVars,
                 orderVars, quiet, streamFaults>>

\* onopen: the login is submitted, not acknowledged, and the sweep starts.
OrderSocketOpens ==
  /\ orderSocket = "connecting"
  /\ orderSocket' = "open"
  /\ StreamAuthenticated
  /\ UNCHANGED <<orderTimer, orderToken, connects, orderVars, streamFaults>>

OrderSocketCloses(auth) ==
  /\ orderSocket # "none"
  /\ orderSocket' = "none"
  /\ IF auth THEN onStreamSessionLost /\ orderToken' = FALSE /\ UNCHANGED orderTimer
     ELSE onStreamDisconnected /\ orderTimer' = TRUE /\ UNCHANGED orderToken
  /\ UNCHANGED <<connects, sweepVars, orderVars, quiet, streamFaults>>

-----------------------------------------------------------------------------
(* Sweeps: manager.reconcile() over REST, single-flight per generation *)

\* Every known order's snapshot goes through the same ledger, adapter and working set.
RestSnapshots ==
  LET known == {o \in StreamOrders : merged[o].label # "none"}
      done == {o \in known : orderTruth[o].label # "OPEN"}
  IN /\ fillLedger' = [o \in StreamOrders |->
                         [fillLedger[o] EXCEPT !.cumulative =
                            IF o \in known /\ orderTruth[o].filled > @ THEN orderTruth[o].filled ELSE @]]
     /\ merged' = [o \in StreamOrders |-> IF o \in known THEN orderTruth[o] ELSE merged[o]]
     /\ forwarded' = [o \in StreamOrders |->
                        IF o \in known
                        THEN [label |-> orderTruth[o].label,
                              terminal |-> forwarded[o].terminal \/ o \in done]
                        ELSE forwarded[o]]
     /\ workingOrders' = workingOrders \ done
     /\ pendingReconciliations' = pendingReconciliations \ known

\* A bug: whatever generation the sweep began in, its result stands for the connection.
SweepEndsForAny(g, ok) ==
  /\ g \in sweeps /\ sweeps' = sweeps \ {g}
  /\ (ok \/ streamFaults < MaxStreamFaults)
  /\ streamFaults' = streamFaults + (IF ok THEN 0 ELSE 1)
  /\ IF ok THEN RestSnapshots ELSE UNCHANGED <<fillLedger, merged, forwarded, workingOrders,
                                               pendingReconciliations>>
  /\ IF ok /\ lifecycle # "DISABLED"
     THEN /\ machineOwed' = FALSE /\ projectionOwed' = FALSE /\ sweepBackoff' = FALSE
          /\ lifecycle' = IF isEstablished THEN "READY" ELSE lifecycle
          /\ projected' = IF orderSocket = "open" THEN "LIVE" ELSE projected
          /\ synced' = IF g = streamGen THEN synced \cup {g} ELSE synced
     ELSE UNCHANGED <<machineOwed, projectionOwed, sweepBackoff, lifecycle, projected, synced>>
  /\ UNCHANGED <<streamGen, everConnected, transportVars, orderTruth, sent, quiet>>

\* executeSweep after its await.  A sweep that failed, or found the account inconsistent, arms
\* the backoff of its own generation; a synchronized one counts for its own generation only.
SweepEnds(g, ok) ==
  /\ g \in sweeps /\ sweeps' = sweeps \ {g}
  /\ (ok \/ streamFaults < MaxStreamFaults)
  /\ streamFaults' = streamFaults + (IF ok THEN 0 ELSE 1)
  /\ IF ok THEN RestSnapshots ELSE UNCHANGED <<fillLedger, merged, forwarded, workingOrders,
                                               pendingReconciliations>>
  /\ IF ok /\ g = streamGen
     THEN /\ machineOwed' = FALSE /\ projectionOwed' = FALSE /\ sweepBackoff' = FALSE
          /\ lifecycle' = IF isEstablished THEN "READY" ELSE lifecycle
          /\ projected' = IF orderSocket = "open" THEN "LIVE" ELSE projected
          /\ synced' = synced \cup {g}
     ELSE /\ sweepBackoff' = (sweepBackoff \/ g = streamGen)
          /\ UNCHANGED <<machineOwed, projectionOwed, lifecycle, projected, synced>>
  /\ UNCHANGED <<streamGen, everConnected, transportVars, orderTruth, sent, quiet>>

\* ensureReconciled, from every read of the stream's state: an owed sweep is started unless
\* one of this generation runs or the backoff holds.
ensureReconciled ==
  /\ reconcilePending /\ isEstablished /\ streamGen \notin sweeps /\ ~sweepBackoff
  /\ sweeps' = sweeps \cup {streamGen}
  /\ UNCHANGED <<machineVars, projectionVars, transportVars, sweepBackoff, synced, orderVars,
                 quiet, streamFaults>>

BackoffEnds ==
  /\ sweepBackoff /\ sweepBackoff' = FALSE
  /\ UNCHANGED <<machineVars, projectionVars, transportVars, sweeps, synced, orderVars, quiet,
                 streamFaults>>

\* evaluateIdle, from the same reads: silence matters only while an order works.
evaluateIdle ==
  /\ quiet /\ workingOrders # {} /\ lifecycle \in {"READY", "RECONCILING"}
  /\ lifecycle' = "DEGRADED"
  /\ projected' = IF projected \in {"LIVE", "RECONNECTED_PENDING_RECONCILE"}
                  THEN "DEGRADED" ELSE projected
  /\ UNCHANGED <<streamGen, everConnected, machineOwed, projectionOwed, transportVars,
                 sweepVars, orderVars, quiet, streamFaults>>

IdleBoundPasses ==
  /\ ~quiet /\ isEstablished /\ quiet' = TRUE
  /\ UNCHANGED <<machineVars, projectionVars, transportVars, sweepVars, orderVars, streamFaults>>

-----------------------------------------------------------------------------
(* Orders and their events *)

\* The manager registers the intent before its POST; the adapter knows it from then on.
registerIntent(o) ==
  /\ orderTruth[o].label = "none"
  /\ orderTruth' = [orderTruth EXCEPT ![o] = [filled |-> 0, label |-> "OPEN"]]
  /\ merged' = [merged EXCEPT ![o] = [filled |-> 0, label |-> "OPEN"]]
  /\ workingOrders' = workingOrders \cup {o}
  /\ sent' = sent \cup {[order |-> o, filled |-> 0, label |-> "OPEN"]}
  /\ UNCHANGED <<machineVars, projectionVars, transportVars, sweepVars, fillLedger, forwarded,
                 pendingReconciliations, quiet, streamFaults>>

\* The broker fills more of the order, or ends it, and publishes an event.
BrokerMoves(o) ==
  /\ orderTruth[o].label = "OPEN"
  /\ \E filled \in orderTruth[o].filled..StreamQuantity, label \in Labels :
       /\ filled = StreamQuantity <=> label = "COMPLETE"
       /\ label = "OPEN" => filled > orderTruth[o].filled
       /\ orderTruth' = [orderTruth EXCEPT ![o] = [filled |-> filled, label |-> label]]
       /\ sent' = sent \cup {[order |-> o, filled |-> filled, label |-> label]}
  /\ UNCHANGED <<machineVars, projectionVars, transportVars, sweepVars, fillLedger, merged,
                 forwarded, workingOrders, pendingReconciliations, quiet, streamFaults>>

\* A bug: an ending is believed without the quantity it ended at.
AdapterTrustsTheLabel(o, e, absent) ==
  [filled |-> IF ~absent /\ e.filled > merged[o].filled THEN e.filled ELSE merged[o].filled,
   label |-> IF merged[o].label # "OPEN" THEN merged[o].label ELSE e.label]

\* applyOrderUpdate of the adapter: the quantity never falls, a terminal state stays, and an
\* ending without a quantity is no evidence.
applyToAdapter(o, e, absent) ==
  LET known == merged[o]
      filled == IF ~absent /\ e.filled > known.filled THEN e.filled ELSE known.filled
      sufficient == ~absent \/ e.label = "OPEN"
      label == IF known.label # "OPEN" \/ ~sufficient THEN known.label ELSE e.label
  IN [filled |-> filled, label |-> label]

\* One event of the stream, at any time after it was published, any number of times; `absent`
\* when its quantity cannot be read.  The ledger takes a cumulative quantity that is higher
\* than what it has; a repeated id is dropped there.  Whatever says something new goes to the
\* adapter, and a contradiction or an absent quantity asks for a REST read.
ingestStreamObservation(e, absent) ==
  LET o == e.order
      ledger == fillLedger[o]
      repeated == ~absent /\ e \in ledger.ids
      advanced == ~absent /\ ~repeated /\ e.filled > ledger.cumulative
      statusChanged == e.label # forwarded[o].label
      contradicts == ~absent /\ forwarded[o].terminal /\ statusChanged
      forwards == absent \/ (~repeated /\ (advanced \/ statusChanged))
      after == IF forwards THEN applyToAdapter(o, e, absent) ELSE merged[o]
      settles == forwards /\ after.label # "OPEN"
      full == ~absent /\ StreamQuantity \in {e.filled, ledger.cumulative}
  IN /\ e \in sent /\ orderSocket = "open"
     /\ absent => streamFaults < MaxStreamFaults
     /\ streamFaults' = streamFaults + (IF absent THEN 1 ELSE 0)
     /\ quiet' = FALSE
     /\ fillLedger' = [fillLedger EXCEPT
          ![o] = [cumulative |-> IF advanced THEN e.filled ELSE @.cumulative,
                  ids |-> IF absent THEN @.ids ELSE @.ids \cup {e}]]
     /\ merged' = [merged EXCEPT ![o] = after]
     /\ forwarded' = IF forwards
                     THEN [forwarded EXCEPT ![o] = [label |-> e.label,
                                                    terminal |-> @.terminal \/ settles]]
                     ELSE forwarded
     /\ workingOrders' = IF settles \/ full THEN workingOrders \ {o} ELSE workingOrders
     /\ pendingReconciliations' = IF absent \/ contradicts THEN pendingReconciliations \cup {o}
                                  ELSE pendingReconciliations
     /\ UNCHANGED <<machineVars, projectionVars, transportVars, sweepVars, orderTruth, sent>>

\* restReconcile of a scheduled order: a whole manager.reconcile(), which never promotes the
\* stream.  When it fails the mark stays, so nothing schedules another.
RestReconciles ==
  /\ pendingReconciliations # {}
  /\ RestSnapshots
  /\ UNCHANGED <<machineVars, projectionVars, transportVars, sweepVars, orderTruth, sent, quiet,
                 streamFaults>>

StreamNext ==
  \/ OrderSocketConnects \/ OrderSocketOpens \/ (\E auth \in BOOLEAN : OrderSocketCloses(auth))
  \/ (\E g \in sweeps, ok \in BOOLEAN : SweepEnds(g, ok))
  \/ ensureReconciled \/ BackoffEnds \/ evaluateIdle \/ IdleBoundPasses
  \/ (\E o \in StreamOrders : registerIntent(o) \/ BrokerMoves(o))
  \/ (\E e \in sent, absent \in BOOLEAN : ingestStreamObservation(e, absent))
  \/ RestReconciles

\* Sockets made open, answers of REST come, timers fire and the stream's state is read.
StreamSpec ==
  /\ StreamInit /\ [][StreamNext]_streamVars
  /\ WF_streamVars(OrderSocketOpens) /\ WF_streamVars(OrderSocketConnects)
  /\ WF_streamVars(\E g \in sweeps, ok \in BOOLEAN : SweepEnds(g, ok))
  /\ WF_streamVars(ensureReconciled) /\ WF_streamVars(BackoffEnds)

-----------------------------------------------------------------------------
(* Properties *)

StreamTypeOK ==
  /\ lifecycle \in {"DISCONNECTED", "CONNECTING", "RECONCILING", "READY", "DEGRADED",
                    "AUTH_EXPIRED"}
  /\ projected \in {"DOWN", "CONNECTING", "LIVE", "RECONNECTED_PENDING_RECONCILE", "DEGRADED",
                    "AUTH_EXPIRED"}
  /\ streamGen \in Nat /\ sweeps \subseteq 0..streamGen /\ synced \subseteq 0..streamGen
  /\ sent \subseteq StreamEvent /\ workingOrders \subseteq StreamOrders

\* New entries are permitted only on a connection whose own sweep, begun and ended in it,
\* found the account synchronized: no late answer of an earlier connection's sweep can open
\* the gate (orderStreamConsumer.executeSweep, markSynchronized).
ReadyIsReconciled ==
  orderStreamPermissions(lifecycle).newEntry => orderSocket = "open" /\ streamGen \in synced

\* What the adapter believes ended did end, with the quantity the broker gives it, whatever
\* order, repetition or gap the events had; and an order that still works is watched for
\* silence.
EndsAreProven ==
  \A o \in StreamOrders :
    /\ merged[o].label \in {"COMPLETE", "CANCELLED"} => merged[o] = orderTruth[o]
    /\ orderTruth[o].label = "OPEN" => o \in workingOrders

\* What the engine acts on is proven by the broker: the permission to enter by a sweep of
\* the connection in use, and the end of an order by that order.
StreamIsProven == ReadyIsReconciled /\ EndsAreProven

\* A connected stream keeps coming back to READY: nothing leaves it refusing entries with no
\* path back.
StreamComesBack == <>[](orderSocket = "open") => []<>(lifecycle = "READY")
=============================================================================
