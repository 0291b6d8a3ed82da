------------------------------ MODULE RiskGate ------------------------------
(***************************************************************************)
(* The gate every live ENTRY passes in BoxOrderManager: the operator's     *)
(* controls, the sticky circuit breaker, the counters the limits are       *)
(* tested against, the roll to a new trading day with the daily-risk seed  *)
(* that is loaded again for it, the reconciliation that gives the final    *)
(* permission, and the engine that pushes positions, residual legs and     *)
(* realised P&L into the manager.                                          *)
(*                                                                         *)
(* A loss is counted in units, and one unit is what one losing close or    *)
(* one aborted entry realises.  Rejects and consecutive failures trip the  *)
(* breaker the same way (noteFailure).  Neither the breaker nor            *)
(* recoveryActive is ever cleared by the process that set it.              *)
(*                                                                         *)
(* The last part is the verdict the engine publishes to the dashboard and  *)
(* to the operator endpoint (operationalReadiness).                        *)
(***************************************************************************)
EXTENDS Integers, FiniteSets
LOCAL INSTANCE FiniteSetsExt

CONSTANTS
    LastRiskDay,    \* bound: the last trading day of the run
    LossLimit,      \* liveDailyLossLimit, in loss units
    MaxOpenBoxes,   \* liveMaxOpenBoxes
    MaxRiskLoads,   \* bound: daily-risk loads started
    MaxLosses,      \* bound: loss units realised in the whole run
    MaxToggles,     \* bound: operator control changes
    MaxGateFaults   \* bound: incidents, failed reconciliations and failed loads

ASSUME RiskGateAssumption ==
    /\ {LastRiskDay, LossLimit, MaxOpenBoxes} \subseteq Nat \ {0}
    /\ {MaxRiskLoads, MaxLosses, MaxToggles, MaxGateFaults} \subseteq Nat

VARIABLES
    calendar,   \* the IST day of the clock
    gate,       \* the manager's own fields
    loads,      \* loader promises that have not settled
    sweeping,   \* reconcilePromise # null
    positions,  \* boxes the engine holds open
    entering,   \* an admitted entry is between canEnter and its end
    losses,     \* durable loss units of each day
    unbooked,   \* a loss is durable and recordRealisedPnl is not called yet
    seeded,     \* history: the most an installed seed has proved, per day
    toggles, gateFaults

riskVars == <<calendar, gate, loads, sweeping, positions, entering, losses,
              unbooked, seeded, toggles, gateFaults>>

RiskDays == 1..LastRiskDay

\* A loader's promise whose queries have not run yet.
Unread == -1

\* The counted amounts stop at the durable ones and at the loads' doubles.
RiskTypeOK ==
    /\ calendar \in RiskDays
    /\ gate \in [day : RiskDays, entry : BOOLEAN, orders : BOOLEAN,
                 breaker : BOOLEAN, recovery : BOOLEAN, healthy : BOOLEAN,
                 seed : {"unknown", "seeding", "failed", "healthy"},
                 reconciled : BOOLEAN, active : 0..MaxRiskLoads,
                 generation : 0..MaxRiskLoads, counted : Nat,
                 boxes : 0..(MaxOpenBoxes + 1),
                 feed : {"down", "warming", "healthy"},
                 quarantined : BOOLEAN]
    /\ loads \subseteq [generation : 1..MaxRiskLoads, day : RiskDays,
                        read : {Unread} \cup (0..MaxLosses)]
    /\ sweeping \in BOOLEAN
    /\ positions \in 0..(MaxOpenBoxes + 1)
    /\ entering \in BOOLEAN
    /\ losses \in [RiskDays -> 0..MaxLosses]
    /\ unbooked \in {"no", "close", "abort"}
    /\ seeded \in [RiskDays -> 0..MaxLosses]

(***************************************************************************)
(* The manager's synchronous helpers, as functions of its fields.          *)
(***************************************************************************)

\* The first trip turns the entry control off; a later one changes nothing.
trip(g) == IF g.breaker THEN g
           ELSE [g EXCEPT !.breaker = TRUE, !.entry = FALSE]

evaluateLimits(g) ==
    IF g.counted >= LossLimit \/ g.boxes > MaxOpenBoxes THEN trip(g) ELSE g

\* One load at a time; a new one takes the next generation.
startLoad(g) ==
    IF g.active # 0 THEN g
    ELSE [g EXCEPT !.generation = @ + 1, !.active = g.generation + 1,
                   !.seed = "seeding"]

\* A prior day's load loses its slot; counters start from zero and entry waits
\* for the new day's seed and for a reconciliation.
rollDay(g) ==
    IF g.day = calendar THEN g
    ELSE startLoad([g EXCEPT !.day = calendar, !.active = 0, !.counted = 0,
                             !.seed = "seeding", !.reconciled = FALSE])

\* setExposure as syncManagerExposure calls it.
exposed(g, n) == evaluateLimits([g EXCEPT !.boxes = n])

\* seedLimits as the refresh calls it: it passes no openBoxes, and `?? 0'
\* makes that a zero.
installSeed(g, n, complete) ==
    evaluateLimits([g EXCEPT !.counted = n, !.boxes = 0, !.active = 0,
                             !.seed = IF complete THEN "healthy" ELSE "failed"])

\* reconcile() up to the start of performReconcile.
reconcileBegins(g) ==
    LET r == rollDay(g) IN IF r.seed # "healthy" THEN startLoad(r) ELSE r

canEnter(g) ==
    /\ g.day = calendar
    /\ ~g.breaker /\ ~g.recovery /\ g.entry /\ g.orders
    /\ g.healthy /\ g.seed = "healthy" /\ g.reconciled
    /\ ~g.quarantined
    /\ g.feed = "healthy"
    /\ g.boxes < MaxOpenBoxes

\* The manager's new fields, and the loader promise a new generation starts.
Becomes(g) ==
    /\ g.generation =< MaxRiskLoads
    /\ gate' = g
    /\ loads' = loads \cup
         (IF g.generation = gate.generation THEN {}
          ELSE {[generation |-> g.generation, day |-> g.day, read |-> Unread]})

----------------------------------------------------------------------------
(***************************************************************************)
(* The daily-risk seed.                                                    *)
(***************************************************************************)

(* Mutated form: only the day is tested, so a load that timed out installs late. *)
LoadIsOfTheDay(l) == l.day = gate.day

\* The generation, day and token tests of the loader's continuation.
loadIsCurrent(l) == gate.active = l.generation /\ l.day = gate.day

\* loadBoxLiveRiskSeed's queries run.
LoaderReads(l) ==
    /\ l.read = Unread
    /\ loads' = (loads \ {l}) \cup {[l EXCEPT !.read = losses[l.day]]}
    /\ UNCHANGED <<calendar, gate, sweeping, positions, entering, losses,
                   unbooked, seeded, toggles, gateFaults>>

LoaderResolves(l, complete) ==
    /\ l.read # Unread
    /\ ~complete => gateFaults < MaxGateFaults
    /\ gateFaults' = IF complete THEN gateFaults ELSE gateFaults + 1
    /\ loads' = loads \ {l}
    /\ IF loadIsCurrent(l)
       THEN /\ gate' = installSeed(gate, l.read, complete)
            /\ seeded' = IF l.read > seeded[l.day]
                         THEN [seeded EXCEPT ![l.day] = l.read] ELSE seeded
       ELSE UNCHANGED <<gate, seeded>>
    /\ UNCHANGED <<calendar, sweeping, positions, entering, losses, unbooked,
                   toggles>>

\* The rejected load frees the slot; the reconcile timer asks again.
LoaderRejects(l) ==
    /\ gateFaults < MaxGateFaults
    /\ gateFaults' = gateFaults + 1
    /\ loads' = loads \ {l}
    /\ gate' = IF gate.active # l.generation THEN gate
               ELSE [gate EXCEPT !.active = 0,
                       !.seed = IF l.day = gate.day THEN "failed" ELSE @]
    /\ UNCHANGED <<calendar, sweeping, positions, entering, losses, unbooked,
                   seeded, toggles>>

\* The timeout frees the slot and starts a load for the newest day at once;
\* the promise it gives up on may still settle later.
SeedTimesOut ==
    /\ gate.active # 0
    /\ Becomes(startLoad(rollDay([gate EXCEPT !.active = 0,
                                               !.seed = "failed"])))
    /\ UNCHANGED <<calendar, sweeping, positions, entering, losses, unbooked,
                   seeded, toggles, gateFaults>>

(***************************************************************************)
(* Reconciliation.                                                         *)
(***************************************************************************)

\* The interval timer, or the call deferred by an installed seed.
ReconcileTimer ==
    /\ Becomes(reconcileBegins(gate))
    /\ sweeping' = TRUE
    /\ UNCHANGED <<calendar, positions, entering, losses, unbooked, seeded,
                   toggles, gateFaults>>

\* The operator's reconcile pushes the exposure first.
reconcileLive ==
    /\ Becomes(reconcileBegins(exposed(gate, positions)))
    /\ sweeping' = TRUE
    /\ UNCHANGED <<calendar, positions, entering, losses, unbooked, seeded,
                   toggles, gateFaults>>

\* The broker's picture agrees.  onReconciliationIssue then decides whether
\* crash-only exposure quarantines entry; it does not push the exposure.
ReconcileEnds ==
    /\ sweeping
    /\ sweeping' = FALSE
    /\ \E q \in BOOLEAN :
         /\ q => gateFaults < MaxGateFaults
         /\ gateFaults' = IF q THEN gateFaults + 1 ELSE gateFaults
         /\ gate' = [gate EXCEPT !.healthy = TRUE, !.quarantined = q,
                                 !.reconciled = (gate.seed = "healthy")]
    /\ UNCHANGED <<calendar, loads, positions, entering, losses, unbooked,
                   seeded, toggles>>

\* A mismatch or a missing order starts recovery; an error of the pass only
\* trips.
ReconcileFails ==
    /\ sweeping /\ gateFaults < MaxGateFaults
    /\ sweeping' = FALSE
    /\ gateFaults' = gateFaults + 1
    /\ \E mismatch \in BOOLEAN :
         gate' = [trip(gate) EXCEPT !.reconciled = FALSE,
                                    !.recovery = @ \/ mismatch]
    /\ UNCHANGED <<calendar, loads, positions, entering, losses, unbooked,
                   seeded, toggles>>

----------------------------------------------------------------------------
(***************************************************************************)
(* Operator, feed, clock and incidents.                                    *)
(***************************************************************************)

\* Nothing but the mode is tested: the arm preconditions are only displayed.
\* A call that repeats the value held changes nothing and is left out.
setLiveControl(c, on) ==
    /\ toggles < MaxToggles
    /\ on # (IF c = "entry" THEN gate.entry ELSE gate.orders)
    /\ toggles' = toggles + 1
    /\ gate' = IF c = "entry" THEN [gate EXCEPT !.entry = on]
               ELSE [gate EXCEPT !.orders = on]
    /\ UNCHANGED <<calendar, loads, sweeping, positions, entering, losses,
                   unbooked, seeded, gateFaults>>

setFeedHealthy(up) ==
    /\ up # (gate.feed # "down")
    /\ ~up => gateFaults < MaxGateFaults
    /\ gateFaults' = IF up THEN gateFaults ELSE gateFaults + 1
    /\ gate' = [gate EXCEPT !.feed = IF up THEN "warming" ELSE "down"]
    /\ UNCHANGED <<calendar, loads, sweeping, positions, entering, losses,
                   unbooked, seeded, toggles>>

refreshFeedHealth ==
    /\ gate.feed = "warming"
    /\ gate' = [gate EXCEPT !.feed = "healthy"]
    /\ UNCHANGED <<calendar, loads, sweeping, positions, entering, losses,
                   unbooked, seeded, toggles, gateFaults>>

\* recoveryActive, the trip, and a reconciliation that is not awaited.
invariantViolation ==
    /\ gateFaults < MaxGateFaults
    /\ gateFaults' = gateFaults + 1
    /\ Becomes(reconcileBegins(trip([gate EXCEPT !.recovery = TRUE])))
    /\ sweeping' = TRUE
    /\ UNCHANGED <<calendar, positions, entering, losses, unbooked, seeded,
                   toggles>>

TripsAlone ==
    /\ gateFaults < MaxGateFaults
    /\ gateFaults' = gateFaults + 1
    /\ gate' = trip(gate)
    /\ UNCHANGED <<calendar, loads, sweeping, positions, entering, losses,
                   unbooked, seeded, toggles>>

\* The reject or the consecutive-failure limit is reached.
noteFailure == TripsAlone

\* The broker reports more than was asked for.
checkOverfillTripwire == TripsAlone

NextDay ==
    /\ calendar < LastRiskDay
    /\ calendar' = calendar + 1
    /\ UNCHANGED <<gate, loads, sweeping, positions, entering, losses, unbooked,
                   seeded, toggles, gateFaults>>

(***************************************************************************)
(* What each transport's state permits (streamHealthPolicy.ts).            *)
(***************************************************************************)

MarketDataStates == {"DISABLED", "CONNECTING", "AUTHENTICATING", "SYNCHRONIZING",
                     "READY", "DEGRADED", "DISCONNECTED", "AUTH_EXPIRED"}

StreamStates == (MarketDataStates \ {"SYNCHRONIZING"}) \cup {"RECONCILING"}

Operations == {"newEntry", "manageWorkingOrders", "protectiveCancel",
               "exitAndReduce"}

marketDataPermissions(md) ==
    CASE md = "READY" -> Operations
      [] md = "DEGRADED" -> Operations \ {"newEntry"}
      [] md \in {"DISABLED", "AUTH_EXPIRED"} -> {}
      [] OTHER -> {"manageWorkingOrders", "protectiveCancel"}

orderStreamPermissions(os) ==
    CASE os \in {"READY", "DISABLED"} -> Operations
      [] os = "AUTH_EXPIRED" -> {"protectiveCancel"}
      [] OTHER -> Operations \ {"newEntry"}

combinedPermissions(md, os) ==
    marketDataPermissions(md) \cap orderStreamPermissions(os)

(***************************************************************************)
(* The engine's use of the gate.                                           *)
(***************************************************************************)

\* The checkpoint asks both transports; canEnter rolls the day before it
\* decides.
EntryAsks(md, os) ==
    /\ ~entering
    /\ "newEntry" \in combinedPermissions(md, os)
    /\ Becomes(rollDay(gate))
    /\ entering' = canEnter(rollDay(gate))
    /\ UNCHANGED <<calendar, sweeping, positions, losses, unbooked, seeded,
                   toggles, gateFaults>>

\* The completed box is booked and the exposure pushed.
EntryOpens ==
    /\ entering
    /\ entering' = FALSE
    /\ positions' = positions + 1
    /\ gate' = exposed(gate, positions + 1)
    /\ UNCHANGED <<calendar, loads, sweeping, losses, unbooked, seeded,
                   toggles, gateFaults>>

\* The loss of an aborted entry, or of a closed box, becomes durable while the
\* engine awaits the write.
LossIsDurable(how) ==
    /\ unbooked = "no"
    /\ IF how = "abort" THEN entering ELSE positions > 0
    /\ MapThenSumSet(LAMBDA d : losses[d], RiskDays) < MaxLosses
    /\ losses' = [losses EXCEPT ![calendar] = @ + 1]
    /\ unbooked' = how
    /\ UNCHANGED <<calendar, gate, loads, sweeping, positions, entering, seeded,
                   toggles, gateFaults>>

\* The continuation: recordRealisedPnl, and for a close the position leaves
\* the registry and the exposure is pushed.
recordRealisedPnl ==
    /\ unbooked # "no"
    /\ LET g == evaluateLimits([gate EXCEPT !.counted = @ + 1])
       IN IF unbooked = "abort"
          THEN gate' = g /\ entering' = FALSE /\ UNCHANGED positions
          ELSE /\ positions' = positions - 1
               /\ gate' = exposed(g, positions - 1)
               /\ UNCHANGED entering
    /\ unbooked' = "no"
    /\ UNCHANGED <<calendar, loads, sweeping, losses, seeded, toggles,
                   gateFaults>>

----------------------------------------------------------------------------

\* Boot has pushed the adopted positions; its seed is installed, unless the
\* load crossed midnight.  Controls start off and the feed is not up yet.
RiskInit ==
    /\ calendar = 1
    /\ positions \in 0..MaxOpenBoxes
    /\ \E s \in {"unknown", "healthy"} :
         gate = [day |-> 1, entry |-> FALSE, orders |-> FALSE,
                 breaker |-> FALSE, recovery |-> FALSE, healthy |-> FALSE,
                 seed |-> s, reconciled |-> FALSE, active |-> 0, generation |-> 0,
                 counted |-> 0, boxes |-> positions, feed |-> "down",
                 quarantined |-> FALSE]
    /\ loads = {} /\ sweeping = FALSE
    /\ entering = FALSE
    /\ losses = [d \in RiskDays |-> 0] /\ seeded = losses
    /\ unbooked = "no"
    /\ toggles = 0 /\ gateFaults = 0

SeedNext ==
    \/ \E l \in loads :
         \/ LoaderReads(l)
         \/ LoaderResolves(l, TRUE)
         \/ LoaderResolves(l, FALSE)
         \/ LoaderRejects(l)
    \/ SeedTimesOut

ReconcileNext ==
    \/ ReconcileTimer
    \/ reconcileLive
    \/ ReconcileEnds
    \/ ReconcileFails

OperatorNext ==
    \/ \E c \in {"entry", "orders"}, on \in BOOLEAN : setLiveControl(c, on)
    \/ \E up \in BOOLEAN : setFeedHealthy(up)
    \/ refreshFeedHealth
    \/ invariantViolation
    \/ noteFailure
    \/ checkOverfillTripwire
    \/ NextDay

EngineNext ==
    \/ \E md \in MarketDataStates, os \in StreamStates : EntryAsks(md, os)
    \/ EntryOpens
    \/ \E how \in {"close", "abort"} : LossIsDurable(how)
    \/ recordRealisedPnl

RiskNext == SeedNext \/ ReconcileNext \/ OperatorNext \/ EngineNext

RiskSpec == RiskInit /\ [][RiskNext]_riskVars

----------------------------------------------------------------------------
(***************************************************************************)
(* The published verdict.  `facts' are the conditions outside the manager  *)
(* that hold: the boot ordinal is known, the scanner runs, the market is   *)
(* open, and the process supplies no blocker of its own.                   *)
(***************************************************************************)

Facts == {"ordinal", "running", "market_open", "no_external_blocker"}

engineBlockers(g, facts) ==
    (Facts \ facts) \cup (IF g.entry THEN {} ELSE {"entry_disabled"})
                    \cup (IF g.recovery THEN {"recovery_active"} ELSE {})

\* Every blocker is scoped to entry, so a reduction asks the transports only.
operationalReadiness(g, md, os, facts) ==
    [entry |-> /\ "newEntry" \in combinedPermissions(md, os)
               /\ engineBlockers(g, facts) = {},
     exit_and_reduce |-> "exitAndReduce" \in combinedPermissions(md, os),
     protective_cancel |-> "protectiveCancel" \in combinedPermissions(md, os)]

----------------------------------------------------------------------------

\* Entry never opens on less than the day's seeds have proved: while canEnter
\* would admit, the manager counts at least the losses that any seed installed
\* for the day of the clock has read, whatever timed-out or prior-day loads
\* settle late and however often the day rolls ("An understated loss must never
\* present itself as an authoritative seed").
EntryKnowsSeededLosses == canEnter(gate) => gate.counted >= seeded[calendar]

\* The configured cap on concurrent open boxes is kept: an entry is under way
\* only while the boxes held are fewer than liveMaxOpenBoxes.
OpenBoxCapKept == entering => positions < MaxOpenBoxes

\* The published entry permission is the permission enforced: whatever the
\* transports and the process's own facts are, a verdict that permits entry is
\* one the manager's canEnter agrees with.
PermittedIsEnforced ==
    \A md \in MarketDataStates, os \in StreamStates, facts \in SUBSET Facts :
      operationalReadiness(gate, md, os, facts).entry => canEnter(rollDay(gate))

\* Whenever entry is permitted, every loss that is durable and booked today is
\* counted.
LossIsCounted ==
    canEnter(gate) /\ unbooked = "no" => gate.counted >= losses[calendar]

=============================================================================
