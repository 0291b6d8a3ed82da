---------------------------- MODULE ProcessLife ----------------------------
(***************************************************************************)
(* One backend process from its start to its exit: the boot sequence of    *)
(* index.ts and of the engine, the readiness state that gates mutating     *)
(* requests, the shutdown coordinator with its deadline, and the           *)
(* supervisor that starts the process again.  Every await of the boot      *)
(* sequence ends a step, so a signal, a shutdown step or a START request   *)
(* falls between any two of them.                                          *)
(*                                                                         *)
(* timers is what the process has armed, recovered what it knows of the    *)
(* exposure it left behind.  A deployment is the execution mode and the    *)
(* broker; a Dhan deployment has a stored session, which restore adopts.   *)
(***************************************************************************)
EXTENDS Naturals, Sequences

CONSTANTS Deployments,    \* subset of {"paper", "live_zerodha", "live_dhan"}
          MaxBootFaults,  \* bound: failed or hanging calls
          MaxSignals      \* bound: SIGTERM or SIGINT, and crashes

ASSUME ProcessAssumption ==
    /\ Deployments \subseteq {"paper", "live_zerodha", "live_dhan"}
    /\ MaxBootFaults \in Nat /\ MaxSignals \in Nat

VARIABLES deployment,
          readiness,    \* ReadinessController.state, "down" without a process
          bootAt,       \* the next step of boot
          shutdownAt,      \* steps the shutdown coordinator has done
          hung,         \* its current step does not return
          timers,       \* timers, loops and sockets that are running
          recovered,    \* subset of {"positions", "orders"}
          disposed,     \* engine.dispose has run
          hasToken,     \* the active broker's client holds a token
          scanner,      \* BoxEngine.running
          starting,     \* a START request awaits its universe
          bootFaults, signals

processVars == <<deployment, readiness, bootAt, shutdownAt, hung, timers, recovered,
                 disposed, hasToken, scanner, starting, bootFaults, signals>>

LiveMode == deployment # "paper"

BootSteps == <<"postgres", "restore", "persistence", "gate", "tuning", "adopt", "seed",
               "reconcile", "monitor", "archive", "verify", "services">>
ShutdownSteps == <<"stop scanner", "readiness", "tokens", "feeds", "dispose",
                   "outbox", "http", "mongo", "postgres">>
EngineTimers == {"reconcile", "monitor", "archiver", "market", "universe"}

ReadinessStates == {"starting", "ready", "failed", "shutting_down"}
LEGAL_TRANSITIONS ==
    [starting |-> {"ready", "failed", "shutting_down"}, ready |-> {"shutting_down"},
     failed |-> {"shutting_down"}, shutting_down |-> {}]

ProcessTypeOK ==
    /\ deployment \in Deployments
    /\ readiness \in ReadinessStates \cup {"down"}
    /\ bootAt \in 0..(Len(BootSteps) + 1)
    /\ shutdownAt \in 0..(Len(ShutdownSteps) + 1) /\ hung \in BOOLEAN
    /\ timers \subseteq EngineTimers \cup {"tokens", "projector", "feed"}
    /\ recovered \subseteq {"positions", "orders"}
    /\ disposed \in BOOLEAN /\ hasToken \in BOOLEAN /\ scanner \in BOOLEAN /\ starting \in BOOLEAN
    /\ bootFaults \in 0..MaxBootFaults /\ signals \in 0..MaxSignals

Gone ==
    /\ readiness' = "down" /\ bootAt' = 0 /\ shutdownAt' = 0 /\ hung' = FALSE
    /\ timers' = {} /\ recovered' = {} /\ disposed' = FALSE
    /\ hasToken' = FALSE /\ scanner' = FALSE /\ starting' = FALSE

ProcessInit ==
    /\ deployment \in Deployments
    /\ readiness = "down" /\ bootAt = 0 /\ shutdownAt = 0 /\ hung = FALSE
    /\ timers = {} /\ recovered = {} /\ disposed = FALSE
    /\ hasToken = FALSE /\ scanner = FALSE /\ starting = FALSE
    /\ bootFaults = 0 /\ signals = 0

CallFails == bootFaults < MaxBootFaults /\ bootFaults' = bootFaults + 1
CallWorks == UNCHANGED bootFaults
Surroundings == <<deployment, signals>>
Closing == <<shutdownAt, hung, disposed>>

-----------------------------------------------------------------------------
(* Mutated form: the state is set whatever it was. *)
TransitionAnyway(to) == readiness' = to

transition(to) ==
    readiness' = IF to \in LEGAL_TRANSITIONS[readiness] THEN to ELSE readiness

(* The supervisor starts the process; the socket listens before boot. *)
Launch ==
    /\ readiness = "down" /\ readiness' = "starting" /\ bootAt' = 1
    /\ CallWorks
    /\ UNCHANGED <<Surroundings, Closing, timers, recovered, hasToken, scanner, starting>>

(***************************************************************************)
(* Boot.  What each step leaves behind, and what makes it throw.           *)
(***************************************************************************)
Booting(s) == bootAt \in 1..Len(BootSteps) /\ BootSteps[bootAt] = s
BootMoves == bootAt' = bootAt + 1 /\ UNCHANGED <<Surroundings, Closing, readiness, scanner, starting>>

initPg == /\ Booting("postgres") /\ CallWorks /\ BootMoves
          /\ UNCHANGED <<timers, recovered, hasToken>>

\* restore adopts a stored Dhan session, and only that.
restoreBroker ==
    /\ Booting("restore") /\ CallWorks /\ BootMoves
    /\ hasToken' = (deployment = "live_dhan")
    /\ UNCHANGED <<timers, recovered>>

ensureBoxPersistenceReady ==
    /\ Booting("persistence") /\ CallWorks /\ BootMoves
    /\ UNCHANGED <<timers, recovered, hasToken>>

\* live execution blocked: the broker session is missing
liveGate ==
    /\ Booting("gate") /\ (LiveMode => hasToken) /\ CallWorks /\ BootMoves
    /\ UNCHANGED <<timers, recovered, hasToken>>

loadPersistedTuning ==
    /\ Booting("tuning") /\ CallWorks /\ BootMoves
    /\ UNCHANGED <<timers, recovered, hasToken>>

\* Outside live mode a failed adoption is only reported.
adoptPositions ==
    /\ Booting("adopt") /\ BootMoves
    /\ \/ CallWorks /\ recovered' = recovered \cup {"positions"}
       \/ ~LiveMode /\ CallFails /\ UNCHANGED recovered
    /\ UNCHANGED <<timers, hasToken>>

seedLimits ==
    /\ Booting("seed") /\ CallWorks /\ BootMoves
    /\ UNCHANGED <<timers, recovered, hasToken>>

\* orderManager.start arms its timer first; a failed pass is only recorded.
startOrderManager ==
    /\ Booting("reconcile") /\ BootMoves
    /\ timers' = IF LiveMode /\ ~disposed THEN timers \cup {"reconcile"} ELSE timers
    /\ \/ CallWorks /\ recovered' = recovered \cup {"orders"}
       \/ LiveMode /\ CallFails /\ UNCHANGED recovered
    /\ UNCHANGED hasToken

startMonitor ==
    /\ Booting("monitor") /\ CallWorks /\ BootMoves
    /\ timers' = timers \cup {"monitor"} /\ UNCHANGED <<recovered, hasToken>>

startArchiver ==
    /\ Booting("archive") /\ CallWorks /\ BootMoves
    /\ timers' = timers \cup {"archiver", "market"} /\ UNCHANGED <<recovered, hasToken>>

reconciliationComplete == "orders" \in recovered

verifyReconciled ==
    /\ Booting("verify") /\ reconciliationComplete /\ CallWorks /\ BootMoves
    /\ UNCHANGED <<timers, recovered, hasToken>>

startServices ==
    /\ Booting("services") /\ CallWorks /\ BootMoves
    /\ timers' = timers \cup {"projector", "tokens"} /\ UNCHANGED <<recovered, hasToken>>

markReady ==
    /\ bootAt = Len(BootSteps) + 1 /\ bootAt' = 0
    /\ transition("ready") /\ CallWorks
    /\ UNCHANGED <<Surroundings, Closing, timers, recovered, hasToken, scanner, starting>>

\* run: a second call joins the shutdown that is under way.
runShutdown == shutdownAt' = IF shutdownAt = 0 THEN 1 ELSE shutdownAt

\* A step of boot that throws: markFailed, markShuttingDown, failBootAndExit.
BootThrows ==
    /\ bootAt \in 1..Len(BootSteps)
    /\ \/ Booting("gate") /\ LiveMode /\ ~hasToken /\ CallWorks
       \/ Booting("verify") /\ ~reconciliationComplete /\ CallWorks
       \/ /\ \/ BootSteps[bootAt] \in {"postgres", "restore", "persistence", "tuning"}
             \/ BootSteps[bootAt] \in {"adopt", "seed"} /\ LiveMode
          /\ CallFails
    /\ bootAt' = 0 /\ readiness' = "shutting_down" /\ runShutdown
    /\ UNCHANGED <<Surroundings, hung, disposed, timers, recovered, hasToken, scanner, starting>>

BootStep ==
    \/ initPg \/ restoreBroker \/ ensureBoxPersistenceReady \/ liveGate \/ loadPersistedTuning
    \/ adoptPositions \/ seedLimits \/ startOrderManager \/ startMonitor \/ startArchiver
    \/ verifyReconciled \/ startServices \/ markReady \/ BootThrows

-----------------------------------------------------------------------------
(* START, in its two halves, and STOP.  Only a ready process takes them. *)
mutationsAllowed == readiness = "ready"

StartScanner ==
    /\ mutationsAllowed /\ hasToken /\ ~scanner /\ ~starting
    /\ scanner' = TRUE /\ starting' = TRUE /\ timers' = timers \cup {"market", "feed"}
    /\ CallWorks /\ UNCHANGED <<Surroundings, Closing, readiness, bootAt, recovered, hasToken>>

\* refreshUniverse has returned: the timer is armed whatever happened meanwhile.
StartContinues ==
    /\ starting /\ starting' = FALSE /\ timers' = timers \cup {"universe"}
    /\ CallWorks
    /\ UNCHANGED <<Surroundings, Closing, readiness, bootAt, recovered, hasToken, scanner>>

engineStop == scanner' = FALSE /\ timers' = IF scanner THEN timers \ {"universe"} ELSE timers

StopScanner ==
    /\ mutationsAllowed /\ scanner /\ engineStop
    /\ CallWorks
    /\ UNCHANGED <<Surroundings, Closing, readiness, bootAt, recovered, hasToken, starting>>

TokenInstalled ==
    /\ "tokens" \in timers /\ ~hasToken /\ hasToken' = TRUE
    /\ CallWorks
    /\ UNCHANGED <<Surroundings, Closing, readiness, bootAt, timers, recovered, scanner, starting>>

-----------------------------------------------------------------------------
(* Shutdown. *)
Signal ==
    /\ readiness # "down" /\ signals < MaxSignals /\ signals' = signals + 1
    /\ transition("shutting_down") /\ runShutdown
    /\ CallWorks
    /\ UNCHANGED <<deployment, bootAt, hung, disposed, timers, recovered, hasToken, scanner, starting>>

Doing(s) == shutdownAt \in 1..Len(ShutdownSteps) /\ ShutdownSteps[shutdownAt] = s /\ ~hung

\* A step that throws is recorded and the next one runs.
StepDone == shutdownAt' = shutdownAt + 1
            /\ UNCHANGED <<Surroundings, bootAt, hung, recovered, hasToken, starting>>

stopDiscovery == Doing("stop scanner") /\ StepDone /\ engineStop /\ UNCHANGED <<readiness, disposed>>
confirmReadiness == Doing("readiness") /\ StepDone /\ transition("shutting_down")
                    /\ UNCHANGED <<timers, scanner, disposed>>
stopTokens == Doing("tokens") /\ StepDone /\ timers' = timers \ {"tokens"}
              /\ UNCHANGED <<readiness, scanner, disposed>>
stopFeeds == Doing("feeds") /\ StepDone /\ timers' = timers \ {"feed"}
             /\ UNCHANGED <<readiness, scanner, disposed>>
dispose == /\ Doing("dispose") /\ StepDone /\ disposed' = TRUE
           /\ scanner' = FALSE /\ timers' = timers \ EngineTimers /\ UNCHANGED readiness
flushOutbox == Doing("outbox") /\ StepDone /\ timers' = timers \ {"projector"}
               /\ UNCHANGED <<readiness, scanner, disposed>>
closeResources == /\ \E s \in {"http", "mongo", "postgres"} : Doing(s)
                  /\ StepDone /\ UNCHANGED <<readiness, timers, scanner, disposed>>

ShutdownStep ==
    /\ CallWorks
    /\ \/ stopDiscovery \/ confirmReadiness \/ stopTokens \/ stopFeeds \/ dispose
       \/ flushOutbox \/ closeResources

StepHangs ==
    /\ \E s \in {"outbox", "mongo", "postgres"} : Doing(s)
    /\ CallFails /\ hung' = TRUE
    /\ UNCHANGED <<Surroundings, readiness, bootAt, shutdownAt, timers, recovered,
                   disposed, hasToken, scanner, starting>>

(* Mutated form: the sequence is awaited without the deadline. *)
NoDeadline == FALSE

deadlinePassed == shutdownAt > 0 /\ hung

\* process.exit, after the sequence or at the deadline.
ProcessExits ==
    /\ shutdownAt = Len(ShutdownSteps) + 1 \/ deadlinePassed
    /\ Gone /\ CallWorks /\ UNCHANGED Surroundings

\* uncaughtException, or the machine.
ProcessCrash ==
    /\ readiness # "down" /\ signals < MaxSignals /\ signals' = signals + 1
    /\ Gone /\ CallWorks /\ UNCHANGED deployment

ProcessNext ==
    \/ Launch \/ BootStep \/ StartScanner \/ StartContinues \/ StopScanner \/ TokenInstalled
    \/ Signal \/ ShutdownStep \/ StepHangs \/ ProcessExits \/ ProcessCrash

\* Awaited calls return or are abandoned at the deadline; the supervisor restarts.
ProcessFairness ==
    /\ WF_processVars(Launch) /\ WF_processVars(BootStep)
    /\ WF_processVars(ShutdownStep) /\ WF_processVars(ProcessExits)

ProcessSpec == ProcessInit /\ [][ProcessNext]_processVars /\ ProcessFairness

-----------------------------------------------------------------------------
(***************************************************************************)
(* A process that answers ready and takes mutating requests knows what it  *)
(* owns: its orders were reconciled, in live mode its positions were       *)
(* adopted, its monitor runs, and no step of a shutdown has been taken     *)
(* (boot, markReady, the signal handlers).                                 *)
(***************************************************************************)
ReadyIsWhole ==
    readiness = "ready" =>
        /\ "orders" \in recovered /\ "monitor" \in timers
        /\ LiveMode => "positions" \in recovered
        /\ shutdownAt = 0

(***************************************************************************)
(* Whatever failed, hung, was signalled or crashed before, the process     *)
(* ends up running with its positions under the monitor, or at least with  *)
(* the monitor when it only trades on paper.                               *)
(***************************************************************************)
PositionsAreMonitored ==
    <>[]("monitor" \in timers /\ (LiveMode => "positions" \in recovered))

(***************************************************************************)
(* Once the engine is disposed none of its timers is armed again, so that  *)
(* nothing fires against a database that is being closed.                  *)
(***************************************************************************)
DisposedIsQuiet == disposed => timers \cap EngineTimers = {}
=============================================================================
