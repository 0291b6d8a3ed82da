----------------------------- MODULE ModeControl -----------------------------
(***************************************************************************)
(* The execution mode, the paper profile and the live permissions of one   *)
(* process: what may be changed at run time, what blocks a change, and     *)
(* what the execution panel says (liveModeTransition.ts, engine.ts), over  *)
(* the simulations and positions of the process and, in live mode, the     *)
(* facts the order manager reports.                                        *)
(***************************************************************************)
EXTENDS Naturals, FiniteSets

CONSTANTS ModeRuns,   \* the boxes the process simulates
          ExecModes,  \* BOX_EXECUTION_MODE: the modes to start in
          Profiles,   \* the paper profiles
          LiveFacts   \* the facts of the order manager that may hold

AllLiveFacts == {"recovery_active", "queued", "in_flight", "orphan", "unknown", "failed", "incomplete",
                 "tripped", "feed_cold", "feed_unhealthy", "unauthenticated", "unreserved", "kill_switch"}

ASSUME ModeAssumption ==
  /\ ExecModes \subseteq {"paper_touch", "paper_latency", "paper_legging", "live"}
  /\ Profiles \subseteq {"standard", "live_parity", "stress"}
  /\ LiveFacts \subseteq AllLiveFacts

VARIABLES
  execMode,      \* cfg.executionMode
  paperProfile,  \* the engine's and the configuration's profile
  layering,      \* what the simulator was constructed with
  scannerOn,     \* engine.running
  pipe,          \* box -> its stage and the profile it was simulated under
  residues,      \* the boxes with residual legs
  live,          \* the facts that hold of the order manager
  armed,         \* the live permissions that are on
  modeAnswer         \* the last verdict on a transition

runVars == <<pipe, residues>>
modeVars == <<execMode, paperProfile, layering, scannerOn, runVars, live, armed, modeAnswer>>

Permissions == {"entryEnabled", "liveOrderEnabled", "emergencyFlatten"}
Selections == {"paper_latency", "paper_legging", "paper_legging_live_parity", "live"}
Stages == {"idle", "simulating", "filled", "open", "exiting"}

ModeTypeOK ==
  /\ execMode \in ExecModes /\ paperProfile \in Profiles
  /\ layering \in [parity : BOOLEAN, evidence : BOOLEAN]
  /\ scannerOn \in BOOLEAN
  /\ pipe \in [ModeRuns -> [stage : Stages, profile : Profiles]]
  /\ residues \subseteq ModeRuns /\ live \subseteq LiveFacts /\ armed \subseteq Permissions
  /\ modeAnswer \in {"none", "allowed", "refused", "restart_required"}

\* The simulator reads the profile once, in its constructor.
Layering(profile) ==
  [parity |-> profile \in {"live_parity", "stress"}, evidence |-> profile = "live_parity"]

ModeInit ==
  /\ execMode \in ExecModes /\ paperProfile \in Profiles
  /\ layering = Layering(paperProfile)
  /\ scannerOn = FALSE
  /\ pipe = [r \in ModeRuns |-> [stage |-> "idle", profile |-> paperProfile]]
  /\ residues = {}
  /\ live \in IF execMode = "live" THEN SUBSET LiveFacts ELSE {{}}
  /\ armed \in IF execMode = "live" THEN SUBSET Permissions ELSE {{}}
  /\ modeAnswer = "none"

At(stages) == {r \in ModeRuns : pipe[r].stage \in stages}

\* executionSim.activeCount > 0 and the open positions of the book: a box whose
\* fill is being stored is in neither.
ActiveSimulations == At({"simulating", "exiting"})
OpenPositions == At({"open", "exiting"})

-----------------------------------------------------------------------------
(* The decisions *)

liveCapability == execMode = "live" /\ "kill_switch" \notin live

currentSelection(mode, profile) ==
  CASE mode = "live" -> "live"
    [] mode = "paper_legging" -> IF profile = "live_parity" THEN "paper_legging_live_parity" ELSE "paper_legging"
    [] OTHER -> "paper_latency"

executionModeLabel(mode, profile) ==
  IF mode = "paper_touch" THEN "paper_touch" ELSE currentSelection(mode, profile)

\* The reasons the process is too busy to change its execution; a partly exited
\* box and one in recovery are open ones too.
transitionBlockers ==
  {b \in {"open_box", "residual_exposure", "scanner_running"} :
     \/ b = "open_box" /\ OpenPositions # {}
     \/ b = "residual_exposure" /\ residues # {}
     \/ b = "scanner_running" /\ scannerOn}
  \cup (live \cap {"recovery_active", "queued", "in_flight", "orphan", "unknown", "failed", "incomplete"})

evaluateModeTransition(from, to) ==
  CASE from = to -> "allowed"
    [] from # "live" /\ to # "live" ->
         IF transitionBlockers = {} /\ ActiveSimulations = {} THEN "allowed" ELSE "refused"
    [] to = "live" /\ ~liveCapability -> "refused"
    [] OTHER -> "restart_required"

\* Mutated form: `standard' and `stress' are one selection, so the change looks
\* like no change.
BySelection(from, to) == evaluateModeTransition(from, to)

\* The verdict on a new profile: when the selection is the same the guard is run
\* all the same.
profileVerdict(from, to) ==
  IF from = to
  THEN IF transitionBlockers = {} /\ ActiveSimulations = {} THEN "allowed" ELSE "refused"
  ELSE evaluateModeTransition(from, to)

\* What is in the way of turning a live permission on.
evaluateLiveArm(permission) ==
  LET needs == [emergencyFlatten |-> {"unauthenticated"},
                liveOrderEnabled |-> {"unauthenticated", "incomplete"},
                entryEnabled |-> {"unauthenticated", "failed", "incomplete", "feed_unhealthy", "feed_cold",
                                  "tripped", "recovery_active", "unknown", "unreserved"}]
  IN  IF ~liveCapability THEN {"deployment_gate_disabled"} ELSE live \cap needs[permission]

\* The execution panel.
getExecutionControl ==
  [selection |-> currentSelection(execMode, paperProfile),
   label |-> executionModeLabel(execMode, paperProfile),
   blockers |-> transitionBlockers,
   arm |-> [p \in Permissions |-> evaluateLiveArm(p)]]

-----------------------------------------------------------------------------
(* The operator *)

setPaperExecutionProfile(profile) ==
  /\ profile # paperProfile
  /\ modeAnswer' = IF execMode = "live" THEN "refused"
               ELSE profileVerdict(currentSelection(execMode, paperProfile), currentSelection(execMode, profile))
  /\ paperProfile' = IF modeAnswer' = "allowed" THEN profile ELSE paperProfile
  /\ UNCHANGED <<execMode, layering, scannerOn, runVars, live, armed>>

previewModeTransition(to) ==
  /\ modeAnswer' = evaluateModeTransition(currentSelection(execMode, paperProfile), to)
  /\ UNCHANGED <<execMode, paperProfile, layering, scannerOn, runVars, live, armed>>

\* setLiveControl: nothing is asked before a permission is turned on.
setLiveControl(permission) ==
  /\ execMode = "live"
  /\ \/ armed' = armed \cup {permission}
     \/ armed' = armed \ {permission}
  /\ UNCHANGED <<execMode, paperProfile, layering, scannerOn, runVars, live, modeAnswer>>

StartOrStop ==
  /\ scannerOn' = ~scannerOn
  /\ UNCHANGED <<execMode, paperProfile, layering, runVars, live, armed, modeAnswer>>

-----------------------------------------------------------------------------
(* The simulations of a paper process, and the manager of a live one *)

Moves(r, from, to) ==
  /\ execMode # "live"
  /\ pipe[r].stage = from
  /\ pipe' = [pipe EXCEPT ![r].stage = to, ![r].profile = IF from = "idle" THEN paperProfile ELSE @]
  /\ UNCHANGED <<execMode, paperProfile, layering, scannerOn, live, armed, modeAnswer>>

\* An entry is simulated, refused or filled; a filled one is stored, and only then
\* a position of the book; an exit is simulated until it is done.
simulateEntry(r) == scannerOn /\ Moves(r, "idle", "simulating") /\ UNCHANGED residues
EntryFills(r) == Moves(r, "simulating", "filled") /\ UNCHANGED residues
EntryStored(r) == Moves(r, "filled", "open") /\ UNCHANGED residues
simulateExit(r) == Moves(r, "open", "exiting") /\ UNCHANGED residues
ExitFails(r) == Moves(r, "exiting", "open") /\ UNCHANGED residues
ExitDone(r) == Moves(r, "exiting", "idle") /\ UNCHANGED residues

\* A refused legging entry whose emergency unwind did not finish leaves residual
\* legs, which the flattening of the engine works off later.
EntryRefused(r) ==
  /\ Moves(r, "simulating", "idle")
  /\ \/ UNCHANGED residues
     \/ execMode = "paper_legging" /\ residues' = residues \cup {r}

ResidueFlattened(r) ==
  /\ r \in residues /\ residues' = residues \ {r}
  /\ UNCHANGED <<execMode, paperProfile, layering, scannerOn, pipe, live, armed, modeAnswer>>

\* The kill switch is a fact of the deployment; the others come and go.
ManagerReports(fact) ==
  /\ execMode = "live" /\ fact # "kill_switch"
  /\ \/ live' = live \cup {fact}
     \/ live' = live \ {fact}
  /\ UNCHANGED <<execMode, paperProfile, layering, scannerOn, runVars, armed, modeAnswer>>

ModeNext ==
  \/ \E p \in Profiles : setPaperExecutionProfile(p)
  \/ \E s \in Selections : previewModeTransition(s)
  \/ \E p \in Permissions : setLiveControl(p)
  \/ \E f \in LiveFacts : ManagerReports(f)
  \/ StartOrStop
  \/ \E r \in ModeRuns :
       \/ simulateEntry(r) \/ EntryRefused(r) \/ EntryFills(r) \/ EntryStored(r)
       \/ simulateExit(r) \/ ExitFails(r) \/ ExitDone(r) \/ ResidueFlattened(r)

ModeSpec == ModeInit /\ [][ModeNext]_modeVars

-----------------------------------------------------------------------------

\* The profile never changes under a simulated execution ("changing the timing
\* model under a running simulated execution would corrupt its record",
\* setPaperExecutionProfile), also between two profiles of one selection.
SimulationKeepsProfile ==
  \A r \in At({"simulating"}) : pipe[r].profile = paperProfile

\* "The execution profile cannot be changed while executions or exposure are
\* outstanding": every box, from its simulation to its close, stays under the
\* profile it was simulated under.  A fill that is being stored is in no count, so
\* this does not hold.
BoxKeepsProfile ==
  \A r \in ModeRuns \ At({"idle"}) : pipe[r].profile = paperProfile

\* The panel says "live parity" only over a simulator that was built for it
\* ("the single most misleading thing this screen could say").  The simulator keeps
\* the layering of its constructor, so this does not hold after a change.
LabelIsWhatRuns ==
  getExecutionControl.label = "paper_legging_live_parity" => layering.evidence

\* A permission is turned on only when evaluateLiveArm has nothing against it.
\* setLiveControl does not ask, so this does not hold.
ArmedWasAllowed ==
  [][\A p \in armed' \ armed : getExecutionControl.arm[p] = {}]_modeVars
=============================================================================
