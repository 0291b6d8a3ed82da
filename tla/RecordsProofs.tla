---------------------------- MODULE RecordsProofs ----------------------------
(***************************************************************************)
(* Proofs about the durable records and the process that keeps them: the   *)
(* outbox and the reporting replica, the execution mode and its profile,   *)
(* the start and the shutdown of the process, the day's peak margin, and   *)
(* the attribution of fills.                                               *)
(***************************************************************************)
EXTENDS Outbox, ModeControl, ProcessLife, DayTally, FillAttribution,
        FiniteSetTheorems, WellFoundedInduction, TLAPS

(* A row of mongo_outbox. *)
OutboxRow == [version : Nat, sequence : Nat, published : BOOLEAN, dead : BOOLEAN,
              attempts : Nat, due : BOOLEAN]

OutboxTyped ==
  /\ outbox \in [Events -> OutboxRow] /\ sequence \in Nat
  /\ replica \in [Events -> Nat]
  /\ claimed \subseteq Events
  /\ DOMAIN touched \subseteq Events

(* The uncommitted updates of a drain are updates of the rows it holds locked: the same   *)
(* payload, and only while it runs (drainBatch's FOR UPDATE SKIP LOCKED).                 *)
DrainHoldsItsRows ==
  /\ \A e \in DOMAIN touched : touched[e] \in OutboxRow /\ touched[e].version = outbox[e].version
  /\ \A e \in claimed \cup DOMAIN touched : draining /\ Present(e)

(* The replica never precedes its fact. *)
ReplicaLags == \A e \in Events : replica[e] <= outbox[e].version

OutboxInv == OutboxTyped /\ DrainHoldsItsRows /\ ReplicaLags

(* An empty set of updates touches no row. *)
LEMMA NothingTouched == DOMAIN <<>> = {}
OBVIOUS

(* A row that was never written is a row of version 0. *)
LEMMA AbsentIsRow == Absent \in OutboxRow /\ Absent.version = 0
BY SMT DEF Absent, OutboxRow

(* The tables start empty. *)
LEMMA OutboxStarts == OutboxInit => OutboxInv
<1> SUFFICES ASSUME OutboxInit PROVE OutboxInv
  OBVIOUS
<1>1. DOMAIN touched = {} /\ claimed = {}
  BY NothingTouched DEF OutboxInit
<1>2. OutboxTyped
  <2>1. outbox \in [Events -> OutboxRow] /\ replica \in [Events -> Nat]
    BY AbsentIsRow, SMT DEF OutboxInit
  <2>2. sequence = 0
    BY Zenon DEF OutboxInit
  <2>3. sequence \in Nat
    BY <2>2, SMT
  <2>4. QED
    BY <1>1, <2>1, <2>3, Zenon DEF OutboxTyped
<1>3. DrainHoldsItsRows
  BY <1>1 DEF DrainHoldsItsRows
<1>4. ReplicaLags
  BY AbsentIsRow, SMT DEF OutboxInit, ReplicaLags
<1>5. QED
  BY <1>2, <1>3, <1>4 DEF OutboxInv

(* A row the writer renews is a row, one version on (enqueueOutbox, enqueueOutboxSnapshot). *)
LEMMA FreshIsRow ==
  ASSUME OutboxTyped, NEW v \in Nat
  PROVE  Fresh(v) \in OutboxRow /\ Fresh(v).version = v
<1>1. sequence + 1 \in Nat
  BY SMT DEF OutboxTyped
<1>2. QED
  BY <1>1, AbsentIsRow, Zenon DEF Fresh, OutboxRow

(* A renewal of a row that no drain holds keeps the invariant. *)
LEMMA RenewalKeepsInv ==
  ASSUME OutboxInv, NEW e \in Events, e \notin claimed \cup DOMAIN touched,
         NEW v \in Nat, v >= outbox[e].version,
         outbox' = [outbox EXCEPT ![e] = Fresh(v)], sequence' = sequence + 1,
         UNCHANGED <<replica, claimed, touched, draining>>
  PROVE  OutboxInv'
<1>1. OutboxTyped'
  BY FreshIsRow, SMT DEF OutboxInv, OutboxTyped
<1>2. DrainHoldsItsRows'
  BY SMT DEF OutboxInv, OutboxTyped, DrainHoldsItsRows, Present
<1>3. ReplicaLags'
  BY FreshIsRow, SMT DEF OutboxInv, OutboxTyped, ReplicaLags, OutboxRow
<1>4. QED
  BY <1>1, <1>2, <1>3 DEF OutboxInv

(* The row a drain updates keeps its payload (publishOne's outcomes). *)
LEMMA UpdatedIsRow ==
  ASSUME NEW r \in OutboxRow, NEW dead \in BOOLEAN
  PROVE  /\ [r EXCEPT !.published = TRUE] \in OutboxRow
         /\ [r EXCEPT !.published = TRUE].version = r.version
         /\ [r EXCEPT !.attempts = @ + 1, !.due = FALSE, !.dead = dead] \in OutboxRow
         /\ [r EXCEPT !.attempts = @ + 1, !.due = FALSE, !.dead = dead].version = r.version
<1>1. r.attempts + 1 \in Nat
  BY SMT DEF OutboxRow
<1>2. QED
  BY <1>1, Zenon DEF OutboxRow

(* An update of a claimed row keeps the invariant, whatever the drain gives up with it. *)
LEMMA TouchKeepsInv ==
  ASSUME OutboxInv, NEW e \in claimed, NEW fresh \in OutboxRow, fresh.version = outbox[e].version,
         touched' = Touch(e, fresh), claimed' \subseteq claimed,
         UNCHANGED <<outbox, sequence, draining>>,
         replica' \in [Events -> Nat], \A d \in Events : replica'[d] <= outbox[d].version
  PROVE  OutboxInv'
<1>1. OutboxTyped'
  BY SMT DEF OutboxInv, OutboxTyped, Touch
<1>2. DrainHoldsItsRows'
  BY SMT DEF OutboxInv, OutboxTyped, DrainHoldsItsRows, Touch, Present
<1>3. ReplicaLags'
  BY SMT DEF ReplicaLags
<1>4. QED
  BY <1>1, <1>2, <1>3 DEF OutboxInv

(* A change of a row that keeps its payload keeps the invariant (the retry time of a row,   *)
(* an operator's replay).                                                                   *)
LEMMA RescheduleKeepsInv ==
  ASSUME OutboxInv, NEW e \in Events, e \notin claimed \cup DOMAIN touched,
         NEW fresh \in OutboxRow, fresh.version = outbox[e].version,
         outbox' = [outbox EXCEPT ![e] = fresh],
         UNCHANGED <<sequence, replica, claimed, touched, draining>>
  PROVE  OutboxInv' /\ \A d \in Events : outbox'[d].version = outbox[d].version
<1>1. OutboxTyped'
  BY SMT DEF OutboxInv, OutboxTyped
<1>2. \A d \in Events : outbox'[d].version = outbox[d].version
  BY SMT DEF OutboxInv, OutboxTyped
<1>3. DrainHoldsItsRows'
  BY <1>2, SMT DEF OutboxInv, OutboxTyped, DrainHoldsItsRows, Present
<1>4. ReplicaLags'
  BY <1>2, SMT DEF OutboxInv, ReplicaLags
<1>5. QED
  BY <1>1, <1>2, <1>3, <1>4 DEF OutboxInv

(* What each step leaves of the payloads, besides the invariant: one fact is committed,     *)
(* one document catches up with its fact, or neither table changes.                         *)
Commits(e) ==
  /\ \A d \in Events : outbox'[d].version = IF d = e THEN outbox[d].version + 1
                                             ELSE outbox[d].version
  /\ UNCHANGED replica

Publishes(e) ==
  /\ \A d \in Events : outbox'[d].version = outbox[d].version
  /\ replica' = [replica EXCEPT ![e] = outbox[e].version]

Invisible ==
  /\ \A d \in Events : outbox'[d].version = outbox[d].version
  /\ UNCHANGED replica

(* Every step of the writer, the projector, the faults and the operator is one of these. *)
LEMMA OutboxSteps ==
  ASSUME OutboxInv, [OutboxNext]_outboxVars
  PROVE  OutboxInv' /\ (Invisible \/ \E e \in Events : Commits(e) \/ Publishes(e))
<1>0. \A e \in claimed \cup DOMAIN touched : Locked(e) /\ Present(e) /\ e \in Events
  BY DEF OutboxInv, OutboxTyped, DrainHoldsItsRows, Locked
<1>1. CASE UNCHANGED outboxVars
  BY <1>1, SMT DEF outboxVars, OutboxInv, OutboxTyped, DrainHoldsItsRows, ReplicaLags, Present, Invisible
<1>2. ASSUME NEW e \in Events, enqueueOutbox(e) PROVE OutboxInv' /\ Commits(e)
  <2>1. outbox[e].version = 0 /\ e \notin claimed \cup DOMAIN touched
    BY <1>0, <1>2, SMT DEF enqueueOutbox, Present, OutboxInv, OutboxTyped, OutboxRow
  <2>2. 1 \in Nat /\ 1 >= outbox[e].version
    BY <2>1, SMT
  <2>3. OutboxInv'
    BY <1>2, <2>1, <2>2, RenewalKeepsInv, Zenon DEF enqueueOutbox
  <2>4. Commits(e)
    BY <1>2, <2>1, FreshIsRow, SMT DEF enqueueOutbox, Commits, OutboxInv, OutboxTyped
  <2>5. QED BY <2>3, <2>4
<1>3. ASSUME NEW e \in Events, enqueueOutboxSnapshot(e) PROVE OutboxInv' /\ Commits(e)
  <2>1. outbox[e].version + 1 \in Nat /\ outbox[e].version + 1 >= outbox[e].version
    BY SMT DEF OutboxInv, OutboxTyped, OutboxRow
  <2>2. e \notin claimed \cup DOMAIN touched
    BY <1>0, <1>3 DEF enqueueOutboxSnapshot
  <2>3. OutboxInv'
    BY <1>3, <2>1, <2>2, RenewalKeepsInv, Zenon DEF enqueueOutboxSnapshot
  <2>4. Commits(e)
    BY <1>3, <2>1, FreshIsRow, SMT DEF enqueueOutboxSnapshot, Commits, OutboxInv, OutboxTyped
  <2>5. QED BY <2>3, <2>4
<1>4. ASSUME claim PROVE OutboxInv' /\ Invisible
  <2>1. DOMAIN touched = {}
    BY <1>4, <1>0 DEF claim, Locked
  <2>2. claimed' \subseteq Claimable
    BY <1>4 DEF claim
  <2>3. QED
    BY <1>4, <2>1, <2>2, SMT DEF claim, Claimable, OutboxInv, OutboxTyped, DrainHoldsItsRows, ReplicaLags,
       Present, Invisible
<1>5. ASSUME NEW e \in Events, publishRow(e) PROVE OutboxInv' /\ Publishes(e)
  <2> DEFINE fresh == [outbox[e] EXCEPT !.published = TRUE]
  <2>1. e \in claimed /\ outbox[e] \in OutboxRow /\ outbox[e].version \in Nat
    BY <1>5, SMT DEF publishRow, NextRow, OutboxInv, OutboxTyped, OutboxRow
  <2>2. fresh \in OutboxRow /\ fresh.version = outbox[e].version
    BY <2>1, UpdatedIsRow, Zenon
  <2>3. touched' = Touch(e, fresh) /\ claimed' \subseteq claimed
        /\ replica' = [replica EXCEPT ![e] = outbox[e].version]
        /\ UNCHANGED <<outbox, sequence, draining>>
    BY <1>5 DEF publishRow, replaceOne
  <2> HIDE DEF fresh
  <2>4. replica' \in [Events -> Nat] /\ \A d \in Events : replica'[d] <= outbox[d].version
    BY <2>1, <2>3, SMT DEF OutboxInv, OutboxTyped, ReplicaLags
  <2>5. OutboxInv'
    BY <2>1, <2>2, <2>3, <2>4, TouchKeepsInv, Zenon
  <2>6. QED BY <2>3, <2>5, SMT DEF Publishes
<1>6. ASSUME NEW e \in Events, publishFails(e) PROVE OutboxInv' /\ Invisible
  <2> DEFINE dead == outbox[e].attempts + 1 >= MaxPublishAttempts
             fresh == [outbox[e] EXCEPT !.attempts = @ + 1, !.due = FALSE, !.dead = dead]
  <2>1. e \in claimed /\ outbox[e] \in OutboxRow /\ dead \in BOOLEAN
    BY <1>6, SMT DEF publishFails, NextRow, OutboxInv, OutboxTyped
  <2>2. fresh \in OutboxRow /\ fresh.version = outbox[e].version
    BY <2>1, UpdatedIsRow, Zenon
  <2>3. touched' = Touch(e, fresh) /\ claimed' \subseteq claimed
        /\ UNCHANGED <<outbox, sequence, draining, replica>>
    BY <1>6 DEF publishFails
  <2> HIDE DEF fresh, dead
  <2>4. replica' \in [Events -> Nat] /\ \A d \in Events : replica'[d] <= outbox[d].version
    BY <2>3, SMT DEF OutboxInv, OutboxTyped, ReplicaLags
  <2>5. OutboxInv'
    BY <2>1, <2>2, <2>3, <2>4, TouchKeepsInv, Zenon
  <2>6. QED BY <2>3, <2>5, SMT DEF Invisible
<1>7. ASSUME drainBatch PROVE OutboxInv' /\ Invisible
  <2>1. DOMAIN touched' = {} /\ claimed' = {}
    BY <1>7, NothingTouched DEF drainBatch
  <2>2. outbox' = [e \in Events |-> IF e \in DOMAIN touched THEN touched[e] ELSE outbox[e]]
        /\ draining' = FALSE /\ UNCHANGED <<sequence, replica>>
    BY <1>7 DEF drainBatch
  <2>3. outbox' \in [Events -> OutboxRow]
        /\ \A d \in Events : outbox'[d].version = outbox[d].version
    BY <2>2, SMT DEF OutboxInv, OutboxTyped, DrainHoldsItsRows
  <2>4. OutboxTyped' /\ ReplicaLags'
    BY <2>1, <2>2, <2>3, SMT DEF OutboxInv, OutboxTyped, ReplicaLags
  <2>5. DrainHoldsItsRows'
    BY <2>1, Zenon DEF DrainHoldsItsRows
  <2>6. QED
    BY <2>2, <2>3, <2>4, <2>5 DEF OutboxInv, Invisible
<1>8. ASSUME drainLost PROVE OutboxInv' /\ Invisible
  <2>1. DOMAIN touched' = {} /\ claimed' = {} /\ draining' = FALSE
        /\ UNCHANGED <<outbox, sequence, replica>>
    BY <1>8, NothingTouched DEF drainLost
  <2>2. OutboxTyped' /\ ReplicaLags'
    BY <2>1, SMT DEF OutboxInv, OutboxTyped, ReplicaLags
  <2>3. DrainHoldsItsRows'
    BY <2>1, Zenon DEF DrainHoldsItsRows
  <2>4. QED
    BY <2>1, <2>2, <2>3 DEF OutboxInv, Invisible
<1>9. ASSUME NEW e \in Events, backoffMs(e) PROVE OutboxInv' /\ Invisible
  <2> DEFINE fresh == [outbox[e] EXCEPT !.due = TRUE]
  <2>1. outbox[e] \in OutboxRow /\ e \notin claimed \cup DOMAIN touched
    BY <1>0, <1>9, SMT DEF backoffMs, OutboxInv, OutboxTyped
  <2>2. fresh \in OutboxRow /\ fresh.version = outbox[e].version
    BY <2>1, Zenon DEF OutboxRow
  <2>3. outbox' = [outbox EXCEPT ![e] = fresh]
        /\ UNCHANGED <<sequence, replica, claimed, touched, draining>>
    BY <1>9 DEF backoffMs
  <2> HIDE DEF fresh
  <2>4. QED
    BY <2>1, <2>2, <2>3, RescheduleKeepsInv, Zenon DEF Invisible
<1>10. ASSUME NEW e \in Events, outboxReplay(e) PROVE OutboxInv' /\ Invisible
  <2>1. outbox[e] \in OutboxRow /\ e \notin claimed \cup DOMAIN touched
    BY <1>0, <1>10, SMT DEF outboxReplay, OutboxInv, OutboxTyped
  <2>2. PICK attempts \in {0, outbox[e].attempts} :
          outbox' = [outbox EXCEPT ![e] =
                       [@ EXCEPT !.dead = FALSE, !.due = TRUE, !.attempts = attempts]]
    BY <1>10 DEF outboxReplay
  <2> DEFINE fresh == [outbox[e] EXCEPT !.dead = FALSE, !.due = TRUE, !.attempts = attempts]
  <2>3. attempts \in Nat
    BY <2>1, SMT DEF OutboxRow
  <2>4. fresh \in OutboxRow /\ fresh.version = outbox[e].version
    BY <2>1, <2>3, Zenon DEF OutboxRow
  <2>5. outbox' = [outbox EXCEPT ![e] = fresh]
        /\ UNCHANGED <<sequence, replica, claimed, touched, draining>>
    BY <1>10, <2>2 DEF outboxReplay
  <2> HIDE DEF fresh
  <2>6. QED
    BY <2>1, <2>4, <2>5, RescheduleKeepsInv, Zenon DEF Invisible
<1>11. QED
  BY <1>1, <1>2, <1>3, <1>4, <1>5, <1>6, <1>7, <1>8, <1>9, <1>10, Zenon DEF OutboxNext, ProjectorStep

(* The outbox implements the lagging replica: the writer's transactions are the commits of   *)
(* Replica, replaceOne is its catching up, and a lost drain, a refused write, a dead letter  *)
(* or a replay shows nothing to a reader of MongoDB.                                         *)
THEOREM OutboxImplementsReplica == OutboxSpec => ImplementsReplica
<1>1. OutboxInit => AbstractReplica!ReplicaInit
  BY SMT DEF OutboxInit, AbstractReplica!ReplicaInit, Absent
<1>2. OutboxInv /\ [OutboxNext]_outboxVars
        => [AbstractReplica!ReplicaNext]_(AbstractReplica!replicaVars)
  <2> SUFFICES ASSUME OutboxInv, [OutboxNext]_outboxVars
               PROVE  [AbstractReplica!ReplicaNext]_(AbstractReplica!replicaVars)
    OBVIOUS
  <2> DEFINE source == [e \in Events |-> outbox[e].version]
  <2>1. CASE Invisible
    <3>1. source' = source BY <2>1, SMT DEF Invisible
    <3>2. QED BY <2>1, <3>1, SMT DEF Invisible, AbstractReplica!replicaVars
  <2>2. ASSUME NEW e \in Events, Commits(e) PROVE AbstractReplica!ReplicaNext
    <3>1. source' = [source EXCEPT ![e] = source[e] + 1]
      <4>1. ASSUME NEW f, f = source
            PROVE  [f EXCEPT ![e] = f[e] + 1]
                     = [d \in Events |-> IF d = e THEN f[d] + 1 ELSE f[d]]
        BY <4>1, Zenon
      <4>2. source' = [d \in Events |-> IF d = e THEN source[d] + 1 ELSE source[d]]
        BY <2>2, SMT DEF Commits
      <4>3. QED BY <4>1, <4>2, Zenon
    <3>2. AbstractReplica!Commit(e)
      BY <2>2, <3>1 DEF Commits, AbstractReplica!Commit
    <3>3. QED BY <3>2 DEF AbstractReplica!ReplicaNext
  <2>3. ASSUME NEW e \in Events, Publishes(e)
        PROVE  [AbstractReplica!ReplicaNext]_(AbstractReplica!replicaVars)
    <3>1. source' = source BY <2>3, SMT DEF Publishes
    <3>2. /\ replica \in [Events -> Nat] /\ outbox[e].version \in Nat
          /\ replica[e] <= outbox[e].version
      BY SMT DEF OutboxInv, OutboxTyped, ReplicaLags, OutboxRow
    <3>3. CASE replica[e] = outbox[e].version
      <4>1. replica' = replica BY <2>3, <3>2, <3>3, SMT DEF Publishes
      <4>2. QED BY <3>1, <4>1 DEF AbstractReplica!replicaVars
    <3>4. CASE replica[e] < outbox[e].version
      <4>1. outbox[e].version \in replica[e] + 1 .. source[e]
            /\ replica[e] < source[e]
        BY <3>2, <3>4, SMT
      <4>2. AbstractReplica!CatchUp(e)
        BY <2>3, <3>1, <4>1 DEF Publishes, AbstractReplica!CatchUp
      <4>3. QED BY <4>2 DEF AbstractReplica!ReplicaNext
    <3>5. QED BY <3>2, <3>3, <3>4, SMT
  <2>4. QED BY <2>1, <2>2, <2>3, OutboxSteps
<1>3. OutboxInv /\ [OutboxNext]_outboxVars => OutboxInv'
  BY OutboxSteps
<1>4. QED
  BY <1>1, <1>2, <1>3, OutboxStarts, PTL DEF OutboxSpec, ImplementsReplica, AbstractReplica!ReplicaSpec

-----------------------------------------------------------------------------
(* The modes of the process (liveModeTransition.ts, engine.ts).                              *)

USE ModeAssumption

(* The inductive invariant: the profile that a simulation runs under, with the types. *)
ModeShape ==
  /\ pipe \in [ModeRuns -> [stage : Stages, profile : Profiles]]
  /\ paperProfile \in Profiles
ModeInv == ModeShape /\ SimulationKeepsProfile

(* A box moves to its next stage, and its profile is the panel's when it starts. *)
LEMMA BoxMoves ==
  ASSUME ModeInv, NEW r \in ModeRuns, NEW from \in Stages, NEW to \in Stages, Moves(r, from, to),
         to = "simulating" => from = "idle"
  PROVE  ModeInv'
<1>0. /\ pipe \in [ModeRuns -> [stage : Stages, profile : Profiles]] /\ paperProfile \in Profiles
      /\ paperProfile' = paperProfile /\ SimulationKeepsProfile
  BY DEF ModeInv, ModeShape, Moves
<1>1. PICK b, p : b = pipe[r] /\ p = IF from = "idle" THEN paperProfile ELSE b.profile  OBVIOUS
<1>2. PICK d : d = [b EXCEPT !.stage = to, !.profile = p]  OBVIOUS
<1>3. b \in [stage : Stages, profile : Profiles] /\ b.profile \in Profiles  BY <1>0, <1>1
<1>4. p \in Profiles  BY <1>0, <1>1, <1>3
<1>5. d \in [stage : Stages, profile : Profiles] /\ d.stage = to /\ d.profile = p
  BY <1>2, <1>3, <1>4, Zenon
<1>6. pipe' = [pipe EXCEPT ![r] = d]
  BY <1>1, <1>2, Zenon DEF Moves
<1>7. pipe' \in [ModeRuns -> [stage : Stages, profile : Profiles]]  BY <1>0, <1>5, <1>6
<1>8. ASSUME NEW x \in ModeRuns, pipe'[x].stage = "simulating" PROVE pipe'[x].profile = paperProfile
  <2>1. CASE x = r
    <3>1. pipe'[x] = d  BY <1>0, <1>6, <2>1
    <3>2. from = "idle"  BY <1>5, <1>8, <3>1
    <3>. QED  BY <1>1, <1>5, <3>1, <3>2
  <2>2. CASE x # r
    <3>1. pipe'[x] = pipe[x]  BY <1>0, <1>6, <2>2
    <3>. QED  BY <1>0, <1>8, <3>1 DEF SimulationKeepsProfile, At
  <2>. QED  BY <2>1, <2>2
<1>. QED  BY <1>0, <1>7, <1>8 DEF ModeInv, ModeShape, SimulationKeepsProfile, At

(* A profile is changed only while nothing is simulated: every verdict that allows it looked. *)
LEMMA ChangeWaitsForSimulations ==
  ASSUME NEW profile \in Profiles, execMode # "live",
         profileVerdict(currentSelection(execMode, paperProfile), currentSelection(execMode, profile)) = "allowed"
  PROVE  ActiveSimulations = {}
<1>1. PICK from, to : from = currentSelection(execMode, paperProfile) /\ to = currentSelection(execMode, profile)
  OBVIOUS
<1>2. ASSUME NEW p PROVE currentSelection(execMode, p) # "live"
  <2>1. CASE execMode = "paper_legging"
    BY <2>1 DEF currentSelection
  <2>2. CASE execMode # "paper_legging"
    BY <2>2 DEF currentSelection
  <2>. QED  BY <2>1, <2>2
<1>3. from # "live" /\ to # "live"  BY <1>1, <1>2
<1>4. CASE from = to
  BY <1>1, <1>4 DEF profileVerdict
<1>5. CASE from # to
  <2>1. evaluateModeTransition(from, to) = "allowed"  BY <1>1, <1>5 DEF profileVerdict
  <2>2. evaluateModeTransition(from, to)
          = IF transitionBlockers = {} /\ ActiveSimulations = {} THEN "allowed" ELSE "refused"
    BY <1>3, <1>5, Zenon DEF evaluateModeTransition
  <2>. QED  BY <2>1, <2>2
<1>. QED  BY <1>4, <1>5

(* "Changing the timing model under a running simulated execution would corrupt its record": *)
(* the profile never changes under one, whatever the verdict on the change is taken from     *)
(* (setPaperExecutionProfile).                                                               *)
THEOREM ProfileOutlastsSimulation == ModeSpec => []SimulationKeepsProfile
<1>1. ASSUME ModeInit PROVE ModeInv
  BY <1>1 DEF ModeInit, ModeInv, ModeShape, SimulationKeepsProfile, At, Stages
<1>2. ASSUME ModeInv, [ModeNext]_modeVars PROVE ModeInv'
  <2>0. ASSUME UNCHANGED <<pipe, paperProfile>> PROVE ModeInv'
    BY <1>2, <2>0 DEF ModeInv, ModeShape, SimulationKeepsProfile, At
  <2>1. ASSUME NEW p \in Profiles, setPaperExecutionProfile(p) PROVE ModeInv'
    <3>1. CASE modeAnswer' = "allowed"
      <4>1. execMode # "live" /\ paperProfile' = p /\ pipe' = pipe
            /\ profileVerdict(currentSelection(execMode, paperProfile), currentSelection(execMode, p)) = "allowed"
        BY <2>1, <3>1, Zenon DEF setPaperExecutionProfile, runVars
      <4>2. ActiveSimulations = {}  BY <4>1, ChangeWaitsForSimulations
      <4>3. \A r \in ModeRuns : pipe[r].stage # "simulating"  BY <4>2 DEF ActiveSimulations, At
      <4>. QED  BY <1>2, <4>1, <4>3 DEF ModeInv, ModeShape, SimulationKeepsProfile, At
    <3>2. CASE modeAnswer' # "allowed"
      BY <2>0, <2>1, <3>2 DEF setPaperExecutionProfile, runVars
    <3>. QED  BY <3>1, <3>2
  <2>2. CASE \/ \E s \in Selections : previewModeTransition(s)
             \/ \E p \in Permissions : setLiveControl(p)
             \/ \E f \in LiveFacts : ManagerReports(f)
             \/ StartOrStop
    BY <2>0, <2>2 DEF previewModeTransition, setLiveControl, ManagerReports, StartOrStop, runVars
  <2>3. ASSUME NEW r \in ModeRuns,
               \/ simulateEntry(r) \/ EntryRefused(r) \/ EntryFills(r) \/ EntryStored(r)
               \/ simulateExit(r) \/ ExitFails(r) \/ ExitDone(r)
        PROVE  ModeInv'
    BY <1>2, <2>3, BoxMoves
       DEF simulateEntry, EntryRefused, EntryFills, EntryStored, simulateExit, ExitFails, ExitDone, Stages
  <2>4. ASSUME NEW r \in ModeRuns, ResidueFlattened(r) PROVE ModeInv'
    BY <2>0, <2>4 DEF ResidueFlattened
  <2>5. CASE UNCHANGED modeVars
    BY <2>0, <2>5 DEF modeVars, runVars
  <2>. QED  BY <1>2, <2>1, <2>2, <2>3, <2>4, <2>5 DEF ModeNext
<1>3. ModeInv => SimulationKeepsProfile  BY DEF ModeInv
<1>. QED  BY <1>1, <1>2, <1>3, PTL DEF ModeSpec

-----------------------------------------------------------------------------
(* The start and the end of the process (index.ts, readiness.ts).                            *)

USE ProcessAssumption

(* A shutdown that has begun is visible in the readiness state. *)
ShutdownShows ==
  /\ readiness \in ReadinessStates \cup {"down"} /\ bootAt \in 0 .. 13 /\ shutdownAt \in Nat
  /\ shutdownAt # 0 => readiness = "shutting_down"
  /\ readiness = "down" => bootAt = 0

(* What the boot sequence has established by its k-th step, while no shutdown began. *)
Passed(k) == readiness = "ready" \/ (readiness = "starting" /\ bootAt > k)
BootEstablishes ==
  /\ Passed(6) /\ LiveMode => "positions" \in recovered
  /\ Passed(9) => "monitor" \in timers
  /\ Passed(11) => "orders" \in recovered

(* The inductive invariant of the process. *)
ProcessInv == ShutdownShows /\ BootEstablishes

(* The order of the boot sequence (bootPersistence, engine.adoptPersistedState). *)
LEMMA BootOrder ==
  /\ Len(BootSteps) = 12
  /\ \A s : Booting(s) => bootAt \in 1 .. 12
  /\ Booting("adopt") => bootAt = 6
  /\ Booting("monitor") => bootAt = 9
  /\ Booting("verify") => bootAt = 11
  /\ bootAt = 6 /\ (\E s : Booting(s)) => Booting("adopt")
  /\ bootAt = 9 /\ (\E s : Booting(s)) => Booting("monitor")
  /\ bootAt = 11 /\ (\E s : Booting(s)) => Booting("verify")
<1>1. Len(BootSteps) = 12  BY DEF BootSteps
<1>2. /\ BootSteps[1] = "postgres" /\ BootSteps[2] = "restore" /\ BootSteps[3] = "persistence"
      /\ BootSteps[4] = "gate" /\ BootSteps[5] = "tuning" /\ BootSteps[6] = "adopt"
      /\ BootSteps[7] = "seed" /\ BootSteps[8] = "reconcile" /\ BootSteps[9] = "monitor"
      /\ BootSteps[10] = "archive" /\ BootSteps[11] = "verify" /\ BootSteps[12] = "services"
  BY DEF BootSteps
<1>3. \A i \in 1 .. 12 : \/ i = 1 \/ i = 2 \/ i = 3 \/ i = 4 \/ i = 5 \/ i = 6
                         \/ i = 7 \/ i = 8 \/ i = 9 \/ i = 10 \/ i = 11 \/ i = 12
  OBVIOUS
<1>. QED  BY <1>1, <1>2, <1>3 DEF Booting

(* A step of the boot sequence that goes on. *)
LEMMA BootGoesOn ==
  ASSUME ProcessInv, NEW s, Booting(s), BootMoves,
         timers \subseteq timers', recovered \subseteq recovered',
         Booting("adopt") /\ LiveMode => "positions" \in recovered',
         Booting("monitor") => "monitor" \in timers',
         Booting("verify") => "orders" \in recovered'
  PROVE  ProcessInv'
<1>1. /\ bootAt \in 1 .. 12 /\ bootAt' = bootAt + 1 /\ UNCHANGED <<readiness, shutdownAt, deployment>>
  BY BootOrder DEF BootMoves, Surroundings, Closing
<1>2. /\ bootAt = 6 => Booting("adopt")
      /\ bootAt = 9 => Booting("monitor")
      /\ bootAt = 11 => Booting("verify")
  BY BootOrder
<1>3. ShutdownShows'  BY <1>1 DEF ProcessInv, ShutdownShows
<1>4. BootEstablishes'
  BY <1>1, <1>2 DEF ProcessInv, BootEstablishes, Passed, LiveMode
<1>. QED  BY <1>3, <1>4 DEF ProcessInv

(* What touches neither the sequence nor the state of readiness, and takes nothing away. *)
LEMMA ProcessFrame ==
  ASSUME ProcessInv, UNCHANGED <<readiness, bootAt, deployment>>,
         shutdownAt' = shutdownAt \/ (shutdownAt # 0 /\ shutdownAt' \in Nat \ {0}),
         recovered \subseteq recovered', "monitor" \in timers /\ shutdownAt = 0 => "monitor" \in timers'
  PROVE  ProcessInv'
BY DEF ProcessInv, ShutdownShows, BootEstablishes, Passed, LiveMode

(* A process that is going down establishes nothing. *)
LEMMA ProcessIsGoing ==
  ASSUME ProcessInv, readiness' \in {"shutting_down", "down"}, bootAt' \in 0 .. 13, shutdownAt' \in Nat,
         shutdownAt' # 0 => readiness' = "shutting_down", readiness' = "down" => bootAt' = 0
  PROVE  ProcessInv'
BY DEF ProcessInv, ShutdownShows, BootEstablishes, Passed, ReadinessStates

(* The states of readiness only move forward. *)
LEMMA TransitionMoves ==
  ASSUME readiness \in ReadinessStates, NEW to, transition(to)
  PROVE  /\ to = "shutting_down" => readiness' = "shutting_down"
         /\ to = "ready" => readiness' = IF readiness = "starting" THEN "ready" ELSE readiness
BY DEF transition, LEGAL_TRANSITIONS, ReadinessStates

(* A step of the boot sequence, the one that throws included. *)
LEMMA BootKeepsProcess == ASSUME ProcessInv, BootStep PROVE ProcessInv'
<1>1. CASE initPg \/ restoreBroker \/ ensureBoxPersistenceReady \/ liveGate \/ loadPersistedTuning \/ seedLimits
  <2>1. PICK s \in {"postgres", "restore", "persistence", "gate", "tuning", "seed"} :
           Booting(s) /\ BootMoves /\ UNCHANGED <<timers, recovered>>
    BY <1>1 DEF initPg, restoreBroker, ensureBoxPersistenceReady, liveGate, loadPersistedTuning, seedLimits
  <2>2. ~Booting("adopt") /\ ~Booting("monitor") /\ ~Booting("verify")  BY <2>1 DEF Booting
  <2>. QED  BY <2>1, <2>2, BootGoesOn
<1>2. CASE adoptPositions
  <2>1. /\ Booting("adopt") /\ BootMoves /\ UNCHANGED timers /\ recovered \subseteq recovered'
        /\ LiveMode => "positions" \in recovered'
    BY <1>2 DEF adoptPositions
  <2>2. ~Booting("monitor") /\ ~Booting("verify")  BY <2>1 DEF Booting
  <2>. QED  BY <2>1, <2>2, BootGoesOn
<1>3. CASE startOrderManager
  <2>1. Booting("reconcile") /\ BootMoves /\ timers \subseteq timers' /\ recovered \subseteq recovered'
    BY <1>3 DEF startOrderManager
  <2>2. ~Booting("adopt") /\ ~Booting("monitor") /\ ~Booting("verify")  BY <2>1 DEF Booting
  <2>. QED  BY <2>1, <2>2, BootGoesOn
<1>4. CASE startMonitor
  <2>1. Booting("monitor") /\ BootMoves /\ timers' = timers \cup {"monitor"} /\ UNCHANGED recovered
    BY <1>4 DEF startMonitor
  <2>2. ~Booting("adopt") /\ ~Booting("verify")  BY <2>1 DEF Booting
  <2>. QED  BY <2>1, <2>2, BootGoesOn
<1>5. CASE startArchiver
  <2>1. Booting("archive") /\ BootMoves /\ timers \subseteq timers' /\ UNCHANGED recovered
    BY <1>5 DEF startArchiver
  <2>2. ~Booting("adopt") /\ ~Booting("monitor") /\ ~Booting("verify")  BY <2>1 DEF Booting
  <2>. QED  BY <2>1, <2>2, BootGoesOn
<1>6. CASE verifyReconciled
  <2>1. Booting("verify") /\ BootMoves /\ UNCHANGED <<timers, recovered>> /\ "orders" \in recovered
    BY <1>6 DEF verifyReconciled, reconciliationComplete
  <2>2. ~Booting("adopt") /\ ~Booting("monitor")  BY <2>1 DEF Booting
  <2>. QED  BY <2>1, <2>2, BootGoesOn
<1>7. CASE startServices
  <2>1. Booting("services") /\ BootMoves /\ timers \subseteq timers' /\ UNCHANGED recovered
    BY <1>7 DEF startServices
  <2>2. ~Booting("adopt") /\ ~Booting("monitor") /\ ~Booting("verify")  BY <2>1 DEF Booting
  <2>. QED  BY <2>1, <2>2, BootGoesOn
<1>8. CASE markReady
  <2>1. /\ bootAt = 13 /\ bootAt' = 0 /\ transition("ready")
        /\ UNCHANGED <<deployment, shutdownAt, timers, recovered>>
    BY <1>8, BootOrder DEF markReady, Surroundings, Closing
  <2>2. readiness' = IF readiness = "starting" THEN "ready" ELSE readiness
    <3>1. readiness \in ReadinessStates  BY <2>1 DEF ProcessInv, ShutdownShows
    <3>. QED  BY <2>1, <3>1, TransitionMoves
  <2>. QED
    BY <2>1, <2>2 DEF ProcessInv, ShutdownShows, BootEstablishes, Passed, LiveMode, ReadinessStates
<1>9. CASE BootThrows
  BY <1>9, ProcessIsGoing DEF BootThrows, runShutdown, ProcessInv, ShutdownShows
<1>. QED  BY <1>1, <1>2, <1>3, <1>4, <1>5, <1>6, <1>7, <1>8, <1>9 DEF BootStep

(* A step of the shutdown, from the signal to the exit. *)
LEMMA ShutdownKeepsProcess == ASSUME ProcessInv, ShutdownStep PROVE ProcessInv'
<1>0. /\ \E s : Doing(s)
      /\ StepDone /\ (readiness' = readiness \/ transition("shutting_down"))
  BY Zenon DEF ShutdownStep, stopDiscovery, confirmReadiness, stopTokens, stopFeeds, dispose, flushOutbox,
         closeResources
<1>1. shutdownAt # 0 /\ shutdownAt' = shutdownAt + 1 /\ UNCHANGED bootAt
  BY <1>0 DEF Doing, StepDone
<1>a. readiness = "shutting_down" /\ shutdownAt' \in Nat  BY <1>1 DEF ProcessInv, ShutdownShows
<1>2. readiness' = "shutting_down"  BY <1>0, <1>a, TransitionMoves DEF ReadinessStates
<1>. QED  BY <1>1, <1>a, <1>2, ProcessIsGoing DEF ProcessInv, ShutdownShows

(* A process that answers ready and takes mutating requests knows what it owns: its orders   *)
(* are reconciled, in live mode its positions are adopted, its monitor runs, and no step of  *)
(* a shutdown has been taken, wherever a signal, a failed call or a hanging one fell (boot,  *)
(* markReady, the signal handlers).                                                          *)
THEOREM ReadyProcessIsWhole == ProcessSpec => []ReadyIsWhole
<1>1. ASSUME ProcessInit PROVE ProcessInv
  BY <1>1 DEF ProcessInit, ProcessInv, ShutdownShows, BootEstablishes, Passed
<1>2. ASSUME ProcessInv, [ProcessNext]_processVars PROVE ProcessInv'
  <2>1. CASE Launch
    BY <1>2, <2>1 DEF Launch, Surroundings, Closing, ProcessInv, ShutdownShows, BootEstablishes, Passed,
                      ReadinessStates
  <2>2. CASE BootStep
    BY <1>2, <2>2, BootKeepsProcess
  <2>3. CASE StartScanner \/ StartContinues \/ StopScanner \/ TokenInstalled
    BY <1>2, <2>3, ProcessFrame
       DEF StartScanner, StartContinues, StopScanner, engineStop, TokenInstalled, Surroundings, Closing
  <2>4. CASE Signal
    <3>1. /\ readiness \in ReadinessStates /\ transition("shutting_down") /\ UNCHANGED bootAt
          /\ shutdownAt' \in Nat
      BY <1>2, <2>4 DEF Signal, runShutdown, ProcessInv, ShutdownShows
    <3>2. readiness' = "shutting_down"  BY <3>1, TransitionMoves
    <3>. QED  BY <1>2, <3>1, <3>2, ProcessIsGoing DEF ProcessInv, ShutdownShows
  <2>5. CASE ShutdownStep
    BY <1>2, <2>5, ShutdownKeepsProcess
  <2>6. CASE StepHangs
    BY <1>2, <2>6, ProcessFrame DEF StepHangs, Surroundings
  <2>7. CASE ProcessExits \/ ProcessCrash
    BY <1>2, <2>7, ProcessIsGoing DEF ProcessExits, ProcessCrash, Gone
  <2>8. CASE UNCHANGED processVars
    BY <1>2, <2>8, ProcessFrame DEF processVars
  <2>. QED  BY <1>2, <2>1, <2>2, <2>3, <2>4, <2>5, <2>6, <2>7, <2>8 DEF ProcessNext
<1>3. ProcessInv => ReadyIsWhole
  BY DEF ProcessInv, ShutdownShows, BootEstablishes, Passed, ReadyIsWhole
<1>. QED  BY <1>1, <1>2, <1>3, PTL DEF ProcessSpec

-----------------------------------------------------------------------------
(* The replay of the day's peak margin (repository.ts, marginReplay.ts). *)

LessThan == OpToRel(<, Nat)

(* A nonempty set of naturals has a smallest member. *)
LEMMA Smallest ==
    ASSUME NEW T \in SUBSET Nat, T # {}
    PROVE  \E x \in T : \A y \in T : x <= y
<1>1. IsWellFoundedOn(LessThan, Nat)  BY NatLessThanWellFounded, Zenon DEF LessThan
<1>2. PICK x \in T : \A y \in T : <<y, x>> \notin LessThan  BY <1>1, WFMin, Zenon
<1>3. ASSUME NEW y \in T PROVE x <= y
  <2>1. x \in Nat /\ y \in Nat  OBVIOUS
  <2>2. ~ (y < x)  BY <1>2, <2>1 DEF LessThan, OpToRel
  <2>. QED  BY <2>1, <2>2
<1>. QED  BY <1>3

(* A nonempty set of naturals below a bound has a largest member, which is its Max. *)
LEMMA MaxIsLargest ==
    ASSUME NEW n \in Nat, NEW T \in SUBSET (0 .. n), T # {}
    PROVE  Max(T) \in T /\ \A y \in T : y <= Max(T)
<1>1. PICK D : D = {n - x : x \in T}  OBVIOUS
<1>2. D \in SUBSET Nat /\ D # {}
  <2>1. ASSUME NEW e \in D PROVE e \in Nat
    <3>1. PICK x \in T : e = n - x  BY <1>1
    <3>2. x \in 0 .. n  OBVIOUS
    <3>. QED  BY <3>1, <3>2
  <2>2. PICK x : x \in T  OBVIOUS
  <2>3. n - x \in D  BY <1>1, <2>2
  <2>. QED  BY <2>1, <2>3
<1>3. PICK d \in D : \A e \in D : d <= e  BY <1>2, Smallest
<1>4. PICK x \in T : d = n - x  BY <1>1
<1>5. \A y \in T : x >= y
  <2>1. TAKE y \in T
  <2>2. n - y \in D  BY <1>1
  <2>3. d <= n - y  BY <1>3, <2>2
  <2>4. x \in 0 .. n /\ y \in 0 .. n  OBVIOUS
  <2>. QED  BY <1>4, <2>3, <2>4
<1>6. Max(T) \in T /\ \A y \in T : Max(T) >= y  BY <1>5, Zenon DEF Max
<1>7. T \subseteq Nat  OBVIOUS
<1>. QED  BY <1>6, <1>7

(* Two sets of which each has, for every member, one at least as large in the other have   *)
(* the same Max.                                                                           *)
LEMMA SameMax ==
    ASSUME NEW n \in Nat, NEW S \in SUBSET (0 .. n), NEW T \in SUBSET (0 .. n), S # {}, T # {},
           \A x \in S : \E y \in T : x <= y,
           \A y \in T : \E x \in S : y <= x
    PROVE  Max(S) = Max(T)
<1>1. PICK a : a = Max(S)  OBVIOUS
<1>2. PICK b : b = Max(T)  OBVIOUS
<1>3. a \in S /\ \A x \in S : x <= a  BY <1>1, MaxIsLargest
<1>4. b \in T /\ \A y \in T : y <= b  BY <1>2, MaxIsLargest
<1>5. PICK y \in T : a <= y  BY <1>3
<1>6. PICK x \in S : b <= x  BY <1>4
<1>7. a <= y /\ y <= b /\ b <= x /\ x <= a  BY <1>3, <1>4, <1>5, <1>6
<1>8. {a, b, x, y} \subseteq 0 .. n  BY <1>3, <1>4
<1>9. a = b  BY <1>7, <1>8
<1>. QED  BY <1>1, <1>2, <1>9

Intervals == [id : AllTrades, from : 0 .. LastTick, to : 0 .. LastTick, margin : BOOLEAN]

(* Sweeping the start points is exact: whatever holds its margin at an instant still did   *)
(* so, and held it together with the others, when the last of them began.                  *)
LEMMA SweepIsExact ==
    ASSUME NEW s \in SUBSET Intervals, IsFiniteSet(s), \A i \in s : i.from < i.to
    PROVE  peakConcurrentMargin(s) =
             Max({Cardinality({i \in s : i.from < instant + 1 /\ i.to > instant}) :
                    instant \in 0 .. LastTick})
<1>. DEFINE Holding(t) == {o \in s : HoldsAt(o, t)}
            Swept == {0} \cup {Cardinality(Holding(p.from)) : p \in s}
            Every == {Cardinality(Holding(t)) : t \in 0 .. LastTick}
<1>0. LastTick \in Nat  BY DayTallyAssumption
<1>1. \A i \in s : i.from \in 0 .. LastTick /\ i.to \in 0 .. LastTick  BY DEF Intervals
<1>2. \A t \in 0 .. LastTick : {i \in s : i.from < t + 1 /\ i.to > t} = Holding(t)
  BY <1>0, <1>1 DEF HoldsAt
<1>3. PICK n : n = Cardinality(s)  OBVIOUS
<1>4. n \in Nat  BY <1>3, FS_CardinalityType
<1>5. \A t : IsFiniteSet(Holding(t)) /\ Cardinality(Holding(t)) \in 0 .. n
  <2>1. TAKE t
  <2>2. Holding(t) \in SUBSET s  OBVIOUS
  <2>3. IsFiniteSet(Holding(t)) /\ Cardinality(Holding(t)) <= n  BY <1>3, <2>2, FS_Subset
  <2>4. Cardinality(Holding(t)) \in Nat  BY <2>3, FS_CardinalityType
  <2>. QED  BY <1>4, <2>3, <2>4
<1>6. Swept \in SUBSET (0 .. n) /\ Every \in SUBSET (0 .. n)  
  <2>1. ASSUME NEW x \in Swept PROVE x \in 0 .. n
    <3>1. x = 0 \/ \E p \in s : x = Cardinality(Holding(p.from))  BY Zenon
    <3>2. 0 \in 0 .. n  BY <1>4
    <3>. QED  BY <1>5, <3>1, <3>2, Zenon
  <2>2. ASSUME NEW x \in Every PROVE x \in 0 .. n
    <3>1. \E t \in 0 .. LastTick : x = Cardinality(Holding(t))  BY Zenon
    <3>. QED  BY <1>5, <3>1, Zenon
  <2>. QED  BY <2>1, <2>2, Zenon
<1>7. Swept # {} /\ Every # {}
  <2>1. 0 \in Swept  BY Zenon
  <2>2. 0 \in 0 .. LastTick  BY <1>0
  <2>3. Cardinality(Holding(0)) \in Every  BY <2>2, Zenon
  <2>. QED  BY <2>1, <2>3, Zenon
<1>8. \A x \in Swept : \E y \in Every : x <= y
  <2>1. TAKE x \in Swept
  <2>2. x \in Nat  BY <1>4, <1>6
  <2>3. CASE x = 0
    <3>1. PICK y \in Every : TRUE  BY <1>7, Zenon
    <3>2. y \in 0 .. n  BY <1>6, <3>1, Zenon
    <3>3. y \in Nat  BY <1>4, <3>2
    <3>. QED  BY <2>3, <3>1, <3>3
  <2>4. CASE x # 0
    <3>1. PICK p \in s : x = Cardinality(Holding(p.from))  BY <2>4
    <3>2. x \in Every  BY <1>1, <3>1
    <3>. QED  BY <2>2, <3>2
  <2>. QED  BY <2>3, <2>4
<1>9. \A y \in Every : \E x \in Swept : y <= x
  <2>1. TAKE y \in Every
  <2>2. PICK t \in 0 .. LastTick : y = Cardinality(Holding(t))  OBVIOUS
  <2>3. CASE Holding(t) = {}
    <3>1. y = 0  BY <2>2, <2>3, FS_EmptySet
    <3>. QED  BY <3>1
  <2>4. CASE Holding(t) # {}
    <3>1. PICK D : D = {i.from : i \in Holding(t)}  OBVIOUS
    <3>2. D \in SUBSET (0 .. LastTick) /\ D # {}  BY <1>1, <2>4, <3>1
    <3>3. PICK m : m = Max(D)  OBVIOUS
    <3>4. m \in D /\ \A d \in D : d <= m  BY <1>0, <3>2, <3>3, MaxIsLargest
    <3>5. PICK last \in Holding(t) : last.from = m  BY <3>1, <3>4
    <3>6. last \in s /\ last.from <= t  BY <3>5 DEF HoldsAt
    <3>7. ASSUME NEW o \in Holding(t) PROVE o \in Holding(last.from)
      <4>1. o \in s /\ o.from <= t /\ t < o.to  BY DEF HoldsAt
      <4>2. o.from <= last.from  BY <3>1, <3>4, <3>5
      <4>3. {o.from, o.to, last.from} \subseteq 0 .. LastTick  BY <1>1, <3>6, <4>1
      <4>4. last.from < o.to  BY <1>0, <2>2, <3>6, <4>1, <4>3
      <4>. QED  BY <4>1, <4>2, <4>4 DEF HoldsAt
    <3>8. Cardinality(Holding(t)) <= Cardinality(Holding(last.from))
      <4>1. PICK S : S = Holding(last.from)  OBVIOUS
      <4>2. PICK T : T = Holding(t)  OBVIOUS
      <4>3. T \in SUBSET S  BY <3>7, <4>1, <4>2
      <4>4. IsFiniteSet(S)  BY <1>5, <4>1
      <4>5. Cardinality(T) <= Cardinality(S)  BY <4>3, <4>4, FS_Subset
      <4>. QED  BY <4>1, <4>2, <4>5
    <3>9. Cardinality(Holding(last.from)) \in Swept  BY <3>6
    <3>. QED  BY <2>2, <3>8, <3>9
  <2>. QED  BY <2>3, <2>4
<1>10. Max(Swept) = Max(Every)
  <2>. HIDE DEF Swept, Every
  <2>. QED  BY <1>4, <1>6, <1>7, <1>8, <1>9, SameMax
<1>11. {Cardinality({i \in s : i.from < instant + 1 /\ i.to > instant}) : instant \in 0 .. LastTick} = Every
  BY <1>2
<1>12. peakConcurrentMargin(s) = Max(Swept)  BY DEF peakConcurrentMargin
<1>. QED  BY <1>10, <1>11, <1>12, Zenon

DayRows == [status : RowStatus, opened : 0 .. LastTick, closed : 0 .. LastTick, margin : BOOLEAN]
DayInv == tick \in 1 .. LastTick /\ rows \in [AllTrades -> DayRows]

(* The day starts with the rows an earlier process left. *)
LEMMA DayStarts == DayInit => DayInv
<1>. SUFFICES ASSUME DayInit PROVE DayInv  OBVIOUS
<1>1. LastTick \in Nat /\ StartTick \in 1 .. LastTick  BY DayTallyAssumption
<1>2. PICK past \in [EarlierTrades -> {[status |-> "closed", opened |-> o, closed |-> c, margin |-> m] :
                                          o \in 1 .. StartTick, c \in 1 .. StartTick, m \in BOOLEAN}] :
        rows = [t \in AllTrades |-> IF t \in EarlierTrades THEN past[t] ELSE NoTradeRow]
  BY DEF DayInit
<1>3. NoTradeRow \in DayRows  BY <1>1 DEF NoTradeRow, DayRows, RowStatus
<1>4. ASSUME NEW t \in EarlierTrades PROVE past[t] \in DayRows
  <2>1. PICK o \in 1 .. StartTick, c \in 1 .. StartTick, m \in BOOLEAN :
           past[t] = [status |-> "closed", opened |-> o, closed |-> c, margin |-> m]
    BY <1>2
  <2>2. o \in 0 .. LastTick /\ c \in 0 .. LastTick  BY <1>1
  <2>. QED  BY <2>1, <2>2 DEF DayRows, RowStatus
<1>5. rows \in [AllTrades -> DayRows]
  <2>1. ASSUME NEW t \in AllTrades PROVE (IF t \in EarlierTrades THEN past[t] ELSE NoTradeRow) \in DayRows
    BY <1>3, <1>4
  <2>. QED  BY <1>2, <2>1
<1>6. tick \in 1 .. LastTick  BY <1>1 DEF DayInit
<1>. QED  BY <1>5, <1>6 DEF DayInv

(* A row that is written over with a row stays a table of rows. *)
LEMMA RowWritten ==
    ASSUME DayInv, NEW t \in AllTrades, NEW r \in DayRows, rows' = [rows EXCEPT ![t] = r], UNCHANGED tick
    PROVE  DayInv'
BY Zenon DEF DayInv, DayRows

(* Opening, pricing, closing and deleting a trade write rows of the table. *)
LEMMA DayStep == DayInv /\ [DayNext]_dayVars => DayInv'
<1>. SUFFICES ASSUME DayInv, [DayNext]_dayVars PROVE DayInv'  OBVIOUS
<1>0. LastTick \in Nat  BY DayTallyAssumption
<1>1. CASE UNCHANGED <<tick, rows>>  BY <1>1 DEF DayInv, DayRows
<1>2. CASE TickPasses  BY <1>0, <1>2 DEF TickPasses, DayInv, DayRows
<1>3. ASSUME NEW t \in DayTrades,
             TradeOpens(t) \/ setBoxTradeMargin(t) \/ closeBoxTrade(t) \/ deleteBoxTrade(t)
      PROVE  DayInv'
  <2>0. t \in AllTrades /\ rows[t] \in DayRows /\ tick \in 0 .. LastTick  BY <1>0 DEF AllTrades, DayInv
  <2>1. CASE TradeOpens(t)
    <3>1. PICK r : r = [status |-> "open", opened |-> tick, closed |-> 0, margin |-> FALSE]  OBVIOUS
    <3>2. r \in DayRows  BY <1>0, <2>0, <3>1 DEF DayRows, RowStatus
    <3>3. rows' = [rows EXCEPT ![t] = r] /\ UNCHANGED tick  BY <2>1, <3>1, Zenon DEF TradeOpens
    <3>. QED  BY <2>0, <3>2, <3>3, RowWritten
  <2>2. CASE setBoxTradeMargin(t) /\ rows' = [rows EXCEPT ![t].margin = TRUE]
    <3>1. PICK r : r = [rows[t] EXCEPT !.margin = TRUE]  OBVIOUS
    <3>2. r \in DayRows  BY <2>0, <3>1, Zenon DEF DayRows
    <3>3. rows' = [rows EXCEPT ![t] = r] /\ UNCHANGED tick  BY <2>2, <3>1, Zenon DEF setBoxTradeMargin
    <3>. QED  BY <2>0, <3>2, <3>3, RowWritten
  <2>3. CASE closeBoxTrade(t) /\ rows' # rows
    <3>1. PICK r : r = [rows[t] EXCEPT !.status = "closed", !.closed = tick]  OBVIOUS
    <3>2. "closed" \in RowStatus  BY DEF RowStatus
    <3>3. r \in DayRows  BY <2>0, <3>1, <3>2, Zenon DEF DayRows
    <3>4. rows' = [rows EXCEPT ![t].status = "closed", ![t].closed = tick] /\ UNCHANGED tick
      BY <2>3, Zenon DEF closeBoxTrade
    <3>5. rows' = [rows EXCEPT ![t] = r]  BY <2>0, <3>1, <3>4, Zenon DEF DayInv, DayRows
    <3>. QED  BY <2>0, <3>3, <3>4, <3>5, RowWritten
  <2>4. CASE deleteBoxTrade(t)
    <3>1. PICK r : r = [rows[t] EXCEPT !.status = "deleted"]  OBVIOUS
    <3>2. "deleted" \in RowStatus  BY DEF RowStatus
    <3>3. r \in DayRows  BY <2>0, <3>1, <3>2, Zenon DEF DayRows
    <3>4. rows' = [rows EXCEPT ![t] = r] /\ UNCHANGED tick  BY <2>4, <3>1, Zenon DEF deleteBoxTrade
    <3>. QED  BY <2>0, <3>3, <3>4, RowWritten
  <2>5. CASE UNCHANGED <<tick, rows>>  BY <1>1, <2>5
  <2>6. UNCHANGED tick  BY <1>3 DEF TradeOpens, setBoxTradeMargin, closeBoxTrade, deleteBoxTrade
  <2>7. \/ TradeOpens(t) \/ deleteBoxTrade(t) \/ UNCHANGED rows
        \/ setBoxTradeMargin(t) /\ rows' = [rows EXCEPT ![t].margin = TRUE]
        \/ closeBoxTrade(t) /\ rows' # rows
    BY <1>3, Zenon DEF setBoxTradeMargin, closeBoxTrade
  <2>. QED  BY <2>1, <2>2, <2>3, <2>4, <2>5, <2>6, <2>7, Zenon
<1>4. \/ TickPasses \/ UNCHANGED <<tick, rows>>
      \/ \E t \in DayTrades : TradeOpens(t) \/ setBoxTradeMargin(t) \/ closeBoxTrade(t) \/ deleteBoxTrade(t)
  BY Zenon DEF DayNext, dayVars, BootSeeds, getClosedToday, TabAdopts, backfillMissingMargins, computeDayPnl,
     StoreAnswers, captureMargin, MarginCallFails, CloseBegins, closePaperTradeFolds, deleteTrade,
     recomputeTradeDerivedStatistics, DeletionRecounts
<1>. QED  BY <1>1, <1>2, <1>3, <1>4

(* The intervals read for the replay are finitely many, one of each trade of the day. *)
LEMMA IntervalsAreFinite ==
    ASSUME DayInv, NEW day
    PROVE  /\ loadBoxMarginIntervalsSince(day) \in SUBSET Intervals
           /\ IsFiniteSet(loadBoxMarginIntervalsSince(day))
<1>0. LastTick \in Nat /\ IsFiniteSet(AllTrades)
  BY DayTallyAssumption, FS_Union DEF AllTrades
<1>. DEFINE F == {u \in AllTrades : \/ rows[u].status = "open"
                                    \/ rows[u].status = "closed" /\ rows[u].closed >= FirstTick(day)}
            Interval(t) == [id |-> t, from |-> rows[t].opened,
                            to |-> IF rows[t].status = "open" THEN tick ELSE rows[t].closed,
                            margin |-> rows[t].margin]
            I == {Interval(t) : t \in F}
            f == [t \in F |-> Interval(t)]
<1>1. loadBoxMarginIntervalsSince(day) = I  BY Zenon DEF loadBoxMarginIntervalsSince
<1>2. IsFiniteSet(F)
  <2>1. F \in SUBSET AllTrades  OBVIOUS
  <2>. QED  BY <1>0, <2>1, FS_Subset
<1>3. f \in Surjection(F, I)  BY Zenon DEF Surjection
<1>4. IsFiniteSet(I)
  <2>. HIDE DEF F, I, f
  <2>. QED  BY <1>2, <1>3, FS_Surjection
<1>5. ASSUME NEW t \in F PROVE Interval(t) \in Intervals
  <2>1. t \in AllTrades /\ rows[t] \in DayRows /\ tick \in 0 .. LastTick  BY <1>0 DEF DayInv
  <2>2. /\ rows[t].opened \in 0 .. LastTick /\ rows[t].closed \in 0 .. LastTick /\ rows[t].margin \in BOOLEAN
    BY <2>1 DEF DayRows
  <2>3. PICK to : to = IF rows[t].status = "open" THEN tick ELSE rows[t].closed  OBVIOUS
  <2>4. to \in 0 .. LastTick  BY <2>1, <2>2, <2>3, Zenon
  <2>5. [id |-> t, from |-> rows[t].opened, to |-> to, margin |-> rows[t].margin] \in Intervals
    BY <2>1, <2>2, <2>4, Zenon DEF Intervals
  <2>. QED  BY <2>3, <2>5, Zenon
<1>6. I \in SUBSET Intervals  BY <1>5
<1>. QED  BY <1>1, <1>4, <1>6, Zenon

(* The replay of the day's intervals reports the highest margin that was blocked at any    *)
(* instant of its trades (recomputePeakConcurrentMargin).                                  *)
THEOREM PeakIsExact == DaySpec => []PeakIsHighest
<1>1. DayInv => PeakIsHighest
  <2>. SUFFICES ASSUME DayInv PROVE PeakIsHighest  OBVIOUS
  <2>1. PICK a : a = loadBoxMarginIntervalsSince(Today)  OBVIOUS
  <2>2. a \in SUBSET Intervals /\ IsFiniteSet(a)  BY <2>1, IntervalsAreFinite, Zenon
  <2>3. PICK s : s = usableMarginIntervals(a)  OBVIOUS
  <2>4. s \in SUBSET a /\ \A i \in s : i.from < i.to  BY <2>3 DEF usableMarginIntervals
  <2>5. s \in SUBSET Intervals /\ IsFiniteSet(s)  BY <2>2, <2>4, FS_Subset
  <2>6. peakConcurrentMargin(s) =
             Max({Cardinality({i \in s : i.from < instant + 1 /\ i.to > instant}) :
                    instant \in 0 .. LastTick})
    BY <2>4, <2>5, SweepIsExact
  <2>7. s = usableMarginIntervals(loadBoxMarginIntervalsSince(Today))  BY <2>1, <2>3, Zenon
  <2>. QED  BY <2>6, <2>7, Zenon DEF PeakIsHighest
<1>. QED  BY <1>1, DayStarts, DayStep, PTL DEF DaySpec

-----------------------------------------------------------------------------
(* The attribution of fills. *)

(* The subsets of a finite set are reached from the empty one, a member at a time. *)
LEMMA SubsetsByOne ==
    ASSUME NEW S, IsFiniteSet(S), NEW good \in SUBSET SUBSET S, {} \in good,
           \A s \in SUBSET S : s # {} => \E x \in s : s \ {x} \in good => s \in good
    PROVE  good = SUBSET S
<1>. DEFINE Bad == {n \in Nat : \E s \in SUBSET S : s \notin good /\ Cardinality(s) = n}
<1>1. \A s \in SUBSET S : IsFiniteSet(s) /\ Cardinality(s) \in Nat
  BY FS_Subset, FS_CardinalityType
<1>2. SUFFICES ASSUME NEW t \in SUBSET S, t \notin good PROVE FALSE
  OBVIOUS
<1>3. Bad \in SUBSET Nat /\ Bad # {}
  <2>1. Cardinality(t) \in Bad  BY <1>1, <1>2, Zenon
  <2>. QED  BY <2>1
<1>4. PICK n \in Bad : \A m \in Bad : n <= m  BY <1>3, Smallest
<1>5. PICK s \in SUBSET S : s \notin good /\ Cardinality(s) = n  BY <1>4
<1>6. PICK x \in s : s \ {x} \in good => s \in good  BY <1>5
<1>7. IsFiniteSet(s) /\ Cardinality(s \ {x}) = n - 1 /\ n \in Nat
  BY <1>1, <1>5, <1>6, FS_RemoveElement
<1>8. s \ {x} \in SUBSET S /\ s \ {x} \notin good  BY <1>5, <1>6
<1>9. n - 1 \in Bad  BY <1>1, <1>7, <1>8
<1>. QED  BY <1>4, <1>7, <1>9

(* The member a fold takes next, and the sums of a function over the subsets of a set. *)
Taken(s) == CHOOSE x \in s : TRUE
AddsUp(f, sum, T) ==
    \A s \in T : sum[s] = IF s = {} THEN 0 ELSE f[Taken(s)] + sum[s \ {Taken(s)}]
SubsetSums(f, S) ==
    CHOOSE sum : sum = [s \in SUBSET S |-> IF s = {} THEN 0
                                           ELSE f[Taken(s)] + sum[s \ {Taken(s)}]]

(* SumFunction is the sum over the whole domain. *)
LEMMA SumIsSubsetSum ==
    ASSUME NEW f PROVE SumFunction(f) = SubsetSums(f, DOMAIN f)[DOMAIN f]
BY Zenon DEF SumFunction, SumFunctionOnSet, FoldFunctionOnSet, MapThenFoldSet, SubsetSums, Taken

(* Added up of integers, they are integers. *)
LEMMA AddedUpIsInt ==
    ASSUME NEW S, IsFiniteSet(S), NEW f \in [S -> Int], NEW sum, AddsUp(f, sum, SUBSET S)
    PROVE  \A s \in SUBSET S : sum[s] \in Int
<1>. DEFINE Good == {s \in SUBSET S : sum[s] \in Int}
<1>1. {} \in Good
  <2>1. {} \in SUBSET S  OBVIOUS
  <2>2. sum[{}] = 0  BY <2>1, Zenon DEF AddsUp
  <2>. QED  BY <2>1, <2>2
<1>2. ASSUME NEW s \in SUBSET S, s # {} PROVE \E x \in s : s \ {x} \in Good => s \in Good
  <2>1. PICK x : x = Taken(s)  OBVIOUS
  <2>2. x \in s  BY <1>2, <2>1, Zenon DEF Taken
  <2>3. sum[s] = f[x] + sum[s \ {x}]  BY <1>2, <2>1, Zenon DEF AddsUp
  <2>4. ASSUME s \ {x} \in Good PROVE s \in Good
    <3>1. sum[s \ {x}] \in Int /\ f[x] \in Int  BY <2>2, <2>4
    <3>. QED  BY <2>3, <3>1
  <2>. QED  BY <2>2, <2>4, Zenon
<1>3. Good = SUBSET S
  <2>. HIDE DEF Good
  <2>1. Good \in SUBSET SUBSET S  BY DEF Good
  <2>. QED  BY <1>1, <1>2, <2>1, SubsetsByOne, Zenon
<1>. QED  BY <1>3

(* The sums over the subsets of a finite set exist. *)
LEMMA SubsetSumsExist ==
    ASSUME NEW S, IsFiniteSet(S), NEW f \in [S -> Int]
    PROVE  SubsetSums(f, S) \in [SUBSET S -> Int] /\ AddsUp(f, SubsetSums(f, S), SUBSET S)
<1>. DEFINE Small(n) == {s \in SUBSET S : Cardinality(s) <= n}
            Known(n) == \E sum \in [Small(n) -> Int] : AddsUp(f, sum, Small(n))
            Unknown == {n \in Nat : ~Known(n)}
<1>1. \A s \in SUBSET S : IsFiniteSet(s) /\ Cardinality(s) \in Nat
  BY FS_Subset, FS_CardinalityType
<1>2. \A s \in SUBSET S : s # {} => /\ Taken(s) \in s /\ f[Taken(s)] \in Int
                                   /\ s \ {Taken(s)} \in SUBSET S
                                   /\ Cardinality(s \ {Taken(s)}) = Cardinality(s) - 1
  <2>1. TAKE s \in SUBSET S
  <2>2. HAVE s # {}
  <2>3. Taken(s) \in s  BY <2>2, Zenon DEF Taken
  <2>4. Cardinality(s \ {Taken(s)}) = Cardinality(s) - 1  BY <1>1, <2>3, FS_RemoveElement
  <2>. QED  BY <2>3, <2>4
<1>3. Known(0)
  <2>1. \A s \in SUBSET S : Cardinality(s) <= 0 => s = {}
    BY <1>1, FS_EmptySet
  <2>2. {} \in Small(0)  BY FS_EmptySet
  <2>3. Small(0) = {{}}  BY <2>1, <2>2
  <2>4. PICK sum : sum = [s \in {{}} |-> 0]  OBVIOUS
  <2>5. sum \in [Small(0) -> Int] /\ AddsUp(f, sum, Small(0))  BY <2>3, <2>4 DEF AddsUp
  <2>. QED  BY <2>5
<1>4. ASSUME NEW n \in Nat, Known(n) PROVE Known(n + 1)
  <2>1. PICK sum \in [Small(n) -> Int] : AddsUp(f, sum, Small(n))  BY <1>4
  <2>2. PICK more : more = [s \in Small(n + 1) |-> IF s = {} THEN 0 ELSE f[Taken(s)] + sum[s \ {Taken(s)}]]
    OBVIOUS
  <2>3. \A s \in Small(n + 1) : s # {} => s \ {Taken(s)} \in Small(n) /\ sum[s \ {Taken(s)}] \in Int
    BY <1>1, <1>2
  <2>4. more \in [Small(n + 1) -> Int]
    <3>1. ASSUME NEW s \in Small(n + 1) PROVE more[s] \in Int
      <4>1. CASE s = {}  BY <2>2, <4>1
      <4>2. CASE s # {}
        <5>1. f[Taken(s)] \in Int /\ sum[s \ {Taken(s)}] \in Int  BY <1>2, <2>3, <4>2
        <5>2. more[s] = f[Taken(s)] + sum[s \ {Taken(s)}]  BY <2>2, <4>2
        <5>. QED  BY <5>1, <5>2
      <4>. QED  BY <4>1, <4>2
    <3>. QED  BY <2>2, <3>1
  <2>5. \A s \in Small(n) : s \in Small(n + 1) /\ more[s] = sum[s]
    <3>1. TAKE s \in Small(n)
    <3>2. s \in Small(n + 1)  BY <1>1
    <3>3. sum[s] = IF s = {} THEN 0 ELSE f[Taken(s)] + sum[s \ {Taken(s)}]  BY <2>1 DEF AddsUp
    <3>. QED  BY <2>2, <3>2, <3>3
  <2>6. AddsUp(f, more, Small(n + 1))
    <3>1. ASSUME NEW s \in Small(n + 1), s # {} PROVE sum[s \ {Taken(s)}] = more[s \ {Taken(s)}]
      BY <2>3, <2>5, <3>1
    <3>. QED  BY <2>2, <3>1, Zenon DEF AddsUp
  <2>. QED  BY <2>4, <2>6
<1>5. Unknown = {}
  <2>. HIDE DEF Known
  <2>1. SUFFICES ASSUME Unknown # {} PROVE FALSE  OBVIOUS
  <2>2. PICK n \in Unknown : \A m \in Unknown : n <= m  BY <2>1, Smallest
  <2>3. n # 0 /\ n \in Nat  BY <1>3, <2>2
  <2>4. n - 1 \in Nat /\ ~(n <= n - 1) /\ (n - 1) + 1 = n  BY <2>3
  <2>5. Known(n - 1)  BY <2>2, <2>4
  <2>6. Known(n)  BY <1>4, <2>4, <2>5
  <2>. QED  BY <2>2, <2>6
<1>6. PICK n \in Nat : n = Cardinality(S)  BY FS_CardinalityType
<1>7. Small(n) = SUBSET S
  <2>1. \A s \in SUBSET S : Cardinality(s) <= n  BY <1>6, FS_Subset
  <2>. QED  BY <2>1
<1>8. PICK sum \in [SUBSET S -> Int] : AddsUp(f, sum, SUBSET S)
  <2>1. Known(n)
    <3>. HIDE DEF Known
    <3>. QED  BY <1>5, <1>6
  <2>. QED  BY <1>7, <2>1, Zenon
<1>9. sum = [s \in SUBSET S |-> IF s = {} THEN 0 ELSE f[Taken(s)] + sum[s \ {Taken(s)}]]
  <2>1. sum = [s \in SUBSET S |-> sum[s]]  BY <1>8
  <2>. QED  BY <1>8, <2>1, Zenon DEF AddsUp
<1>10. PICK chosen : chosen = SubsetSums(f, S)  OBVIOUS
<1>11. chosen = [s \in SUBSET S |-> IF s = {} THEN 0 ELSE f[Taken(s)] + chosen[s \ {Taken(s)}]]
  BY <1>9, <1>10, Zenon DEF SubsetSums
<1>12. AddsUp(f, chosen, SUBSET S)  BY <1>11, Zenon DEF AddsUp
<1>13. \A s \in SUBSET S : chosen[s] \in Int  BY <1>12, AddedUpIsInt, Zenon
<1>14. chosen \in [SUBSET S -> Int]  BY <1>11, <1>13
<1>. QED  BY <1>10, <1>12, <1>14

(* The sum of integers over a finite set is one. *)
LEMMA SumIsInt ==
    ASSUME NEW S, IsFiniteSet(S), NEW f \in [S -> Int]
    PROVE  SumFunction(f) \in Int
<1>1. SumFunction(f) = SubsetSums(f, S)[S]  BY SumIsSubsetSum, Zenon
<1>2. SubsetSums(f, S) \in [SUBSET S -> Int]  BY SubsetSumsExist, Zenon
<1>3. S \in SUBSET S  OBVIOUS
<1>. QED  BY <1>1, <1>2, <1>3

(* Changing what one member adds moves the sum by the change. *)
LEMMA SumMoves ==
    ASSUME NEW S, IsFiniteSet(S), NEW f \in [S -> Int], NEW g \in [S -> Int], NEW c \in S,
           \A d \in S : d # c => g[d] = f[d]
    PROVE  SumFunction(g) = SumFunction(f) + g[c] - f[c]
<1>1. PICK old, new : old = SubsetSums(f, S) /\ new = SubsetSums(g, S)  OBVIOUS
<1>2. /\ old \in [SUBSET S -> Int] /\ AddsUp(f, old, SUBSET S)
      /\ new \in [SUBSET S -> Int] /\ AddsUp(g, new, SUBSET S)
  BY <1>1, SubsetSumsExist, Zenon
<1>. DEFINE Good == {s \in SUBSET S : new[s] = old[s] + IF c \in s THEN g[c] - f[c] ELSE 0}
<1>3. {} \in Good
  <2>1. {} \in SUBSET S  OBVIOUS
  <2>2. old[{}] = 0 /\ new[{}] = 0  BY <1>2, <2>1, Zenon DEF AddsUp
  <2>. QED  BY <2>1, <2>2
<1>4. ASSUME NEW s \in SUBSET S, s # {} PROVE \E x \in s : s \ {x} \in Good => s \in Good
  <2>1. PICK x : x = Taken(s)  OBVIOUS
  <2>2. x \in s /\ x \in S
    <3>1. x \in s  BY <1>4, <2>1, Zenon DEF Taken
    <3>. QED  BY <3>1
  <2>3. PICK t \in SUBSET S : t = s \ {x}  OBVIOUS
  <2>4. old[s] = f[x] + old[t] /\ new[s] = g[x] + new[t]
    BY <1>2, <1>4, <2>1, <2>3, Zenon DEF AddsUp
  <2>5. ASSUME t \in Good PROVE s \in Good
    <3>1. new[t] = old[t] + IF c \in t THEN g[c] - f[c] ELSE 0  BY <2>5
    <3>2. f[x] \in Int /\ g[x] \in Int /\ f[c] \in Int /\ g[c] \in Int /\ old[t] \in Int
          /\ new[t] \in Int
      BY <1>2, <2>2
    <3>3. CASE x = c
      <4>1. c \notin t /\ c \in s  BY <2>2, <2>3, <3>3
      <4>. QED  BY <2>4, <3>1, <3>2, <3>3, <4>1
    <3>4. CASE x # c
      <4>1. g[x] = f[x] /\ (c \in t <=> c \in s)  BY <2>2, <2>3, <3>4
      <4>. QED  BY <2>4, <3>1, <3>2, <4>1
    <3>. QED  BY <3>3, <3>4
  <2>. QED  BY <2>2, <2>3, <2>5, Zenon
<1>5. Good = SUBSET S
  <2>. HIDE DEF Good
  <2>1. Good \in SUBSET SUBSET S  BY DEF Good
  <2>. QED  BY <1>3, <1>4, <2>1, SubsetsByOne, Zenon
<1>6. S \in SUBSET S  OBVIOUS
<1>7. new[S] = old[S] + IF c \in S THEN g[c] - f[c] ELSE 0  BY <1>5, <1>6
<1>8. SumFunction(f) = old[S] /\ SumFunction(g) = new[S]  BY <1>1, SumIsSubsetSum, Zenon
<1>9. old[S] \in Int /\ g[c] \in Int /\ f[c] \in Int  BY <1>2, <1>6
<1>. QED  BY <1>7, <1>8, <1>9

(* A row that is not in the journal has no fills, and only a committed write is pending. *)
RowsStartEmpty == \A c \in Orders : ~row[c].exists => row[c].filled = 0
PendingIsInFlight == \A c \in Orders : job[c] # "committed" => pending[c] = 0
AttributionInv == TypeOK /\ RowsStartEmpty /\ PendingIsInFlight

(* Orders are finitely many, none of them the mark of no order, and signs are units. *)
LEMMA OrdersAreFinite == IsFiniteSet(Orders) /\ "none" \notin Orders /\ \A c : Sign(c) \in {1, -1}
BY OrdersAssumption DEF Orders, Sign

(* What is signed stays an integer. *)
LEMMA SignedIsInt ==
    ASSUME NEW f, \A c \in Orders : f[c] \in Int
    PROVE  [c \in Orders |-> Sign(c) * f[c]] \in [Orders -> Int]
<1>1. \A c \in Orders : Sign(c) * f[c] \in Int
  <2>1. TAKE c \in Orders
  <2>2. Sign(c) = 1 \/ Sign(c) = -1  BY OrdersAreFinite
  <2>3. f[c] \in Int  OBVIOUS
  <2>. QED  BY <2>2, <2>3
<1>. QED  BY <1>1

(* Quantities of integers net to one. *)
LEMMA NetIsInt ==
    ASSUME NEW journal, \A c \in Orders : journal[c].filled \in Int
    PROVE  NetOf(journal) \in Int
<1>1. PICK f : f = [c \in Orders |-> journal[c].filled]  OBVIOUS
<1>2. \A c \in Orders : f[c] \in Int  BY <1>1
<1>3. [c \in Orders |-> Sign(c) * f[c]] = [c \in Orders |-> Sign(c) * journal[c].filled]  BY <1>1
<1>4. PICK g : g = [c \in Orders |-> Sign(c) * journal[c].filled]  OBVIOUS
<1>5. SumFunction(g) \in Int  BY <1>2, <1>3, <1>4, SignedIsInt, SumIsInt, OrdersAreFinite, Zenon
<1>6. NetOf(journal) = Held + SumFunction(g)  BY <1>4, Zenon DEF NetOf
<1>. QED  BY <1>5, <1>6, QuantitiesAssumption

(* Rows with the same fills net the same. *)
LEMMA SameFillsNetSame ==
    ASSUME NEW old, NEW new, \A c \in Orders : new[c].filled = old[c].filled
    PROVE  NetOf(new) = NetOf(old)
<1>1. [c \in Orders |-> Sign(c) * new[c].filled] = [c \in Orders |-> Sign(c) * old[c].filled]
  BY Zenon
<1>. QED  BY <1>1, Zenon DEF NetOf

(* One order that filled more moves the net by what it filled, with its sign. *)
LEMMA NetMoves ==
    ASSUME NEW old, NEW new, NEW c \in Orders,
           \A d \in Orders : old[d].filled \in Int /\ new[d].filled \in Int,
           \A d \in Orders : d # c => new[d].filled = old[d].filled
    PROVE  NetOf(new) = NetOf(old) + Sign(c) * (new[c].filled - old[c].filled)
<1>1. PICK f, g : /\ f = [d \in Orders |-> Sign(d) * old[d].filled]
                  /\ g = [d \in Orders |-> Sign(d) * new[d].filled]
  OBVIOUS
<1>2. f \in [Orders -> Int] /\ g \in [Orders -> Int]
  <2>1. ASSUME NEW d \in Orders PROVE f[d] \in Int /\ g[d] \in Int
    <3>1. Sign(d) = 1 \/ Sign(d) = -1  BY OrdersAreFinite
    <3>2. old[d].filled \in Int /\ new[d].filled \in Int  OBVIOUS
    <3>3. f[d] = Sign(d) * old[d].filled /\ g[d] = Sign(d) * new[d].filled  BY <1>1
    <3>. QED  BY <3>1, <3>2, <3>3
  <2>. QED  BY <1>1, <2>1
<1>3. \A d \in Orders : d # c => g[d] = f[d]  BY <1>1, Zenon
<1>4. SumFunction(g) = SumFunction(f) + g[c] - f[c]
  BY <1>2, <1>3, SumMoves, OrdersAreFinite
<1>5. SumFunction(f) \in Int
  BY <1>2, SumIsInt, OrdersAreFinite, Zenon
<1>6. NetOf(new) = Held + SumFunction(g) /\ NetOf(old) = Held + SumFunction(f)
  BY <1>1, Zenon DEF NetOf
<1>7. g[c] = Sign(c) * new[c].filled /\ f[c] = Sign(c) * old[c].filled  BY <1>1
<1>8. Sign(c) = 1 \/ Sign(c) = -1  BY OrdersAreFinite
<1>9. old[c].filled \in Int /\ new[c].filled \in Int  OBVIOUS
<1>10. PICK total : total = SumFunction(f)  OBVIOUS
<1>. QED  BY <1>4, <1>6, <1>7, <1>8, <1>9, <1>10, <1>5, QuantitiesAssumption

(* A guarded write of a row raises its fills by its durable delta, which is no more than   *)
(* the order's quantity; one that supplies no quantity leaves them (updateBoxOrderIntent). *)
LEMMA WriteRaisesFills ==
    ASSUME NEW r \in Rows(Quantity), ~r.exists => r.filled = 0,
           NEW state \in OrderStates, NEW bound \in BOOLEAN, NEW fills \in BOOLEAN,
           NEW filled \in 0 .. Quantity, NEW noPost \in BOOLEAN, NEW expected, NEW p, NEW new,
           p = Patch(state, bound, fills, filled, noPost), new = UpdateIntent(r, p, expected)
    PROVE  /\ new \in Rows(Quantity) /\ (~new.exists => new.filled = 0)
           /\ new.filled = r.filled + DurableFillDelta(r, p, expected)
           /\ DurableFillDelta(r, p, expected) \in 0 .. Quantity
           /\ ~fills => new.filled = r.filled
<1>1. DurableFillDelta(r, p, expected) = new.filled - r.filled  BY Zenon DEF DurableFillDelta
<1>2. r.filled \in 0 .. Quantity  BY DEF Rows
<1>3. CASE UpdateAccepted(r, p, expected)
  <2>1. new = [exists |-> TRUE, state |-> state, filled |-> IF fills THEN filled ELSE r.filled,
               bound |-> bound, noPost |-> r.noPost \/ noPost]
    BY <1>3 DEF UpdateIntent, Patch
  <2>2. fills => r.filled <= filled  BY <1>3 DEF UpdateAccepted, Patch
  <2>3. new \in Rows(Quantity) /\ new.exists  BY <1>2, <2>1 DEF Rows
  <2>4. new.filled = IF fills THEN filled ELSE r.filled  BY <2>1
  <2>. QED  BY <1>1, <1>2, <2>2, <2>3, <2>4, QuantitiesAssumption
<1>4. CASE ~UpdateAccepted(r, p, expected)
  <2>1. new = r  BY <1>4, Zenon DEF UpdateIntent
  <2>. QED  BY <1>1, <1>2, <2>1, QuantitiesAssumption
<1>. QED  BY <1>3, <1>4

(* What a step that writes no fills and holds what is pending cannot move. *)
LEMMA DriftStays ==
    ASSUME UNCHANGED <<attributed, pending, recAt, recPending>>,
           \A c \in Orders : row'[c].filled = row[c].filled
    PROVE  Drift' = Drift
<1>1. NetOf(row') = NetOf(row)  BY SameFillsNetSame, Zenon
<1>2. PendingNet' = PendingNet  BY Zenon DEF PendingNet
<1>. QED  BY <1>1, <1>2, Zenon DEF Drift, JournalNet

(* A step that writes no fills keeps the rest of the invariant with its types. *)
LEMMA QuietKeeps ==
    ASSUME AttributionInv, TypeOK', UNCHANGED <<attributed, pending, recAt, recPending>>,
           \A c \in Orders : row'[c].filled = row[c].filled /\ (row[c].exists => row'[c].exists),
           \A c \in Orders : job[c] = "committed" => job'[c] = "committed"
    PROVE  AttributionInv' /\ Drift' = Drift
<1>1. RowsStartEmpty'  BY Zenon DEF AttributionInv, RowsStartEmpty
<1>2. PendingIsInFlight'  BY Zenon DEF AttributionInv, PendingIsInFlight
<1>3. Drift' = Drift  BY DriftStays
<1>. QED  BY <1>1, <1>2, <1>3 DEF AttributionInv

(* Submission, a refusal in the queue and a failed write move no fills. *)
LEMMA JobsKeep ==
    ASSUME AttributionInv, NEW c \in Orders, Submit(c) \/ RefuseQueued(c) \/ CommitFails(c)
    PROVE  AttributionInv' /\ Drift' = Drift
<1>1. /\ UNCHANGED <<row, broker, pending, answer, image, attributed, known, uncertain, complete, pass>>
      /\ job[c] # "committed" /\ \E to \in Jobs : job' = [job EXCEPT ![c] = to]
      /\ \E n \in {0, Quantity, reserved[c]} : reserved' = [reserved EXCEPT ![c] = n]
      /\ faults' \in {faults, faults + 1} /\ breaker' \in {breaker} \cup BOOLEAN
  <2>1. CASE Submit(c)  BY <2>1 DEF Submit, flags, Jobs
  <2>2. CASE RefuseQueued(c)  BY <2>2 DEF RefuseQueued, flags, Jobs
  <2>3. CASE CommitFails(c)
    <3>1. breaker' \in {breaker} \cup BOOLEAN
      BY <2>3 DEF CommitFails, NoteFailure, AttributionInv, TypeOK
    <3>. QED  BY <2>3, <3>1 DEF CommitFails, Jobs
  <2>. QED  BY <2>1, <2>2, <2>3
<1>2. TypeOK'
  BY <1>1, QuantitiesAssumption DEF AttributionInv, TypeOK, pass
<1>3. \A d \in Orders : job[d] = "committed" => job'[d] = "committed"
  BY <1>1 DEF AttributionInv, TypeOK
<1>. QED  BY <1>1, <1>2, <1>3, QuietKeeps DEF pass

(* A fill or an end at the broker is not in the journal yet. *)
LEMMA BrokerKeeps ==
    ASSUME AttributionInv, NEW c \in Orders, BrokerFills(c) \/ BrokerEnds(c)
    PROVE  AttributionInv' /\ Drift' = Drift
<1>1. UNCHANGED <<row, exec, attributed, reserved, known, flags, pass, faults>>
  BY DEF BrokerFills, BrokerEnds
<1>2. broker[c] \in Books  BY DEF AttributionInv, TypeOK
<1>3. \E b \in Books : broker' = [broker EXCEPT ![c] = b]
  <2>1. CASE BrokerFills(c)
    <3>1. PICK b : b = [status |-> IF broker[c].filled + 1 = Quantity THEN "COMPLETE" ELSE "working",
                        filled |-> broker[c].filled + 1]
      OBVIOUS
    <3>2. broker[c].filled < Quantity /\ broker' = [broker EXCEPT ![c] = b]
      BY <2>1, <3>1, Zenon DEF BrokerFills
    <3>3. b \in Books  BY <1>2, <3>1, <3>2, QuantitiesAssumption DEF Books
    <3>. QED  BY <3>2, <3>3
  <2>2. CASE BrokerEnds(c)
    <3>1. PICK status \in {"CANCELLED", "REJECTED"} :
            broker' = [broker EXCEPT ![c] = [status |-> status, filled |-> @.filled]]
      BY <2>2 DEF BrokerEnds
    <3>2. PICK b : b = [status |-> status, filled |-> broker[c].filled]  OBVIOUS
    <3>3. b \in Books  BY <1>2, <3>2 DEF Books
    <3>4. broker' = [broker EXCEPT ![c] = b]  BY <3>1, <3>2, Zenon
    <3>. QED  BY <3>3, <3>4
  <2>. QED  BY <2>1, <2>2
<1>4. TypeOK'
  BY <1>1, <1>3 DEF AttributionInv, TypeOK, exec, flags, pass
<1>. QED  BY <1>1, <1>4, QuietKeeps DEF exec, pass

(* Journal, broker and copies net to integers. *)
LEMMA WholeNetIsInt ==
    ASSUME AttributionInv
    PROVE  NetOf(row) \in Int /\ NetOf(broker) \in Int /\ NetOf(copy) \in Int
<1>1. \A c \in Orders : row[c].filled \in Int /\ broker[c].filled \in Int /\ copy[c].filled \in Int
  BY QuantitiesAssumption DEF AttributionInv, TypeOK, Rows, Books
<1>. QED  BY <1>1, NetIsInt, Zenon

(* What the pass reads it only keeps. *)
LEMMA ReadsKeep ==
    ASSUME AttributionInv,
           ReconcileStart \/ ReconcileLoadOwned \/ ReconcileListOrders \/ ReconcileListPositions
    PROVE  AttributionInv' /\ Drift' = Drift
<1>1. UNCHANGED <<row, broker, exec, attributed, reserved, flags, recAt, recPending, recImage, recMismatch,
                  faults>>
  BY DEF ReconcileStart, ReconcileLoadOwned, ReconcileListOrders, ReconcileListPositions
<1>2. row \in [Orders -> Rows(Quantity)] /\ \A c \in Orders : row[c].state \in OrderStates
  BY DEF AttributionInv, TypeOK, Rows
<1>3. TypeOK'
  <2>1. CASE ReconcileStart
    BY <1>1, <1>2, <2>1 DEF ReconcileStart, AttributionInv, TypeOK, exec, flags, Phases
  <2>2. CASE ReconcileLoadOwned
    BY <1>1, <1>2, <2>2 DEF ReconcileLoadOwned, AttributionInv, TypeOK, exec, flags, Phases
  <2>3. CASE ReconcileListOrders
    BY <1>1, <2>3 DEF ReconcileListOrders, AttributionInv, TypeOK, exec, flags, Phases
  <2>4. CASE ReconcileListPositions
    BY <1>1, <2>4, WholeNetIsInt DEF ReconcileListPositions, BrokerNet, AttributionInv, TypeOK, exec, flags, Phases
  <2>. QED  BY <2>1, <2>2, <2>3, <2>4
<1>. QED  BY <1>1, <1>3, QuietKeeps DEF exec

(* A pass given up, or an order it could not match, leaves the journal alone. *)
LEMMA GivenUpKeeps ==
    ASSUME AttributionInv, ReconcileFails \/ \E c \in Orders : ReconcileMatchFails(c)
    PROVE  AttributionInv' /\ Drift' = Drift
<1>1. UNCHANGED <<row, broker, exec, attributed, reserved, known, recAt, recPending, recImage>>
  BY DEF ReconcileFails, ReconcileMatchFails
<1>2. TypeOK'
  <2>1. CASE ReconcileFails
    <3>1. NoRow \in Rows(Quantity) /\ Unlisted \in Books
      BY QuantitiesAssumption DEF NoRow, Rows, OrderStates, Unlisted, Books
    <3>2. /\ nonterm' \in [Orders -> OrderStates \cup {"none"}]
          /\ copy' \in [Orders -> Rows(Quantity)] /\ book' \in [Orders -> Books]
      BY <2>1, <3>1 DEF ReconcileFails
    <3>3. /\ phase' \in Phases /\ position' \in Int /\ todo' \subseteq Orders /\ recMismatch' \in BOOLEAN
          /\ breaker' \in BOOLEAN /\ complete' \in BOOLEAN /\ faults' = faults + 1
          /\ UNCHANGED uncertain
      <4>1. /\ phase' = "off" /\ position' = 0 /\ todo' = {} /\ recMismatch' = FALSE
            /\ breaker' = TRUE /\ complete' = FALSE /\ faults' = faults + 1
            /\ UNCHANGED uncertain
        BY <2>1, Zenon DEF ReconcileFails
      <4>2. recMismatch' \in BOOLEAN /\ breaker' \in BOOLEAN /\ complete' \in BOOLEAN  BY <4>1, Zenon
      <4>3. phase' \in Phases /\ position' \in Int /\ todo' \subseteq Orders  BY <4>1 DEF Phases
      <4>. QED  BY <4>1, <4>2, <4>3, Zenon
    <3>. QED  BY <1>1, <3>2, <3>3 DEF AttributionInv, TypeOK, exec
  <2>2. CASE \E c \in Orders : ReconcileMatchFails(c)
    BY <1>1, <2>2 DEF ReconcileMatchFails, AttributionInv, TypeOK, exec
  <2>. QED  BY <2>1, <2>2
<1>. QED  BY <1>1, <1>2, QuietKeeps DEF exec

(* A new row has no fills. *)
LEMMA DequeueKeeps ==
    ASSUME AttributionInv, NEW c \in Orders, Dequeue(c)
    PROVE  AttributionInv' /\ Drift' = Drift
<1>1. /\ job[c] = "queued" /\ job' = [job EXCEPT ![c] = "created"]
      /\ known' = [known EXCEPT ![c] = "CREATED"]
      /\ row' = [row EXCEPT ![c] = CreateIntent(row[c])]
      /\ UNCHANGED <<broker, pending, answer, image, attributed, reserved, flags, pass, faults>>
  BY Zenon DEF Dequeue
<1>2. PICK new : new = CreateIntent(row[c])  OBVIOUS
<1>3. row[c] \in Rows(Quantity) /\ (~row[c].exists => row[c].filled = 0)
  BY DEF AttributionInv, TypeOK, RowsStartEmpty
<1>4. new \in Rows(Quantity) /\ new.filled = row[c].filled /\ new.exists
  <2>1. CASE row[c].exists  BY <1>2, <1>3, <2>1 DEF CreateIntent
  <2>2. CASE ~row[c].exists
    <3>1. new = FreshRow  BY <1>2, <2>2 DEF CreateIntent
    <3>2. FreshRow \in Rows(Quantity) /\ FreshRow.filled = 0 /\ FreshRow.exists
      BY QuantitiesAssumption DEF FreshRow, Rows, OrderStates
    <3>. QED  BY <1>3, <2>2, <3>1, <3>2
  <2>. QED  BY <2>1, <2>2
<1>5. row' = [row EXCEPT ![c] = new]  BY <1>1, <1>2, Zenon
<1>6. TypeOK'
  BY <1>1, <1>4, <1>5 DEF AttributionInv, TypeOK, flags, pass, Jobs, OrderStates
<1>7. \A d \in Orders : row'[d].filled = row[d].filled /\ (row[d].exists => row'[d].exists)
  BY <1>4, <1>5 DEF AttributionInv, TypeOK
<1>8. \A d \in Orders : job[d] = "committed" => job'[d] = "committed"
  BY <1>1 DEF AttributionInv, TypeOK
<1>. QED  BY <1>1, <1>6, <1>7, <1>8, QuietKeeps DEF pass

(* SUBMITTING supplies no quantity. *)
LEMMA PostKeeps ==
    ASSUME AttributionInv, NEW c \in Orders, Post(c)
    PROVE  AttributionInv' /\ Drift' = Drift
<1>1. PICK p, new : p = Patch("SUBMITTING", FALSE, FALSE, 0, FALSE) /\ new = UpdateIntent(row[c], p, {"CREATED"})
  OBVIOUS
<1>2. /\ job[c] = "created" /\ job' = [job EXCEPT ![c] = "sent"]
      /\ row' = [row EXCEPT ![c] = new] /\ known' = [known EXCEPT ![c] = row'[c].state]
      /\ broker' = [broker EXCEPT ![c] = [status |-> "working", filled |-> 0]]
      /\ UNCHANGED <<pending, answer, image, attributed, reserved, flags, pass, faults>>
  BY <1>1, Zenon DEF Post
<1>3. row[c] \in Rows(Quantity) /\ (~row[c].exists => row[c].filled = 0)
  BY DEF AttributionInv, TypeOK, RowsStartEmpty
<1>4. "SUBMITTING" \in OrderStates /\ 0 \in 0 .. Quantity /\ FALSE \in BOOLEAN
  BY QuantitiesAssumption DEF OrderStates
<1>5. new \in Rows(Quantity) /\ new.filled = row[c].filled
  <2>1. PICK state \in OrderStates, no \in BOOLEAN, filled \in 0 .. Quantity :
          state = "SUBMITTING" /\ no = FALSE /\ filled = 0
    BY <1>4, Zenon
  <2>2. p = Patch(state, no, no, filled, no) /\ ~no  BY <1>1, <2>1, Zenon
  <2>3. PICK r, expected : r = row[c] /\ expected = {"CREATED"}  OBVIOUS
  <2>4. r \in Rows(Quantity) /\ (~r.exists => r.filled = 0) /\ new = UpdateIntent(r, p, expected)
    BY <1>1, <1>3, <2>3, Zenon
  <2>5. new \in Rows(Quantity) /\ (~no => new.filled = r.filled)
    BY <2>2, <2>4, WriteRaisesFills, SMT
  <2>. QED  BY <2>2, <2>3, <2>5
<1>6. row[c].exists => new.exists
  BY <1>1, Zenon DEF UpdateIntent
<1>7. row'[c] = new /\ new.state \in OrderStates  BY <1>2, <1>5 DEF AttributionInv, TypeOK, Rows
<1>8. PICK b : b = [status |-> "working", filled |-> 0]  OBVIOUS
<1>9. b \in Books /\ broker' = [broker EXCEPT ![c] = b]
  <2>1. b \in Books  BY <1>8, QuantitiesAssumption DEF Books
  <2>. QED  BY <1>2, <1>8, <2>1, Zenon
<1>10. TypeOK'
  BY <1>2, <1>5, <1>7, <1>9 DEF AttributionInv, TypeOK, flags, pass, Jobs
<1>11. \A d \in Orders : row'[d].filled = row[d].filled /\ (row[d].exists => row'[d].exists)
  BY <1>2, <1>5, <1>6 DEF AttributionInv, TypeOK
<1>12. \A d \in Orders : job[d] = "committed" => job'[d] = "committed"
  BY <1>2 DEF AttributionInv, TypeOK
<1>. QED  BY <1>2, <1>10, <1>11, <1>12, QuietKeeps DEF pass

(* The sum of what is pending, of execute's writes and of the pass's one. *)
PendingOf(p) == SumFunction([c \in Orders |-> Sign(c) * p[c]])

(* What is pending is an integer. *)
LEMMA PendingIsInt == ASSUME AttributionInv PROVE PendingOf(pending) \in Int /\ PendingNet \in Int
<1>1. \A c \in Orders : pending[c] \in Int  BY QuantitiesAssumption DEF AttributionInv, TypeOK
<1>2. PICK f : f = [c \in Orders |-> Sign(c) * pending[c]]  OBVIOUS
<1>3. f \in [Orders -> Int]  BY <1>1, <1>2, SignedIsInt, Zenon
<1>4. PendingOf(pending) \in Int  BY <1>2, <1>3, SumIsInt, OrdersAreFinite, Zenon DEF PendingOf
<1>5. recAt # "none" => Sign(recAt) * recPending \in Int
  <2>1. HAVE recAt # "none"
  <2>2. recPending \in Int  BY QuantitiesAssumption DEF AttributionInv, TypeOK
  <2>3. Sign(recAt) = 1 \/ Sign(recAt) = -1  BY OrdersAreFinite
  <2>. QED  BY <2>2, <2>3
<1>6. PendingNet = PendingOf(pending) + IF recAt = "none" THEN 0 ELSE Sign(recAt) * recPending
  BY Zenon DEF PendingNet, PendingOf
<1>. QED  BY <1>4, <1>5, <1>6

(* One order of which more is pending moves the sum by it, with its sign. *)
LEMMA PendingMoves ==
    ASSUME NEW old \in [Orders -> 0 .. Quantity], NEW c \in Orders, NEW n \in 0 .. Quantity
    PROVE  PendingOf([old EXCEPT ![c] = n]) = PendingOf(old) + Sign(c) * (n - old[c])
<1>1. PICK new : new = [old EXCEPT ![c] = n]  OBVIOUS
<1>2. PICK f, g : f = [d \in Orders |-> Sign(d) * old[d]] /\ g = [d \in Orders |-> Sign(d) * new[d]]
  OBVIOUS
<1>3. \A d \in Orders : old[d] \in Int /\ new[d] \in Int  BY <1>1, QuantitiesAssumption
<1>4. f \in [Orders -> Int] /\ g \in [Orders -> Int]  BY <1>2, <1>3, SignedIsInt, Zenon
<1>5. \A d \in Orders : d # c => g[d] = f[d]  BY <1>1, <1>2
<1>6. SumFunction(g) = SumFunction(f) + g[c] - f[c]  BY <1>4, <1>5, SumMoves, OrdersAreFinite
<1>7. SumFunction(f) \in Int  BY <1>4, SumIsInt, OrdersAreFinite, Zenon
<1>8. g[c] = Sign(c) * n /\ f[c] = Sign(c) * old[c]  BY <1>1, <1>2
<1>9. Sign(c) = 1 \/ Sign(c) = -1  BY OrdersAreFinite
<1>10. PICK total : total = SumFunction(f)  OBVIOUS
<1>11. PendingOf(new) = SumFunction(g) /\ PendingOf(old) = SumFunction(f)  BY <1>2, Zenon DEF PendingOf
<1>12. n \in Int /\ old[c] \in Int  BY <1>3, QuantitiesAssumption
<1>13. PendingOf(new) = PendingOf(old) + Sign(c) * (n - old[c])
  BY <1>6, <1>7, <1>8, <1>9, <1>10, <1>11, <1>12
<1>. QED  BY <1>1, <1>13

(* What becomes pending of one order, or stops to be, moves what is pending of all. *)
LEMMA PendingNetMoves ==
    ASSUME AttributionInv, NEW c \in Orders, NEW n \in 0 .. Quantity,
           pending' = [pending EXCEPT ![c] = n], UNCHANGED <<recAt, recPending>>
    PROVE  PendingNet' = PendingNet + Sign(c) * (n - pending[c])
<1>1. pending \in [Orders -> 0 .. Quantity] /\ recPending \in Int
  BY QuantitiesAssumption DEF AttributionInv, TypeOK
<1>2. PICK after : after = pending'  OBVIOUS
<1>3. PendingOf(after) = PendingOf(pending) + Sign(c) * (n - pending[c])
  BY <1>1, <1>2, PendingMoves, Zenon
<1>4. PICK own : own = IF recAt = "none" THEN 0 ELSE Sign(recAt) * recPending  OBVIOUS
<1>5. PendingNet = PendingOf(pending) + own  BY <1>4, Zenon DEF PendingNet, PendingOf
<1>6. PendingNet' = PendingOf(after) + own
  <2>1. PendingNet' = PendingOf(pending') + IF recAt' = "none" THEN 0 ELSE Sign(recAt') * recPending'
    BY Zenon DEF PendingNet, PendingOf
  <2>2. recAt' = recAt /\ recPending' = recPending  OBVIOUS
  <2>. QED  BY <1>2, <1>4, <2>1, <2>2, Zenon
<1>7. \A d : Sign(d) = 1 \/ Sign(d) = -1  BY OrdersAreFinite
<1>8. own \in Int  BY <1>1, <1>4, <1>7
<1>9. PendingOf(pending) \in Int  BY PendingIsInt
<1>10. n - pending[c] \in Int  BY <1>1, QuantitiesAssumption
<1>. QED  BY <1>3, <1>5, <1>6, <1>7, <1>8, <1>9, <1>10

(* A write of a row moves what the journal nets by its delta. *)
LEMMA RowWriteMovesNet ==
    ASSUME AttributionInv, NEW c \in Orders, NEW new \in Rows(Quantity), NEW delta \in 0 .. Quantity,
           row' = [row EXCEPT ![c] = new], new.filled = row[c].filled + delta,
           ~new.exists => new.filled = 0
    PROVE  /\ JournalNet' = JournalNet + Sign(c) * delta
           /\ JournalNet \in Int /\ RowsStartEmpty' /\ row' \in [Orders -> Rows(Quantity)]
<1>1. row \in [Orders -> Rows(Quantity)] /\ \A d \in Orders : row[d].filled \in 0 .. Quantity
  BY DEF AttributionInv, TypeOK, Rows
<1>2. row' \in [Orders -> Rows(Quantity)]  BY <1>1
<1>3. \A d \in Orders : row'[d].filled \in 0 .. Quantity  BY <1>2 DEF Rows
<1>4. \A n \in 0 .. Quantity : n \in Int  BY QuantitiesAssumption
<1>5. \A d \in Orders : d # c => row'[d].filled = row[d].filled  BY <1>1
<1>6. row'[c] = new  BY <1>1
<1>7. PICK after : after = row'  OBVIOUS
<1>8. NetOf(after) = NetOf(row) + Sign(c) * (after[c].filled - row[c].filled)
  BY <1>1, <1>3, <1>4, <1>5, <1>7, NetMoves, Zenon
<1>9. after[c].filled - row[c].filled = delta  BY <1>1, <1>4, <1>6, <1>7
<1>10. NetOf(after) = NetOf(row) + Sign(c) * delta  BY <1>8, <1>9, Zenon
<1>11. JournalNet = NetOf(row) /\ JournalNet' = NetOf(after)  BY <1>7, Zenon DEF JournalNet
<1>12. RowsStartEmpty'
  BY <1>1, <1>2 DEF AttributionInv, RowsStartEmpty
<1>. QED  BY <1>2, <1>10, <1>11, <1>12, WholeNetIsInt, Zenon

(* execute's write: what the journal gains is pending until its continuation. *)
LEMMA CommitKeeps ==
    ASSUME AttributionInv, NEW c \in Orders, Commit(c)
    PROVE  AttributionInv' /\ Drift' = Drift
<1>1. PICK state \in TerminalStates \cup {"RECONCILIATION_REQUIRED"},
           filled \in 0 .. broker[c].filled, fills \in BOOLEAN :
        LET p == Patch(state, fills, fills, filled, FALSE) IN
        /\ row' = [row EXCEPT ![c] = UpdateIntent(@, p, AnyState)]
        /\ pending' = [pending EXCEPT ![c] = DurableFillDelta(row[c], p, AnyState)]
        /\ answer' = [answer EXCEPT ![c] = state]
        /\ image' = [image EXCEPT ![c] = row'[c].state]
        /\ breaker' = (breaker \/ (~fills /\ row'[c].state \notin ReconcileStates))
  BY Zenon DEF Commit
<1>2. /\ job[c] = "sent" /\ job' = [job EXCEPT ![c] = "committed"]
      /\ UNCHANGED <<broker, attributed, reserved, known, uncertain, complete, pass, faults>>
  BY Zenon DEF Commit
<1>3. PICK p, new, delta : /\ p = Patch(state, fills, fills, filled, FALSE)
                           /\ new = UpdateIntent(row[c], p, AnyState)
                           /\ delta = DurableFillDelta(row[c], p, AnyState)
  OBVIOUS
<1>4. /\ row' = [row EXCEPT ![c] = new] /\ pending' = [pending EXCEPT ![c] = delta]
      /\ answer' = [answer EXCEPT ![c] = state] /\ image' = [image EXCEPT ![c] = row'[c].state]
      /\ breaker' = (breaker \/ (~fills /\ row'[c].state \notin ReconcileStates))
  BY <1>1, <1>3, Zenon
<1>5. PICK r : r = row[c]  OBVIOUS
<1>6. r \in Rows(Quantity) /\ (~r.exists => r.filled = 0)
  BY <1>5 DEF AttributionInv, TypeOK, RowsStartEmpty
<1>7. state \in OrderStates  BY DEF TerminalStates, OrderStates
<1>8. filled \in 0 .. Quantity
  BY QuantitiesAssumption DEF AttributionInv, TypeOK, Books
<1>9. PICK no \in BOOLEAN : no = FALSE  OBVIOUS
<1>10. p = Patch(state, fills, fills, filled, no) /\ new = UpdateIntent(r, p, AnyState)
       /\ delta = DurableFillDelta(r, p, AnyState)
  BY <1>3, <1>5, <1>9, Zenon
<1>11. /\ new \in Rows(Quantity) /\ (~new.exists => new.filled = 0)
       /\ new.filled = r.filled + delta /\ delta \in 0 .. Quantity
  BY <1>6, <1>7, <1>8, <1>10, WriteRaisesFills
<1>12. JournalNet' = JournalNet + Sign(c) * delta /\ JournalNet \in Int /\ RowsStartEmpty'
       /\ row' \in [Orders -> Rows(Quantity)]
  BY <1>4, <1>5, <1>11, RowWriteMovesNet, Zenon
<1>13. PendingNet' = PendingNet + Sign(c) * delta
  <2>1. pending[c] = 0  BY <1>2 DEF AttributionInv, PendingIsInFlight
  <2>2. UNCHANGED <<recAt, recPending>>  BY <1>2, Zenon DEF pass
  <2>3. PendingNet' = PendingNet + Sign(c) * (delta - 0)
    BY <1>4, <1>11, <2>1, <2>2, PendingNetMoves, Zenon
  <2>4. delta - 0 = delta  BY <1>11, QuantitiesAssumption
  <2>. QED  BY <2>3, <2>4, Zenon
<1>14. Drift' = Drift
  <2>1. Sign(c) = 1 \/ Sign(c) = -1  BY OrdersAreFinite
  <2>2. attributed \in Int /\ PendingNet \in Int /\ JournalNet \in Int /\ delta \in Int
    BY <1>11, <1>12, PendingIsInt, QuantitiesAssumption DEF AttributionInv, TypeOK
  <2>. QED  BY <1>2, <1>12, <1>13, <2>1, <2>2 DEF Drift
<1>15. TypeOK'
  <2>1. row'[c].state \in OrderStates  BY <1>12 DEF Rows
  <2>2. breaker' \in BOOLEAN  BY <1>4, Zenon
  <2>. QED
    BY <1>2, <1>4, <1>7, <1>11, <1>12, <2>1, <2>2 DEF AttributionInv, TypeOK, pass, Jobs
<1>16. PendingIsInFlight'
  BY <1>2, <1>4 DEF AttributionInv, TypeOK, PendingIsInFlight
<1>. QED  BY <1>12, <1>14, <1>15, <1>16 DEF AttributionInv

(* Its continuation attributes it. *)
LEMMA ContinueKeeps ==
    ASSUME AttributionInv, NEW c \in Orders, Continue(c)
    PROVE  AttributionInv' /\ Drift' = Drift
<1>1. /\ attributed' = attributed + Sign(c) * pending[c]
      /\ known' = [known EXCEPT ![c] = image[c]]
      /\ uncertain' = (uncertain \/ answer[c] \in ReconcileStates)
      /\ pending' = [pending EXCEPT ![c] = 0] /\ job' = [job EXCEPT ![c] = "done"]
      /\ UNCHANGED <<row, broker, answer, image, complete, pass, faults>>
  BY Zenon DEF Continue
<1>2. breaker' \in BOOLEAN /\ uncertain' \in BOOLEAN
  BY <1>1, Zenon DEF Continue, NoteFailure, AttributionInv, TypeOK
<1>3. PICK kept : /\ kept = IF answer[c] \in TerminalStates \/ image[c] \notin ReconcileStates
                            THEN 0 ELSE reserved[c]
                  /\ reserved' = [reserved EXCEPT ![c] = kept]
  BY Zenon DEF Continue
<1>4. pending \in [Orders -> 0 .. Quantity] /\ 0 \in 0 .. Quantity /\ pending[c] \in Int
  BY QuantitiesAssumption DEF AttributionInv, TypeOK
<1>5. Sign(c) = 1 \/ Sign(c) = -1  BY OrdersAreFinite
<1>6. PendingNet' = PendingNet + Sign(c) * (0 - pending[c])
  <2>1. UNCHANGED <<recAt, recPending>>  BY <1>1, Zenon DEF pass
  <2>. QED  BY <1>1, <1>4, <2>1, PendingNetMoves, Zenon
<1>7. JournalNet' = JournalNet  BY <1>1, Zenon DEF JournalNet
<1>8. Drift' = Drift
  <2>1. attributed \in Int /\ PendingNet \in Int /\ JournalNet \in Int
    BY WholeNetIsInt, PendingIsInt DEF JournalNet, AttributionInv, TypeOK
  <2>. QED  BY <1>1, <1>4, <1>5, <1>6, <1>7, <2>1 DEF Drift
<1>9. TypeOK'
  <2>1. attributed' \in Int  BY <1>1, <1>4, <1>5 DEF AttributionInv, TypeOK
  <2>2. reserved' \in [Orders -> 0 .. Quantity]
    BY <1>3, QuantitiesAssumption DEF AttributionInv, TypeOK
  <2>3. known' \in [Orders -> OrderStates] /\ pending' \in [Orders -> 0 .. Quantity] /\ job' \in [Orders -> Jobs]
    BY <1>1, <1>4 DEF AttributionInv, TypeOK, Jobs
  <2>. QED  BY <1>1, <1>2, <2>1, <2>2, <2>3 DEF AttributionInv, TypeOK, pass
<1>10. RowsStartEmpty' /\ PendingIsInFlight'
  BY <1>1 DEF AttributionInv, TypeOK, RowsStartEmpty, PendingIsInFlight
<1>. QED  BY <1>8, <1>9, <1>10 DEF AttributionInv

(* The pass's write of a listed order: its delta is pending until its continuation. *)
LEMMA ReconcileCommitKeeps ==
    ASSUME AttributionInv, NEW c \in Orders, ReconcileCommit(c)
    PROVE  AttributionInv' /\ Drift' = Drift
<1>1. PICK p, new, delta : /\ p = FromBroker(StateOf(book[c]), book[c].filled)
                           /\ new = UpdateIntent(row[c], p, AnyState)
                           /\ delta = DurableFillDelta(row[c], p, AnyState)
  OBVIOUS
<1>2. /\ recAt = "none" /\ recAt' = c /\ recPending' = delta /\ recImage' = row'[c]
      /\ row' = [row EXCEPT ![c] = new]
      /\ UNCHANGED <<broker, exec, attributed, reserved, known, flags, phase, nonterm, copy, book,
                     position, todo, recMismatch, faults>>
  BY <1>1, Zenon DEF ReconcileCommit
<1>3. PICK r : r = row[c]  OBVIOUS
<1>4. r \in Rows(Quantity) /\ (~r.exists => r.filled = 0)
  BY <1>3 DEF AttributionInv, TypeOK, RowsStartEmpty
<1>5. PICK state \in OrderStates, filled \in 0 .. Quantity, yes \in BOOLEAN, no \in BOOLEAN :
        state = StateOf(book[c]) /\ filled = book[c].filled /\ yes = TRUE /\ no = FALSE
  <2>1. book[c] \in Books  BY DEF AttributionInv, TypeOK
  <2>2. StateOf(book[c]) \in OrderStates  BY <2>1 DEF StateOf, OrderStates, Books
  <2>3. book[c].filled \in 0 .. Quantity  BY <2>1 DEF Books
  <2>. QED  BY <2>2, <2>3, Zenon
<1>6. p = Patch(state, yes, yes, filled, no) /\ new = UpdateIntent(r, p, AnyState)
      /\ delta = DurableFillDelta(r, p, AnyState)
  BY <1>1, <1>3, <1>5, Zenon DEF FromBroker
<1>7. /\ new \in Rows(Quantity) /\ (~new.exists => new.filled = 0)
      /\ new.filled = r.filled + delta /\ delta \in 0 .. Quantity
  BY <1>4, <1>6, WriteRaisesFills
<1>8. JournalNet' = JournalNet + Sign(c) * delta /\ JournalNet \in Int /\ RowsStartEmpty'
      /\ row' \in [Orders -> Rows(Quantity)]
  BY <1>2, <1>3, <1>7, RowWriteMovesNet, Zenon
<1>9. PendingNet' = PendingNet + Sign(c) * delta
  <2>1. pending' = pending  BY <1>2, Zenon DEF exec
  <2>2. PendingNet' = PendingOf(pending) + IF c = "none" THEN 0 ELSE Sign(c) * delta
    <3>1. PendingNet' = PendingOf(pending') + IF recAt' = "none" THEN 0 ELSE Sign(recAt') * recPending'
      BY Zenon DEF PendingNet, PendingOf
    <3>. QED  BY <1>2, <2>1, <3>1, Zenon
  <2>3. c # "none"  BY OrdersAreFinite
  <2>4. PendingNet = PendingOf(pending) + IF recAt = "none" THEN 0 ELSE Sign(recAt) * recPending
    BY Zenon DEF PendingNet, PendingOf
  <2>. QED  BY <1>2, <2>2, <2>3, <2>4, PendingIsInt
<1>10. Drift' = Drift
  <2>1. Sign(c) = 1 \/ Sign(c) = -1  BY OrdersAreFinite
  <2>2. attributed \in Int /\ PendingNet \in Int /\ JournalNet \in Int /\ delta \in Int
    BY <1>7, <1>8, PendingIsInt, QuantitiesAssumption DEF AttributionInv, TypeOK
  <2>. QED  BY <1>2, <1>8, <1>9, <2>1, <2>2 DEF Drift
<1>11. TypeOK'
  <2>1. recImage' \in Rows(Quantity)  BY <1>2, <1>8
  <2>. QED  BY <1>2, <1>7, <1>8, <2>1 DEF AttributionInv, TypeOK, exec, flags
<1>12. PendingIsInFlight'
  BY <1>2 DEF AttributionInv, PendingIsInFlight, exec
<1>. QED  BY <1>8, <1>10, <1>11, <1>12 DEF AttributionInv

(* The continuation of the pass's write attributes its delta. *)
LEMMA ReconcileContinueKeeps ==
    ASSUME AttributionInv, ReconcileContinue
    PROVE  AttributionInv' /\ Drift' = Drift
<1>1. PICK c : c = recAt  OBVIOUS
<1>2. /\ c # "none" /\ attributed' = attributed + Sign(c) * recPending
      /\ known' = [known EXCEPT ![c] = recImage.state]
      /\ copy' = [copy EXCEPT ![c] = recImage]
      /\ nonterm' = [nonterm EXCEPT ![c] = IF recImage.state \in TerminalStates
                                           THEN "none" ELSE recImage.state]
      /\ todo' = todo \ {c}
      /\ recAt' = "none" /\ recPending' = 0 /\ recImage' = NoRow
      /\ UNCHANGED <<row, broker, exec, flags, phase, book, position, recMismatch, faults>>
  BY <1>1, Zenon DEF ReconcileContinue
<1>3. c \in Orders /\ recImage \in Rows(Quantity)  BY <1>1, <1>2 DEF AttributionInv, TypeOK
<1>4. PICK kept : /\ kept = IF StateOf(book[c]) \in TerminalStates THEN 0 ELSE reserved[c]
                  /\ reserved' = [reserved EXCEPT ![c] = kept]
  BY <1>1, Zenon DEF ReconcileContinue
<1>5. Sign(c) = 1 \/ Sign(c) = -1  BY OrdersAreFinite
<1>6. recPending \in Int  BY QuantitiesAssumption DEF AttributionInv, TypeOK
<1>7. PendingNet' = PendingNet - Sign(c) * recPending
  <2>1. pending' = pending  BY <1>2, Zenon DEF exec
  <2>2. PendingNet' = PendingOf(pending) + 0
    <3>1. PendingNet' = PendingOf(pending') + IF recAt' = "none" THEN 0 ELSE Sign(recAt') * recPending'
      BY Zenon DEF PendingNet, PendingOf
    <3>. QED  BY <1>2, <2>1, <3>1, Zenon
  <2>3. PendingNet = PendingOf(pending) + Sign(c) * recPending
    BY <1>1, <1>2, Zenon DEF PendingNet, PendingOf
  <2>. QED  BY <1>5, <1>6, <2>2, <2>3, PendingIsInt
<1>8. JournalNet' = JournalNet  BY <1>2, Zenon DEF JournalNet
<1>9. Drift' = Drift
  <2>1. attributed \in Int /\ PendingNet \in Int /\ JournalNet \in Int
    BY WholeNetIsInt, PendingIsInt DEF JournalNet, AttributionInv, TypeOK
  <2>. QED  BY <1>2, <1>5, <1>6, <1>7, <1>8, <2>1 DEF Drift
<1>10. TypeOK'
  <2>1. attributed' \in Int  BY <1>2, <1>5, <1>6 DEF AttributionInv, TypeOK
  <2>2. reserved' \in [Orders -> 0 .. Quantity]
    <3>1. kept \in 0 .. Quantity  BY <1>3, <1>4, QuantitiesAssumption DEF AttributionInv, TypeOK
    <3>. QED  BY <1>4, <3>1 DEF AttributionInv, TypeOK
  <2>3. recImage.state \in OrderStates  BY <1>3 DEF Rows
  <2>4. known' \in [Orders -> OrderStates] /\ copy' \in [Orders -> Rows(Quantity)]
    BY <1>2, <1>3, <2>3 DEF AttributionInv, TypeOK
  <2>5. nonterm' \in [Orders -> OrderStates \cup {"none"}]
    BY <1>2, <2>3 DEF AttributionInv, TypeOK
  <2>6. NoRow \in Rows(Quantity) /\ 0 \in 0 .. Quantity
    BY QuantitiesAssumption DEF NoRow, Rows, OrderStates
  <2>. QED  BY <1>2, <2>1, <2>2, <2>4, <2>5, <2>6 DEF AttributionInv, TypeOK, exec, flags
<1>11. RowsStartEmpty' /\ PendingIsInFlight'
  BY <1>2 DEF AttributionInv, RowsStartEmpty, PendingIsInFlight, exec
<1>. QED  BY <1>9, <1>10, <1>11 DEF AttributionInv

(* A missing order is quarantined without a quantity. *)
LEMMA MissingKeeps ==
    ASSUME AttributionInv, NEW c \in Orders, ReconcileMissing(c)
    PROVE  AttributionInv' /\ Drift' = Drift
<1>1. /\ todo' = todo \ {c}
      /\ UNCHANGED <<broker, exec, attributed, reserved, uncertain, complete, phase, book,
                     position, recAt, recPending, recImage, recMismatch, faults>>
  BY Zenon DEF ReconcileMissing
<1>2. PICK p, new : /\ p = Patch("RECONCILIATION_REQUIRED", copy[c].bound, FALSE, 0, FALSE)
                    /\ new = UpdateIntent(row[c], p, AnyState)
  OBVIOUS
<1>3. breaker' \in BOOLEAN  BY Zenon DEF ReconcileMissing, AttributionInv, TypeOK
<1>4. \/ UNCHANGED <<row, nonterm, copy, known>>
      \/ /\ row' = [row EXCEPT ![c] = new] /\ copy' = [copy EXCEPT ![c] = row'[c]]
         /\ nonterm' = [nonterm EXCEPT ![c] = row'[c].state]
         /\ known' = [known EXCEPT ![c] = row'[c].state]
  BY <1>2, Zenon DEF ReconcileMissing
<1>5. CASE UNCHANGED <<row, nonterm, copy, known>>
  <2>1. TypeOK'  BY <1>1, <1>3, <1>5 DEF AttributionInv, TypeOK, exec
  <2>. QED  BY <1>1, <1>5, <2>1, QuietKeeps DEF exec
<1>6. CASE /\ row' = [row EXCEPT ![c] = new] /\ copy' = [copy EXCEPT ![c] = row'[c]]
           /\ nonterm' = [nonterm EXCEPT ![c] = row'[c].state]
           /\ known' = [known EXCEPT ![c] = row'[c].state]
  <2>1. PICK r : r = row[c]  OBVIOUS
  <2>2. PICK state \in OrderStates, filled \in 0 .. Quantity, bound \in BOOLEAN, no \in BOOLEAN :
          state = "RECONCILIATION_REQUIRED" /\ filled = 0 /\ bound = copy[c].bound /\ no = FALSE
    <3>1. "RECONCILIATION_REQUIRED" \in OrderStates /\ 0 \in 0 .. Quantity
      BY QuantitiesAssumption DEF OrderStates
    <3>2. copy[c].bound \in BOOLEAN  BY Zenon, <1>1 DEF AttributionInv, TypeOK, Rows
    <3>. QED  BY <3>1, <3>2, Zenon
  <2>3. p = Patch(state, bound, no, filled, no) /\ new = UpdateIntent(r, p, AnyState) /\ ~no
    BY <1>2, <2>1, <2>2, Zenon
  <2>4. r \in Rows(Quantity) /\ (~r.exists => r.filled = 0)
    BY <2>1 DEF AttributionInv, TypeOK, RowsStartEmpty
  <2>5. new \in Rows(Quantity) /\ (~no => new.filled = r.filled)
    BY <2>3, <2>4, WriteRaisesFills, SMT
  <2>6. r.exists => new.exists  BY <2>3, Zenon DEF UpdateIntent
  <2>7. row' \in [Orders -> Rows(Quantity)] /\ row'[c] = new /\ new.state \in OrderStates
    BY <1>6, <2>5 DEF AttributionInv, TypeOK, Rows
  <2>8. TypeOK'
    BY <1>1, <1>3, <1>6, <2>5, <2>7 DEF AttributionInv, TypeOK, exec
  <2>9. \A d \in Orders : row'[d].filled = row[d].filled /\ (row[d].exists => row'[d].exists)
    BY <1>6, <2>1, <2>3, <2>5, <2>6 DEF AttributionInv, TypeOK
  <2>. QED  BY <1>1, <2>8, <2>9, QuietKeeps DEF exec
<1>. QED  BY <1>4, <1>5, <1>6

(* The absolute rebuild writes no row; it alone replaces what is attributed. *)
LEMMA RebuildKeeps ==
    ASSUME AttributionInv, ReconcileFinish
    PROVE  AttributionInv' /\ phase = "applying" /\ phase' = "off"
<1>1. /\ phase = "applying" /\ phase' = "off" /\ attributed' = NetOf(copy)
      /\ position' = 0 /\ recMismatch' = FALSE
      /\ nonterm' = [c \in Orders |-> "none"] /\ copy' = [c \in Orders |-> NoRow]
      /\ book' = [c \in Orders |-> Unlisted]
      /\ UNCHANGED <<row, broker, exec, reserved, known, todo, recAt, recPending, recImage, faults>>
  BY Zenon DEF ReconcileFinish
<1>2. breaker' \in BOOLEAN /\ uncertain' \in BOOLEAN /\ complete' \in BOOLEAN /\ recMismatch' \in BOOLEAN
  BY Zenon DEF ReconcileFinish
<1>3. NoRow \in Rows(Quantity) /\ Unlisted \in Books
  BY QuantitiesAssumption DEF NoRow, Rows, OrderStates, Unlisted, Books
<1>4. /\ nonterm' \in [Orders -> OrderStates \cup {"none"}]
      /\ copy' \in [Orders -> Rows(Quantity)] /\ book' \in [Orders -> Books]
  BY <1>1, <1>3
<1>5. phase' \in Phases /\ position' \in Int /\ attributed' \in Int
  BY <1>1, WholeNetIsInt DEF Phases
<1>6. TypeOK'
  BY <1>1, <1>2, <1>4, <1>5 DEF AttributionInv, TypeOK, exec
<1>7. RowsStartEmpty' /\ PendingIsInFlight'
  BY <1>1 DEF AttributionInv, RowsStartEmpty, PendingIsInFlight, exec
<1>. QED  BY <1>1, <1>6, <1>7 DEF AttributionInv

(* However execute's continuations and the pass's interleave, and whichever calls fail, what *)
(* is attributed moves exactly with the journal; only the absolute rebuild of a finished     *)
(* pass may change the distance between the two (durableFillDelta, performReconcile).        *)
THEOREM AttributionMovesWithJournal == Spec => OnlyRebuildMovesDrift
<1>1. ASSUME Init PROVE AttributionInv
  <2>1. NoRow \in Rows(Quantity) /\ Unlisted \in Books /\ NoRow.filled = 0 /\ "CREATED" \in OrderStates
    BY QuantitiesAssumption DEF NoRow, Rows, OrderStates, Unlisted, Books
  <2>2. TypeOK
    <3>1. /\ row \in [Orders -> Rows(Quantity)] /\ broker \in [Orders -> Books]
          /\ copy \in [Orders -> Rows(Quantity)] /\ book \in [Orders -> Books]
          /\ nonterm \in [Orders -> OrderStates \cup {"none"}]
      BY <1>1, <2>1 DEF Init
    <3>2. /\ job \in [Orders -> Jobs] /\ answer \in [Orders -> OrderStates] /\ image \in [Orders -> OrderStates]
          /\ known \in [Orders -> OrderStates] /\ phase \in Phases
      BY <1>1, <2>1 DEF Init, Jobs, Phases
    <3>3. /\ pending \in [Orders -> 0 .. Quantity] /\ reserved \in [Orders -> 0 .. Quantity]
          /\ attributed \in Int /\ position \in Int /\ recPending \in 0 .. Quantity /\ faults \in Nat
      BY <1>1, QuantitiesAssumption DEF Init
    <3>4. /\ {breaker, uncertain, complete} \subseteq BOOLEAN /\ recMismatch \in BOOLEAN
      BY <1>1, Zenon DEF Init
    <3>5. todo \subseteq Orders /\ recAt \in Orders \cup {"none"} /\ recImage \in Rows(Quantity)
      BY <1>1, <2>1 DEF Init
    <3>. QED  BY <3>1, <3>2, <3>3, <3>4, <3>5, Zenon DEF TypeOK
  <2>3. RowsStartEmpty /\ PendingIsInFlight
    BY <1>1, <2>1 DEF Init, RowsStartEmpty, PendingIsInFlight
  <2>. QED  BY <2>2, <2>3 DEF AttributionInv
<1>2. ASSUME AttributionInv, [Next]_vars
      PROVE  AttributionInv' /\ (Drift' # Drift => phase = "applying" /\ phase' = "off")
  <2>1. ASSUME NEW c \in Orders, Submit(c) \/ RefuseQueued(c) \/ CommitFails(c)
        PROVE  AttributionInv' /\ Drift' = Drift
    BY <1>2, <2>1, JobsKeep
  <2>2. ASSUME NEW c \in Orders, BrokerFills(c) \/ BrokerEnds(c) PROVE AttributionInv' /\ Drift' = Drift
    BY <1>2, <2>2, BrokerKeeps
  <2>3. ASSUME NEW c \in Orders, Dequeue(c) PROVE AttributionInv' /\ Drift' = Drift
    BY <1>2, <2>3, DequeueKeeps
  <2>4. ASSUME NEW c \in Orders, Post(c) PROVE AttributionInv' /\ Drift' = Drift
    BY <1>2, <2>4, PostKeeps
  <2>5. ASSUME NEW c \in Orders, Commit(c) PROVE AttributionInv' /\ Drift' = Drift
    BY <1>2, <2>5, CommitKeeps
  <2>6. ASSUME NEW c \in Orders, Continue(c) PROVE AttributionInv' /\ Drift' = Drift
    BY <1>2, <2>6, ContinueKeeps
  <2>7. ASSUME ReconcileStart \/ ReconcileLoadOwned \/ ReconcileListOrders \/ ReconcileListPositions
        PROVE  AttributionInv' /\ Drift' = Drift
    BY <1>2, <2>7, ReadsKeep
  <2>8. ASSUME NEW c \in Orders, ReconcileCommit(c) PROVE AttributionInv' /\ Drift' = Drift
    BY <1>2, <2>8, ReconcileCommitKeeps
  <2>9. ASSUME NEW c \in Orders, ReconcileMissing(c) PROVE AttributionInv' /\ Drift' = Drift
    BY <1>2, <2>9, MissingKeeps
  <2>10. ASSUME ReconcileContinue PROVE AttributionInv' /\ Drift' = Drift
    BY <1>2, <2>10, ReconcileContinueKeeps
  <2>11. ASSUME ReconcileFinish PROVE AttributionInv' /\ phase = "applying" /\ phase' = "off"
    BY <1>2, <2>11, RebuildKeeps
  <2>12. ASSUME ReconcileFails \/ \E c \in Orders : ReconcileMatchFails(c)
         PROVE  AttributionInv' /\ Drift' = Drift
    BY <1>2, <2>12, GivenUpKeeps
  <2>13. CASE UNCHANGED vars
    <3>1. UNCHANGED <<row, broker, exec, attributed, reserved, known, flags, pass, faults>>
      BY <2>13, Zenon DEF vars
    <3>2. TypeOK'  BY <1>2, <3>1 DEF AttributionInv, TypeOK, exec, flags, pass
    <3>. QED  BY <1>2, <3>1, <3>2, QuietKeeps DEF exec, pass
  <2>. QED
    BY <1>2, <2>1, <2>2, <2>3, <2>4, <2>5, <2>6, <2>7, <2>8, <2>9, <2>10, <2>11, <2>12, <2>13, Zenon
       DEF Next, Execute, Reconcile
<1>. QED  BY <1>1, <1>2, PTL DEF Spec, OnlyRebuildMovesDrift
=============================================================================
