---------------------------- MODULE LiveAttempt ----------------------------
(***************************************************************************)
(* The live execution gateway (box/executionGateway.ts): one entry attempt *)
(* from its admission checks through the submission of its legs, the       *)
(* protective unwind of a partial or uneconomic entry                      *)
(* (box/partialEntryRecovery.ts), and the exit of an opened box in two     *)
(* waves (box/exitDependencies.ts).  Attempts run concurrently on one      *)
(* gateway.  What the order manager does with one order is the subject of  *)
(* OrderSubmission and EntryTransport; here a submission is answered with  *)
(* every outcome they allow.                                               *)
(***************************************************************************)
EXTENDS Naturals, FiniteSets

CONSTANTS
  Attempts,       \* entry attempts of this gateway, each for a box of its own
  LegRoles,       \* leg roles of a box
  Shorts,         \* those entered with a SELL
  verticalPartner,\* the other strike of the same option type
  LegLot,         \* the single lot of every leg
  MaxUnknown,     \* bound: answers that leave the quantity unproven
  EconomicControl \* is a funds or margin control switched on

ASSUME AttemptAssumption ==
  /\ Shorts \subseteq LegRoles /\ verticalPartner \in [LegRoles -> LegRoles]
  /\ LegLot \in Nat \ {0} /\ MaxUnknown \in Nat /\ EconomicControl \in BOOLEAN

VARIABLES
  legPhase,      \* legPhase[a]: where the attempt is
  legOrder,      \* legOrder[a][r]: the order of the entry, [state, filled] as reported
  legNet,        \* legNet[a][r]: quantity the account really holds in this leg
  legBooked,     \* legBooked[a][r]: quantity the program books, as position or residual
  closedLeg,     \* closedLeg[a][r]: answer of the unwind or exit of this leg
  attemptWanted,   \* attemptWanted[a]: its lease, arming and decision stand
  legEvidence,   \* legEvidence[a]: its funds and margin figures: "none", "fresh", "expired"
  economicEvidence, \* the gateway's one evidence slot: an attempt, or NoAttempt
  legBreaker,    \* invariantViolation: the circuit breaker is open
  unknowns

legVars == <<legPhase, legOrder, legNet, legBooked, closedLeg, attemptWanted, legEvidence,
             economicEvidence, legBreaker, unknowns>>

NoAttempt == "no attempt"
Hedges == LegRoles \ Shorts
Phases == {"idle", "reading", "sending", "unwinding", "open", "exiting", "done"}
Unsent == [state |-> "unsent", filled |-> 0]
Unclosed == [tried |-> FALSE, filled |-> 0, certain |-> FALSE]

LegInit ==
  /\ legPhase = [a \in Attempts |-> "idle"]
  /\ legOrder = [a \in Attempts |-> [r \in LegRoles |-> Unsent]]
  /\ legNet = [a \in Attempts |-> [r \in LegRoles |-> 0]]
  /\ legBooked = [a \in Attempts |-> [r \in LegRoles |-> 0]]
  /\ closedLeg = [a \in Attempts |-> [r \in LegRoles |-> Unclosed]]
  /\ attemptWanted = [a \in Attempts |-> TRUE]
  /\ legEvidence = [a \in Attempts |-> "none"]
  /\ economicEvidence = NoAttempt
  /\ legBreaker = FALSE /\ unknowns = 0

-----------------------------------------------------------------------------
(* Admission *)

\* The synchronous part before the evidence is read: single lot, trade identity, guard,
\* stream and candidate gates, order plan and depth, coherence, capital.  Any may refuse.
EntryBuilds(a) ==
  /\ legPhase[a] = "idle"
  /\ \E admitted \in BOOLEAN :
       legPhase' = [legPhase EXCEPT ![a] = IF admitted /\ attemptWanted[a] THEN "reading"
                                           ELSE "done"]
  /\ UNCHANGED <<legOrder, legNet, legBooked, closedLeg, attemptWanted, legEvidence,
                 economicEvidence, legBreaker, unknowns>>

\* evaluateEntryEconomics after its reads: the report is kept in the gateway's one slot, or
\* the slot is cleared.  The guard and the coherence check that follow may still refuse.
evaluateEntryEconomics(a) ==
  /\ legPhase[a] = "reading"
  /\ \E allowed \in BOOLEAN, coherent \in BOOLEAN :
       /\ ~EconomicControl => allowed
       /\ legEvidence' = [legEvidence EXCEPT ![a] = IF EconomicControl /\ allowed THEN "fresh"
                                                    ELSE "none"]
       /\ economicEvidence' = IF ~EconomicControl THEN economicEvidence
                              ELSE IF allowed THEN a ELSE NoAttempt
       /\ legPhase' = [legPhase EXCEPT ![a] = IF allowed /\ coherent /\ attemptWanted[a]
                                              THEN "sending" ELSE "done"]
  /\ UNCHANGED <<legOrder, legNet, legBooked, closedLeg, attemptWanted, legBreaker, unknowns>>

EvidenceExpires(a) ==
  /\ legEvidence[a] = "fresh" /\ legPhase[a] = "sending"
  /\ legEvidence' = [legEvidence EXCEPT ![a] = "expired"]
  /\ UNCHANGED <<legPhase, legOrder, legNet, legBooked, closedLeg, attemptWanted,
                 economicEvidence, legBreaker, unknowns>>

NoLongerWanted(a) ==
  /\ attemptWanted[a] /\ legPhase[a] \in {"idle", "reading", "sending"}
  /\ attemptWanted' = [attemptWanted EXCEPT ![a] = FALSE]
  /\ UNCHANGED <<legPhase, legOrder, legNet, legBooked, closedLeg, legEvidence,
                 economicEvidence, legBreaker, unknowns>>

-----------------------------------------------------------------------------
(* Submission of the four legs *)

\* economicSendBoundary: whatever evidence the slot holds must be fresh and for this plan;
\* an empty slot objects to nothing.
economicSendBoundary(a) ==
  economicEvidence = NoAttempt \/ (economicEvidence = a /\ legEvidence[a] = "fresh")

Posted(a) == \E r \in LegRoles : legOrder[a][r].state \notin {"unsent", "refused"}
Refused(a) == \E r \in LegRoles : legOrder[a][r].state = "refused"

\* evaluateLiveEntryGuard at the last checkpoint: once a leg is posted the attempt completes.
GuardPasses(a) ==
  /\ attemptWanted[a] /\ ~legBreaker
  /\ ~Refused(a)
  /\ Posted(a) \/ economicSendBoundary(a)

\* A leg comes to its POST: hedges before their shorts.  Otherwise it is refused, unposted.
SendLeg(a, r) ==
  /\ legPhase[a] = "sending" /\ legOrder[a][r].state = "unsent"
  /\ r \in Shorts => \A h \in Hedges : legOrder[a][h].state # "unsent"
  /\ legOrder' = [legOrder EXCEPT ![a][r].state = IF GuardPasses(a) THEN "posted" ELSE "refused"]
  /\ UNCHANGED <<legPhase, legNet, legBooked, closedLeg, attemptWanted, legEvidence,
                 economicEvidence, legBreaker, unknowns>>

\* The manager's answer: a terminal order with its quantity, or one whose quantity the broker
\* or the database could not prove.  A proven part of it may be reported.
LegSettles(a, r, filled, reported, known) ==
  /\ legPhase[a] = "sending" /\ legOrder[a][r].state = "posted"
  /\ reported <= filled /\ (known => reported = filled)
  /\ ~known => unknowns < MaxUnknown
  /\ unknowns' = unknowns + (IF known THEN 0 ELSE 1)
  /\ legBreaker' = (legBreaker \/ ~known)
  /\ legNet' = [legNet EXCEPT ![a][r] = filled]
  /\ legOrder' = [legOrder EXCEPT ![a][r] = [state |-> IF known THEN "terminal" ELSE "unknown",
                                             filled |-> reported]]
  /\ UNCHANGED <<legPhase, legBooked, closedLeg, attemptWanted, legEvidence, economicEvidence>>

Reported(a) == [r \in LegRoles |-> legOrder[a][r].filled]

\* planPartialEntryRecovery: an unproven leg is quarantined, never unwound.
planPartialEntryRecovery(a) ==
  IF \E r \in LegRoles : legOrder[a][r].state = "unknown" THEN "quarantine_unknown"
  ELSE IF \A r \in LegRoles : legOrder[a][r].filled >= LegLot THEN "qualify_complete_box"
  ELSE IF \A r \in LegRoles : legOrder[a][r].filled = 0 THEN "no_exposure"
  ELSE "unwind_confirmed_exposure"

\* All four submissions settled.  Uncertainty quarantines what is reported; a complete box
\* opens unless its executed prices fail; anything else filled is unwound.
EntrySettles(a) ==
  /\ legPhase[a] = "sending"
  /\ \A r \in LegRoles : legOrder[a][r].state \in {"refused", "terminal", "unknown"}
  /\ LET plan == planPartialEntryRecovery(a) IN
     \E economic \in BOOLEAN :
       /\ legPhase' = [legPhase EXCEPT ![a] =
            CASE plan \in {"quarantine_unknown", "no_exposure"} -> "done"
              [] plan = "qualify_complete_box" -> IF economic THEN "open" ELSE "unwinding"
              [] plan = "unwind_confirmed_exposure" -> "unwinding"]
       /\ legBooked' = [legBooked EXCEPT ![a] = Reported(a)]
  /\ UNCHANGED <<legOrder, legNet, closedLeg, attemptWanted, legEvidence, economicEvidence,
                 legBreaker, unknowns>>

-----------------------------------------------------------------------------
(* Reduction: unwindConfirmed and simulateLeggingExit *)

\* A bug: a short that closed in part frees its whole hedge.
HedgeFreedByAnyClose(hedge, short, evidence) ==
  IF short = 0 \/ (evidence.certain /\ evidence.filled > 0) THEN hedge ELSE 0

\* releasableHedgeQuantity: what of the hedge no open short needs, by certain evidence only.
releasableHedgeQuantity(hedge, short, evidence) ==
  LET closed == IF ~evidence.certain THEN 0
                ELSE IF evidence.filled < short THEN evidence.filled ELSE short
  IN IF hedge + closed <= short THEN 0
     ELSE IF closed >= short THEN hedge ELSE hedge - (short - closed)

\* The quantity a reducing order of leg r may carry now; 0 when it must wait or is held back.
\* The shorts go first, and a hedge of an open short only when that short was answered.
LegReducible(a, r) ==
  LET partner == verticalPartner[r]
      short == IF partner \in Shorts THEN legBooked[a][partner] ELSE 0
  IN IF r \in Shorts \/ short = 0 THEN legBooked[a][r]
     ELSE IF ~closedLeg[a][partner].tried THEN 0
     ELSE releasableHedgeQuantity(legBooked[a][r], short, closedLeg[a][partner])

\* No depth to price or check the order against: nothing is submitted.  A protective unwind
\* that cannot be priced opens the breaker.
ReductionRefused(a, r) ==
  /\ legPhase[a] \in {"unwinding", "exiting"}
  /\ ~closedLeg[a][r].tried /\ LegReducible(a, r) > 0
  /\ closedLeg' = [closedLeg EXCEPT ![a][r] = [tried |-> TRUE, filled |-> 0,
                                               certain |-> legPhase[a] = "exiting"]]
  /\ legBreaker' = (legBreaker \/ legPhase[a] = "unwinding")
  /\ UNCHANGED <<legPhase, legOrder, legNet, legBooked, attemptWanted, legEvidence,
                 economicEvidence, unknowns>>

\* A reducing order is submitted and answered.
ReduceLeg(a, r, filled, reported, known) ==
  /\ legPhase[a] \in {"unwinding", "exiting"}
  /\ ~closedLeg[a][r].tried /\ LegReducible(a, r) > 0
  /\ filled <= LegReducible(a, r) /\ reported <= filled /\ (known => reported = filled)
  /\ ~known => unknowns < MaxUnknown
  /\ unknowns' = unknowns + (IF known THEN 0 ELSE 1)
  /\ legBreaker' = (legBreaker \/ ~known)
  /\ legNet' = [legNet EXCEPT ![a][r] = @ - filled]
  /\ closedLeg' = [closedLeg EXCEPT ![a][r] = [tried |-> TRUE, filled |-> reported,
                                               certain |-> known]]
  /\ UNCHANGED <<legPhase, legOrder, legBooked, attemptWanted, legEvidence, economicEvidence>>

\* A bug: a leg whose reduction was tried is taken as closed.
ResidualOfUntried(a) == [r \in LegRoles |-> IF closedLeg[a][r].tried THEN 0 ELSE legBooked[a][r]]

\* residualAfterUnwind: only what an answer proves closed is subtracted.
residualAfterUnwind(a) == [r \in LegRoles |-> legBooked[a][r] - closedLeg[a][r].filled]

\* Nothing of the plan is left to send: residualAfterUnwind, or the exit's result applied to
\* the position.  An exit that left something is tried again later; one with an unproven leg
\* sends the position to recovery.
ReductionEnds(a) ==
  LET left == residualAfterUnwind(a)
      uncertain == \E r \in LegRoles : closedLeg[a][r].tried /\ ~closedLeg[a][r].certain
  IN /\ legPhase[a] \in {"unwinding", "exiting"}
     /\ \A r \in LegRoles : closedLeg[a][r].tried \/ LegReducible(a, r) = 0
     /\ legBooked' = [legBooked EXCEPT ![a] = left]
     /\ closedLeg' = [closedLeg EXCEPT ![a] = [r \in LegRoles |-> Unclosed]]
     /\ legPhase' = [legPhase EXCEPT ![a] =
          IF legPhase[a] = "exiting" /\ ~uncertain /\ \E r \in LegRoles : left[r] > 0
          THEN "open" ELSE "done"]
     /\ UNCHANGED <<legOrder, legNet, attemptWanted, legEvidence, economicEvidence, legBreaker,
                    unknowns>>

ExitStarts(a) ==
  /\ legPhase[a] = "open"
  /\ legPhase' = [legPhase EXCEPT ![a] = "exiting"]
  /\ UNCHANGED <<legOrder, legNet, legBooked, closedLeg, attemptWanted, legEvidence,
                 economicEvidence, legBreaker, unknowns>>

LegNext ==
  \/ \E a \in Attempts :
       \/ EntryBuilds(a) \/ evaluateEntryEconomics(a) \/ EvidenceExpires(a)
       \/ NoLongerWanted(a) \/ EntrySettles(a) \/ ReductionEnds(a) \/ ExitStarts(a)
       \/ \E r \in LegRoles :
            \/ SendLeg(a, r) \/ ReductionRefused(a, r)
            \/ \E filled, reported \in 0..LegLot, known \in BOOLEAN :
                 LegSettles(a, r, filled, reported, known) \/ ReduceLeg(a, r, filled, reported, known)

LegSpec == LegInit /\ [][LegNext]_legVars

-----------------------------------------------------------------------------
(* Properties *)

LegTypeOK ==
  /\ legPhase \in [Attempts -> Phases]
  /\ legNet \in [Attempts -> [LegRoles -> 0..LegLot]]
  /\ legBooked \in [Attempts -> [LegRoles -> 0..LegLot]]
  /\ economicEvidence \in Attempts \cup {NoAttempt}

\* While the breaker is closed, what the program books for an attempt that is not in the
\* middle of a submission is exactly what the account holds: no fill of a partial entry, a
\* failed unwind or a partial exit is lost or counted twice.
BookedIsHeld ==
  ~legBreaker => \A a \in Attempts : legPhase[a] \in {"open", "done"} => legBooked[a] = legNet[a]

\* No reduction sells a hedge that an open short needs: whatever was filled, unproven or
\* refused before, a step that reduces a BUY leg leaves it covering the SELL leg of its pair.
HedgeOutlivesShort ==
  [][\A a \in Attempts, h \in Hedges :
       legNet'[a][h] < legNet[a][h] /\ verticalPartner[h] \in Shorts
         => legNet'[a][h] >= legNet'[a][verticalPartner[h]]]_legVars

\* The first POST of an attempt happens only while the funds and margin evidence it was
\* admitted on still holds.
FirstPostHasEvidence ==
  [][\A a \in Attempts :
       EconomicControl /\ ~Posted(a) /\ Posted(a)' => legEvidence[a] = "fresh"]_legVars
=============================================================================
