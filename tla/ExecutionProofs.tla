--------------------------- MODULE ExecutionProofs ---------------------------
(***************************************************************************)
(* Proofs about the execution of a box: the attempts of the live gateway,  *)
(* which book what their legs really filled, the order manager's risk      *)
(* gate, which admits no entry on a day whose losses it has not loaded,    *)
(* the ledger row of an exposure that is being flattened with the charges  *)
(* of it, and the book of the trades that are held.                        *)
(***************************************************************************)
EXTENDS LiveAttempt, RiskGate, ResidualLedger, TradeBook, SequenceTheorems,
        WellFoundedInduction, TLAPS

OrderStates == {"unsent", "posted", "refused", "terminal", "unknown"}

(* What one leg's order, holding, booking and closing answer may be in each phase of its   *)
(* attempt: the account holds what was reported, less what an answer left unproven, and    *)
(* an answer that proves less has opened the breaker.                                      *)
LegAgrees(phase, order, net, booked, closed, breaker) ==
  /\ phase \in {"idle", "reading"} =>
       order.state = "unsent" /\ order.filled = 0 /\ net = 0 /\ booked = 0
  /\ phase = "sending" =>
       /\ booked = 0
       /\ order.state \in {"unsent", "posted", "refused"} => net = 0 /\ order.filled = 0
       /\ order.state = "terminal" => net = order.filled
       /\ order.state = "unknown" => breaker
  /\ phase \notin {"unwinding", "exiting"} => ~closed.tried /\ closed.filled = 0
  /\ phase = "open" => booked = net
  /\ phase = "done" => breaker \/ booked = net
  /\ phase \in {"unwinding", "exiting"} =>
       /\ ~closed.tried => net = booked /\ closed.filled = 0
       /\ closed.tried => /\ net + closed.filled <= booked
                          /\ closed.certain => net + closed.filled = booked
                          /\ ~closed.certain => breaker

AttemptTyped ==
  /\ legPhase \in [Attempts -> Phases]
  /\ legOrder \in [Attempts -> [LegRoles -> [state : OrderStates, filled : 0..LegLot]]]
  /\ legNet \in [Attempts -> [LegRoles -> 0..LegLot]]
  /\ legBooked \in [Attempts -> [LegRoles -> 0..LegLot]]
  /\ closedLeg \in [Attempts -> [LegRoles -> [tried : BOOLEAN, filled : 0..LegLot, certain : BOOLEAN]]]
  /\ economicEvidence \in Attempts \cup {NoAttempt}

LegsAgree ==
  \A a \in Attempts, r \in LegRoles :
    LegAgrees(legPhase[a], legOrder[a][r], legNet[a][r], legBooked[a][r], closedLeg[a][r], legBreaker)

AttemptInv == AttemptTyped /\ LegsAgree

(* The gateway starts with nothing sent, held or booked. *)
LEMMA AttemptStarts == LegInit => AttemptInv
<1> SUFFICES ASSUME LegInit PROVE AttemptInv
  OBVIOUS
<1>1. AttemptTyped
  <2>1. Unsent \in [state : OrderStates, filled : 0..LegLot]
        /\ Unclosed \in [tried : BOOLEAN, filled : 0..LegLot, certain : BOOLEAN]
        /\ 0 \in 0..LegLot
    BY AttemptAssumption, SMT DEF Unsent, Unclosed, OrderStates
  <2>2. QED
    BY <2>1, SMT DEF LegInit, AttemptTyped, Phases
<1>2. LegsAgree
  BY SMT DEF LegInit, LegsAgree, LegAgrees, Unsent, Unclosed
<1>3. QED
  BY <1>1, <1>2 DEF AttemptInv

(* A step of one attempt leaves the others in agreement: the breaker only opens. *)
LEMMA OthersAgree ==
  ASSUME AttemptInv, NEW a \in Attempts, legBreaker => legBreaker',
         \A b \in Attempts \ {a} :
           /\ legPhase'[b] = legPhase[b] /\ legOrder'[b] = legOrder[b] /\ legNet'[b] = legNet[b]
           /\ legBooked'[b] = legBooked[b] /\ closedLeg'[b] = closedLeg[b],
         \A r \in LegRoles : LegAgrees(legPhase'[a], legOrder'[a][r], legNet'[a][r],
                                      legBooked'[a][r], closedLeg'[a][r], legBreaker')
  PROVE  LegsAgree'
<1> SUFFICES ASSUME NEW b \in Attempts, NEW r \in LegRoles
             PROVE  LegAgrees(legPhase'[b], legOrder'[b][r], legNet'[b][r],
                              legBooked'[b][r], closedLeg'[b][r], legBreaker')
  BY DEF LegsAgree
<1>1. CASE b = a
  BY <1>1
<1>2. CASE b # a
  <2>1. LegAgrees(legPhase'[b], legOrder'[b][r], legNet'[b][r], legBooked'[b][r],
                  closedLeg'[b][r], legBreaker)
    BY <1>2 DEF AttemptInv, LegsAgree
  <2>2. QED
    BY <2>1, Zenon DEF LegAgrees
<1>3. QED
  BY <1>1, <1>2

(* releasableHedgeQuantity never frees more than the hedge, and never what an open short    *)
(* still needs.                                                                             *)
LEMMA ReleasableIsCovered ==
  ASSUME NEW hedge \in Nat, NEW short \in Nat, NEW net \in Nat,
         NEW evidence \in [tried : BOOLEAN, filled : 0..LegLot, certain : BOOLEAN],
         net + evidence.filled <= short,
         evidence.certain => net + evidence.filled = short
  PROVE  /\ releasableHedgeQuantity(hedge, short, evidence) \in 0..hedge
         /\ releasableHedgeQuantity(hedge, short, evidence) > 0
              => hedge - releasableHedgeQuantity(hedge, short, evidence) >= net
BY AttemptAssumption, SMT DEF releasableHedgeQuantity

(* A reducing order carries at most what is booked, and leaves a short its hedge. *)
LEMMA ReducibleIsCovered ==
  ASSUME AttemptInv, NEW a \in Attempts, NEW r \in LegRoles, legPhase[a] \in {"unwinding", "exiting"}
  PROVE  /\ LegReducible(a, r) \in 0..legBooked[a][r]
         /\ r \in Hedges /\ verticalPartner[r] \in Shorts /\ LegReducible(a, r) > 0
              => legBooked[a][r] - LegReducible(a, r) >= legNet[a][verticalPartner[r]]
<1> DEFINE partner == verticalPartner[r]
           evidence == closedLeg[a][partner]
<1>1. /\ partner \in LegRoles
      /\ legBooked[a][r] \in Nat /\ legBooked[a][partner] \in Nat /\ legNet[a][partner] \in Nat
      /\ evidence \in [tried : BOOLEAN, filled : 0..LegLot, certain : BOOLEAN]
  BY AttemptAssumption, SMT DEF AttemptInv, AttemptTyped
<1>2. LegAgrees(legPhase[a], legOrder[a][partner], legNet[a][partner], legBooked[a][partner],
                evidence, legBreaker)
  BY <1>1 DEF AttemptInv, LegsAgree
<1>3. legNet[a][partner] + evidence.filled <= legBooked[a][partner]
      /\ (evidence.certain => legNet[a][partner] + evidence.filled = legBooked[a][partner])
  <2>1. CASE evidence.tried
    BY <1>1, <1>2, <2>1, SMT DEF LegAgrees
  <2>2. CASE ~evidence.tried
    BY <1>1, <1>2, <2>2, SMT DEF LegAgrees
  <2>3. QED BY <2>1, <2>2
<1> DEFINE free == releasableHedgeQuantity(legBooked[a][r], legBooked[a][partner], evidence)
<1>4. free \in 0..legBooked[a][r] /\ (free > 0 => legBooked[a][r] - free >= legNet[a][partner])
  BY <1>1, <1>3, ReleasableIsCovered, Zenon
<1>5. evidence.filled \in Nat
  BY <1>1, SMT
<1> HIDE DEF evidence, free
<1>6. LegReducible(a, r) =
        IF r \in Shorts \/ (IF partner \in Shorts THEN legBooked[a][partner] ELSE 0) = 0
        THEN legBooked[a][r] ELSE IF ~evidence.tried THEN 0
        ELSE releasableHedgeQuantity(legBooked[a][r],
               IF partner \in Shorts THEN legBooked[a][partner] ELSE 0, evidence)
  BY Zenon DEF LegReducible, evidence
<1>7. CASE r \in Shorts \/ partner \notin Shorts
  BY <1>1, <1>6, <1>7, SMT DEF Hedges
<1>8. CASE r \notin Shorts /\ partner \in Shorts
  BY <1>1, <1>3, <1>4, <1>5, <1>6, <1>8, SMT DEF Hedges, free
<1>9. QED BY <1>7, <1>8

(* A change of phase alone: an attempt admitted, refused before its first leg, or a box     *)
(* whose exit starts.                                                                       *)
LEMMA PhaseAloneAgrees ==
  ASSUME AttemptInv, NEW a \in Attempts, NEW p \in Phases,
         \/ legPhase[a] \in {"idle", "reading"} /\ p \in {"reading", "sending", "done"}
         \/ legPhase[a] = "open" /\ p = "exiting",
         legPhase' = [legPhase EXCEPT ![a] = p],
         UNCHANGED <<legOrder, legNet, legBooked, closedLeg, legBreaker>>
  PROVE  LegsAgree' /\ legPhase' \in [Attempts -> Phases]
<1>1. legPhase' \in [Attempts -> Phases] /\ legPhase'[a] = p
      /\ \A b \in Attempts \ {a} : legPhase'[b] = legPhase[b]
  BY SMT DEF AttemptInv, AttemptTyped
<1>2. ASSUME NEW r \in LegRoles
      PROVE  LegAgrees(legPhase'[a], legOrder'[a][r], legNet'[a][r], legBooked'[a][r],
                       closedLeg'[a][r], legBreaker')
  <2>1. LegAgrees(legPhase[a], legOrder[a][r], legNet[a][r], legBooked[a][r], closedLeg[a][r],
                  legBreaker)
    BY DEF AttemptInv, LegsAgree
  <2>2. LegAgrees(p, legOrder[a][r], legNet[a][r], legBooked[a][r], closedLeg[a][r], legBreaker)
    BY <2>1, SMT DEF LegAgrees
  <2>3. QED BY <1>1, <2>2
<1>3. LegsAgree'
  BY <1>1, <1>2, OthersAgree, Zenon
<1>4. QED BY <1>1, <1>3

(* No step of the gateway disturbs the agreement. *)
LEMMA AttemptStep == AttemptInv /\ [LegNext]_legVars => AttemptInv'
<1> SUFFICES ASSUME AttemptInv, [LegNext]_legVars PROVE AttemptInv'
  OBVIOUS
<1>0. CASE UNCHANGED legVars
  <2>1. AttemptTyped' BY <1>0 DEF legVars, AttemptTyped, AttemptInv
  <2>2. LegsAgree' BY <1>0 DEF legVars, LegsAgree, AttemptInv
  <2>3. QED BY <2>1, <2>2 DEF AttemptInv
<1>1. ASSUME NEW a \in Attempts, EntryBuilds(a) PROVE AttemptInv'
  <2>1. PICK admitted \in BOOLEAN :
          legPhase' = [legPhase EXCEPT ![a] = IF admitted /\ attemptWanted[a] THEN "reading" ELSE "done"]
    BY <1>1 DEF EntryBuilds
  <2> DEFINE p == IF admitted /\ attemptWanted[a] THEN "reading" ELSE "done"
  <2>2. p \in {"reading", "done"} /\ p \in Phases /\ legPhase[a] = "idle"
    BY <1>1 DEF EntryBuilds, Phases
  <2>3. LegsAgree' /\ legPhase' \in [Attempts -> Phases]
    BY <1>1, <2>1, <2>2, PhaseAloneAgrees, Zenon DEF EntryBuilds
  <2>4. QED BY <1>1, <2>3 DEF AttemptInv, AttemptTyped, EntryBuilds
<1>2. ASSUME NEW a \in Attempts, evaluateEntryEconomics(a) PROVE AttemptInv'
  <2>1. PICK allowed \in BOOLEAN, coherent \in BOOLEAN :
          /\ economicEvidence' = IF ~EconomicControl THEN economicEvidence
                                 ELSE IF allowed THEN a ELSE NoAttempt
          /\ legPhase' = [legPhase EXCEPT ![a] = IF allowed /\ coherent /\ attemptWanted[a]
                                                 THEN "sending" ELSE "done"]
    BY <1>2 DEF evaluateEntryEconomics
  <2> DEFINE p == IF allowed /\ coherent /\ attemptWanted[a] THEN "sending" ELSE "done"
  <2>2. p \in {"sending", "done"} /\ p \in Phases /\ legPhase[a] = "reading"
    BY <1>2 DEF evaluateEntryEconomics, Phases
  <2>3. LegsAgree' /\ legPhase' \in [Attempts -> Phases]
    BY <1>2, <2>1, <2>2, PhaseAloneAgrees, Zenon DEF evaluateEntryEconomics
  <2>4. economicEvidence' \in Attempts \cup {NoAttempt}
    BY <2>1 DEF AttemptInv, AttemptTyped
  <2>5. QED BY <1>2, <2>3, <2>4 DEF AttemptInv, AttemptTyped, evaluateEntryEconomics
<1>3. ASSUME NEW a \in Attempts, EvidenceExpires(a) \/ NoLongerWanted(a) PROVE AttemptInv'
  BY <1>3 DEF EvidenceExpires, NoLongerWanted, AttemptInv, AttemptTyped, LegsAgree
<1>4. ASSUME NEW a \in Attempts, EntrySettles(a) PROVE AttemptInv'
  <2>1. PICK p \in {"done", "open", "unwinding"} : legPhase' = [legPhase EXCEPT ![a] = p]
          /\ (p # "done" => \A r \in LegRoles : legOrder[a][r].state # "unknown")
    <3> DEFINE plan == planPartialEntryRecovery(a)
    <3>1. PICK economic \in BOOLEAN : legPhase' = [legPhase EXCEPT ![a] =
            CASE plan \in {"quarantine_unknown", "no_exposure"} -> "done"
              [] plan = "qualify_complete_box" -> IF economic THEN "open" ELSE "unwinding"
              [] plan = "unwind_confirmed_exposure" -> "unwinding"]
      BY <1>4 DEF EntrySettles
    <3>2. /\ plan \in {"quarantine_unknown", "no_exposure", "qualify_complete_box",
                       "unwind_confirmed_exposure"}
          /\ plan # "quarantine_unknown" => \A r \in LegRoles : legOrder[a][r].state # "unknown"
      BY Zenon DEF planPartialEntryRecovery
    <3> HIDE DEF plan
    <3>3. CASE plan \in {"quarantine_unknown", "no_exposure"}
      <4>1. legPhase' = [legPhase EXCEPT ![a] = "done"] BY <3>1, <3>3
      <4>2. QED BY <4>1
    <3>4. CASE plan = "qualify_complete_box"
      <4>1. legPhase' = [legPhase EXCEPT ![a] = IF economic THEN "open" ELSE "unwinding"]
        BY <3>1, <3>4
      <4>2. QED BY <3>2, <3>4, <4>1
    <3>5. CASE plan = "unwind_confirmed_exposure"
      <4>1. legPhase' = [legPhase EXCEPT ![a] = "unwinding"] BY <3>1, <3>5
      <4>2. QED BY <3>2, <3>5, <4>1
    <3>6. QED BY <3>2, <3>3, <3>4, <3>5
  <2>2. /\ legBooked' = [legBooked EXCEPT ![a] = Reported(a)] /\ legPhase[a] = "sending"
        /\ \A r \in LegRoles : legOrder[a][r].state \in {"refused", "terminal", "unknown"}
        /\ UNCHANGED <<legOrder, legNet, closedLeg, legBreaker, economicEvidence>>
    BY <1>4 DEF EntrySettles
  <2>3. AttemptTyped'
    BY <2>1, <2>2, SMT DEF AttemptInv, AttemptTyped, Phases, Reported
  <2>4. ASSUME NEW r \in LegRoles
        PROVE  LegAgrees(legPhase'[a], legOrder'[a][r], legNet'[a][r], legBooked'[a][r],
                         closedLeg'[a][r], legBreaker')
    <3>1. LegAgrees(legPhase[a], legOrder[a][r], legNet[a][r], legBooked[a][r], closedLeg[a][r],
                    legBreaker)
      BY DEF AttemptInv, LegsAgree
    <3>2. legBooked'[a][r] = legOrder[a][r].filled /\ legPhase'[a] = p
      BY <2>1, <2>2, SMT DEF AttemptInv, AttemptTyped, Reported
    <3>3. LegAgrees(p, legOrder[a][r], legNet[a][r], legOrder[a][r].filled, closedLeg[a][r], legBreaker)
      BY <2>1, <2>2, <3>1, SMT DEF LegAgrees
    <3>4. QED BY <2>2, <3>2, <3>3
  <2>5. LegsAgree'
    <3>1. \A b \in Attempts \ {a} : legPhase'[b] = legPhase[b] /\ legBooked'[b] = legBooked[b]
      BY <2>1, <2>2, SMT DEF AttemptInv, AttemptTyped
    <3>2. QED BY <2>2, <2>4, <3>1, OthersAgree, Zenon
  <2>6. QED BY <2>3, <2>5 DEF AttemptInv
<1>5. ASSUME NEW a \in Attempts, ReductionEnds(a) PROVE AttemptInv'
  <2>1. PICK p \in {"done", "open"} : legPhase' = [legPhase EXCEPT ![a] = p]
          /\ (p = "open" => \A r \in LegRoles : closedLeg[a][r].tried => closedLeg[a][r].certain)
    <3> DEFINE uncertain == \E r \in LegRoles : closedLeg[a][r].tried /\ ~closedLeg[a][r].certain
               again == legPhase[a] = "exiting" /\ ~uncertain
                          /\ \E r \in LegRoles : residualAfterUnwind(a)[r] > 0
    <3>1. legPhase' = [legPhase EXCEPT ![a] = IF again THEN "open" ELSE "done"]
      BY <1>5 DEF ReductionEnds
    <3>2. again => \A r \in LegRoles : closedLeg[a][r].tried => closedLeg[a][r].certain
      BY Zenon
    <3> HIDE DEF again
    <3>3. QED BY <3>1, <3>2
  <2>2. /\ legBooked' = [legBooked EXCEPT ![a] = residualAfterUnwind(a)]
        /\ closedLeg' = [closedLeg EXCEPT ![a] = [r \in LegRoles |-> Unclosed]]
        /\ legPhase[a] \in {"unwinding", "exiting"}
        /\ UNCHANGED <<legOrder, legNet, legBreaker, economicEvidence>>
    BY <1>5 DEF ReductionEnds
  <2>3. ASSUME NEW r \in LegRoles
        PROVE  /\ LegAgrees(p, legOrder[a][r], legNet[a][r], residualAfterUnwind(a)[r], Unclosed,
                            legBreaker)
               /\ residualAfterUnwind(a)[r] \in 0..LegLot
    <3>1. LegAgrees(legPhase[a], legOrder[a][r], legNet[a][r], legBooked[a][r], closedLeg[a][r],
                    legBreaker)
      BY DEF AttemptInv, LegsAgree
    <3>2. residualAfterUnwind(a)[r] = legBooked[a][r] - closedLeg[a][r].filled
      BY DEF residualAfterUnwind
    <3>3. /\ legBooked[a][r] \in 0..LegLot /\ legNet[a][r] \in 0..LegLot
          /\ closedLeg[a][r] \in [tried : BOOLEAN, filled : 0..LegLot, certain : BOOLEAN]
      BY DEF AttemptInv, AttemptTyped
    <3>4. QED
      BY AttemptAssumption, <2>1, <2>2, <3>1, <3>2, <3>3, SMT DEF LegAgrees, Unclosed
  <2>4. AttemptTyped'
    <3>1. Unclosed \in [tried : BOOLEAN, filled : 0..LegLot, certain : BOOLEAN]
      BY AttemptAssumption, SMT DEF Unclosed
    <3>2. residualAfterUnwind(a) \in [LegRoles -> 0..LegLot]
      BY <2>3, SMT DEF residualAfterUnwind
    <3>3. QED
      BY <2>1, <2>2, <3>1, <3>2, SMT DEF AttemptInv, AttemptTyped, Phases
  <2>5. LegsAgree'
    <3>1. \A b \in Attempts \ {a} : /\ legPhase'[b] = legPhase[b] /\ legBooked'[b] = legBooked[b]
                                    /\ closedLeg'[b] = closedLeg[b]
      BY <2>1, <2>2, SMT DEF AttemptInv, AttemptTyped
    <3>2. /\ legPhase'[a] = p /\ legBooked'[a] = residualAfterUnwind(a)
          /\ \A r \in LegRoles : closedLeg'[a][r] = Unclosed
      BY <2>1, <2>2, SMT DEF AttemptInv, AttemptTyped
    <3>3. \A r \in LegRoles : LegAgrees(legPhase'[a], legOrder'[a][r], legNet'[a][r], legBooked'[a][r],
                                       closedLeg'[a][r], legBreaker')
      BY <2>2, <2>3, <3>2
    <3>4. QED BY <2>2, <3>1, <3>3, OthersAgree, Zenon
  <2>6. QED BY <2>4, <2>5 DEF AttemptInv
<1>6. ASSUME NEW a \in Attempts, ExitStarts(a) PROVE AttemptInv'
  <2>1. "exiting" \in Phases BY DEF Phases
  <2>2. LegsAgree' /\ legPhase' \in [Attempts -> Phases]
    BY <1>6, <2>1, PhaseAloneAgrees, Zenon DEF ExitStarts
  <2>3. QED BY <1>6, <2>2 DEF AttemptInv, AttemptTyped, ExitStarts
<1>7. ASSUME NEW a \in Attempts, NEW r \in LegRoles, SendLeg(a, r) PROVE AttemptInv'
  <2>1. PICK st \in {"posted", "refused"} : legOrder' = [legOrder EXCEPT ![a][r].state = st]
    BY <1>7 DEF SendLeg
  <2> DEFINE new == [legOrder[a][r] EXCEPT !.state = st]
  <2>2. legOrder' = [legOrder EXCEPT ![a][r] = new]
    BY <2>1, Zenon
  <2>3. legOrder[a][r] \in [state : OrderStates, filled : 0..LegLot] /\ st \in OrderStates
    BY SMT DEF AttemptInv, AttemptTyped, OrderStates
  <2>4. /\ new \in [state : OrderStates, filled : 0..LegLot]
        /\ new.state = st /\ new.filled = legOrder[a][r].filled
    BY <2>3, Zenon
  <2> HIDE DEF new
  <2>5. /\ legOrder' \in [Attempts -> [LegRoles -> [state : OrderStates, filled : 0..LegLot]]]
        /\ \A b \in Attempts \ {a} : legOrder'[b] = legOrder[b]
        /\ \A q \in LegRoles : legOrder'[a][q] = IF q = r THEN new ELSE legOrder[a][q]
    BY <2>2, <2>4, SMT DEF AttemptInv, AttemptTyped
  <2>6. /\ UNCHANGED <<legPhase, legNet, legBooked, closedLeg, economicEvidence, legBreaker>>
        /\ legPhase[a] = "sending" /\ legOrder[a][r].state = "unsent"
    BY <1>7 DEF SendLeg
  <2>7. AttemptTyped'
    BY <2>5, <2>6 DEF AttemptInv, AttemptTyped
  <2>8. ASSUME NEW q \in LegRoles
        PROVE  LegAgrees(legPhase'[a], legOrder'[a][q], legNet'[a][q], legBooked'[a][q],
                         closedLeg'[a][q], legBreaker')
    <3>1. LegAgrees(legPhase[a], legOrder[a][q], legNet[a][q], legBooked[a][q], closedLeg[a][q],
                    legBreaker)
      BY DEF AttemptInv, LegsAgree
    <3>2. CASE q # r
      BY <2>5, <2>6, <3>1, <3>2
    <3>3. CASE q = r
      <4>1. LegAgrees(legPhase[a], new, legNet[a][q], legBooked[a][q], closedLeg[a][q], legBreaker)
        BY <2>1, <2>4, <2>6, <3>1, <3>3, SMT DEF LegAgrees
      <4>2. QED BY <2>5, <2>6, <3>3, <4>1
    <3>4. QED BY <3>2, <3>3
  <2>9. LegsAgree'
    BY <2>5, <2>6, <2>8, OthersAgree, Zenon
  <2>10. QED BY <2>7, <2>9 DEF AttemptInv
<1>8. ASSUME NEW a \in Attempts, NEW r \in LegRoles, ReductionRefused(a, r) PROVE AttemptInv'
  <2> DEFINE new == [tried |-> TRUE, filled |-> 0, certain |-> legPhase[a] = "exiting"]
  <2>1. /\ closedLeg' = [closedLeg EXCEPT ![a][r] = new]
        /\ legBreaker' = (legBreaker \/ legPhase[a] = "unwinding")
        /\ UNCHANGED <<legPhase, legOrder, legNet, legBooked, economicEvidence>>
        /\ legPhase[a] \in {"unwinding", "exiting"} /\ ~closedLeg[a][r].tried
    BY <1>8 DEF ReductionRefused
  <2>2. new \in [tried : BOOLEAN, filled : 0..LegLot, certain : BOOLEAN]
    BY AttemptAssumption, SMT
  <2>3. new.tried /\ new.filled = 0 /\ (new.certain <=> legPhase[a] = "exiting")
    BY Zenon
  <2> HIDE DEF new
  <2>4. /\ closedLeg' \in [Attempts -> [LegRoles -> [tried : BOOLEAN, filled : 0..LegLot, certain : BOOLEAN]]]
        /\ \A b \in Attempts \ {a} : closedLeg'[b] = closedLeg[b]
        /\ \A q \in LegRoles : closedLeg'[a][q] = IF q = r THEN new ELSE closedLeg[a][q]
    BY <2>1, <2>2, SMT DEF AttemptInv, AttemptTyped
  <2>5. AttemptTyped'
    BY <2>1, <2>4 DEF AttemptInv, AttemptTyped
  <2>6. ASSUME NEW q \in LegRoles
        PROVE  LegAgrees(legPhase'[a], legOrder'[a][q], legNet'[a][q], legBooked'[a][q],
                         closedLeg'[a][q], legBreaker')
    <3>1. LegAgrees(legPhase[a], legOrder[a][q], legNet[a][q], legBooked[a][q], closedLeg[a][q],
                    legBreaker)
      BY DEF AttemptInv, LegsAgree
    <3>2. CASE q # r
      <4>1. LegAgrees(legPhase[a], legOrder[a][q], legNet[a][q], legBooked[a][q], closedLeg[a][q],
                      legBreaker')
        BY <2>1, <3>1, Zenon DEF LegAgrees
      <4>2. QED BY <2>1, <2>4, <3>2, <4>1
    <3>3. CASE q = r
      <4>1. legNet[a][q] \in 0..LegLot /\ legBooked[a][q] \in 0..LegLot
        BY DEF AttemptInv, AttemptTyped
      <4>2. LegAgrees(legPhase[a], legOrder[a][q], legNet[a][q], legBooked[a][q], new, legBreaker')
        <5>1. legPhase[a] = "unwinding" => legBreaker'
          BY <2>1, Zenon
        <5>2. legPhase[a] = "unwinding" \/ new.certain
          BY <2>1, <2>3, Zenon
        <5>3. legNet[a][q] = legBooked[a][q]
          BY <2>1, <3>1, <3>3, Zenon DEF LegAgrees
        <5>4. QED BY <2>1, <2>3, <4>1, <5>1, <5>2, <5>3, SMT DEF LegAgrees
      <4>3. QED BY <2>1, <2>4, <3>3, <4>2
    <3>4. QED BY <3>2, <3>3
  <2>7. LegsAgree'
    BY <2>1, <2>4, <2>6, OthersAgree, Zenon
  <2>8. QED BY <2>5, <2>7 DEF AttemptInv
<1>9. ASSUME NEW a \in Attempts, NEW r \in LegRoles,
             NEW filled \in 0..LegLot, NEW reported \in 0..LegLot, NEW known \in BOOLEAN,
             LegSettles(a, r, filled, reported, known)
      PROVE  AttemptInv'
  <2> DEFINE new == [state |-> IF known THEN "terminal" ELSE "unknown", filled |-> reported]
  <2>1. /\ legOrder' = [legOrder EXCEPT ![a][r] = new]
        /\ legNet' = [legNet EXCEPT ![a][r] = filled]
        /\ legBreaker' = (legBreaker \/ ~known)
        /\ UNCHANGED <<legPhase, legBooked, closedLeg, economicEvidence>>
        /\ legPhase[a] = "sending" /\ (known => reported = filled)
    BY <1>9 DEF LegSettles
  <2>2. /\ new \in [state : OrderStates, filled : 0..LegLot]
        /\ new.filled = reported /\ new.state = IF known THEN "terminal" ELSE "unknown"
    BY SMT DEF OrderStates
  <2> HIDE DEF new
  <2>3. /\ legOrder' \in [Attempts -> [LegRoles -> [state : OrderStates, filled : 0..LegLot]]]
        /\ \A b \in Attempts \ {a} : legOrder'[b] = legOrder[b]
        /\ \A q \in LegRoles : legOrder'[a][q] = IF q = r THEN new ELSE legOrder[a][q]
    BY <2>1, <2>2, SMT DEF AttemptInv, AttemptTyped
  <2>4. /\ legNet' \in [Attempts -> [LegRoles -> 0..LegLot]]
        /\ \A b \in Attempts \ {a} : legNet'[b] = legNet[b]
        /\ \A q \in LegRoles : legNet'[a][q] = IF q = r THEN filled ELSE legNet[a][q]
    BY <2>1, SMT DEF AttemptInv, AttemptTyped
  <2>5. AttemptTyped'
    BY <2>1, <2>3, <2>4 DEF AttemptInv, AttemptTyped
  <2>6. ASSUME NEW q \in LegRoles
        PROVE  LegAgrees(legPhase'[a], legOrder'[a][q], legNet'[a][q], legBooked'[a][q],
                         closedLeg'[a][q], legBreaker')
    <3>1. LegAgrees(legPhase[a], legOrder[a][q], legNet[a][q], legBooked[a][q], closedLeg[a][q],
                    legBreaker)
      BY DEF AttemptInv, LegsAgree
    <3>2. CASE q # r
      <4>1. LegAgrees(legPhase[a], legOrder[a][q], legNet[a][q], legBooked[a][q], closedLeg[a][q],
                      legBreaker')
        BY <2>1, <3>1, Zenon DEF LegAgrees
      <4>2. QED BY <2>1, <2>3, <2>4, <3>2, <4>1
    <3>3. CASE q = r
      <4>1. LegAgrees(legPhase[a], new, filled, legBooked[a][q], closedLeg[a][q], legBreaker')
        <5>1. legBooked[a][q] = 0 /\ ~closedLeg[a][q].tried /\ closedLeg[a][q].filled = 0
          BY <2>1, <3>1, SMT DEF LegAgrees
        <5>2. CASE known
          BY <2>1, <2>2, <5>1, <5>2, SMT DEF LegAgrees
        <5>3. CASE ~known
          <6>1. legBreaker' BY <2>1, <5>3, Zenon
          <6>2. QED BY <2>1, <2>2, <5>1, <5>3, <6>1, SMT DEF LegAgrees
        <5>4. QED BY <5>2, <5>3
      <4>2. QED BY <2>1, <2>3, <2>4, <3>3, <4>1
    <3>4. QED BY <3>2, <3>3
  <2>7. LegsAgree'
    BY <2>1, <2>3, <2>4, <2>6, OthersAgree, Zenon
  <2>8. QED BY <2>5, <2>7 DEF AttemptInv
<1>10. ASSUME NEW a \in Attempts, NEW r \in LegRoles,
              NEW filled \in 0..LegLot, NEW reported \in 0..LegLot, NEW known \in BOOLEAN,
              ReduceLeg(a, r, filled, reported, known)
       PROVE  AttemptInv'
  <2> DEFINE new == [tried |-> TRUE, filled |-> reported, certain |-> known]
             left == legNet[a][r] - filled
  <2>1. /\ closedLeg' = [closedLeg EXCEPT ![a][r] = new]
        /\ legNet' = [legNet EXCEPT ![a][r] = left]
        /\ legBreaker' = (legBreaker \/ ~known)
        /\ UNCHANGED <<legPhase, legOrder, legBooked, economicEvidence>>
        /\ legPhase[a] \in {"unwinding", "exiting"} /\ ~closedLeg[a][r].tried
        /\ filled <= LegReducible(a, r) /\ reported <= filled /\ (known => reported = filled)
    BY <1>10 DEF ReduceLeg
  <2>2. /\ new \in [tried : BOOLEAN, filled : 0..LegLot, certain : BOOLEAN]
        /\ new.tried /\ new.filled = reported /\ (new.certain <=> known)
    BY SMT
  <2>3. LegAgrees(legPhase[a], legOrder[a][r], legNet[a][r], legBooked[a][r], closedLeg[a][r],
                  legBreaker)
    BY DEF AttemptInv, LegsAgree
  <2>4. /\ legNet[a][r] = legBooked[a][r] /\ legBooked[a][r] \in 0..LegLot
        /\ filled <= legBooked[a][r]
    BY AttemptAssumption, <2>1, <2>3, ReducibleIsCovered, SMT DEF LegAgrees, AttemptInv, AttemptTyped
  <2>5. left \in 0..LegLot
    BY AttemptAssumption, <2>4, SMT
  <2>6. LegAgrees(legPhase[a], legOrder[a][r], left, legBooked[a][r], new, legBreaker')
    <3> HIDE DEF new
    <3>1. QED BY AttemptAssumption, <2>1, <2>2, <2>3, <2>4, SMT DEF LegAgrees
  <2> HIDE DEF new, left
  <2>7. /\ closedLeg' \in [Attempts -> [LegRoles -> [tried : BOOLEAN, filled : 0..LegLot, certain : BOOLEAN]]]
        /\ \A b \in Attempts \ {a} : closedLeg'[b] = closedLeg[b]
        /\ \A q \in LegRoles : closedLeg'[a][q] = IF q = r THEN new ELSE closedLeg[a][q]
    BY <2>1, <2>2, SMT DEF AttemptInv, AttemptTyped
  <2>8. /\ legNet' \in [Attempts -> [LegRoles -> 0..LegLot]]
        /\ \A b \in Attempts \ {a} : legNet'[b] = legNet[b]
        /\ \A q \in LegRoles : legNet'[a][q] = IF q = r THEN left ELSE legNet[a][q]
    BY <2>1, <2>5, SMT DEF AttemptInv, AttemptTyped
  <2>9. AttemptTyped'
    BY <2>1, <2>7, <2>8 DEF AttemptInv, AttemptTyped
  <2>10. ASSUME NEW q \in LegRoles
         PROVE  LegAgrees(legPhase'[a], legOrder'[a][q], legNet'[a][q], legBooked'[a][q],
                          closedLeg'[a][q], legBreaker')
    <3>1. CASE q # r
      <4>1. LegAgrees(legPhase[a], legOrder[a][q], legNet[a][q], legBooked[a][q], closedLeg[a][q],
                      legBreaker)
        BY DEF AttemptInv, LegsAgree
      <4>2. LegAgrees(legPhase[a], legOrder[a][q], legNet[a][q], legBooked[a][q], closedLeg[a][q],
                      legBreaker')
        BY <2>1, <4>1, Zenon DEF LegAgrees
      <4>3. QED BY <2>1, <2>7, <2>8, <3>1, <4>2
    <3>2. CASE q = r
      BY <2>1, <2>6, <2>7, <2>8, <3>2
    <3>3. QED BY <3>1, <3>2
  <2>11. LegsAgree'
    BY <2>1, <2>7, <2>8, <2>10, OthersAgree, Zenon
  <2>12. QED BY <2>9, <2>11 DEF AttemptInv
<1>11. QED
  BY <1>0, <1>1, <1>2, <1>3, <1>4, <1>5, <1>6, <1>7, <1>8, <1>9, <1>10 DEF LegNext

(* The gateway's fields keep their types and its books agree with the account: whatever     *)
(* fills in part, is refused, is left unproven or fails to unwind, a box that is open or    *)
(* done is booked with exactly what the account holds until the breaker opens (executeLive, *)
(* unwindConfirmed, simulateLeggingExit).                                                   *)
THEOREM GatewayBooksWhatIsHeld == LegSpec => [](LegTypeOK /\ BookedIsHeld)
<1>1. AttemptInv => LegTypeOK /\ BookedIsHeld
  <2> SUFFICES ASSUME AttemptInv PROVE LegTypeOK /\ BookedIsHeld
    OBVIOUS
  <2>1. LegTypeOK
    BY DEF AttemptInv, AttemptTyped, LegTypeOK
  <2>2. ASSUME ~legBreaker, NEW a \in Attempts, legPhase[a] \in {"open", "done"}
        PROVE  legBooked[a] = legNet[a]
    <3>1. \A r \in LegRoles : legBooked[a][r] = legNet[a][r]
      BY <2>2 DEF AttemptInv, LegsAgree, LegAgrees
    <3>2. legBooked[a] \in [LegRoles -> 0..LegLot] /\ legNet[a] \in [LegRoles -> 0..LegLot]
      BY DEF AttemptInv, AttemptTyped
    <3>3. QED BY <3>1, <3>2, SMT
  <2>3. QED BY <2>1, <2>2 DEF BookedIsHeld
<1>2. QED
  BY <1>1, AttemptStarts, AttemptStep, PTL DEF LegSpec

(* No reduction takes a hedge away from an open short: a step that lowers a BUY leg leaves  *)
(* it at least the quantity of the SELL leg of its pair, by the evidence of the short's own *)
(* answer (releasableHedgeQuantity).                                                        *)
THEOREM HedgeStaysWithItsShort == LegSpec => HedgeOutlivesShort
<1> DEFINE Covered ==
      \A a \in Attempts, h \in Hedges :
        legNet'[a][h] < legNet[a][h] /\ verticalPartner[h] \in Shorts
          => legNet'[a][h] >= legNet'[a][verticalPartner[h]]
<1>1. AttemptInv /\ [LegNext]_legVars => [Covered]_legVars
  <2> SUFFICES ASSUME AttemptInv, LegNext,
                      NEW b \in Attempts, NEW h \in Hedges,
                      legNet'[b][h] < legNet[b][h], verticalPartner[h] \in Shorts
               PROVE  legNet'[b][h] >= legNet'[b][verticalPartner[h]]
    BY Zenon
  <2>0. h \in LegRoles /\ h \notin Shorts /\ legNet[b][h] \in 0..LegLot
        /\ verticalPartner[h] \in LegRoles /\ verticalPartner[h] # h
    BY AttemptAssumption, SMT DEF Hedges, AttemptInv, AttemptTyped
  <2>1. legNet' # legNet
    BY <2>0, SMT
  <2>2. PICK a \in Attempts, r \in LegRoles, filled \in 0..LegLot, reported \in 0..LegLot,
             known \in BOOLEAN :
          LegSettles(a, r, filled, reported, known) \/ ReduceLeg(a, r, filled, reported, known)
    BY <2>1, Zenon DEF LegNext, EntryBuilds, evaluateEntryEconomics, EvidenceExpires, NoLongerWanted,
       EntrySettles, ReductionEnds, ExitStarts, SendLeg, ReductionRefused
  <2>3. ASSUME LegSettles(a, r, filled, reported, known) PROVE FALSE
    <3>1. LegAgrees(legPhase[a], legOrder[a][r], legNet[a][r], legBooked[a][r], closedLeg[a][r],
                    legBreaker)
      BY DEF AttemptInv, LegsAgree
    <3>2. legNet[a][r] = 0
      BY <2>3, <3>1, Zenon DEF LegSettles, LegAgrees
    <3>3. legNet' = [legNet EXCEPT ![a][r] = filled]
      BY <2>3 DEF LegSettles
    <3>4. legNet'[b][h] = IF b = a /\ h = r THEN filled ELSE legNet[b][h]
      BY <2>0, <3>3, SMT DEF AttemptInv, AttemptTyped
    <3>5. QED BY <2>0, <3>2, <3>4, SMT
  <2>4. ASSUME ReduceLeg(a, r, filled, reported, known)
        PROVE  legNet'[b][h] >= legNet'[b][verticalPartner[h]]
    <3>1. legNet' = [legNet EXCEPT ![a][r] = @ - filled] /\ legPhase[a] \in {"unwinding", "exiting"}
          /\ ~closedLeg[a][r].tried /\ LegReducible(a, r) > 0 /\ filled <= LegReducible(a, r)
      BY <2>4 DEF ReduceLeg
    <3>2. \A c \in Attempts, q \in LegRoles :
            legNet'[c][q] = IF c = a /\ q = r THEN legNet[c][q] - filled ELSE legNet[c][q]
      BY <3>1, SMT DEF AttemptInv, AttemptTyped
    <3>3. b = a /\ h = r
      BY <2>0, <3>2, SMT
    <3>4. LegAgrees(legPhase[a], legOrder[a][r], legNet[a][r], legBooked[a][r], closedLeg[a][r],
                    legBreaker)
      BY DEF AttemptInv, LegsAgree
    <3>5. legNet[a][r] = legBooked[a][r]
      BY <3>1, <3>4, Zenon DEF LegAgrees
    <3>6. /\ LegReducible(a, r) \in 0..legBooked[a][r]
          /\ legBooked[a][r] - LegReducible(a, r) >= legNet[a][verticalPartner[r]]
      BY <3>1, <3>3, ReducibleIsCovered, Zenon
    <3>7. legNet'[b][h] = legNet[a][r] - filled
          /\ legNet'[b][verticalPartner[h]] = legNet[a][verticalPartner[r]]
      BY <2>0, <3>2, <3>3, Zenon
    <3>8. legNet[a][verticalPartner[r]] \in 0..LegLot /\ legBooked[a][r] \in 0..LegLot
      BY <2>0, <3>3 DEF AttemptInv, AttemptTyped
    <3>9. QED BY AttemptAssumption, <3>1, <3>5, <3>6, <3>7, <3>8, SMT
  <2>5. QED BY <2>2, <2>3, <2>4
<1>2. QED
  BY <1>1, AttemptStarts, AttemptStep, PTL DEF LegSpec, HedgeOutlivesShort

-----------------------------------------------------------------------------
(* The risk gate. *)

GateRecord ==
  [day : RiskDays, entry : BOOLEAN, orders : BOOLEAN, breaker : BOOLEAN, recovery : BOOLEAN,
   healthy : BOOLEAN, seed : {"unknown", "seeding", "failed", "healthy"}, reconciled : BOOLEAN,
   active : Nat, generation : Nat, counted : Nat, boxes : Int,
   feed : {"down", "warming", "healthy"}, quarantined : BOOLEAN]

GateTyped ==
  /\ calendar \in RiskDays /\ gate \in GateRecord /\ positions \in Int
  /\ loads \subseteq [generation : Nat, day : RiskDays, read : Int]
  /\ losses \in [RiskDays -> Nat] /\ seeded \in [RiskDays -> Nat]

(* The slot belongs to the newest load, which is for the manager's day. *)
SlotIsNewest ==
  /\ gate.active \in {0, gate.generation}
  /\ \A l \in loads : /\ 1 <= l.generation /\ l.generation <= gate.generation
                      /\ l.generation = gate.active => l.day = gate.day

(* What was read and what was installed is durable: losses only grow. *)
ReadsAreDurable ==
  /\ \A l \in loads : l.read # Unread => 0 <= l.read /\ l.read <= losses[l.day]
  /\ \A d \in RiskDays : seeded[d] <= losses[d]

(* The load that may still install read no earlier than any that did. *)
CurrentReadIsLatest ==
  \A l \in loads : l.generation = gate.active /\ l.read # Unread => seeded[l.day] <= l.read

HealthySeedCounts == gate.seed = "healthy" => seeded[gate.day] <= gate.counted

RiskInv == GateTyped /\ SlotIsNewest /\ ReadsAreDurable /\ CurrentReadIsLatest /\ HealthySeedCounts

(* The fields the argument is about. *)
SameSeed(g, h) ==
  /\ h.day = g.day /\ h.seed = g.seed /\ h.active = g.active
  /\ h.generation = g.generation /\ h.counted = g.counted

(* A new load has taken the slot. *)
NewLoad(g, h) ==
  /\ h.generation = g.generation + 1 /\ h.active = h.generation /\ h.seed = "seeding"

(* The breaker and the limits leave the seed alone (trip, evaluateLimits, setExposure). *)
LEMMA LimitsKeepSeed ==
  ASSUME NEW g \in GateRecord, NEW n \in Int
  PROVE  /\ trip(g) \in GateRecord /\ SameSeed(g, trip(g))
         /\ evaluateLimits(g) \in GateRecord /\ SameSeed(g, evaluateLimits(g))
         /\ exposed(g, n) \in GateRecord /\ SameSeed(g, exposed(g, n))
<1>1. ASSUME NEW f \in GateRecord PROVE trip(f) \in GateRecord /\ SameSeed(f, trip(f))
  BY Zenon DEF GateRecord, trip, SameSeed
<1>2. ASSUME NEW f \in GateRecord
      PROVE  evaluateLimits(f) \in GateRecord /\ SameSeed(f, evaluateLimits(f))
  BY <1>1, Zenon DEF evaluateLimits, SameSeed
<1>3. [g EXCEPT !.boxes = n] \in GateRecord /\ SameSeed(g, [g EXCEPT !.boxes = n])
  BY Zenon DEF GateRecord, SameSeed
<1>4. exposed(g, n) \in GateRecord /\ SameSeed(g, exposed(g, n))
  BY <1>2, <1>3, Zenon DEF exposed, SameSeed
<1>5. QED BY <1>1, <1>2, <1>4

(* A load is started only into a free slot (loadBoxLiveRiskSeed's single flight). *)
LEMMA StartLoads ==
  ASSUME NEW g \in GateRecord
  PROVE  /\ startLoad(g) \in GateRecord /\ startLoad(g).day = g.day
         /\ IF g.active = 0 THEN NewLoad(g, startLoad(g)) ELSE startLoad(g) = g
<1>1. g.generation + 1 \in Nat
  BY SMT DEF GateRecord
<1>2. QED
  BY <1>1, Zenon DEF GateRecord, startLoad, NewLoad

(* A roll to a new day always starts that day's load (rollDay). *)
LEMMA RollLoads ==
  ASSUME NEW g \in GateRecord, calendar \in RiskDays
  PROVE  /\ rollDay(g) \in GateRecord
         /\ rollDay(g) = g \/ NewLoad(g, rollDay(g))
         /\ NewLoad(g, rollDay(g)) => rollDay(g).active # 0
<1> DEFINE h == [g EXCEPT !.day = calendar, !.active = 0, !.counted = 0, !.seed = "seeding",
                          !.reconciled = FALSE]
<1>1. 0 \in Nat BY SMT
<1>2. h \in GateRecord /\ h.active = 0 /\ h.generation = g.generation
  BY <1>1, Zenon DEF GateRecord
<1>3. rollDay(g) = IF g.day = calendar THEN g ELSE startLoad(h)
  BY Zenon DEF rollDay
<1> HIDE DEF h
<1>4. startLoad(h) \in GateRecord /\ NewLoad(g, startLoad(h))
  BY <1>2, StartLoads, Zenon DEF NewLoad
<1>5. NewLoad(g, rollDay(g)) => rollDay(g).active # 0
  BY SMT DEF NewLoad, GateRecord
<1>6. QED BY <1>3, <1>4, <1>5

(* So does a reconciliation that finds no healthy seed and no load under way. *)
LEMMA ReconcileLoads ==
  ASSUME NEW g \in GateRecord, calendar \in RiskDays
  PROVE  /\ reconcileBegins(g) \in GateRecord
         /\ reconcileBegins(g) = g \/ NewLoad(g, reconcileBegins(g))
BY RollLoads, StartLoads, Zenon DEF reconcileBegins, NewLoad

(* A load that has not settled. *)
LEMMA LoadTypes ==
  ASSUME RiskInv, NEW l \in loads
  PROVE  /\ l.generation \in Nat /\ l.day \in RiskDays /\ l.read \in Int
         /\ 1 <= l.generation /\ l.generation <= gate.generation
         /\ l.generation = gate.active => l.day = gate.day
<1>1. l \in [generation : Nat, day : RiskDays, read : Int]
  BY DEF RiskInv, GateTyped
<1>2. l.generation \in Nat /\ l.day \in RiskDays /\ l.read \in Int
  BY <1>1, SMT
<1>3. QED
  BY <1>2 DEF RiskInv, SlotIsNewest

(* What the manager may become, as far as the seed is concerned: the same, or a new load. *)
LEMMA BecomesKeepsInv ==
  ASSUME RiskInv, NEW g \in GateRecord, SameSeed(gate, g) \/ NewLoad(gate, g), Becomes(g),
         UNCHANGED <<calendar, losses, seeded>>, positions' \in Int
  PROVE  RiskInv'
<1>1. gate' = g /\ gate.generation \in Nat /\ g.generation \in Nat
  BY SMT DEF RiskInv, GateTyped, GateRecord, Becomes
<1>2. CASE SameSeed(gate, g)
  <2>1. loads' = loads
    BY <1>2 DEF Becomes, SameSeed
  <2>2. GateTyped'
    BY <1>1, <2>1 DEF RiskInv, GateTyped
  <2>3. SlotIsNewest' /\ ReadsAreDurable' /\ CurrentReadIsLatest' /\ HealthySeedCounts'
    BY <1>1, <1>2, <2>1 DEF RiskInv, SameSeed, SlotIsNewest, ReadsAreDurable, CurrentReadIsLatest,
       HealthySeedCounts
  <2>4. QED BY <2>2, <2>3 DEF RiskInv
<1>3. CASE NewLoad(gate, g)
  <2> DEFINE new == [generation |-> g.generation, day |-> g.day, read |-> Unread]
  <2>1. loads' = loads \cup {new}
    BY <1>1, <1>3, SMT DEF Becomes, NewLoad
  <2>2. new \in [generation : Nat, day : RiskDays, read : Int] /\ new.read = Unread
        /\ new.generation = g.generation /\ new.day = g.day
    BY <1>1, SMT DEF Unread, GateRecord
  <2> HIDE DEF new
  <2>3. GateTyped'
    BY <1>1, <2>1, <2>2 DEF RiskInv, GateTyped
  <2>4. g.generation = gate.generation + 1 /\ g.active = g.generation /\ g.seed = "seeding"
    BY <1>3 DEF NewLoad
  <2>5. \A l \in loads : l.generation \in Nat /\ 1 <= l.generation /\ l.generation <= gate.generation
    BY LoadTypes
  <2>6. SlotIsNewest'
    BY <1>1, <2>1, <2>2, <2>4, <2>5, SMT DEF SlotIsNewest
  <2>7. ReadsAreDurable'
    BY <2>1, <2>2 DEF RiskInv, ReadsAreDurable
  <2>8. CurrentReadIsLatest'
    BY <1>1, <2>1, <2>2, <2>4, <2>5, SMT DEF CurrentReadIsLatest
  <2>9. HealthySeedCounts'
    BY <1>1, <2>4 DEF HealthySeedCounts
  <2>10. QED BY <2>3, <2>6, <2>7, <2>8, <2>9 DEF RiskInv
<1>4. QED BY <1>2, <1>3

(* A step that keeps the slot and the seed, and counts no less, keeps the invariant. *)
LEMMA SeedKeptKeepsInv ==
  ASSUME RiskInv, gate' \in GateRecord,
         gate'.day = gate.day /\ gate'.seed = gate.seed /\ gate'.active = gate.active,
         gate'.generation = gate.generation, gate.counted <= gate'.counted,
         UNCHANGED <<loads, losses, seeded>>, calendar' \in RiskDays, positions' \in Int
  PROVE  RiskInv'
<1>1. GateTyped'
  BY DEF RiskInv, GateTyped
<1>2. SlotIsNewest' /\ ReadsAreDurable' /\ CurrentReadIsLatest'
  BY DEF RiskInv, SlotIsNewest, ReadsAreDurable, CurrentReadIsLatest
<1>3. gate.day \in RiskDays /\ seeded[gate.day] \in Nat /\ gate.counted \in Nat /\ gate'.counted \in Nat
  BY SMT DEF RiskInv, GateTyped, GateRecord
<1>4. HealthySeedCounts'
  BY <1>3, SMT DEF RiskInv, HealthySeedCounts
<1>5. QED BY <1>1, <1>2, <1>4 DEF RiskInv

(* The engine starts with nothing read and nothing installed. *)
LEMMA RiskStarts == RiskInit => RiskInv
<1> SUFFICES ASSUME RiskInit PROVE RiskInv
  OBVIOUS
<1>1. PICK s \in {"unknown", "healthy"} :
         gate = [day |-> 1, entry |-> FALSE, orders |-> FALSE,
                 breaker |-> FALSE, recovery |-> FALSE, healthy |-> FALSE,
                 seed |-> s, reconciled |-> FALSE, active |-> 0, generation |-> 0,
                 counted |-> 0, boxes |-> positions, feed |-> "down",
                 quarantined |-> FALSE]
  BY DEF RiskInit
<1>2. /\ calendar = 1 /\ positions \in 0..MaxOpenBoxes /\ loads = {}
      /\ losses = [d \in RiskDays |-> 0] /\ seeded = losses
  BY DEF RiskInit
<1>3. 1 \in RiskDays /\ positions \in Int
  BY RiskGateAssumption, <1>2, SMT DEF RiskDays
<1>4. gate \in GateRecord /\ gate.active = 0 /\ gate.generation = 0 /\ gate.counted = 0 /\ gate.day = 1
  BY <1>1, <1>3, SMT DEF GateRecord
<1>5. GateTyped
  BY <1>2, <1>3, <1>4, SMT DEF GateTyped
<1>6. SlotIsNewest /\ ReadsAreDurable /\ CurrentReadIsLatest /\ HealthySeedCounts
  BY <1>2, <1>3, <1>4, SMT DEF SlotIsNewest, ReadsAreDurable, CurrentReadIsLatest, HealthySeedCounts
<1>7. QED BY <1>5, <1>6 DEF RiskInv

(* The loader's queries, its answer and its rejection, current or late. *)
LEMMA LoaderKeepsInv ==
  ASSUME RiskInv, NEW l \in loads, NEW complete \in BOOLEAN,
         LoaderReads(l) \/ LoaderResolves(l, complete) \/ LoaderRejects(l)
  PROVE  RiskInv'
<1>0. /\ l \in [generation : Nat, day : RiskDays, read : Int] /\ gate \in GateRecord
      /\ losses \in [RiskDays -> Nat] /\ seeded \in [RiskDays -> Nat] /\ 1 <= l.generation
      /\ l.generation \in Nat /\ l.day \in RiskDays /\ l.read \in Int
  BY LoadTypes DEF RiskInv, GateTyped
<1>1. CASE LoaderReads(l)
  <2> DEFINE new == [l EXCEPT !.read = losses[l.day]]
  <2>1. /\ loads' = (loads \ {l}) \cup {new}
        /\ UNCHANGED <<calendar, gate, positions, losses, seeded>>
    BY <1>1 DEF LoaderReads
  <2>2. losses[l.day] \in Nat /\ losses[l.day] \in Int /\ seeded[l.day] <= losses[l.day]
    BY <1>0, SMT DEF RiskInv, ReadsAreDurable
  <2>3. /\ new \in [generation : Nat, day : RiskDays, read : Int]
        /\ new.generation = l.generation /\ new.day = l.day /\ new.read = losses[l.day]
    BY <1>0, <2>2, Zenon
  <2> HIDE DEF new
  <2>4. GateTyped'
    BY <2>1, <2>3 DEF RiskInv, GateTyped
  <2>5. SlotIsNewest'
    BY <2>1, <2>3 DEF RiskInv, SlotIsNewest
  <2>6. ReadsAreDurable'
    BY <2>1, <2>2, <2>3, SMT DEF RiskInv, ReadsAreDurable
  <2>7. CurrentReadIsLatest'
    BY <2>1, <2>2, <2>3, SMT DEF RiskInv, CurrentReadIsLatest
  <2>8. HealthySeedCounts'
    BY <2>1 DEF RiskInv, HealthySeedCounts
  <2>9. QED BY <2>4, <2>5, <2>6, <2>7, <2>8 DEF RiskInv
<1>2. CASE LoaderResolves(l, complete) /\ loadIsCurrent(l)
  <2>1. /\ loads' = loads \ {l} /\ gate' = installSeed(gate, l.read, complete)
        /\ seeded' = IF l.read > seeded[l.day] THEN [seeded EXCEPT ![l.day] = l.read] ELSE seeded
        /\ UNCHANGED <<calendar, positions, losses>> /\ l.read # Unread
    BY <1>2 DEF LoaderResolves
  <2>2. gate.active = l.generation /\ l.day = gate.day
    BY <1>2 DEF loadIsCurrent
  <2>3. l.read \in Nat /\ seeded[l.day] <= l.read /\ l.read <= losses[l.day]
    BY <1>0, <2>1, <2>2, SMT DEF RiskInv, CurrentReadIsLatest, ReadsAreDurable
  <2> DEFINE h == [gate EXCEPT !.counted = l.read, !.boxes = 0, !.active = 0,
                               !.seed = IF complete THEN "healthy" ELSE "failed"]
  <2>4. 0 \in Int /\ 0 \in Nat BY SMT
  <2>5. /\ h \in GateRecord /\ h.day = gate.day /\ h.active = 0 /\ h.counted = l.read
        /\ h.generation = gate.generation
    BY <1>0, <2>3, <2>4, Zenon DEF GateRecord
  <2>6. gate' = evaluateLimits(h)
    BY <2>1, Zenon DEF installSeed
  <2> HIDE DEF h
  <2>7. /\ gate' \in GateRecord /\ gate'.day = gate.day /\ gate'.active = 0 /\ gate'.counted = l.read
        /\ gate'.generation = gate.generation
    BY <2>5, <2>6, LimitsKeepSeed, <2>4, Zenon DEF SameSeed
  <2>8. /\ seeded' \in [RiskDays -> Nat] /\ seeded'[gate.day] <= l.read
        /\ \A d \in RiskDays : seeded'[d] <= losses[d]
    BY <1>0, <2>1, <2>2, <2>3, SMT DEF RiskInv, ReadsAreDurable
  <2>9. GateTyped'
    BY <2>1, <2>7, <2>8 DEF RiskInv, GateTyped
  <2>10. SlotIsNewest' /\ CurrentReadIsLatest'
    <3>1. \A m \in loads' : m.generation # 0 /\ 1 <= m.generation /\ m.generation <= gate.generation
      <4> SUFFICES ASSUME NEW m \in loads
                   PROVE  m.generation # 0 /\ 1 <= m.generation /\ m.generation <= gate.generation
        BY <2>1
      <4>1. QED BY LoadTypes, SMT
    <3>2. QED BY <2>7, <3>1, Zenon DEF SlotIsNewest, CurrentReadIsLatest
  <2>11. ReadsAreDurable' /\ HealthySeedCounts'
    BY <2>1, <2>7, <2>8 DEF RiskInv, ReadsAreDurable, HealthySeedCounts
  <2>12. QED BY <2>9, <2>10, <2>11 DEF RiskInv
<1>3. CASE LoaderResolves(l, complete) /\ ~loadIsCurrent(l)
  <2>1. loads' \subseteq loads /\ UNCHANGED <<calendar, positions, losses, gate, seeded>>
    BY <1>3 DEF LoaderResolves
  <2>2. QED
    BY <2>1 DEF RiskInv, GateTyped, SlotIsNewest, ReadsAreDurable, CurrentReadIsLatest, HealthySeedCounts
<1>4. CASE LoaderRejects(l)
  <2>1. loads' \subseteq loads /\ UNCHANGED <<calendar, positions, losses, seeded>>
    BY <1>4 DEF LoaderRejects
  <2>2. CASE gate.active # l.generation
    <3>1. gate' = gate BY <1>4, <2>2 DEF LoaderRejects
    <3>2. QED
      BY <2>1, <3>1 DEF RiskInv, GateTyped, SlotIsNewest, ReadsAreDurable, CurrentReadIsLatest,
         HealthySeedCounts
  <2>3. CASE gate.active = l.generation
    <3>1. gate' = [gate EXCEPT !.active = 0, !.seed = IF l.day = gate.day THEN "failed" ELSE @]
      BY <1>4, <2>3 DEF LoaderRejects
    <3>2. 0 \in Nat /\ l.day = gate.day
      BY <2>3, LoadTypes
    <3>3. /\ gate' \in GateRecord /\ gate'.active = 0 /\ gate'.seed = "failed"
          /\ gate'.generation = gate.generation
      BY <1>0, <3>1, <3>2, Zenon DEF GateRecord
    <3>4. GateTyped' /\ ReadsAreDurable' /\ HealthySeedCounts'
      BY <2>1, <3>3 DEF RiskInv, GateTyped, ReadsAreDurable, HealthySeedCounts
    <3>5. SlotIsNewest' /\ CurrentReadIsLatest'
      <4>1. \A m \in loads' : m.generation # 0 /\ 1 <= m.generation /\ m.generation <= gate.generation
        <5> SUFFICES ASSUME NEW m \in loads
                     PROVE  m.generation # 0 /\ 1 <= m.generation /\ m.generation <= gate.generation
          BY <2>1
        <5>1. QED BY LoadTypes, SMT
      <4>2. QED BY <3>3, <4>1, Zenon DEF SlotIsNewest, CurrentReadIsLatest
    <3>6. QED BY <3>4, <3>5 DEF RiskInv
  <2>4. QED BY <2>2, <2>3
<1>5. QED BY <1>1, <1>2, <1>3, <1>4

(* Every step of the manager, the loader, the clock, the operator and the engine. *)
LEMMA RiskStep == RiskInv /\ [RiskNext]_riskVars => RiskInv'
<1> SUFFICES ASSUME RiskInv, [RiskNext]_riskVars PROVE RiskInv'
  OBVIOUS
<1>0. /\ gate \in GateRecord /\ calendar \in RiskDays /\ positions \in Int /\ gate.counted \in Nat
      /\ gate.counted <= gate.counted
  BY SMT DEF RiskInv, GateTyped, GateRecord
<1>1. CASE UNCHANGED riskVars
  BY <1>1 DEF riskVars, RiskInv, GateTyped, SlotIsNewest, ReadsAreDurable, CurrentReadIsLatest,
     HealthySeedCounts
<1>2. CASE SeedNext
  <2>1. ASSUME NEW l \in loads,
               LoaderReads(l) \/ LoaderResolves(l, TRUE) \/ LoaderResolves(l, FALSE) \/ LoaderRejects(l)
        PROVE  RiskInv'
    BY <2>1, LoaderKeepsInv
  <2>2. CASE SeedTimesOut
    <3> DEFINE g == [gate EXCEPT !.active = 0, !.seed = "failed"]
               h == startLoad(rollDay(g))
    <3>1. 0 \in Nat BY SMT
    <3>2. g \in GateRecord /\ g.generation = gate.generation /\ g.active = 0
      BY <1>0, <3>1, Zenon DEF GateRecord
    <3>3. Becomes(h) /\ UNCHANGED <<calendar, losses, seeded, positions>>
      BY <2>2 DEF SeedTimesOut
    <3> HIDE DEF g
    <3>4. h \in GateRecord /\ NewLoad(gate, h)
      <4>1. rollDay(g) \in GateRecord /\ (rollDay(g) = g \/ NewLoad(g, rollDay(g)))
            /\ (NewLoad(g, rollDay(g)) => rollDay(g).active # 0)
        BY <1>0, <3>2, RollLoads
      <4>2. CASE rollDay(g) = g
        BY <3>2, <4>2, StartLoads, Zenon DEF NewLoad
      <4>3. CASE NewLoad(g, rollDay(g))
        BY <3>2, <4>1, <4>3, StartLoads, Zenon DEF NewLoad
      <4>4. QED BY <4>1, <4>2, <4>3
    <3> HIDE DEF h
    <3>5. QED BY <1>0, <3>3, <3>4, BecomesKeepsInv
  <2>3. QED BY <1>2, <2>1, <2>2, Zenon DEF SeedNext
<1>3. CASE ReconcileNext
  <2>1. CASE ReconcileTimer
    BY <1>0, <2>1, ReconcileLoads, BecomesKeepsInv, Zenon DEF ReconcileTimer, SameSeed
  <2>2. CASE reconcileLive
    <3> DEFINE g == exposed(gate, positions)
               h == reconcileBegins(g)
    <3>1. g \in GateRecord /\ SameSeed(gate, g)
      BY <1>0, LimitsKeepSeed
    <3>2. Becomes(h) /\ UNCHANGED <<calendar, losses, seeded, positions>>
      BY <2>2 DEF reconcileLive
    <3> HIDE DEF g
    <3>3. h \in GateRecord /\ (SameSeed(gate, h) \/ NewLoad(gate, h))
      BY <1>0, <3>1, ReconcileLoads, Zenon DEF SameSeed, NewLoad
    <3> HIDE DEF h
    <3>4. QED BY <1>0, <3>2, <3>3, BecomesKeepsInv
  <2>3. CASE ReconcileEnds
    <3>1. PICK q \in BOOLEAN : gate' = [gate EXCEPT !.healthy = TRUE, !.quarantined = q,
                                                   !.reconciled = (gate.seed = "healthy")]
      BY <2>3 DEF ReconcileEnds
    <3>2. gate' \in GateRecord /\ SameSeed(gate, gate')
      BY <1>0, <3>1, Zenon DEF GateRecord, SameSeed
    <3>3. UNCHANGED <<loads, losses, seeded, calendar, positions>>
      BY <2>3 DEF ReconcileEnds
    <3>4. QED BY <1>0, <3>2, <3>3, SeedKeptKeepsInv, Zenon DEF SameSeed
  <2>4. CASE ReconcileFails
    <3>1. PICK mismatch \in BOOLEAN : gate' = [trip(gate) EXCEPT !.reconciled = FALSE,
                                                                !.recovery = @ \/ mismatch]
      BY <2>4 DEF ReconcileFails
    <3>2. trip(gate) \in GateRecord /\ SameSeed(gate, trip(gate))
      BY <1>0, LimitsKeepSeed
    <3>3. gate' \in GateRecord /\ SameSeed(gate, gate')
      <4>1. (trip(gate).recovery \/ mismatch) \in BOOLEAN OBVIOUS
      <4>2. QED BY <3>1, <3>2, <4>1, Zenon DEF GateRecord, SameSeed
    <3>4. UNCHANGED <<loads, losses, seeded, calendar, positions>>
      BY <2>4 DEF ReconcileFails
    <3>5. QED BY <1>0, <3>3, <3>4, SeedKeptKeepsInv, Zenon DEF SameSeed
  <2>5. QED BY <1>3, <2>1, <2>2, <2>3, <2>4 DEF ReconcileNext
<1>4. CASE OperatorNext
  <2>1. ASSUME NEW c \in {"entry", "orders"}, NEW on \in BOOLEAN, setLiveControl(c, on) PROVE RiskInv'
    <3>1. gate' \in GateRecord /\ SameSeed(gate, gate')
      BY <1>0, <2>1, Zenon DEF setLiveControl, GateRecord, SameSeed
    <3>2. QED BY <1>0, <2>1, <3>1, SeedKeptKeepsInv, Zenon DEF SameSeed, setLiveControl
  <2>2. ASSUME NEW up \in BOOLEAN, setFeedHealthy(up) PROVE RiskInv'
    <3>1. gate' \in GateRecord /\ SameSeed(gate, gate')
      BY <1>0, <2>2, Zenon DEF setFeedHealthy, GateRecord, SameSeed
    <3>2. QED BY <1>0, <2>2, <3>1, SeedKeptKeepsInv, Zenon DEF SameSeed, setFeedHealthy
  <2>3. CASE refreshFeedHealth
    <3>1. gate' \in GateRecord /\ SameSeed(gate, gate')
      BY <1>0, <2>3, Zenon DEF refreshFeedHealth, GateRecord, SameSeed
    <3>2. QED BY <1>0, <2>3, <3>1, SeedKeptKeepsInv, Zenon DEF SameSeed, refreshFeedHealth
  <2>4. CASE invariantViolation
    <3> DEFINE f == [gate EXCEPT !.recovery = TRUE]
               g == trip(f)
               h == reconcileBegins(g)
    <3>1. f \in GateRecord /\ SameSeed(gate, f)
      BY <1>0, Zenon DEF GateRecord, SameSeed
    <3>2. Becomes(h) /\ UNCHANGED <<calendar, losses, seeded, positions>>
      BY <2>4 DEF invariantViolation
    <3> HIDE DEF f
    <3>3. g \in GateRecord /\ SameSeed(gate, g)
      BY <1>0, <3>1, LimitsKeepSeed, Zenon DEF SameSeed
    <3> HIDE DEF g
    <3>4. h \in GateRecord /\ (SameSeed(gate, h) \/ NewLoad(gate, h))
      BY <1>0, <3>3, ReconcileLoads, Zenon DEF SameSeed, NewLoad
    <3> HIDE DEF h
    <3>5. QED BY <1>0, <3>2, <3>4, BecomesKeepsInv
  <2>5. CASE TripsAlone
    <3>1. gate' \in GateRecord /\ SameSeed(gate, gate')
      BY <1>0, <2>5, LimitsKeepSeed DEF TripsAlone
    <3>2. QED BY <1>0, <2>5, <3>1, SeedKeptKeepsInv, Zenon DEF SameSeed, TripsAlone
  <2>6. CASE NextDay
    <3>1. calendar' \in RiskDays
      BY <1>0, <2>6, RiskGateAssumption, SMT DEF NextDay, RiskDays
    <3>2. QED BY <1>0, <2>6, <3>1, SeedKeptKeepsInv, Zenon DEF NextDay
  <2>7. QED
    BY <1>4, <2>1, <2>2, <2>3, <2>4, <2>5, <2>6 DEF OperatorNext, noteFailure, checkOverfillTripwire
<1>5. CASE EngineNext
  <2>1. ASSUME NEW md \in MarketDataStates, NEW os \in StreamStates, EntryAsks(md, os) PROVE RiskInv'
    BY <1>0, <2>1, RollLoads, BecomesKeepsInv, Zenon DEF EntryAsks, SameSeed
  <2>2. CASE EntryOpens
    <3>1. positions + 1 \in Int BY <1>0, SMT
    <3>2. gate' \in GateRecord /\ SameSeed(gate, gate')
      BY <1>0, <2>2, <3>1, LimitsKeepSeed DEF EntryOpens
    <3>3. QED BY <1>0, <2>2, <3>1, <3>2, SeedKeptKeepsInv, Zenon DEF SameSeed, EntryOpens
  <2>3. ASSUME NEW how \in {"close", "abort"}, LossIsDurable(how) PROVE RiskInv'
    <3>1. losses' = [losses EXCEPT ![calendar] = @ + 1]
          /\ UNCHANGED <<calendar, gate, loads, positions, seeded>>
      BY <2>3 DEF LossIsDurable
    <3>2. losses' \in [RiskDays -> Nat] /\ \A d \in RiskDays : losses[d] <= losses'[d]
      BY <1>0, <3>1, SMT DEF RiskInv, GateTyped
    <3>3. GateTyped' /\ SlotIsNewest' /\ CurrentReadIsLatest' /\ HealthySeedCounts'
      BY <3>1, <3>2 DEF RiskInv, GateTyped, SlotIsNewest, CurrentReadIsLatest, HealthySeedCounts
    <3>4. ReadsAreDurable'
      <4>1. losses \in [RiskDays -> Nat] /\ seeded \in [RiskDays -> Nat]
        BY DEF RiskInv, GateTyped
      <4>2. ASSUME NEW l \in loads, l.read # Unread
            PROVE  0 <= l.read /\ l.read <= losses'[l.day]
        BY <3>2, <4>1, <4>2, LoadTypes, SMT DEF RiskInv, ReadsAreDurable
      <4>3. \A d \in RiskDays : seeded[d] <= losses'[d]
        BY <3>2, <4>1, SMT DEF RiskInv, ReadsAreDurable
      <4>4. QED BY <3>1, <4>2, <4>3 DEF ReadsAreDurable
    <3>5. QED BY <3>3, <3>4 DEF RiskInv
  <2>4. CASE recordRealisedPnl
    <3> DEFINE f == [gate EXCEPT !.counted = @ + 1]
               g == evaluateLimits(f)
    <3>1. gate.counted + 1 \in Nat /\ gate.counted <= gate.counted + 1
      BY <1>0, SMT
    <3>2. /\ f \in GateRecord /\ f.day = gate.day /\ f.seed = gate.seed /\ f.active = gate.active
          /\ f.generation = gate.generation /\ f.counted = gate.counted + 1
      BY <1>0, <3>1, Zenon DEF GateRecord
    <3>3. /\ \/ gate' = g /\ positions' = positions
             \/ gate' = exposed(g, positions - 1) /\ positions' = positions - 1
          /\ UNCHANGED <<calendar, loads, losses, seeded>>
      BY <2>4 DEF recordRealisedPnl
    <3> HIDE DEF f
    <3>4. g \in GateRecord /\ SameSeed(f, g)
      BY <1>0, <3>2, LimitsKeepSeed
    <3>5. positions - 1 \in Int BY <1>0, SMT
    <3> HIDE DEF g
    <3>6. gate' \in GateRecord /\ SameSeed(f, gate') /\ positions' \in Int
      <4>1. exposed(g, positions - 1) \in GateRecord /\ SameSeed(g, exposed(g, positions - 1))
        BY <3>4, <3>5, LimitsKeepSeed
      <4>2. QED BY <1>0, <3>3, <3>4, <3>5, <4>1, Zenon DEF SameSeed
    <3>7. QED BY <1>0, <3>1, <3>2, <3>3, <3>6, SeedKeptKeepsInv, Zenon DEF SameSeed
  <2>5. QED BY <1>5, <2>1, <2>2, <2>3, <2>4, Zenon DEF EngineNext
<1>6. QED BY <1>1, <1>2, <1>3, <1>4, <1>5 DEF RiskNext

(* Entry never opens on less than the day's seeds have proved: the load that may install    *)
(* is the newest, it reads after every seed installed before it, and a day that rolls takes *)
(* the permission with it until its own seed is in (rollDay, refreshDailyRisk, canEnter).   *)
THEOREM EntryCountsSeededLosses == RiskSpec => []EntryKnowsSeededLosses
<1>1. RiskInv => EntryKnowsSeededLosses
  <2> SUFFICES ASSUME RiskInv, canEnter(gate) PROVE gate.counted >= seeded[calendar]
    BY DEF EntryKnowsSeededLosses
  <2>1. gate.day = calendar /\ gate.seed = "healthy"
    BY DEF canEnter
  <2>2. seeded[calendar] <= gate.counted /\ seeded[calendar] \in Nat /\ gate.counted \in Nat
    BY <2>1, SMT DEF RiskInv, HealthySeedCounts, GateTyped, GateRecord
  <2>3. QED BY <2>2, SMT
<1>2. QED
  BY <1>1, RiskStarts, RiskStep, PTL DEF RiskSpec

-----------------------------------------------------------------------------
(* The flattening of a residual and its row (residualFlatten.ts, repository.ts). *)

LessThan == OpToRel(<, Nat)

(* A nonempty set of generations has a first one. *)
LEMMA Smallest ==
    ASSUME NEW T \in SUBSET Nat, T # {}
    PROVE  \E x \in T : \A y \in T : x <= y
<1>1. IsWellFoundedOn(LessThan, Nat)  BY NatLessThanWellFounded, Zenon DEF LessThan
<1>2. PICK x \in T : \A y \in T : <<y, x>> \notin LessThan  BY <1>1, WFMin, Zenon
<1>3. ASSUME NEW y \in T PROVE x <= y
  <2>1. x \in Nat /\ y \in Nat  OBVIOUS
  <2>2. ~ (y < x)  BY <1>2, <2>1 DEF LessThan, OpToRel
  <2>. QED  BY <2>1, <2>2
<1>. QED  BY <1>3

USE LedgerAssumption

FlattenStates == {"none", "local", "working", "COMPLETE", "CANCELLED", "REJECTED"}
FlattenOrder == [state : FlattenStates, quantity : Nat, filled : Nat]
Numbers == 1 .. (MaxGenerations + 1)
Marks == {Unset} \cup Nat
Residuals == [quantity : Nat, attempt : Numbers, accounted : Marks, version : Nat]
Commands == [version : Nat, expected : Nat \X Numbers, next : Residuals, charge : Nat, day : Nat]
AttemptRows == [quantity : Nat, attempt : Numbers, accounted : Marks, version : Nat, charges : Nat,
                day : Nat, forDay : Nat, applications : SUBSET Commands]
Sendings == [command : Commands, result : {NoAnswer} \cup AttemptRows]
Passes == [residual : Residuals, attempt : Generations]

LedgerShape ==
    /\ held \in Int /\ today \in Nat
    /\ flattenOrders \in [Generations -> FlattenOrder]
    /\ ledger \in AttemptRows /\ memory \in Residuals
    /\ pass \in {Idle, Persisting} \cup Passes
    /\ pending \in {NoCommand} \cup Commands
    /\ flights \in [Retriers \cup {"pass"} -> {NoFlight} \cup Sendings]

Older(q, n) == /\ ledger.quantity <= q /\ n <= ledger.attempt
               /\ ledger.quantity # q \/ n # ledger.attempt

(* A copy of the row that is the row, or one that the row has moved on from. *)
IsPast(v) ==
    \/ Older(v.quantity, v.attempt)
    \/ v.quantity = ledger.quantity /\ v.attempt = ledger.attempt /\ v.accounted = ledger.accounted

Placed(g) == flattenOrders[g].state \notin {"none", "local"}

(* What a residual counts of an order of generation g as accounted already. *)
Counted(v, g) ==
    LET mark == IF g = v.attempt THEN v.accounted ELSE Unset IN
    IF mark # Unset THEN mark
    ELSE IF flattenOrders[g].quantity < v.quantity THEN 0 ELSE flattenOrders[g].quantity - v.quantity

(* A residual covers what the account holds, whichever of its orders is accounted next. *)
Covers(v) ==
    /\ held <= v.quantity
    /\ v.quantity > 0 =>
         \A g \in Generations : v.attempt <= g /\ Placed(g) =>
            held + flattenOrders[g].filled - Counted(v, g) <= v.quantity

Passed(n) == \A g \in Generations : g < n => flattenOrders[g].state # "none"

LastIsPlaced ==
    \A g, h \in Generations : ledger.attempt <= g /\ g < h /\ flattenOrders[g].state # "local" =>
       flattenOrders[h].state = "none"

(* A command the row may still take leaves a residual that covers the account. *)
CommandAgrees(c) ==
    /\ c.expected[1] > 0
    /\ \/ Older(c.expected[1], c.expected[2])
       \/ /\ c.expected[1] = ledger.quantity /\ c.expected[2] = ledger.attempt
          /\ Covers(c.next) /\ Passed(c.next.attempt)
          /\ c.next.quantity <= c.expected[1] /\ c.expected[2] <= c.next.attempt
          /\ c.next.quantity # c.expected[1] \/ c.next.attempt # c.expected[2]

FlightAgrees(f) ==
    flights[f] \in Sendings =>
      /\ CommandAgrees(flights[f].command)
      /\ flights[f].result \in AttemptRows /\ flights[f].result.quantity > 0 => IsPast(flights[f].result)

(* The order a pass is working on: the first of its residual that was not refused unsent. *)
IsNextOrder(v, g) ==
    /\ g \in Generations /\ v.attempt <= g /\ flattenOrders[g].state # "local"
    /\ \A h \in Generations : v.attempt <= h /\ h < g => flattenOrders[h].state = "local"

PassAgrees ==
    pass \in Passes => /\ pass.residual.quantity > 0 /\ IsPast(pass.residual)
                       /\ IsNextOrder(pass.residual, pass.attempt) /\ Placed(pass.attempt)

(* The inductive invariant of the ledger. *)
LedgerInv ==
    /\ LedgerShape
    /\ Covers(ledger) /\ Passed(ledger.attempt) /\ LastIsPlaced
    /\ memory.quantity > 0 => IsPast(memory)
    /\ pending \in Commands => CommandAgrees(pending)
    /\ \A f \in Retriers \cup {"pass"} : FlightAgrees(f)
    /\ PassAgrees

(* The first generation that may still be adopted. *)
LEMMA FirstIsNext ==
    ASSUME LedgerShape, NEW v \in Residuals, firstAdoptableResidualAttempt(v) \in Generations
    PROVE  IsNextOrder(v, firstAdoptableResidualAttempt(v))
<1>1. PICK first : first = firstAdoptableResidualAttempt(v)  OBVIOUS
<1>2. v.attempt \in Numbers  BY DEF Residuals
<1>3. PICK T : T = {g \in v.attempt .. (MaxGenerations + 1) :
                      g > MaxGenerations \/ flattenOrders[g].state # "local"}
  OBVIOUS
<1>4. T \in SUBSET Nat /\ MaxGenerations + 1 \in T  BY <1>2, <1>3 DEF Numbers
<1>5. first = Min(T)  BY <1>1, <1>3, Zenon DEF firstAdoptableResidualAttempt, residualFlattenAttempt
<1>6. PICK x \in T : \A y \in T : x <= y  BY <1>4, Smallest
<1>7. first \in T /\ \A y \in T : first <= y  BY <1>5, <1>6, Zenon DEF Min
<1>8. first \in Generations  BY <1>1
<1>9. v.attempt <= first /\ flattenOrders[first].state # "local"  BY <1>3, <1>7, <1>8 DEF Generations
<1>10. ASSUME NEW h \in Generations, v.attempt <= h, h < first PROVE flattenOrders[h].state = "local"
  <2>1. h \notin T
    <3>1. h \in Nat /\ first \in Nat  BY <1>8 DEF Generations
    <3>2. ~ (first <= h)  BY <1>10, <3>1
    <3>. QED  BY <1>7, <3>2
  <2>2. h \in v.attempt .. (MaxGenerations + 1)  BY <1>2, <1>10 DEF Generations, Numbers
  <2>. QED  BY <1>3, <2>1, <2>2
<1>11. IsNextOrder(v, first)  BY <1>8, <1>9, <1>10 DEF IsNextOrder
<1>. QED  BY <1>1, <1>11, Zenon

(* A pass that saw no order, or one refused unsent, leaves the quantity alone. *)
LEMMA UnseenPass ==
    ASSUME NEW v \in Residuals, v.quantity > 0, NEW g \in Generations, NEW d
    PROVE  LET r == flattenResidual(v, g, NoOrder, d) IN
           /\ r.charges = 0
           /\ r.remaining = Residual(v.quantity, IF d = "retire_attempt" THEN g + 1 ELSE g,
                              IF d = "retire_attempt" THEN 0
                              ELSE IF g = v.attempt THEN v.accounted ELSE Unset, v.version)
<1>1. NoOrder.state = "none" /\ NoOrder.filled = 0 /\ NoOrder.quantity = 0  BY DEF NoOrder
<1>2. v.quantity \in Nat /\ v.quantity - 0 = v.quantity /\ v.quantity # 0  BY DEF Residuals
<1>. QED  BY <1>1, <1>2, Zenon DEF flattenResidual, carryResidualForward, residualFlattenAttempt

(* A pass that saw a placed order takes off what the order filled beyond what was counted. *)
LEMMA SeenPass ==
    ASSUME LedgerShape, NEW v \in Residuals, v.quantity > 0, NEW g \in Generations, Placed(g), NEW d
    PROVE  LET r == flattenResidual(v, g, flattenOrders[g], d)
               beyond == flattenOrders[g].filled - Counted(v, g)
               odd == beyond < 0 \/ beyond > v.quantity
           IN  /\ r.charges = IF odd THEN 0 ELSE beyond
               /\ r.remaining =
                    IF odd THEN Residual(v.quantity, g, Counted(v, g), v.version)
                    ELSE IF beyond = v.quantity THEN Residual(0, g, Unset, v.version)
                    ELSE IF d = "retire_attempt" THEN Residual(v.quantity - beyond, g + 1, 0, v.version)
                    ELSE Residual(v.quantity - beyond, g, flattenOrders[g].filled, v.version)
<1>1. PICK o : o = flattenOrders[g]  OBVIOUS
<1>2. o \in FlattenOrder /\ o.state \notin {"none", "local"}  BY <1>1 DEF LedgerShape, Placed
<1>3. o.quantity \in Nat /\ o.filled \in Nat /\ v.quantity \in Nat /\ v.accounted \in Marks
  BY <1>2 DEF FlattenOrder, Residuals
<1>4. PICK base : base = Counted(v, g)  OBVIOUS
<1>5. base \in Nat  BY <1>1, <1>3, <1>4 DEF Counted, Marks, Unset
<1>6. PICK mark : mark = IF g = v.attempt THEN v.accounted ELSE Unset  OBVIOUS
<1>7. base = IF mark # Unset THEN mark
             ELSE IF o.state = "none" \/ o.quantity < v.quantity THEN 0 ELSE o.quantity - v.quantity
  BY <1>1, <1>2, <1>4, <1>6, Zenon DEF Counted
<1>8. PICK beyond : beyond = o.filled - base  OBVIOUS
<1>9. PICK regressed \in BOOLEAN : regressed <=> (o.filled < base \/ o.filled - base > v.quantity)
  OBVIOUS
<1>10. regressed <=> (beyond < 0 \/ beyond > v.quantity)  BY <1>3, <1>5, <1>8, <1>9
<1>11. PICK delta : delta = IF regressed THEN 0 ELSE beyond  OBVIOUS
<1>12. flattenResidual(v, g, o, d) =
         [remaining |-> IF v.quantity - delta = 0 THEN Residual(0, g, Unset, v.version)
                        ELSE carryResidualForward(v, v.quantity - delta, g,
                               IF regressed THEN "adopt_attempt" ELSE d, IF regressed THEN base ELSE o.filled),
          charges |-> delta]
  BY <1>2, <1>6, <1>7, <1>8, <1>9, <1>11, Zenon DEF flattenResidual, residualFlattenAttempt
<1>13. delta = 0 \/ delta = beyond  BY <1>11
<1>14. v.quantity - delta = 0 <=> ~regressed /\ beyond = v.quantity  BY <1>3, <1>5, <1>8, <1>11
<1>15. v.quantity - 0 = v.quantity  BY <1>3
<1>16. PICK r : r = flattenResidual(v, g, o, d)  OBVIOUS
<1>17. r.charges = delta
       /\ r.remaining = IF v.quantity - delta = 0 THEN Residual(0, g, Unset, v.version)
                        ELSE carryResidualForward(v, v.quantity - delta, g,
                               IF regressed THEN "adopt_attempt" ELSE d, IF regressed THEN base ELSE o.filled)
  <2>1. PICK rest : rest = IF v.quantity - delta = 0 THEN Residual(0, g, Unset, v.version)
                        ELSE carryResidualForward(v, v.quantity - delta, g,
                               IF regressed THEN "adopt_attempt" ELSE d, IF regressed THEN base ELSE o.filled)
    OBVIOUS
  <2>2. r = [remaining |-> rest, charges |-> delta]  BY <1>12, <1>16, <2>1, Zenon
  <2>3. r.charges = delta /\ r.remaining = rest  BY <2>2
  <2>. QED  BY <2>1, <2>3, Zenon
<1>18. CASE regressed
  <2>1. r.charges = 0 /\ r.remaining = Residual(v.quantity, g, base, v.version)
    BY <1>11, <1>14, <1>15, <1>17, <1>18, Zenon DEF carryResidualForward
  <2>. QED  BY <1>1, <1>4, <1>8, <1>10, <1>16, <1>18, <2>1, Zenon
<1>19. CASE ~regressed
  <2>1. r.charges = beyond
        /\ r.remaining = IF beyond = v.quantity THEN Residual(0, g, Unset, v.version)
                         ELSE carryResidualForward(v, v.quantity - beyond, g, d, o.filled)
    BY <1>11, <1>14, <1>17, <1>19, Zenon
  <2>. QED  BY <1>1, <1>4, <1>8, <1>10, <1>16, <1>19, <2>1, Zenon DEF carryResidualForward
<1>. QED  BY <1>18, <1>19

Dispositions == {"flattened", "adopt_attempt", "reuse_attempt", "retire_attempt"}

(* The end of a pass proposes a residual that covers the account, if its own was current. *)
LEMMA PassProposes ==
    ASSUME LedgerInv, NEW v \in Residuals, v.quantity > 0, IsPast(v), NEW g, IsNextOrder(v, g),
           NEW o, o = NoOrder \/ (o = flattenOrders[g] /\ Placed(g)), NEW d \in Dispositions,
           d = "retire_attempt" => Placed(g)
    PROVE  LET r == flattenResidual(v, g, o, d)
               c == createResidualProjectionCommand(memory.version, v, r.remaining, r.charges, today)
           IN  residualProjectionChanges(c) => c \in Commands /\ CommandAgrees(c)
<1>0. LedgerShape  BY DEF LedgerInv
<1>1. /\ v.quantity \in Nat /\ v.attempt \in Numbers /\ v.accounted \in Marks /\ v.version \in Nat
      /\ g \in Generations /\ g \in Numbers /\ g + 1 \in Numbers /\ v.attempt <= g
      /\ flattenOrders[g] \in FlattenOrder /\ memory.version \in Nat /\ today \in Nat
      /\ held \in Int /\ ledger.quantity \in Nat /\ ledger.attempt \in Numbers
  BY <1>0 DEF Residuals, IsNextOrder, Generations, Numbers, LedgerShape, AttemptRows
<1>2. flattenOrders[g].filled \in Nat /\ flattenOrders[g].quantity \in Nat  BY <1>1 DEF FlattenOrder
<1>3. Counted(v, g) \in Nat  BY <1>1, <1>2 DEF Counted, Marks, Unset
<1>4. PICK r : r = flattenResidual(v, g, o, d)  OBVIOUS
<1>5. PICK q, n, m :
        /\ r.remaining = Residual(q, n, m, v.version) /\ r.charges = v.quantity - q
        /\ q \in Nat /\ q <= v.quantity /\ n \in Numbers /\ g <= n /\ m \in Marks
        /\ n = g \/ (n = g + 1 /\ Placed(g))
        /\ \/ n = g /\ q = v.quantity /\ m = (IF g = v.attempt THEN v.accounted ELSE Unset)
           \/ n = g /\ q = v.quantity /\ m = Counted(v, g)
           \/ n = g /\ q = 0 /\ Placed(g) /\ v.quantity = flattenOrders[g].filled - Counted(v, g)
           \/ Placed(g) /\ q = v.quantity - (flattenOrders[g].filled - Counted(v, g))
              /\ (n = g => m = flattenOrders[g].filled)
           \/ n = g + 1 /\ q = v.quantity
  <2>0. Unset \in Marks /\ 0 \in Marks  BY DEF Marks
  <2>1. CASE o = NoOrder
    <3>1. /\ r.charges = 0
          /\ r.remaining = Residual(v.quantity, IF d = "retire_attempt" THEN g + 1 ELSE g,
                              IF d = "retire_attempt" THEN 0
                              ELSE IF g = v.attempt THEN v.accounted ELSE Unset, v.version)
      <4>1. r = flattenResidual(v, g, NoOrder, d)  BY <1>4, <2>1
      <4>2. flattenResidual(v, g, NoOrder, d).charges = 0  BY <1>1, UnseenPass
      <4>3. flattenResidual(v, g, NoOrder, d).remaining =
              Residual(v.quantity, IF d = "retire_attempt" THEN g + 1 ELSE g,
                              IF d = "retire_attempt" THEN 0
                              ELSE IF g = v.attempt THEN v.accounted ELSE Unset, v.version)
        BY <1>1, UnseenPass
      <4>. QED  BY <4>1, <4>2, <4>3, Zenon
    <3>2. v.quantity - v.quantity = 0 /\ v.quantity <= v.quantity /\ g <= g /\ g <= g + 1
      BY <1>1 DEF Numbers
    <3>3. CASE d = "retire_attempt"
      <4>1. r.remaining = Residual(v.quantity, g + 1, 0, v.version)  BY <3>1, <3>3, Zenon
      <4>. QED  BY <1>1, <2>0, <3>1, <3>2, <3>3, <4>1, Zenon
    <3>4. CASE d # "retire_attempt"
      <4>1. PICK mark : mark = IF g = v.attempt THEN v.accounted ELSE Unset  OBVIOUS
      <4>2. mark \in Marks  BY <1>1, <2>0, <4>1, Zenon
      <4>3. r.remaining = Residual(v.quantity, g, mark, v.version)  BY <3>1, <3>4, <4>1, Zenon
      <4>. QED  BY <1>1, <3>1, <3>2, <4>1, <4>2, <4>3, Zenon
    <3>. QED  BY <3>3, <3>4
  <2>2. CASE o = flattenOrders[g] /\ Placed(g)
    <3>1. PICK beyond : beyond = flattenOrders[g].filled - Counted(v, g)  OBVIOUS
    <3>2. beyond \in Int  BY <1>2, <1>3, <3>1
    <3>3. /\ r.charges = IF beyond < 0 \/ beyond > v.quantity THEN 0 ELSE beyond
          /\ r.remaining =
               IF beyond < 0 \/ beyond > v.quantity THEN Residual(v.quantity, g, Counted(v, g), v.version)
               ELSE IF beyond = v.quantity THEN Residual(0, g, Unset, v.version)
               ELSE IF d = "retire_attempt" THEN Residual(v.quantity - beyond, g + 1, 0, v.version)
               ELSE Residual(v.quantity - beyond, g, flattenOrders[g].filled, v.version)
      BY <1>0, <1>1, <1>4, <2>2, <3>1, SeenPass, Zenon
    <3>4. CASE beyond < 0 \/ beyond > v.quantity
      <4>1. Counted(v, g) \in Marks  BY <1>3 DEF Marks
      <4>2. v.quantity - v.quantity = 0 /\ v.quantity <= v.quantity /\ g <= g  BY <1>1 DEF Numbers
      <4>3. r.charges = 0 /\ r.remaining = Residual(v.quantity, g, Counted(v, g), v.version)
        BY <3>3, <3>4, Zenon
      <4>. QED  BY <1>1, <4>1, <4>2, <4>3, Zenon
    <3>5. CASE ~(beyond < 0 \/ beyond > v.quantity)
      <4>1. beyond \in Nat /\ beyond <= v.quantity /\ v.quantity - beyond \in Nat /\ v.quantity - beyond <= v.quantity
            /\ v.quantity - (v.quantity - beyond) = beyond
            /\ 0 \in Nat /\ 0 <= v.quantity /\ v.quantity - 0 = v.quantity /\ g <= g /\ g <= g + 1
        BY <1>1, <3>2, <3>5 DEF Numbers
      <4>2. flattenOrders[g].filled \in Marks  BY <1>2 DEF Marks
      <4>3. r.charges = beyond  BY <3>3, <3>5, Zenon
      <4>4. CASE beyond = v.quantity
        <5>1. r.remaining = Residual(0, g, Unset, v.version)  BY <3>3, <3>5, <4>4, Zenon
        <5>. QED  BY <1>1, <2>0, <2>2, <3>1, <4>1, <4>3, <4>4, <5>1, Zenon
      <4>5. CASE beyond # v.quantity /\ d = "retire_attempt"
        <5>1. r.remaining = Residual(v.quantity - beyond, g + 1, 0, v.version)  BY <3>3, <3>5, <4>5, Zenon
        <5>2. g + 1 # g  BY <1>1 DEF Numbers
        <5>. QED  BY <1>1, <2>0, <2>2, <3>1, <4>1, <4>3, <5>1, <5>2, Zenon
      <4>6. CASE beyond # v.quantity /\ d # "retire_attempt"
        <5>1. r.remaining = Residual(v.quantity - beyond, g, flattenOrders[g].filled, v.version)
          BY <3>3, <3>5, <4>6, Zenon
        <5>. QED  BY <1>1, <2>2, <3>1, <4>1, <4>2, <4>3, <5>1, Zenon
      <4>. QED  BY <4>4, <4>5, <4>6
    <3>. QED  BY <3>4, <3>5
  <2>. QED  BY <2>1, <2>2
<1>6. PICK next : next = Residual(q, n, m, v.version)  OBVIOUS
<1>7. /\ next \in Residuals /\ next.quantity = q /\ next.attempt = n /\ next.accounted = m
  BY <1>1, <1>5, <1>6 DEF Residual, Residuals
<1>8. residualProjectionIdentity(v) = <<v.quantity, v.attempt>>  BY DEF residualProjectionIdentity
<1>9. PICK c : c = createResidualProjectionCommand(memory.version, v, r.remaining, r.charges, today)  OBVIOUS
<1>10. c = [version |-> memory.version, expected |-> <<v.quantity, v.attempt>>, next |-> next,
            charge |-> v.quantity - q, day |-> today]
  BY <1>5, <1>6, <1>8, <1>9, Zenon DEF createResidualProjectionCommand
<1>11. c \in Commands /\ c.expected = <<v.quantity, v.attempt>> /\ c.next = next /\ c.charge = v.quantity - q
  BY <1>1, <1>5, <1>7, <1>10 DEF Commands
<1>12. ASSUME residualProjectionChanges(c) PROVE CommandAgrees(c)
  <2>1. c.expected[1] = v.quantity /\ c.expected[2] = v.attempt  BY <1>11
  <2>2. CASE Older(v.quantity, v.attempt)  BY <2>1, <2>2 DEF CommandAgrees
  <2>3. CASE ~Older(v.quantity, v.attempt)
    <3>1. v.quantity = ledger.quantity /\ v.attempt = ledger.attempt /\ v.accounted = ledger.accounted
      BY <2>3 DEF IsPast
    <3>2. q # v.quantity \/ n # v.attempt
      <4>. SUFFICES ASSUME q = v.quantity, n = v.attempt PROVE FALSE  OBVIOUS
      <4>1. c.charge = 0  BY <1>1, <1>11
      <4>2. residualProjectionIdentity(next) = <<v.quantity, v.attempt>>
        BY <1>7 DEF residualProjectionIdentity
      <4>. QED  BY <1>11, <1>12, <4>1, <4>2 DEF residualProjectionChanges
    <3>3. \A h \in Generations : g < h => flattenOrders[h].state = "none"
      BY <1>1, <3>1 DEF LedgerInv, LastIsPlaced, IsNextOrder
    <3>4. Placed(g) => held + flattenOrders[g].filled - Counted(v, g) <= v.quantity
      BY <1>1, <3>1 DEF LedgerInv, Covers, Counted
    <3>5. held <= v.quantity  BY <3>1 DEF LedgerInv, Covers
    <3>6. held <= q
      BY <1>1, <1>2, <1>3, <1>5, <3>4, <3>5
    <3>7. Covers(next)
      <4>1. ASSUME q > 0, NEW h \in Generations, n <= h, Placed(h)
            PROVE  held + flattenOrders[h].filled - Counted(next, h) <= q
        <5>1. h = g /\ n = g
          <6>1. h \in Int /\ g \in Int /\ n \in Int  BY <1>1, <1>5 DEF Generations, Numbers
          <6>2. ~(g < h)  BY <3>3, <4>1 DEF Placed
          <6>. QED  BY <1>5, <4>1, <6>1, <6>2
        <5>2. CASE q = v.quantity /\ m = (IF g = v.attempt THEN v.accounted ELSE Unset)
          <6>1. Counted(next, g) = Counted(v, g)
            BY <1>7, <5>1, <5>2, Zenon DEF Counted
          <6>. QED  BY <3>4, <4>1, <5>1, <5>2, <6>1
        <5>3. CASE q = v.quantity /\ m = Counted(v, g)
          <6>1. Counted(next, g) = Counted(v, g)
            <7>1. m # Unset  BY <1>3, <5>3 DEF Unset
            <7>. QED  BY <1>7, <5>1, <5>3, <7>1, Zenon DEF Counted
          <6>. QED  BY <3>4, <4>1, <5>1, <5>3, <6>1
        <5>4. CASE m = flattenOrders[g].filled
          <6>1. Counted(next, g) = flattenOrders[g].filled
            <7>1. m # Unset  BY <1>2, <5>4 DEF Unset
            <7>. QED  BY <1>7, <5>1, <5>4, <7>1, Zenon DEF Counted
          <6>. QED  BY <1>1, <1>2, <1>5, <3>6, <5>1, <6>1
        <5>. QED  BY <1>1, <1>5, <4>1, <5>1, <5>2, <5>3, <5>4 DEF Numbers
      <4>. QED  BY <1>7, <3>6, <4>1 DEF Covers
    <3>8. Passed(n)
      <4>. SUFFICES ASSUME NEW h \in Generations, h < n PROVE flattenOrders[h].state # "none"
        BY DEF Passed
      <4>0. h \in Int /\ g \in Int /\ n \in Int /\ v.attempt \in Int  BY <1>1, <1>5 DEF Generations, Numbers
      <4>1. CASE h < v.attempt  BY <3>1, <4>1 DEF LedgerInv, Passed
      <4>2. CASE v.attempt <= h /\ h < g
        <5>1. flattenOrders[h].state = "local"  BY <4>2 DEF IsNextOrder
        <5>. QED  BY <5>1
      <4>3. CASE h = g  BY <1>5, <4>0, <4>3 DEF Placed
      <4>. QED  BY <1>5, <4>0, <4>1, <4>2, <4>3
    <3>9. v.attempt <= n
      BY <1>1, <1>5 DEF Numbers
    <3>10. CommandAgrees(c)
      BY <1>5, <1>7, <1>11, <2>1, <3>1, <3>2, <3>7, <3>8, <3>9 DEF CommandAgrees
    <3>. QED  BY <3>10
  <2>. QED  BY <2>2, <2>3
<1>. QED  BY <1>4, <1>9, <1>11, <1>12, Zenon

(* What does not depend on the agreement: absent commands, flights and passes. *)
LEMMA Absent ==
    /\ NoCommand \notin Commands /\ NoFlight \notin Sendings
    /\ Idle \notin Passes /\ Persisting \notin Passes /\ Idle # Persisting
    /\ NoAnswer \notin AttemptRows
<1>1. NoCommand.version = Unset /\ NoAnswer.version = Unset /\ NoFlight.command = NoCommand
      /\ Idle.attempt = 0 /\ Persisting.attempt = Unset
  BY DEF NoCommand, NoAnswer, NoFlight, Idle, Persisting
<1>2. Unset \notin Nat /\ 0 \notin Generations /\ Unset \notin Generations /\ Unset # 0
  BY DEF Unset, Generations
<1>3. \A c \in Commands : c.version \in Nat  BY DEF Commands
<1>4. \A r \in AttemptRows : r.version \in Nat  BY DEF AttemptRows
<1>5. \A s \in Sendings : s.command \in Commands  BY DEF Sendings
<1>6. \A w \in Passes : w.attempt \in Generations  BY DEF Passes
<1>7. NoCommand \notin Commands  BY <1>1, <1>2, <1>3
<1>8. NoFlight \notin Sendings  BY <1>1, <1>5, <1>7
<1>9. Idle \notin Passes /\ Persisting \notin Passes /\ Idle # Persisting  BY <1>1, <1>2, <1>6
<1>10. NoAnswer \notin AttemptRows  BY <1>1, <1>2, <1>4
<1>. QED  BY <1>7, <1>8, <1>9, <1>10

(* What a step of the orders leaves standing while the row is the same. *)
OrdersKeep ==
    /\ Covers(ledger)' /\ Passed(ledger.attempt)' /\ LastIsPlaced'
    /\ \A c \in Commands : CommandAgrees(c) => CommandAgrees(c)'
    /\ \A v \in Residuals \cup AttemptRows : IsPast(v) => IsPast(v)'
    /\ \A v \in Residuals, g \in Generations :
         IsNextOrder(v, g) /\ Placed(g) => (IsNextOrder(v, g) /\ Placed(g))'

(* A copy covers the account after a step that moved the fills of its orders, or placed one. *)
LEMMA CoverStays ==
    ASSUME LedgerShape, LedgerShape', held' <= held,
           \A g \in Generations : Placed(g)' =>
              \/ /\ Placed(g) /\ flattenOrders'[g].quantity = flattenOrders[g].quantity
                 /\ held' + flattenOrders'[g].filled <= held + flattenOrders[g].filled
              \/ flattenOrders'[g].filled = 0,
           NEW v, v.quantity \in Nat, v.accounted \in Marks, Covers(v)
    PROVE  Covers(v)'
<1>1. held \in Int /\ held' \in Int /\ held' <= v.quantity  BY DEF LedgerShape, Covers
<1>2. ASSUME v.quantity > 0, NEW g \in Generations, v.attempt <= g, Placed(g)'
      PROVE  held' + flattenOrders'[g].filled - Counted(v, g)' <= v.quantity
  <2>1. /\ flattenOrders[g].quantity \in Nat /\ flattenOrders'[g].quantity \in Nat
        /\ flattenOrders[g].filled \in Nat /\ flattenOrders'[g].filled \in Nat
    BY DEF LedgerShape, FlattenOrder
  <2>2. Counted(v, g) \in Nat /\ Counted(v, g)' \in Nat  BY <2>1 DEF Counted, Marks, Unset
  <2>3. CASE Placed(g) /\ flattenOrders'[g].quantity = flattenOrders[g].quantity
             /\ held' + flattenOrders'[g].filled <= held + flattenOrders[g].filled
    <3>1. Counted(v, g)' = Counted(v, g)  BY <2>3 DEF Counted
    <3>2. held + flattenOrders[g].filled - Counted(v, g) <= v.quantity  BY <1>2, <2>3 DEF Covers
    <3>. QED  BY <1>1, <2>1, <2>2, <2>3, <3>1, <3>2
  <2>4. CASE flattenOrders'[g].filled = 0  BY <1>1, <2>2, <2>4
  <2>. QED  BY <1>2, <2>3, <2>4
<1>. QED  BY <1>1, <1>2 DEF Covers

(* One order moves: it fills, it ends, it is placed or it is refused unsent. *)
LEMMA OrderMoves ==
    ASSUME LedgerInv, LedgerShape', ledger' = ledger, held' <= held, NEW g \in Generations,
           \A h \in Generations : h # g => flattenOrders'[h] = flattenOrders[h],
           \/ /\ Placed(g) /\ Placed(g)' /\ flattenOrders'[g].quantity = flattenOrders[g].quantity
              /\ held' + flattenOrders'[g].filled <= held + flattenOrders[g].filled
           \/ /\ flattenOrders[g].state = "none" /\ flattenOrders'[g].state # "none"
              /\ flattenOrders'[g].filled = 0 \/ ~Placed(g)'
              /\ \A h \in Generations : ledger.attempt <= h /\ h < g => flattenOrders[h].state = "local"
    PROVE  OrdersKeep
<1>0. LedgerShape  BY DEF LedgerInv
<1>1. \A h \in Generations : Placed(h)' =>
        \/ /\ Placed(h) /\ flattenOrders'[h].quantity = flattenOrders[h].quantity
           /\ held' + flattenOrders'[h].filled <= held + flattenOrders[h].filled
        \/ flattenOrders'[h].filled = 0
  <2>1. SUFFICES ASSUME NEW h \in Generations, Placed(h)', h # g
                 PROVE /\ Placed(h) /\ flattenOrders'[h].quantity = flattenOrders[h].quantity
                       /\ held' + flattenOrders'[h].filled <= held + flattenOrders[h].filled
    OBVIOUS
  <2>2. flattenOrders'[h] = flattenOrders[h]  BY <2>1
  <2>3. held \in Int /\ held' \in Int /\ flattenOrders[h].filled \in Nat
    BY <1>0 DEF LedgerShape, FlattenOrder
  <2>. QED  BY <2>1, <2>2, <2>3 DEF Placed
<1>2. PICK row : row = ledger  OBVIOUS
<1>3. row \in AttemptRows /\ row.quantity \in Nat /\ row.accounted \in Marks /\ row.attempt \in Numbers
  BY <1>0, <1>2 DEF LedgerShape, AttemptRows
<1>4. Covers(ledger)'
  <2>1. Covers(row)  BY <1>2 DEF LedgerInv
  <2>2. Covers(row)'  BY <1>0, <1>1, <1>3, <2>1, CoverStays
  <2>. QED  BY <1>2, <2>2
<1>5. \A h \in Generations : flattenOrders[h].state # "none" => flattenOrders'[h].state # "none"
  BY DEF Placed
<1>6. \A n : Passed(n) => Passed(n)'  BY <1>5 DEF Passed
<1>7. Passed(ledger.attempt)'
  <2>1. Passed(row.attempt)  BY <1>2 DEF LedgerInv
  <2>. QED  BY <1>2, <1>6, <2>1
<1>8. LastIsPlaced'
  <2>. SUFFICES ASSUME NEW a \in Generations, NEW b \in Generations, ledger.attempt <= a, a < b,
                       flattenOrders'[a].state # "local"
                PROVE  flattenOrders'[b].state = "none"
    BY DEF LastIsPlaced
  <2>1. a \in Int /\ b \in Int /\ g \in Int  BY DEF Generations
  <2>2. flattenOrders[a].state # "local"  BY DEF Placed
  <2>3. flattenOrders[b].state = "none"  BY <2>2 DEF LedgerInv, LastIsPlaced
  <2>4. CASE b = g  BY <2>1, <2>2, <2>3, <2>4 DEF Placed
  <2>5. CASE b # g  BY <2>3, <2>5
  <2>. QED  BY <2>4, <2>5
<1>9. ASSUME NEW v, IsPast(v) PROVE IsPast(v)'  BY <1>9 DEF IsPast, Older
<1>10. ASSUME NEW c \in Commands, CommandAgrees(c) PROVE CommandAgrees(c)'
  <2>1. CASE Older(c.expected[1], c.expected[2])
    <3>1. Older(c.expected[1], c.expected[2])'  BY <2>1 DEF Older
    <3>. QED  BY <1>10, <3>1 DEF CommandAgrees
  <2>2. CASE /\ c.expected[1] = ledger.quantity /\ c.expected[2] = ledger.attempt
             /\ Covers(c.next) /\ Passed(c.next.attempt)
             /\ c.next.quantity <= c.expected[1] /\ c.expected[2] <= c.next.attempt
             /\ c.next.quantity # c.expected[1] \/ c.next.attempt # c.expected[2]
    <3>1. c.next.quantity \in Nat /\ c.next.accounted \in Marks  BY DEF Commands, Residuals
    <3>2. Covers(c.next)'  BY <1>0, <1>1, <2>2, <3>1, CoverStays
    <3>3. Passed(c.next.attempt)'  BY <1>6, <2>2
    <3>. QED  BY <1>10, <2>2, <3>2, <3>3 DEF CommandAgrees
  <2>. QED  BY <1>10, <2>1, <2>2 DEF CommandAgrees
<1>11. ASSUME NEW v \in Residuals, NEW h \in Generations, IsNextOrder(v, h), Placed(h)
       PROVE  (IsNextOrder(v, h) /\ Placed(h))'
  <2>1. \A k \in Generations : flattenOrders[k].state = "local" => flattenOrders'[k].state = "local"
    BY DEF Placed
  <2>2. Placed(h)'  BY <1>11 DEF Placed
  <2>. QED  BY <1>11, <2>1, <2>2 DEF IsNextOrder, Placed
<1>. QED  BY <1>4, <1>7, <1>8, <1>9, <1>10, <1>11 DEF OrdersKeep

(* A step that touches neither the account, the orders nor the row. *)
LEMMA OrdersRest ==
    ASSUME LedgerInv, UNCHANGED <<held, flattenOrders, ledger>>
    PROVE  OrdersKeep
<1>1. Covers(ledger)' /\ Passed(ledger.attempt)' /\ LastIsPlaced'
  BY DEF LedgerInv, Covers, Counted, Placed, Passed, LastIsPlaced
<1>2. ASSUME NEW c \in Commands, CommandAgrees(c) PROVE CommandAgrees(c)'
  BY <1>2 DEF CommandAgrees, Covers, Counted, Placed, Passed, Older
<1>3. ASSUME NEW v, IsPast(v) PROVE IsPast(v)'  BY <1>3 DEF IsPast, Older
<1>4. ASSUME NEW v \in Residuals, NEW h \in Generations, IsNextOrder(v, h), Placed(h)
      PROVE  (IsNextOrder(v, h) /\ Placed(h))'
  BY <1>4 DEF IsNextOrder, Placed
<1>. QED  BY <1>1, <1>2, <1>3, <1>4 DEF OrdersKeep

LedgerCopies == <<memory, pending, flights, pass>>

(* What the process holds keeps agreeing when it is left alone. *)
LEMMA CopiesStay ==
    ASSUME LedgerInv, OrdersKeep
    PROVE  /\ memory' = memory => (memory.quantity > 0 => IsPast(memory))'
           /\ pending' = pending => (pending \in Commands => CommandAgrees(pending))'
           /\ \A f \in Retriers \cup {"pass"} : flights'[f] = flights[f] => FlightAgrees(f)'
           /\ pass' = pass => PassAgrees'
<1>1. ASSUME memory' = memory PROVE (memory.quantity > 0 => IsPast(memory))'
  <2>1. PICK v : v = memory  OBVIOUS
  <2>2. v \in Residuals /\ (v.quantity > 0 => IsPast(v))  BY <2>1 DEF LedgerInv, LedgerShape
  <2>3. v.quantity > 0 => IsPast(v)'  BY <2>2 DEF OrdersKeep
  <2>. QED  BY <1>1, <2>1, <2>3
<1>2. ASSUME pending' = pending PROVE (pending \in Commands => CommandAgrees(pending))'
  <2>1. PICK c : c = pending  OBVIOUS
  <2>2. c \in Commands => CommandAgrees(c)  BY <2>1 DEF LedgerInv
  <2>3. c \in Commands => CommandAgrees(c)'  BY <2>2 DEF OrdersKeep
  <2>. QED  BY <1>2, <2>1, <2>3
<1>3. ASSUME NEW f \in Retriers \cup {"pass"}, flights'[f] = flights[f] PROVE FlightAgrees(f)'
  <2>1. PICK s : s = flights[f]  OBVIOUS
  <2>2. s \in Sendings => /\ CommandAgrees(s.command)
                          /\ s.result \in AttemptRows /\ s.result.quantity > 0 => IsPast(s.result)
    BY <2>1 DEF LedgerInv, FlightAgrees
  <2>3. s \in Sendings => s.command \in Commands  BY DEF Sendings
  <2>4. s \in Sendings => /\ CommandAgrees(s.command)'
                          /\ s.result \in AttemptRows /\ s.result.quantity > 0 => IsPast(s.result)'
    BY <2>2, <2>3 DEF OrdersKeep
  <2>5. flights'[f] = s  BY <1>3, <2>1
  <2>. QED  BY <2>4, <2>5 DEF FlightAgrees
<1>4. ASSUME pass' = pass PROVE PassAgrees'
  <2>1. PICK w : w = pass  OBVIOUS
  <2>2. w \in Passes => /\ w.residual.quantity > 0 /\ IsPast(w.residual)
                        /\ IsNextOrder(w.residual, w.attempt) /\ Placed(w.attempt)
    BY <2>1 DEF LedgerInv, PassAgrees
  <2>3. w \in Passes => w.residual \in Residuals /\ w.attempt \in Generations  BY DEF Passes
  <2>4. w \in Passes => /\ w.residual.quantity > 0 /\ IsPast(w.residual)'
                        /\ (IsNextOrder(w.residual, w.attempt) /\ Placed(w.attempt))'
    BY <2>2, <2>3 DEF OrdersKeep
  <2>. QED  BY <1>4, <2>1, <2>4 DEF PassAgrees
<1>. QED  BY <1>1, <1>2, <1>3, <1>4

(* The end of a pass leaves a command that agrees, or nothing. *)
LEMMA PassEndsWell ==
    ASSUME LedgerInv, LedgerShape', OrdersKeep, UNCHANGED <<memory, pending>>,
           NEW v, NEW g, NEW o, NEW d, PassEnds(v, g, o, d), NEW c,
           c = createResidualProjectionCommand(memory.version, v, flattenResidual(v, g, o, d).remaining,
                 flattenResidual(v, g, o, d).charges, today),
           residualProjectionChanges(c) => c \in Commands /\ CommandAgrees(c)'
    PROVE  LedgerInv'
<1>1. /\ pass' = IF residualProjectionChanges(c) THEN Persisting ELSE Idle
      /\ flights' = IF residualProjectionChanges(c)
                      THEN [flights EXCEPT !["pass"] = [command |-> c, result |-> NoAnswer]] ELSE flights
  BY Zenon DEF PassEnds
<1>2. PassAgrees'  BY <1>1, Absent DEF PassAgrees
<1>3. ASSUME NEW f \in Retriers \cup {"pass"} PROVE FlightAgrees(f)'
  <2>1. CASE flights'[f] = flights[f]  BY <2>1, CopiesStay
  <2>2. CASE flights'[f] # flights[f]
    <3>1. residualProjectionChanges(c)  BY <1>1, <2>2
    <3>2. flights' = [flights EXCEPT !["pass"] = [command |-> c, result |-> NoAnswer]]  BY <1>1, <3>1
    <3>3. DOMAIN flights = Retriers \cup {"pass"}  BY DEF LedgerInv, LedgerShape
    <3>4. flights'[f] = [command |-> c, result |-> NoAnswer]  BY <2>2, <3>2, <3>3
    <3>5. flights'[f].command = c /\ flights'[f].result = NoAnswer  BY <3>4
    <3>. QED  BY <3>1, <3>5, Absent DEF FlightAgrees
  <2>. QED  BY <2>1, <2>2
<1>4. (memory.quantity > 0 => IsPast(memory))' /\ (pending \in Commands => CommandAgrees(pending))'
  BY CopiesStay
<1>. QED  BY <1>2, <1>3, <1>4 DEF LedgerInv, OrdersKeep

(* The types of a step that ends a pass. *)
LEMMA PassShape ==
    ASSUME LedgerShape, held' \in Int, today' \in Nat, flattenOrders' \in [Generations -> FlattenOrder],
           UNCHANGED <<ledger, memory, pending>>,
           NEW v, NEW g, NEW o, NEW d, PassEnds(v, g, o, d), NEW c,
           c = createResidualProjectionCommand(memory.version, v, flattenResidual(v, g, o, d).remaining,
                 flattenResidual(v, g, o, d).charges, today),
           residualProjectionChanges(c) => c \in Commands
    PROVE  LedgerShape'
<1>1. /\ pass' = IF residualProjectionChanges(c) THEN Persisting ELSE Idle
      /\ flights' = IF residualProjectionChanges(c)
                      THEN [flights EXCEPT !["pass"] = [command |-> c, result |-> NoAnswer]] ELSE flights
  BY Zenon DEF PassEnds
<1>2. flights' \in [Retriers \cup {"pass"} -> {NoFlight} \cup Sendings]
  <2>1. CASE residualProjectionChanges(c)
    <3>1. [command |-> c, result |-> NoAnswer] \in Sendings  BY <2>1 DEF Sendings
    <3>2. flights' = [flights EXCEPT !["pass"] = [command |-> c, result |-> NoAnswer]]  BY <1>1, <2>1
    <3>. QED  BY <3>1, <3>2 DEF LedgerShape
  <2>2. CASE ~residualProjectionChanges(c)  BY <1>1, <2>2 DEF LedgerShape
  <2>. QED  BY <2>1, <2>2
<1>3. pass' \in {Idle, Persisting}  BY <1>1
<1>. QED  BY <1>2, <1>3 DEF LedgerShape

(* A pass that ends while the orders rest keeps the invariant. *)
LEMMA PassEndKeeps ==
    ASSUME LedgerInv, UNCHANGED <<held, flattenOrders, ledger, memory, pending, today>>,
           NEW v \in Residuals, v.quantity > 0, IsPast(v), NEW g, IsNextOrder(v, g),
           NEW o, o = NoOrder \/ (o = flattenOrders[g] /\ Placed(g)), NEW d \in Dispositions,
           d = "retire_attempt" => Placed(g), PassEnds(v, g, o, d)
    PROVE  LedgerInv'
<1>1. PICK c : c = createResidualProjectionCommand(memory.version, v, flattenResidual(v, g, o, d).remaining,
                     flattenResidual(v, g, o, d).charges, today)
  OBVIOUS
<1>2. residualProjectionChanges(c) => c \in Commands /\ CommandAgrees(c)
  BY <1>1, PassProposes, Zenon
<1>3. OrdersKeep  BY OrdersRest
<1>4. residualProjectionChanges(c) => c \in Commands /\ CommandAgrees(c)'  BY <1>2, <1>3 DEF OrdersKeep
<1>5. /\ LedgerShape /\ held' \in Int /\ today' \in Nat /\ flattenOrders' \in [Generations -> FlattenOrder]
      /\ UNCHANGED <<ledger, memory, pending>> /\ UNCHANGED <<memory, pending>>
  BY DEF LedgerInv, LedgerShape
<1>6. LedgerShape'  BY <1>1, <1>4, <1>5, PassShape, Zenon
<1>. QED  BY <1>1, <1>3, <1>4, <1>5, <1>6, PassEndsWell, Zenon

(* An order refused unsent gives its generation up: the next one takes over the residual. *)
LEMMA LocalRefusal ==
    ASSUME LedgerInv, UNCHANGED <<held, ledger, memory, pending, today>>,
           NEW v \in Residuals, v.quantity > 0, IsPast(v), NEW g, IsNextOrder(v, g),
           flattenOrders[g].state = "none",
           NEW new \in FlattenOrder, new.state = "local", flattenOrders' = [flattenOrders EXCEPT ![g] = new],
           PassEnds(v, g, NoOrder, "retire_attempt")
    PROVE  LedgerInv'
<1>0. LedgerShape  BY DEF LedgerInv
<1>1. /\ v.quantity \in Nat /\ v.attempt \in Numbers /\ v.accounted \in Marks /\ v.version \in Nat
      /\ g \in Generations /\ g \in Nat /\ g + 1 \in Numbers /\ v.attempt <= g
      /\ flattenOrders[g] \in FlattenOrder /\ memory.version \in Nat /\ today \in Nat
      /\ held \in Int /\ ledger.quantity \in Nat /\ ledger.attempt \in Numbers
  BY <1>0 DEF Residuals, IsNextOrder, Generations, Numbers, LedgerShape, AttemptRows
<1>5. flattenOrders' \in [Generations -> FlattenOrder]  BY <1>0 DEF LedgerShape
<1>6. flattenOrders'[g] = new /\ \A h \in Generations : h # g => flattenOrders'[h] = flattenOrders[h]
  BY <1>0, <1>1 DEF LedgerShape
<1>7. PICK next : next = Residual(v.quantity, g + 1, 0, v.version)  OBVIOUS
<1>8. next \in Residuals /\ next.quantity = v.quantity /\ next.attempt = g + 1
  BY <1>1, <1>7 DEF Residual, Residuals, Marks
<1>9. PICK r : r = flattenResidual(v, g, NoOrder, "retire_attempt")  OBVIOUS
<1>10. r.charges = 0 /\ r.remaining = next
  <2>1. flattenResidual(v, g, NoOrder, "retire_attempt").charges = 0  BY <1>1, UnseenPass
  <2>2. flattenResidual(v, g, NoOrder, "retire_attempt").remaining = Residual(v.quantity, g + 1, 0, v.version)
    BY <1>1, UnseenPass
  <2>. QED  BY <1>7, <1>9, <2>1, <2>2, Zenon
<1>11. PICK c : c = createResidualProjectionCommand(memory.version, v, r.remaining, r.charges, today)  OBVIOUS
<1>12. residualProjectionIdentity(v) = <<v.quantity, v.attempt>>  BY DEF residualProjectionIdentity
<1>13. c = [version |-> memory.version, expected |-> <<v.quantity, v.attempt>>, next |-> next,
            charge |-> 0, day |-> today]
  BY <1>10, <1>11, <1>12, Zenon DEF createResidualProjectionCommand
<1>14. c \in Commands /\ c.expected = <<v.quantity, v.attempt>> /\ c.next = next
  BY <1>1, <1>8, <1>13 DEF Commands
<1>15. c.expected[1] = v.quantity /\ c.expected[2] = v.attempt  BY <1>14
<1>16. ~Older(v.quantity, v.attempt) => v.quantity = ledger.quantity /\ v.attempt = ledger.attempt
  BY DEF IsPast
<1>17. \A h \in Generations : ledger.attempt <= h /\ h < g => flattenOrders[h].state = "local"
  <2>1. v.attempt <= ledger.attempt  BY <1>1, <1>16 DEF Older, Numbers
  <2>. SUFFICES ASSUME NEW h \in Generations, ledger.attempt <= h, h < g
                PROVE  flattenOrders[h].state = "local"
    OBVIOUS
  <2>2. v.attempt <= h  BY <1>1, <2>1 DEF Generations, Numbers
  <2>. QED  BY <2>2 DEF IsNextOrder
<1>18. CommandAgrees(c)'
  <2>1. CASE Older(v.quantity, v.attempt)
    <3>1. Older(v.quantity, v.attempt)'  BY <2>1 DEF Older
    <3>. QED  BY <1>15, <3>1 DEF CommandAgrees
  <2>2. CASE ~Older(v.quantity, v.attempt)
    <3>1. v.quantity = ledger.quantity /\ v.attempt = ledger.attempt  BY <1>16, <2>2
    <3>2. \A h \in Generations : g < h => flattenOrders[h].state = "none"
      BY <1>1, <3>1 DEF LedgerInv, LastIsPlaced
    <3>3. \A h \in Generations : g + 1 <= h => ~Placed(h)'
      <4>. SUFFICES ASSUME NEW h \in Generations, g + 1 <= h PROVE ~Placed(h)'  OBVIOUS
      <4>1. g < h /\ h # g  BY <1>1 DEF Generations
      <4>. QED  BY <1>6, <3>2, <4>1 DEF Placed
    <3>4. held' <= next.quantity  BY <1>8, <3>1 DEF LedgerInv, Covers
    <3>5. Covers(next)'  BY <1>8, <3>3, <3>4 DEF Covers
    <3>6. Passed(next.attempt)'
      <4>. SUFFICES ASSUME NEW h \in Generations, h < g + 1 PROVE flattenOrders'[h].state # "none"
        BY <1>8 DEF Passed
      <4>0. h \in Int /\ g \in Int /\ v.attempt \in Int  BY <1>1 DEF Generations, Numbers
      <4>1. CASE h = g  BY <1>6, <4>1
      <4>2. CASE h # g /\ h < v.attempt  BY <1>6, <3>1, <4>2 DEF LedgerInv, Passed
      <4>3. CASE h # g /\ v.attempt <= h
        <5>1. h < g  BY <4>0, <4>3
        <5>2. flattenOrders[h].state = "local"  BY <4>3, <5>1 DEF IsNextOrder
        <5>. QED  BY <1>6, <4>3, <5>2
      <4>. QED  BY <4>0, <4>1, <4>2, <4>3
    <3>7. v.attempt <= g + 1 /\ g + 1 # v.attempt  BY <1>1 DEF Numbers
    <3>8. v.quantity <= v.quantity  BY <1>1
    <3>. QED  BY <1>8, <1>14, <1>15, <3>1, <3>5, <3>6, <3>7, <3>8 DEF CommandAgrees
  <2>. QED  BY <2>1, <2>2
<1>19. PICK k : k = createResidualProjectionCommand(memory.version, v,
                      flattenResidual(v, g, NoOrder, "retire_attempt").remaining,
                      flattenResidual(v, g, NoOrder, "retire_attempt").charges, today)
  OBVIOUS
<1>20. k = c  BY <1>9, <1>11, <1>19, Zenon
<1>21. k \in Commands /\ CommandAgrees(k)'  BY <1>14, <1>18, <1>20
<1>22. held' \in Int /\ today' \in Nat /\ UNCHANGED <<ledger, memory, pending>> /\ UNCHANGED <<memory, pending>>
  BY <1>1
<1>23. LedgerShape'  BY <1>0, <1>5, <1>19, <1>21, <1>22, PassShape, Zenon
<1>24. OrdersKeep
  <2>1. ledger' = ledger /\ held' <= held  BY <1>1
  <2>2. flattenOrders'[g].state # "none" /\ ~Placed(g)'  BY <1>6 DEF Placed
  <2>3. flattenOrders'[g].filled = 0 \/ ~Placed(g)'  BY <2>2
  <2>. QED  BY <1>1, <1>6, <1>17, <1>23, <2>1, <2>2, OrderMoves
<1>. QED  BY <1>19, <1>21, <1>22, <1>23, <1>24, PassEndsWell, Zenon

(* A pass that began to wait for its order, placed by this step or found at work. *)
LEMMA PassWaits ==
    ASSUME LedgerInv, LedgerShape', OrdersKeep, UNCHANGED <<memory, pending, flights>>,
           NEW v \in Residuals, v.quantity > 0, IsPast(v), NEW g, IsNextOrder(v, g)', Placed(g)',
           pass' = [residual |-> v, attempt |-> g]
    PROVE  LedgerInv'
<1>1. pass'.residual = v /\ pass'.attempt = g  OBVIOUS
<1>2. IsPast(v)'  BY DEF OrdersKeep
<1>3. PassAgrees'  BY <1>1, <1>2 DEF PassAgrees
<1>4. (memory.quantity > 0 => IsPast(memory))' /\ (pending \in Commands => CommandAgrees(pending))'
  BY CopiesStay
<1>5. \A f \in Retriers \cup {"pass"} : FlightAgrees(f)'  BY CopiesStay
<1>. QED  BY <1>3, <1>4, <1>5 DEF LedgerInv, OrdersKeep

(* A pass of the timer keeps the invariant. *)
LEMMA FlattenKeeps ==
    ASSUME LedgerInv, flattenResiduals
    PROVE  LedgerInv'
<1>0. LedgerShape  BY DEF LedgerInv
<1>1. PICK v : v = memory  OBVIOUS
<1>2. PICK g : g = firstAdoptableResidualAttempt(v)  OBVIOUS
<1>3. PICK o : o = flattenOrders[g]  OBVIOUS
<1>4. /\ pass = Idle /\ pending = NoCommand /\ memory.quantity > 0 /\ g \in Generations
      /\ UNCHANGED <<held, ledger, memory, pending, today>>
      /\ \/ /\ o.state \in Terminal
            /\ PassEnds(v, g, o, IF o.state = "REJECTED" THEN dispositionForFailure("broker_rejected")
                                 ELSE classifyResidualOrder(o, v.quantity))
            /\ UNCHANGED flattenOrders
         \/ /\ o.state = "none"
            /\ pass' = [residual |-> v, attempt |-> g]
            /\ flattenOrders' = [flattenOrders EXCEPT ![g] =
                 [state |-> "working", quantity |-> v.quantity, filled |-> 0]]
            /\ UNCHANGED flights
         \/ /\ o.state = "none" /\ PassEnds(v, g, NoOrder, dispositionForFailure("gate_refused"))
            /\ UNCHANGED flattenOrders
         \/ /\ o.state = "none" /\ flattenOrders' = [flattenOrders EXCEPT ![g].state = "local"]
            /\ PassEnds(v, g, NoOrder, dispositionForFailure("local_pre_submit_refused"))
         \/ /\ o.state = "working" /\ pass' = [residual |-> v, attempt |-> g]
            /\ UNCHANGED <<flattenOrders, flights>>
         \/ /\ o.state = "working" /\ PassEnds(v, g, NoOrder, dispositionForFailure("identity_conflict"))
            /\ UNCHANGED flattenOrders
  BY <1>1, <1>2, <1>3, Zenon DEF flattenResiduals
<1>5. v \in Residuals /\ v.quantity > 0 /\ IsPast(v) /\ IsNextOrder(v, g) /\ g \in Generations
  <2>1. v \in Residuals /\ v.quantity > 0 /\ IsPast(v)  BY <1>0, <1>1, <1>4 DEF LedgerInv, LedgerShape
  <2>2. firstAdoptableResidualAttempt(v) \in Generations  BY <1>2, <1>4
  <2>3. IsNextOrder(v, firstAdoptableResidualAttempt(v))  BY <1>0, <2>1, <2>2, FirstIsNext
  <2>. QED  BY <1>2, <2>1, <2>2, <2>3, Zenon
<1>6. o \in FlattenOrder  BY <1>0, <1>3, <1>5 DEF LedgerShape
<1>7. /\ dispositionForFailure("broker_rejected") = "adopt_attempt"
      /\ dispositionForFailure("gate_refused") = "reuse_attempt"
      /\ dispositionForFailure("local_pre_submit_refused") = "retire_attempt"
      /\ dispositionForFailure("identity_conflict") = "retire_attempt"
  BY DEF dispositionForFailure
<1>8. UNCHANGED flattenOrders => UNCHANGED <<held, flattenOrders, ledger, memory, pending, today>>  BY <1>4
<1>9. CASE /\ o.state \in Terminal
           /\ PassEnds(v, g, o, IF o.state = "REJECTED" THEN dispositionForFailure("broker_rejected")
                                ELSE classifyResidualOrder(o, v.quantity))
           /\ UNCHANGED flattenOrders
  <2>1. PICK d : d = IF o.state = "REJECTED" THEN dispositionForFailure("broker_rejected")
                     ELSE classifyResidualOrder(o, v.quantity)
    OBVIOUS
  <2>2. d \in Dispositions  BY <1>7, <2>1 DEF classifyResidualOrder, Dispositions
  <2>3. Placed(g)  BY <1>3, <1>9 DEF Placed, Terminal
  <2>4. PassEnds(v, g, o, d)  BY <1>9, <2>1, Zenon
  <2>. QED  BY <1>3, <1>5, <1>8, <1>9, <2>2, <2>3, <2>4, PassEndKeeps, Zenon
<1>10. CASE /\ o.state = "none"
            /\ pass' = [residual |-> v, attempt |-> g]
            /\ flattenOrders' = [flattenOrders EXCEPT ![g] =
                 [state |-> "working", quantity |-> v.quantity, filled |-> 0]]
            /\ UNCHANGED flights
  <2>1. PICK new : new = [state |-> "working", quantity |-> v.quantity, filled |-> 0]  OBVIOUS
  <2>2. new \in FlattenOrder /\ new.state = "working" /\ new.filled = 0
    BY <1>5, <2>1 DEF FlattenOrder, FlattenStates, Residuals
  <2>3. flattenOrders' = [flattenOrders EXCEPT ![g] = new]  BY <1>10, <2>1
  <2>4. flattenOrders' \in [Generations -> FlattenOrder]  BY <1>0, <2>2, <2>3 DEF LedgerShape
  <2>5. flattenOrders'[g] = new /\ \A h \in Generations : h # g => flattenOrders'[h] = flattenOrders[h]
    BY <1>0, <1>5, <2>3 DEF LedgerShape
  <2>6. pass' \in Passes  BY <1>5, <1>10 DEF Passes
  <2>7. LedgerShape'  BY <1>0, <1>4, <1>10, <2>4, <2>6 DEF LedgerShape
  <2>8. \A h \in Generations : ledger.attempt <= h /\ h < g => flattenOrders[h].state = "local"
    <3>1. v.attempt <= ledger.attempt /\ v.attempt \in Int /\ ledger.attempt \in Int
      BY <1>0, <1>5 DEF IsPast, Older, LedgerShape, AttemptRows, Residuals, Numbers
    <3>. SUFFICES ASSUME NEW h \in Generations, ledger.attempt <= h, h < g
                  PROVE  flattenOrders[h].state = "local"
      OBVIOUS
    <3>2. v.attempt <= h  BY <3>1 DEF Generations
    <3>. QED  BY <1>5, <3>2 DEF IsNextOrder
  <2>9. OrdersKeep
    <3>1. ledger' = ledger /\ held' <= held  BY <1>0, <1>4 DEF LedgerShape
    <3>2. flattenOrders[g].state = "none" /\ flattenOrders'[g].state # "none" /\ flattenOrders'[g].filled = 0
      BY <1>3, <1>10, <2>2, <2>5
    <3>. QED  BY <1>5, <2>5, <2>7, <2>8, <3>1, <3>2, OrderMoves
  <2>10. IsNextOrder(v, g)' /\ Placed(g)'
    <3>1. \A h \in Generations : flattenOrders[h].state = "local" => flattenOrders'[h].state = "local"
      BY <1>3, <1>10, <2>5
    <3>. QED  BY <1>5, <2>2, <2>5, <3>1 DEF IsNextOrder, Placed
  <2>11. UNCHANGED <<memory, pending, flights>>  BY <1>4, <1>10
  <2>12. pass' = [residual |-> v, attempt |-> g]  BY <1>10
  <2>. HIDE <1>10
  <2>. QED  BY <1>5, <2>7, <2>9, <2>10, <2>11, <2>12, PassWaits, Zenon
<1>11. CASE /\ o.state = "none" /\ PassEnds(v, g, NoOrder, dispositionForFailure("gate_refused"))
            /\ UNCHANGED flattenOrders
  <2>1. PassEnds(v, g, NoOrder, "reuse_attempt")  BY <1>7, <1>11, Zenon
  <2>2. "reuse_attempt" \in Dispositions  BY DEF Dispositions
  <2>3. PICK d : d = "reuse_attempt"  OBVIOUS
  <2>4. d \in Dispositions /\ (d = "retire_attempt" => Placed(g)) /\ PassEnds(v, g, NoOrder, d)
    BY <2>1, <2>2, <2>3
  <2>5. UNCHANGED <<held, flattenOrders, ledger, memory, pending, today>>  BY <1>8, <1>11
  <2>6. CASE d = "retire_attempt"  BY <2>3, <2>6
  <2>7. CASE d # "retire_attempt"
    <3>1. PICK p : p = NoOrder  OBVIOUS
    <3>2. p = NoOrder \/ (p = flattenOrders[g] /\ Placed(g))  BY <3>1
    <3>3. d = "retire_attempt" => Placed(g)  BY <2>7
    <3>4. PassEnds(v, g, p, d)  BY <2>4, <3>1, Zenon
    <3>5. v \in Residuals /\ v.quantity > 0 /\ IsPast(v) /\ IsNextOrder(v, g) /\ d \in Dispositions
      BY <1>5, <2>4
    <3>. QED  BY <2>5, <3>2, <3>3, <3>4, <3>5, PassEndKeeps, Zenon
  <2>. QED  BY <2>6, <2>7
<1>12. CASE /\ o.state = "none" /\ flattenOrders' = [flattenOrders EXCEPT ![g].state = "local"]
            /\ PassEnds(v, g, NoOrder, dispositionForFailure("local_pre_submit_refused"))
  <2>1. PassEnds(v, g, NoOrder, "retire_attempt")  BY <1>7, <1>12, Zenon
  <2>2. PICK new : new = [o EXCEPT !.state = "local"]  OBVIOUS
  <2>3. new \in FlattenOrder /\ new.state = "local"  BY <1>6, <2>2, Zenon DEF FlattenOrder, FlattenStates
  <2>4. flattenOrders' = [flattenOrders EXCEPT ![g] = new]  BY <1>3, <1>12, <2>2, Zenon
  <2>5. flattenOrders[g].state = "none"  BY <1>3, <1>12, Zenon
  <2>6. UNCHANGED <<held, ledger, memory, pending, today>>  BY <1>4, Zenon
  <2>. QED  BY <1>5, <2>1, <2>3, <2>4, <2>5, <2>6, LocalRefusal, Zenon
<1>13. CASE /\ o.state = "working" /\ pass' = [residual |-> v, attempt |-> g]
            /\ UNCHANGED <<flattenOrders, flights>>
  <2>1. UNCHANGED <<held, flattenOrders, ledger>> /\ UNCHANGED <<memory, pending, flights>>  BY <1>4, <1>13
  <2>2. OrdersKeep  BY <2>1, OrdersRest
  <2>3. pass' \in Passes  BY <1>5, <1>13 DEF Passes
  <2>4. LedgerShape'  BY <1>0, <1>4, <1>13, <2>3 DEF LedgerShape
  <2>5. Placed(g)  BY <1>3, <1>13 DEF Placed
  <2>6. IsNextOrder(v, g)' /\ Placed(g)'  BY <1>5, <2>2, <2>5 DEF OrdersKeep
  <2>7. pass' = [residual |-> v, attempt |-> g]  BY <1>13
  <2>. QED  BY <1>5, <2>1, <2>2, <2>4, <2>6, <2>7, PassWaits, Zenon
<1>14. CASE /\ o.state = "working" /\ PassEnds(v, g, NoOrder, dispositionForFailure("identity_conflict"))
            /\ UNCHANGED flattenOrders
  <2>1. PassEnds(v, g, NoOrder, "retire_attempt")  BY <1>7, <1>14, Zenon
  <2>2. "retire_attempt" \in Dispositions  BY DEF Dispositions
  <2>3. Placed(g)  BY <1>3, <1>14 DEF Placed
  <2>. QED  BY <1>5, <1>8, <1>14, <2>1, <2>2, <2>3, PassEndKeeps, Zenon
<1>. QED  BY <1>4, <1>9, <1>10, <1>11, <1>12, <1>13, <1>14, Zenon

(* The answer of a submission keeps the invariant. *)
LEMMA FlattenOneKeeps ==
    ASSUME LedgerInv, flattenOneResidual
    PROVE  LedgerInv'
<1>0. LedgerShape  BY DEF LedgerInv
<1>1. pass \in Passes  BY <1>0, Zenon DEF LedgerShape, flattenOneResidual
<1>2. PICK w : w = pass  OBVIOUS
<1>3. PICK v, g : v = w.residual /\ g = w.attempt  OBVIOUS
<1>4. v \in Residuals /\ g \in Generations  BY <1>1, <1>2, <1>3 DEF Passes
<1>5. v.quantity > 0 /\ IsPast(v) /\ IsNextOrder(v, g) /\ Placed(g)
  BY <1>1, <1>2, <1>3 DEF LedgerInv, PassAgrees
<1>6. PICK o : o = flattenOrders[g]  OBVIOUS
<1>7. UNCHANGED <<held, flattenOrders, ledger, memory, pending, today>>  BY Zenon DEF flattenOneResidual
<1>8. PICK d : d = IF o.state = "REJECTED" THEN dispositionForFailure("broker_rejected")
                   ELSE classifyResidualOrder(o, v.quantity)
  OBVIOUS
<1>9. PassEnds(v, g, o, d) \/ PassEnds(v, g, NoOrder, dispositionForFailure("broker_state_unknown"))
  BY <1>2, <1>3, <1>6, <1>8, Zenon DEF flattenOneResidual
<1>10. /\ dispositionForFailure("broker_rejected") = "adopt_attempt"
       /\ dispositionForFailure("broker_state_unknown") = "adopt_attempt"
  BY DEF dispositionForFailure
<1>11. d \in Dispositions /\ "adopt_attempt" \in Dispositions /\ "adopt_attempt" # "retire_attempt"
  BY <1>8, <1>10 DEF classifyResidualOrder, Dispositions
<1>12. CASE PassEnds(v, g, o, d)
  BY <1>4, <1>5, <1>6, <1>7, <1>11, <1>12, PassEndKeeps, Zenon
<1>13. CASE PassEnds(v, g, NoOrder, dispositionForFailure("broker_state_unknown"))
  <2>1. PassEnds(v, g, NoOrder, "adopt_attempt")  BY <1>10, <1>13, Zenon
  <2>. QED  BY <1>4, <1>5, <1>7, <1>11, <2>1, PassEndKeeps, Zenon
<1>. QED  BY <1>9, <1>12, <1>13

(* The broker moves one working order: every fill it reports left the account. *)
LEMMA BrokerKeeps ==
    ASSUME LedgerInv, NEW g \in Generations, BrokerFills(g) \/ BrokerEnds(g) \/ BrokerCancels(g)
    PROVE  LedgerInv'
<1>0. LedgerShape  BY DEF LedgerInv
<1>1. PICK o : o = flattenOrders[g]  OBVIOUS
<1>2. o \in FlattenOrder  BY <1>0, <1>1 DEF LedgerShape
<1>3. o.state = "working"
  <2>1. g \in Working  BY Zenon DEF BrokerFills, BrokerEnds, BrokerCancels
  <2>. QED  BY <1>1, <2>1 DEF Working
<1>4. o.filled \in Nat /\ o.filled + 1 \in Nat /\ held \in Int /\ held - 1 \in Int /\ held - 1 <= held /\ held <= held
      /\ held - 1 + (o.filled + 1) <= held + o.filled /\ held + o.filled <= held + o.filled
  BY <1>0, <1>2 DEF LedgerShape, FlattenOrder
<1>5. UNCHANGED <<ledger, memory, pass, pending, flights, today>>
  BY Zenon DEF BrokerFills, BrokerEnds, BrokerCancels
<1>6. PICK new : /\ new \in FlattenOrder /\ new.state \notin {"none", "local"} /\ new.quantity = o.quantity
                 /\ flattenOrders' = [flattenOrders EXCEPT ![g] = new]
                 /\ held' \in Int /\ held' <= held /\ held' + new.filled <= held + o.filled
  <2>1. CASE BrokerFills(g)
    <3>1. PICK s : s = IF o.filled + 1 = o.quantity THEN "COMPLETE" ELSE o.state  OBVIOUS
    <3>2. s \in FlattenStates /\ s \notin {"none", "local"}  BY <1>3, <3>1 DEF FlattenStates
    <3>3. PICK new : new = [o EXCEPT !.filled = o.filled + 1, !.state = s]  OBVIOUS
    <3>4. new \in FlattenOrder /\ new.state = s /\ new.quantity = o.quantity /\ new.filled = o.filled + 1
      BY <1>2, <1>4, <3>2, <3>3, Zenon DEF FlattenOrder
    <3>5. flattenOrders' = [flattenOrders EXCEPT ![g] = new]
      BY <1>1, <2>1, <3>1, <3>3, Zenon DEF BrokerFills
    <3>6. held' = held - 1  BY <2>1, Zenon DEF BrokerFills
    <3>. QED  BY <1>4, <3>2, <3>4, <3>5, <3>6, Zenon
  <2>2. CASE BrokerEnds(g) \/ BrokerCancels(g)
    <3>1. PICK s : /\ s \in FlattenStates /\ s \notin {"none", "local"}
                   /\ flattenOrders' = [flattenOrders EXCEPT ![g].state = s]
      <4>1. CASE BrokerEnds(g)
        <5>1. PICK s : s = IF flattenOrders[g].filled = 0 THEN "REJECTED" ELSE "CANCELLED"  OBVIOUS
        <5>2. s \in FlattenStates /\ s \notin {"none", "local"}  BY <5>1 DEF FlattenStates
        <5>. QED  BY <4>1, <5>1, <5>2, Zenon DEF BrokerEnds
      <4>2. CASE BrokerCancels(g)
        <5>1. "CANCELLED" \in FlattenStates /\ "CANCELLED" \notin {"none", "local"}  BY DEF FlattenStates
        <5>. QED  BY <4>2, <5>1, Zenon DEF BrokerCancels
      <4>. QED  BY <2>2, <4>1, <4>2
    <3>2. PICK new : new = [o EXCEPT !.state = s]  OBVIOUS
    <3>3. new \in FlattenOrder /\ new.state = s /\ new.quantity = o.quantity /\ new.filled = o.filled
      BY <1>2, <3>1, <3>2, Zenon DEF FlattenOrder
    <3>4. flattenOrders' = [flattenOrders EXCEPT ![g] = new]  BY <1>1, <3>1, <3>2, Zenon
    <3>5. held' = held  BY <2>2, Zenon DEF BrokerEnds, BrokerCancels
    <3>. QED  BY <1>4, <3>1, <3>3, <3>4, <3>5, Zenon
  <2>. QED  BY <2>1, <2>2
<1>7. flattenOrders' \in [Generations -> FlattenOrder]  BY <1>0, <1>6 DEF LedgerShape
<1>8. flattenOrders'[g] = new /\ \A h \in Generations : h # g => flattenOrders'[h] = flattenOrders[h]
  BY <1>0, <1>6 DEF LedgerShape
<1>9. LedgerShape'  BY <1>0, <1>5, <1>6, <1>7 DEF LedgerShape
<1>10. OrdersKeep
  <2>1. /\ Placed(g) /\ Placed(g)' /\ flattenOrders'[g].quantity = flattenOrders[g].quantity
        /\ held' + flattenOrders'[g].filled <= held + flattenOrders[g].filled
    BY <1>1, <1>3, <1>6, <1>8 DEF Placed
  <2>. QED  BY <1>5, <1>6, <1>8, <1>9, <2>1, OrderMoves
<1>11. \A f \in Retriers \cup {"pass"} : flights'[f] = flights[f]  BY <1>5
<1>12. /\ (memory.quantity > 0 => IsPast(memory))' /\ (pending \in Commands => CommandAgrees(pending))'
       /\ \A f \in Retriers \cup {"pass"} : FlightAgrees(f)'
       /\ PassAgrees'
  BY <1>5, <1>10, <1>11, CopiesStay
<1>. QED  BY <1>9, <1>10, <1>12 DEF LedgerInv, OrdersKeep

(* A step that touches the copies of the process only leaves the rest agreeing. *)
LEMMA CopyStep ==
    ASSUME LedgerInv, UNCHANGED <<held, flattenOrders, ledger>>, LedgerShape',
           memory' = memory \/ (memory.quantity > 0 => IsPast(memory))',
           pending' = pending \/ (pending \in Commands => CommandAgrees(pending))',
           \A f \in Retriers \cup {"pass"} : flights'[f] = flights[f] \/ FlightAgrees(f)',
           pass' = pass \/ PassAgrees'
    PROVE  LedgerInv'
<1>1. OrdersKeep  BY OrdersRest
<1>2. (memory.quantity > 0 => IsPast(memory))'  BY <1>1, CopiesStay
<1>3. (pending \in Commands => CommandAgrees(pending))'  BY <1>1, CopiesStay
<1>4. \A f \in Retriers \cup {"pass"} : FlightAgrees(f)'  BY <1>1, CopiesStay
<1>5. PassAgrees'  BY <1>1, CopiesStay
<1>. QED  BY <1>1, <1>2, <1>3, <1>4, <1>5 DEF LedgerInv, OrdersKeep

(* A retry sends a command that agrees. *)
LEMMA RetryKeeps ==
    ASSUME LedgerInv, NEW r \in Retriers, RetryPending(r)
    PROVE  LedgerInv'
<1>0. LedgerShape  BY DEF LedgerInv
<1>1. PICK c : c = pending  OBVIOUS
<1>2. c \in Commands /\ CommandAgrees(c)  BY <1>0, <1>1 DEF LedgerInv, LedgerShape, RetryPending
<1>3. PICK s : s = [command |-> c, result |-> NoAnswer]  OBVIOUS
<1>4. s \in Sendings /\ s.command = c /\ s.result = NoAnswer  BY <1>2, <1>3 DEF Sendings
<1>5. /\ flights' = [flights EXCEPT ![r] = s]
      /\ UNCHANGED <<held, flattenOrders, ledger>> /\ UNCHANGED <<memory, pass, pending, today>>
  BY <1>1, <1>3, Zenon DEF RetryPending
<1>6. LedgerShape'  BY <1>0, <1>4, <1>5 DEF LedgerShape
<1>7. OrdersKeep  BY <1>5, OrdersRest
<1>8. CommandAgrees(c)'  BY <1>2, <1>7 DEF OrdersKeep
<1>9. flights'[r] = s /\ \A f \in Retriers \cup {"pass"} : f # r => flights'[f] = flights[f]
  BY <1>0, <1>5 DEF LedgerShape
<1>10. FlightAgrees(r)'  BY <1>4, <1>8, <1>9, Absent DEF FlightAgrees
<1>. QED  BY <1>5, <1>6, <1>9, <1>10, CopyStep

(* A lost answer leaves its command pending. *)
LEMMA FailureKeeps ==
    ASSUME LedgerInv, NEW f \in Retriers \cup {"pass"}, LedgerFails(f)
    PROVE  LedgerInv'
<1>0. LedgerShape  BY DEF LedgerInv
<1>1. PICK s : s = flights[f]  OBVIOUS
<1>2. s \in Sendings  BY <1>0, <1>1 DEF LedgerShape, LedgerFails
<1>3. s.command \in Commands /\ CommandAgrees(s.command)
  BY <1>1, <1>2 DEF LedgerInv, FlightAgrees, Sendings
<1>4. /\ pending' = s.command \/ pending' = pending
      /\ pass' = Idle \/ pass' = pass
      /\ flights' = [flights EXCEPT ![f] = NoFlight]
      /\ UNCHANGED <<held, flattenOrders, ledger>> /\ UNCHANGED <<memory, today>>
  BY <1>1, Zenon DEF LedgerFails
<1>5. LedgerShape'  BY <1>0, <1>3, <1>4 DEF LedgerShape
<1>6. OrdersKeep  BY <1>4, OrdersRest
<1>7. CommandAgrees(s.command)'  BY <1>3, <1>6 DEF OrdersKeep
<1>8. pending' = pending \/ (pending \in Commands => CommandAgrees(pending))'  BY <1>4, <1>7
<1>9. pass' = pass \/ PassAgrees'  BY <1>4, Absent DEF PassAgrees
<1>10. flights'[f] = NoFlight /\ \A h \in Retriers \cup {"pass"} : h # f => flights'[h] = flights[h]
  BY <1>0, <1>4 DEF LedgerShape
<1>11. FlightAgrees(f)'  BY <1>10, Absent DEF FlightAgrees
<1>. QED  BY <1>4, <1>5, <1>8, <1>9, <1>10, <1>11, CopyStep

(* The row moves on, or stays: what was the row is now a copy it has moved on from. *)
LEMMA RowMoves ==
    ASSUME LedgerInv, ledger' \in AttemptRows, UNCHANGED <<held, flattenOrders>>,
           NEW n \in Residuals, ledger.quantity > 0, Covers(n), Passed(n.attempt),
           n.quantity <= ledger.quantity, ledger.attempt <= n.attempt,
           n.quantity # ledger.quantity \/ n.attempt # ledger.attempt,
           ledger'.quantity = n.quantity, ledger'.attempt = n.attempt, ledger'.accounted = n.accounted
    PROVE  OrdersKeep
<1>0. LedgerShape  BY DEF LedgerInv
<1>1. /\ ledger.quantity \in Nat /\ ledger.attempt \in Int /\ n.quantity \in Nat /\ n.attempt \in Int
  BY <1>0 DEF LedgerShape, AttemptRows, Residuals, Numbers
<1>2. Covers(ledger)' /\ Passed(ledger.attempt)'  BY DEF Covers, Counted, Placed, Passed
<1>3. LastIsPlaced'
  <2>. SUFFICES ASSUME NEW a \in Generations, NEW b \in Generations, n.attempt <= a, a < b,
                       flattenOrders[a].state # "local"
                PROVE  flattenOrders[b].state = "none"
    BY DEF LastIsPlaced
  <2>1. ledger.attempt <= a  BY <1>1 DEF Generations
  <2>. QED  BY <2>1 DEF LedgerInv, LastIsPlaced
<1>4. ASSUME NEW q \in Nat, NEW m \in Numbers, Older(q, m) \/ (q = ledger.quantity /\ m = ledger.attempt)
      PROVE  Older(q, m)'
  <2>1. m \in Int  BY DEF Numbers
  <2>. QED  BY <1>1, <1>4, <2>1 DEF Older
<1>5. ASSUME NEW v \in Residuals \cup AttemptRows, IsPast(v) PROVE IsPast(v)'
  <2>1. v.quantity \in Nat /\ v.attempt \in Numbers  BY DEF Residuals, AttemptRows
  <2>2. Older(v.quantity, v.attempt) \/ (v.quantity = ledger.quantity /\ v.attempt = ledger.attempt)
    BY <1>5 DEF IsPast
  <2>3. Older(v.quantity, v.attempt)'  BY <1>4, <2>1, <2>2
  <2>. QED  BY <2>3 DEF IsPast
<1>6. ASSUME NEW c \in Commands, CommandAgrees(c) PROVE CommandAgrees(c)'
  <2>1. c.expected[1] \in Nat /\ c.expected[2] \in Numbers  BY DEF Commands
  <2>2. \/ Older(c.expected[1], c.expected[2])
        \/ c.expected[1] = ledger.quantity /\ c.expected[2] = ledger.attempt
    BY <1>6 DEF CommandAgrees
  <2>3. Older(c.expected[1], c.expected[2])'  BY <1>4, <2>1, <2>2
  <2>. QED  BY <1>6, <2>3 DEF CommandAgrees
<1>7. ASSUME NEW v \in Residuals, NEW h \in Generations, IsNextOrder(v, h), Placed(h)
      PROVE  (IsNextOrder(v, h) /\ Placed(h))'
  BY <1>7 DEF IsNextOrder, Placed
<1>. QED  BY <1>2, <1>3, <1>5, <1>6, <1>7 DEF OrdersKeep

(* A command reaches the row: it applies once, to the row it expects, or changes nothing. *)
LEMMA ApplyKeeps ==
    ASSUME LedgerInv, NEW f \in Retriers \cup {"pass"}, LedgerApplies(f)
    PROVE  LedgerInv'
<1>0. LedgerShape  BY DEF LedgerInv
<1>1. PICK s, c : s = flights[f] /\ c = flights[f].command  OBVIOUS
<1>2. s \in Sendings /\ c \in Commands /\ CommandAgrees(c)
  <2>1. s \in Sendings  BY <1>0, <1>1 DEF LedgerShape, LedgerApplies, Sent
  <2>. QED  BY <1>1, <2>1 DEF LedgerInv, FlightAgrees, Sendings
<1>3. PICK old, new : old = ledger /\ new = applyBoxExecutionAttemptProjection(old, c)  OBVIOUS
<1>4. old \in AttemptRows  BY <1>0, <1>3 DEF LedgerShape
<1>5. /\ ledger' = new
      /\ UNCHANGED <<held, flattenOrders>> /\ UNCHANGED <<memory, pass, pending, today>>
  BY <1>1, <1>3, Zenon DEF LedgerApplies
<1>6. PICK r : r = [new EXCEPT !.applications = {}]  OBVIOUS
<1>7. flights' = [flights EXCEPT ![f].result = r]  BY <1>5, <1>6, Zenon DEF LedgerApplies
<1>8. PICK k : k = [s EXCEPT !.result = r]  OBVIOUS
<1>9. flights' = [flights EXCEPT ![f] = k]  BY <1>1, <1>7, <1>8, Zenon
<1>10. \/ new = old
       \/ /\ new = transitionResidualProjectionSnapshot(old, c)
          /\ residualProjectionIdentity(old) = c.expected
  BY Zenon, <1>3 DEF applyBoxExecutionAttemptProjection
<1>11. new \in AttemptRows /\ (new = old \/ OrdersKeep)
  <2>1. CASE new = old  BY <1>4, <2>1
  <2>2. CASE /\ new = transitionResidualProjectionSnapshot(old, c)
             /\ residualProjectionIdentity(old) = c.expected
    <3>1. c.next \in Residuals /\ c.charge \in Nat /\ c.day \in Nat /\ c.expected[1] > 0  BY <1>2 DEF Commands, CommandAgrees
    <3>2. /\ old.version + 1 \in Nat /\ old.charges + c.charge \in Nat /\ old.day \in Nat
          /\ old.forDay \in Nat /\ old.applications \cup {c} \in SUBSET Commands
      BY <1>2, <1>4, <3>1 DEF AttemptRows
    <3>3. PICK d, t : /\ d = (IF c.charge > 0 THEN c.day ELSE old.day)
                      /\ t = (IF c.charge > 0 THEN (IF old.day = c.day THEN old.forDay ELSE 0) + c.charge
                              ELSE old.forDay)
      OBVIOUS
    <3>4. d \in Nat /\ t \in Nat  BY <3>1, <3>2, <3>3
    <3>5. new = [quantity |-> c.next.quantity, attempt |-> c.next.attempt, accounted |-> c.next.accounted,
                 version |-> old.version + 1, charges |-> old.charges + c.charge, day |-> d, forDay |-> t,
                 applications |-> old.applications \cup {c}]
      BY <2>2, <3>3, Zenon DEF transitionResidualProjectionSnapshot
    <3>6. /\ new \in AttemptRows /\ new.quantity = c.next.quantity /\ new.attempt = c.next.attempt
          /\ new.accounted = c.next.accounted
      BY <3>1, <3>2, <3>4, <3>5 DEF AttemptRows, Residuals
    <3>7. old.quantity # 0 /\ c.expected = <<old.quantity, old.attempt>>
      <4>1. CASE old.quantity = 0
        <5>1. c.expected = <<0, 0>>  BY <2>2, <4>1 DEF residualProjectionIdentity
        <5>. QED  BY <3>1, <5>1
      <4>. QED  BY <2>2, <4>1 DEF residualProjectionIdentity
    <3>8. c.expected[1] = ledger.quantity /\ c.expected[2] = ledger.attempt  BY <1>3, <3>7
    <3>9. ~Older(c.expected[1], c.expected[2])  BY <3>8 DEF Older
    <3>10. /\ Covers(c.next) /\ Passed(c.next.attempt)
           /\ c.next.quantity <= ledger.quantity /\ ledger.attempt <= c.next.attempt
           /\ c.next.quantity # ledger.quantity \/ c.next.attempt # ledger.attempt
      BY <1>2, <3>8, <3>9 DEF CommandAgrees
    <3>11. ledger.quantity > 0  BY <1>3, <1>4, <3>7 DEF AttemptRows
    <3>12. /\ ledger' \in AttemptRows /\ ledger'.quantity = c.next.quantity
           /\ ledger'.attempt = c.next.attempt /\ ledger'.accounted = c.next.accounted
      BY <1>5, <3>6
    <3>13. OrdersKeep  BY <1>5, <3>1, <3>10, <3>11, <3>12, RowMoves
    <3>. QED  BY <3>6, <3>13
  <2>. QED  BY <1>10, <2>1, <2>2
<1>12. OrdersKeep
  <2>1. CASE new = old
    <3>1. UNCHANGED <<held, flattenOrders, ledger>>  BY <1>3, <1>5, <2>1
    <3>. QED  BY <3>1, OrdersRest
  <2>. QED  BY <1>11, <2>1
<1>13. r \in AttemptRows /\ r.quantity = new.quantity /\ r.attempt = new.attempt /\ r.accounted = new.accounted
  <2>1. {} \in SUBSET Commands  OBVIOUS
  <2>2. new \in AttemptRows  BY <1>11
  <2>. QED  BY <1>6, <2>1, <2>2, Zenon DEF AttemptRows
<1>14. k \in Sendings /\ k.command = c /\ k.result = r
  <2>1. r \in {NoAnswer} \cup AttemptRows  BY <1>13
  <2>. QED  BY <1>1, <1>2, <1>8, <2>1, Zenon DEF Sendings
<1>15. LedgerShape'  BY <1>0, <1>5, <1>9, <1>11, <1>14 DEF LedgerShape
<1>16. CommandAgrees(c)'  BY <1>2, <1>12 DEF OrdersKeep
<1>17. IsPast(r)'  BY <1>5, <1>13 DEF IsPast
<1>18. flights'[f] = k /\ \A h \in Retriers \cup {"pass"} : h # f => flights'[h] = flights[h]
  BY <1>0, <1>9 DEF LedgerShape
<1>19. FlightAgrees(f)'  BY <1>14, <1>16, <1>17, <1>18 DEF FlightAgrees
<1>20. \A h \in Retriers \cup {"pass"} : FlightAgrees(h)'  BY <1>12, <1>18, <1>19, CopiesStay
<1>21. /\ (memory.quantity > 0 => IsPast(memory))' /\ (pending \in Commands => CommandAgrees(pending))'
       /\ PassAgrees'
  BY <1>5, <1>12, CopiesStay
<1>. QED  BY <1>12, <1>15, <1>20, <1>21 DEF LedgerInv, OrdersKeep

(* An answer becomes what the process believes: the row, or what it moved on from. *)
LEMMA AnswerKeeps ==
    ASSUME LedgerInv, NEW f \in Retriers \cup {"pass"}, persistOwnedResidualProjection(f)
    PROVE  LedgerInv'
<1>0. LedgerShape  BY DEF LedgerInv
<1>1. PICK s, r : s = flights[f] /\ r = flights[f].result  OBVIOUS
<1>2. s \in Sendings /\ r \in AttemptRows
  <2>1. flights[f] # NoFlight /\ flights[f].result # NoAnswer  BY Zenon DEF persistOwnedResidualProjection
  <2>2. s \in Sendings  BY <1>0, <1>1, <2>1 DEF LedgerShape
  <2>. QED  BY <1>1, <2>1, <2>2 DEF Sendings
<1>3. r.quantity > 0 => IsPast(r)  BY <1>1, <1>2 DEF LedgerInv, FlightAgrees
<1>4. PICK m : m = IF r.quantity = 0 THEN Residual(0, 1, Unset, 0)
                   ELSE Residual(r.quantity, r.attempt, r.accounted, r.version)
  OBVIOUS
<1>5. /\ memory' = m /\ pending' = NoCommand /\ (pass' = Idle \/ pass' = pass)
      /\ flights' = [flights EXCEPT ![f] = NoFlight]
      /\ UNCHANGED <<held, flattenOrders, ledger>> /\ UNCHANGED today
  BY <1>1, <1>4, Zenon DEF persistOwnedResidualProjection
<1>6. /\ m \in Residuals
      /\ m.quantity > 0 => m.quantity = r.quantity /\ m.attempt = r.attempt /\ m.accounted = r.accounted
  BY <1>2, <1>4 DEF Residual, Residuals, AttemptRows, Marks, Numbers
<1>7. LedgerShape'  BY <1>0, <1>5, <1>6 DEF LedgerShape
<1>8. (memory.quantity > 0 => IsPast(memory))'
  <2>1. m.quantity > 0 => IsPast(m)'
    <3>. SUFFICES ASSUME m.quantity > 0 PROVE IsPast(m)'  OBVIOUS
    <3>1. IsPast(m)  BY <1>3, <1>6 DEF IsPast
    <3>. QED  BY <1>5, <3>1 DEF IsPast, Older
  <2>. QED  BY <1>5, <2>1
<1>9. (pending \in Commands => CommandAgrees(pending))'  BY <1>5, Absent
<1>10. pass' = pass \/ PassAgrees'  BY <1>5, Absent DEF PassAgrees
<1>11. flights'[f] = NoFlight /\ \A h \in Retriers \cup {"pass"} : h # f => flights'[h] = flights[h]
  BY <1>0, <1>5 DEF LedgerShape
<1>12. FlightAgrees(f)'  BY <1>11, Absent DEF FlightAgrees
<1>. QED  BY <1>5, <1>7, <1>8, <1>9, <1>10, <1>11, <1>12, CopyStep

(* A restart reads the row back and forgets everything else. *)
LEMMA RestartKeeps ==
    ASSUME LedgerInv, reconcileResidualExposure
    PROVE  LedgerInv'
<1>0. LedgerShape  BY DEF LedgerInv
<1>1. PICK m : m = IF ledger.quantity = 0 THEN Residual(0, 1, Unset, 0)
                   ELSE Residual(ledger.quantity, ledger.attempt, ledger.accounted, ledger.version)
  OBVIOUS
<1>2. /\ memory' = m /\ pending' = NoCommand /\ pass' = Idle
      /\ flights' = [h \in DOMAIN flights |-> NoFlight]
      /\ UNCHANGED <<held, flattenOrders, ledger>> /\ UNCHANGED today
  BY <1>1, Zenon DEF reconcileResidualExposure
<1>3. ledger \in AttemptRows  BY <1>0 DEF LedgerShape
<1>4. /\ m \in Residuals
      /\ m.quantity > 0 => /\ m.quantity = ledger.quantity /\ m.attempt = ledger.attempt
                           /\ m.accounted = ledger.accounted
  BY <1>1, <1>3 DEF Residual, Residuals, AttemptRows, Marks, Numbers
<1>5. flights' \in [Retriers \cup {"pass"} -> {NoFlight}]  BY <1>0, <1>2 DEF LedgerShape
<1>6. LedgerShape'  BY <1>0, <1>2, <1>4, <1>5 DEF LedgerShape
<1>7. (memory.quantity > 0 => IsPast(memory))'  BY <1>2, <1>4 DEF IsPast
<1>8. (pending \in Commands => CommandAgrees(pending))' /\ PassAgrees'  BY <1>2, Absent DEF PassAgrees
<1>9. \A h \in Retriers \cup {"pass"} : FlightAgrees(h)'  BY <1>5, Absent DEF FlightAgrees
<1>. QED  BY <1>2, <1>6, <1>7, <1>8, <1>9, CopyStep

(* The row as the aborted entry inserted it. *)
LEMMA LedgerStarts == LedgerInit => LedgerInv
<1>. SUFFICES ASSUME LedgerInit PROVE LedgerInv  OBVIOUS
<1>1. PICK row : row = insertBoxExecutionAttempt  OBVIOUS
<1>2. 1 \in Numbers /\ Quantity \in Nat /\ Unset \in Marks /\ 1 \in Nat  BY DEF Numbers, Marks
<1>3. row \in AttemptRows /\ row.quantity = Quantity /\ row.attempt = 1 /\ row.accounted = Unset
  BY <1>1, <1>2 DEF insertBoxExecutionAttempt, AttemptRows
<1>4. PICK m : m = Residual(Quantity, 1, Unset, 0)  OBVIOUS
<1>5. m \in Residuals /\ m.quantity = Quantity /\ m.attempt = 1 /\ m.accounted = Unset
  BY <1>2, <1>4 DEF Residual, Residuals
<1>6. /\ held = Quantity /\ flattenOrders = [g \in Generations |-> NoOrder] /\ ledger = row /\ memory = m
      /\ pass = Idle /\ pending = NoCommand /\ flights = [f \in Retriers \cup {"pass"} |-> NoFlight]
      /\ today = 1
  BY <1>1, <1>4, Zenon DEF LedgerInit
<1>7. NoOrder \in FlattenOrder /\ NoOrder.state = "none"  BY DEF NoOrder, FlattenOrder, FlattenStates
<1>8. LedgerShape  BY <1>2, <1>3, <1>5, <1>6, <1>7 DEF LedgerShape
<1>9. \A g \in Generations : flattenOrders[g].state = "none" /\ ~Placed(g)  BY <1>6, <1>7 DEF Placed
<1>10. Covers(ledger)  BY <1>2, <1>3, <1>6, <1>9 DEF Covers
<1>11. Passed(ledger.attempt)  BY <1>3, <1>6 DEF Passed, Generations
<1>12. LastIsPlaced  BY <1>9 DEF LastIsPlaced
<1>13. memory.quantity > 0 => IsPast(memory)  BY <1>3, <1>5, <1>6 DEF IsPast
<1>14. \A f \in Retriers \cup {"pass"} : FlightAgrees(f)  BY <1>6, Absent DEF FlightAgrees
<1>15. (pending \in Commands => CommandAgrees(pending)) /\ PassAgrees  BY <1>6, Absent DEF PassAgrees
<1>. QED  BY <1>8, <1>10, <1>11, <1>12, <1>13, <1>14, <1>15 DEF LedgerInv

(* Every step of the ledger keeps its invariant. *)
LEMMA LedgerStep == LedgerInv /\ [LedgerNext]_ledgerVars => LedgerInv'
<1>. SUFFICES ASSUME LedgerInv, [LedgerNext]_ledgerVars PROVE LedgerInv'  OBVIOUS
<1>0. LedgerShape  BY DEF LedgerInv
<1>1. \/ flattenResiduals
      \/ flattenOneResidual
      \/ \E g \in Generations : BrokerFills(g) \/ BrokerEnds(g) \/ BrokerCancels(g)
      \/ \E r \in Retriers : RetryPending(r)
      \/ \E f \in Retriers \cup {"pass"} :
           LedgerApplies(f) \/ LedgerFails(f) \/ persistOwnedResidualProjection(f)
      \/ reconcileResidualExposure
      \/ /\ UNCHANGED <<held, flattenOrders, ledger>> /\ UNCHANGED <<memory, pass, pending, flights>>
         /\ today' = today \/ today' = today + 1
  BY Zenon DEF LedgerNext, ledgerVars, MidnightPasses, rollTradingDay, refreshDailyRiskSeed,
     loadBoxLiveRiskSeed, seedLimits, abandonDailyRiskSeed, LateLoad
<1>2. CASE flattenResiduals  BY <1>2, FlattenKeeps
<1>3. CASE flattenOneResidual  BY <1>3, FlattenOneKeeps
<1>4. CASE \E g \in Generations : BrokerFills(g) \/ BrokerEnds(g) \/ BrokerCancels(g)
  BY <1>4, BrokerKeeps
<1>5. CASE \E r \in Retriers : RetryPending(r)  BY <1>5, RetryKeeps
<1>6. CASE \E f \in Retriers \cup {"pass"} :
             LedgerApplies(f) \/ LedgerFails(f) \/ persistOwnedResidualProjection(f)
  BY <1>6, ApplyKeeps, FailureKeeps, AnswerKeeps
<1>7. CASE reconcileResidualExposure  BY <1>7, RestartKeeps
<1>8. CASE /\ UNCHANGED <<held, flattenOrders, ledger>> /\ UNCHANGED <<memory, pass, pending, flights>>
           /\ today' = today \/ today' = today + 1
  <2>1. LedgerShape'  BY <1>0, <1>8 DEF LedgerShape
  <2>2. \A f \in Retriers \cup {"pass"} : flights'[f] = flights[f]  BY <1>8
  <2>. QED  BY <1>8, <2>1, <2>2, CopyStep
<1>. QED  BY <1>1, <1>2, <1>3, <1>4, <1>5, <1>6, <1>7, <1>8

(* The durable row never claims less exposure than the account holds, whichever answers are  *)
(* lost, retries overlap, orders are adopted or refused and restarts come between a fill and *)
(* its accounting (flattenOneResidual, carryResidualForward,                                 *)
(* applyBoxExecutionAttemptProjection).                                                      *)
THEOREM RowNeverUnderstates == LedgerSpec => []LedgerNeverUnderstates
<1>1. LedgerInv => LedgerNeverUnderstates
  BY DEF LedgerInv, LedgerShape, AttemptRows, Covers, LedgerNeverUnderstates
<1>. QED  BY <1>1, LedgerStarts, LedgerStep, PTL DEF LedgerSpec

-----------------------------------------------------------------------------
(* The charges of the flattening and the manager's debits (orderManager.ts, engine.ts). *)

Mutations == [previous : Nat, current : Nat]
SeedLoads == [day : Days, baseline : Marks, unresolved : BOOLEAN]

ChargesShape ==
    /\ today \in Days /\ managerDay \in Days /\ managerDay <= today
    /\ observed \in [Days -> Nat] /\ debited \in Nat /\ mutations \in Seq(Mutations)
    /\ seedHealthy \in BOOLEAN /\ overtaken \in BOOLEAN
    /\ seed \in {NoSeed} \cup SeedLoads /\ lateSeed \in {NoSeed} \cup SeedLoads
    /\ seed # NoSeed => seed.day = managerDay
    /\ seed = NoSeed => mutations = <<>>
    /\ seedHealthy => seed = NoSeed

(* A command carries a version the row had, and no day before the row's if it may apply. *)
CommandIsDated(c) ==
    /\ c.version <= ledger.version
    /\ c.version = ledger.version => ledger.day <= c.day
    /\ c.day \in Days /\ c.day <= today

(* An answer is the row at some version. *)
AnswerIsOfRow(r) ==
    /\ r.version <= ledger.version
    /\ r.version = ledger.version =>
         r.quantity = ledger.quantity /\ r.day = ledger.day /\ r.forDay = ledger.forDay
    /\ r.quantity = 0 => r.version = ledger.version
    /\ r.day <= ledger.day /\ (r.day = ledger.day => r.forDay <= ledger.forDay)
    /\ r.day \in {0} \cup Days

FlightIsDated(f) ==
    flights[f] # NoFlight =>
      /\ CommandIsDated(flights[f].command)
      /\ flights[f].result # NoAnswer => AnswerIsOfRow(flights[f].result)

RowIsDated == ledger.day \in {0} \cup Days /\ ledger.day <= today

MemoryIsDated ==
    /\ memory.version <= ledger.version
    /\ memory.quantity = 0 => ledger.quantity = 0

CopiesAreDated ==
    /\ RowIsDated /\ MemoryIsDated
    /\ pending # NoCommand => CommandIsDated(pending)
    /\ \A f \in Retriers \cup {"pass"} : FlightIsDated(f)

(* Nothing is taken for charged on a day that the row was not charged on that day. *)
Recorded(d, n) == n > 0 => d <= ledger.day /\ (d = ledger.day => n <= ledger.forDay)

LoadIsRecorded(load) == load # NoSeed => Recorded(load.day, load.baseline)

MarksAreRecorded ==
    /\ \A d \in Days : Recorded(d, observed[d])
    /\ LoadIsRecorded(seed) /\ LoadIsRecorded(lateSeed)

(* An amount that covers the watermark of the manager's day, and the row once it is known. *)
Suffices(n) ==
    /\ observed[managerDay] <= n
    /\ KnowsRow => boxExecutionAttemptDailyRiskContribution(today) <= n

Landing == seed.baseline + mergePostLoadFlattenCharges(mutations, seed.baseline)

DebitsSuffice ==
    managerDay = today /\ ~overtaken =>
      /\ seedHealthy => Suffices(debited)
      /\ seed # NoSeed /\ seed.baseline # Unset => Suffices(Landing)

(* The inductive invariant of the charges, beside that of the row. *)
ChargesInv == ChargesShape /\ CopiesAreDated /\ MarksAreRecorded /\ DebitsSuffice

(* What one noted charge adds to a seed. *)
LEMMA UnseededIsNat ==
    ASSUME NEW m \in Mutations, NEW b \in Nat
    PROVE  /\ Unseeded(m, b) \in Nat
           /\ \A t \in Nat : m.previous <= b + t => m.current <= b + (t + Unseeded(m, b))
  BY DEF Unseeded, Mutations

(* The sums of what the first charges of a sequence add. *)
Sums(s, b) ==
    CHOOSE f : f = [n \in 0 .. Len(s) |-> IF n = 0 THEN 0 ELSE f[n - 1] + Unseeded(s[n], b)]

LEMMA MergeIsSum ==
    ASSUME NEW s, NEW b
    PROVE  mergePostLoadFlattenCharges(s, b) = Sums(s, b)[Len(s)]
  BY Zenon DEF mergePostLoadFlattenCharges, Sums

(* They exist, one after the other. *)
LEMMA SumsExist ==
    ASSUME NEW s \in Seq(Mutations), NEW b \in Nat
    PROVE  /\ Sums(s, b) \in [0 .. Len(s) -> Nat] /\ Sums(s, b)[0] = 0
           /\ \A i \in 1 .. Len(s) : Sums(s, b)[i] = Sums(s, b)[i - 1] + Unseeded(s[i], b)
<1>1. PICK n : n = Len(s)  OBVIOUS
<1>2. n \in Nat  BY <1>1
<1>3. ASSUME NEW i \in 1 .. n PROVE Unseeded(s[i], b) \in Nat
  <2>1. s[i] \in Mutations  BY <1>1, <1>3
  <2>. QED  BY <2>1, UnseededIsNat
<1>4. PICK Reached : Reached = {k \in 0 .. n : \E f \in [0 .. k -> Nat] :
                        f[0] = 0 /\ \A i \in 1 .. k : f[i] = f[i - 1] + Unseeded(s[i], b)}
  OBVIOUS
<1>5. n \in Reached
  <2>. SUFFICES ASSUME n \notin Reached PROVE FALSE  OBVIOUS
  <2>1. PICK Short : Short = {k \in 0 .. n : k \notin Reached}  OBVIOUS
  <2>2. Short \in SUBSET Nat /\ Short # {}  BY <1>2, <2>1
  <2>3. PICK k \in Short : \A l \in Short : k <= l  BY <2>2, Smallest
  <2>4. k \in 0 .. n /\ k \notin Reached  BY <2>1, <2>3
  <2>5. k # 0
    <3>1. PICK f : f = [i \in 0 .. 0 |-> 0]  OBVIOUS
    <3>2. f \in [0 .. 0 -> Nat] /\ f[0] = 0 /\ \A i \in 1 .. 0 : f[i] = f[i - 1] + Unseeded(s[i], b)
      BY <3>1
    <3>. QED  BY <1>2, <1>4, <2>4, <3>2
  <2>6. k - 1 \in 0 .. n /\ k \in 1 .. n /\ ~(k <= k - 1)  BY <1>2, <2>4, <2>5
  <2>7. k - 1 \in Reached  BY <2>1, <2>3, <2>6
  <2>8. PICK f \in [0 .. k - 1 -> Nat] :
          f[0] = 0 /\ \A i \in 1 .. k - 1 : f[i] = f[i - 1] + Unseeded(s[i], b)
    BY <1>4, <2>7
  <2>9. PICK g : g = [i \in 0 .. k |-> IF i = k THEN f[k - 1] + Unseeded(s[k], b) ELSE f[i]]  OBVIOUS
  <2>10. f[k - 1] \in Nat /\ Unseeded(s[k], b) \in Nat  BY <1>3, <2>6, <2>8
  <2>11. g \in [0 .. k -> Nat]
    <3>1. ASSUME NEW i \in 0 .. k
          PROVE  (IF i = k THEN f[k - 1] + Unseeded(s[k], b) ELSE f[i]) \in Nat
      <4>1. CASE i = k  BY <2>10, <4>1
      <4>2. CASE i # k
        <5>1. i \in 0 .. k - 1  BY <2>6, <4>2
        <5>. QED  BY <2>8, <4>2, <5>1
      <4>. QED  BY <4>1, <4>2
    <3>. QED  BY <2>9, <3>1
  <2>12. g[0] = 0  BY <2>6, <2>8, <2>9
  <2>13. ASSUME NEW i \in 1 .. k PROVE g[i] = g[i - 1] + Unseeded(s[i], b)
    <3>1. g[i - 1] = f[i - 1]  BY <2>6, <2>9
    <3>2. CASE i = k  BY <2>9, <3>1, <3>2
    <3>3. CASE i # k
      <4>1. i \in 1 .. k - 1 /\ i \in 0 .. k  BY <2>6, <3>3
      <4>2. g[i] = f[i]  BY <2>9, <3>3, <4>1
      <4>. QED  BY <2>8, <3>1, <4>1, <4>2
    <3>. QED  BY <3>2, <3>3
  <2>. QED  BY <1>4, <2>4, <2>11, <2>12, <2>13
<1>6. PICK f \in [0 .. n -> Nat] :
        f[0] = 0 /\ \A i \in 1 .. n : f[i] = f[i - 1] + Unseeded(s[i], b)
  BY <1>4, <1>5
<1>7. f = [i \in 0 .. n |-> IF i = 0 THEN 0 ELSE f[i - 1] + Unseeded(s[i], b)]
  <2>1. ASSUME NEW i \in 0 .. n PROVE f[i] = IF i = 0 THEN 0 ELSE f[i - 1] + Unseeded(s[i], b)
    <3>1. CASE i = 0  BY <1>6, <3>1
    <3>2. CASE i # 0
      <4>1. i \in 1 .. n  BY <1>2, <3>2
      <4>. QED  BY <1>6, <3>2, <4>1
    <3>. QED  BY <3>1, <3>2
  <2>. QED  BY <1>6, <2>1
<1>8. PICK g : g = Sums(s, b)  OBVIOUS
<1>9. g = [i \in 0 .. n |-> IF i = 0 THEN 0 ELSE g[i - 1] + Unseeded(s[i], b)]
  BY <1>1, <1>7, <1>8, Zenon DEF Sums
<1>10. g[0] = 0 /\ \A i \in 1 .. n : g[i] = g[i - 1] + Unseeded(s[i], b)
  <2>1. 0 \in 0 .. n /\ \A i \in 1 .. n : i \in 0 .. n /\ i # 0  BY <1>2
  <2>. QED  BY <1>9, <2>1
<1>11. ASSUME NEW i \in 0 .. n, g[i] # f[i] PROVE FALSE
  <2>1. PICK Bad : Bad = {k \in 0 .. n : g[k] # f[k]}  OBVIOUS
  <2>2. Bad \in SUBSET Nat /\ Bad # {}  BY <1>2, <1>11, <2>1
  <2>3. PICK k \in Bad : \A l \in Bad : k <= l  BY <2>2, Smallest
  <2>4. k \in 0 .. n /\ g[k] # f[k]  BY <2>1, <2>3
  <2>5. k # 0  BY <1>6, <1>10, <2>4
  <2>6. k \in 1 .. n /\ k - 1 \in 0 .. n /\ ~(k <= k - 1)  BY <1>2, <2>4, <2>5
  <2>7. g[k - 1] = f[k - 1]  BY <2>1, <2>3, <2>6
  <2>. QED  BY <1>6, <1>10, <2>4, <2>6, <2>7
<1>12. g = f  BY <1>6, <1>9, <1>11
<1>. QED  BY <1>1, <1>6, <1>8, <1>12

(* A load that noted nothing adds nothing; one more charge adds its own part. *)
LEMMA MergeOfNone ==
    ASSUME NEW b \in Nat
    PROVE  mergePostLoadFlattenCharges(<<>>, b) = 0
<1>1. <<>> \in Seq(Mutations) /\ Len(<<>>) = 0  OBVIOUS
<1>. QED  BY <1>1, MergeIsSum, SumsExist

LEMMA MergeIsNat ==
    ASSUME NEW s \in Seq(Mutations), NEW b \in Nat
    PROVE  mergePostLoadFlattenCharges(s, b) \in Nat
<1>1. Len(s) \in 0 .. Len(s)  OBVIOUS
<1>. QED  BY <1>1, MergeIsSum, SumsExist

LEMMA MergeOfOneMore ==
    ASSUME NEW s \in Seq(Mutations), NEW m \in Mutations, NEW b \in Nat
    PROVE  mergePostLoadFlattenCharges(Append(s, m), b)
             = mergePostLoadFlattenCharges(s, b) + Unseeded(m, b)
<1>1. PICK t, n : t = Append(s, m) /\ n = Len(s)  OBVIOUS
<1>2. /\ t \in Seq(Mutations) /\ n \in Nat /\ Len(t) = n + 1 /\ t[n + 1] = m
      /\ \A i \in 1 .. n : t[i] = s[i]
  BY <1>1
<1>3. PICK f, g : f = Sums(s, b) /\ g = Sums(t, b)  OBVIOUS
<1>4. f[0] = 0 /\ \A i \in 1 .. n : f[i] = f[i - 1] + Unseeded(s[i], b)  BY <1>1, <1>3, SumsExist
<1>5. g[0] = 0 /\ \A i \in 1 .. n + 1 : g[i] = g[i - 1] + Unseeded(t[i], b)
  BY <1>2, <1>3, SumsExist
<1>6. ASSUME g[n] # f[n] PROVE FALSE
  <2>1. PICK Bad : Bad = {k \in 0 .. n : g[k] # f[k]}  OBVIOUS
  <2>2. Bad \in SUBSET Nat /\ Bad # {}  BY <1>2, <1>6, <2>1
  <2>3. PICK k \in Bad : \A l \in Bad : k <= l  BY <2>2, Smallest
  <2>4. k \in 0 .. n /\ g[k] # f[k]  BY <2>1, <2>3
  <2>5. k # 0  BY <1>4, <1>5, <2>4
  <2>6. k \in 1 .. n /\ k \in 1 .. n + 1 /\ k - 1 \in 0 .. n /\ ~(k <= k - 1)  BY <1>2, <2>4, <2>5
  <2>7. g[k - 1] = f[k - 1]  BY <2>1, <2>3, <2>6
  <2>8. t[k] = s[k]  BY <1>2, <2>6
  <2>. QED  BY <1>4, <1>5, <2>4, <2>6, <2>7, <2>8
<1>7. n + 1 \in 1 .. n + 1 /\ (n + 1) - 1 = n  BY <1>2
<1>8. g[n + 1] = g[n] + Unseeded(m, b)  BY <1>2, <1>5, <1>7
<1>. QED  BY <1>1, <1>2, <1>3, <1>6, <1>8, MergeIsSum

(* What a step that moves neither the row nor the debits leaves as it was. *)
LEMMA ChargesRest ==
    ASSUME ChargesInv, UNCHANGED <<ledger, memory, today, observed, managerVars>>,
           pending' # NoCommand => CommandIsDated(pending'),
           \A f \in Retriers \cup {"pass"} : FlightIsDated(f)'
    PROVE  ChargesInv'
<1>1. /\ today' = today /\ managerDay' = managerDay /\ observed' = observed /\ debited' = debited
      /\ mutations' = mutations /\ seedHealthy' = seedHealthy /\ overtaken' = overtaken
      /\ seed' = seed /\ lateSeed' = lateSeed /\ ledger' = ledger /\ memory' = memory
  BY DEF managerVars
<1>2. ChargesShape'  BY <1>1 DEF ChargesInv, ChargesShape
<1>3. RowIsDated' /\ MemoryIsDated'  BY <1>1 DEF ChargesInv, CopiesAreDated, RowIsDated, MemoryIsDated
<1>4. CopiesAreDated'  BY <1>1, <1>3 DEF CopiesAreDated, CommandIsDated
<1>5. MarksAreRecorded'  BY <1>1 DEF ChargesInv, MarksAreRecorded, LoadIsRecorded, Recorded
<1>6. DebitsSuffice'
  BY <1>1 DEF ChargesInv, DebitsSuffice, Suffices, Landing, KnowsRow, boxExecutionAttemptDailyRiskContribution
<1>. QED  BY <1>2, <1>4, <1>5, <1>6 DEF ChargesInv

(* Commands and answers stay dated while the row and the calendar stand. *)
LEMMA FlightsStayDated ==
    ASSUME ChargesInv, UNCHANGED <<ledger, today>>
    PROVE  /\ \A c \in Commands : CommandIsDated(c) => CommandIsDated(c)'
           /\ \A f \in Retriers \cup {"pass"} : flights'[f] = flights[f] => FlightIsDated(f)'
           /\ pending' = pending => (pending' # NoCommand => CommandIsDated(pending'))
<1>1. \A f \in Retriers \cup {"pass"} : FlightIsDated(f)  BY DEF ChargesInv, CopiesAreDated
<1>2. pending # NoCommand => CommandIsDated(pending)  BY DEF ChargesInv, CopiesAreDated
<1>. QED  BY <1>1, <1>2 DEF CommandIsDated, FlightIsDated, AnswerIsOfRow

(* A pass that ends sends a command of the version it knows, dated today. *)
LEMMA PassKeepsCharges ==
    ASSUME LedgerInv, ChargesInv, flattenResiduals \/ flattenOneResidual
    PROVE  ChargesInv'
<1>1. UNCHANGED <<ledger, memory, pending, observed, today, managerVars>>
  BY Zenon DEF flattenResiduals, flattenOneResidual
<1>2. flights' = flights \/ \E v, a, o, d : PassEnds(v, a, o, d)
  BY Zenon DEF flattenResiduals, flattenOneResidual
<1>3. \A f \in Retriers \cup {"pass"} : FlightIsDated(f)'
  <2>1. CASE flights' = flights  BY <1>1, <2>1, FlightsStayDated
  <2>2. ASSUME NEW v, NEW a, NEW o, NEW d, PassEnds(v, a, o, d), flights' # flights
        PROVE  \A f \in Retriers \cup {"pass"} : FlightIsDated(f)'
    <3>1. PICK result : result = flattenResidual(v, a, o, d)  OBVIOUS
    <3>2. PICK c : c = createResidualProjectionCommand(memory.version, v, result.remaining, result.charges, today)
      OBVIOUS
    <3>3. flights' = [flights EXCEPT !["pass"] = [command |-> c, result |-> NoAnswer]]
      BY <2>2, <3>1, <3>2, Zenon DEF PassEnds
    <3>4. c.version = memory.version /\ c.day = today  BY <3>2 DEF createResidualProjectionCommand
    <3>5. CommandIsDated(c)
      BY <3>4 DEF ChargesInv, ChargesShape, CopiesAreDated, RowIsDated, MemoryIsDated, CommandIsDated, Days
    <3>6. CommandIsDated(c)'  BY <1>1, <3>5 DEF CommandIsDated
    <3>7. DOMAIN flights = Retriers \cup {"pass"}  BY DEF LedgerInv, LedgerShape
    <3>8. flights'["pass"] = [command |-> c, result |-> NoAnswer]  BY <3>3, <3>7
    <3>9. \A f \in Retriers \cup {"pass"} : f # "pass" => flights'[f] = flights[f]  BY <3>3, <3>7
    <3>10. FlightIsDated("pass")'  BY <3>6, <3>8 DEF FlightIsDated
    <3>. QED  BY <1>1, <3>9, <3>10, FlightsStayDated
  <2>. QED  BY <1>2, <2>1, <2>2
<1>. QED  BY <1>1, <1>3, FlightsStayDated, ChargesRest

(* A retry, and an answer that is lost, move a command that is dated. *)
LEMMA RetryKeepsCharges ==
    ASSUME LedgerInv, ChargesInv, NEW f \in Retriers \cup {"pass"}, RetryPending(f) \/ LedgerFails(f)
    PROVE  ChargesInv'
<1>1. UNCHANGED <<ledger, memory, observed, today, managerVars>>
  BY Zenon DEF RetryPending, LedgerFails
<1>2. DOMAIN flights = Retriers \cup {"pass"}  BY DEF LedgerInv, LedgerShape
<1>3. CASE RetryPending(f)
  <2>1. flights' = [flights EXCEPT ![f] = [command |-> pending, result |-> NoAnswer]]
        /\ pending' = pending /\ pending # NoCommand
    BY <1>3, Zenon DEF RetryPending
  <2>2. flights'[f] = [command |-> pending, result |-> NoAnswer]  BY <1>2, <2>1
  <2>3. \A h \in Retriers \cup {"pass"} : h # f => flights'[h] = flights[h]  BY <1>2, <2>1
  <2>4. CommandIsDated(pending)  BY <2>1 DEF ChargesInv, CopiesAreDated
  <2>5. FlightIsDated(f)'  BY <1>1, <2>2, <2>4 DEF FlightIsDated, CommandIsDated
  <2>. QED  BY <1>1, <2>1, <2>3, <2>5, FlightsStayDated, ChargesRest
<1>4. CASE LedgerFails(f)
  <2>1. /\ flights' = [flights EXCEPT ![f] = NoFlight] /\ flights[f] # NoFlight
        /\ pending' = flights[f].command \/ pending' = pending
    BY <1>4, Zenon DEF LedgerFails
  <2>2. flights'[f] = NoFlight  BY <1>2, <2>1
  <2>3. \A h \in Retriers \cup {"pass"} : h # f => flights'[h] = flights[h]  BY <1>2, <2>1
  <2>4. CommandIsDated(flights[f].command)  BY <2>1 DEF ChargesInv, CopiesAreDated, FlightIsDated
  <2>5. FlightIsDated(f)'  BY <2>2 DEF FlightIsDated
  <2>6. pending' # NoCommand => CommandIsDated(pending')  BY <1>1, <2>1, <2>4, FlightsStayDated
  <2>. QED  BY <1>1, <2>3, <2>5, <2>6, FlightsStayDated, ChargesRest
<1>. QED  BY <1>3, <1>4

(* What the row becomes when it takes a command: a later version, of no earlier day. *)
LEMMA RowAdvances ==
    ASSUME LedgerInv, ChargesInv, NEW c \in Commands, CommandAgrees(c), CommandIsDated(c),
           NEW new, new = applyBoxExecutionAttemptProjection(ledger, c), new # ledger
    PROVE  /\ new.version = ledger.version + 1 /\ ledger.quantity > 0
           /\ new.day \in {0} \cup Days /\ new.day <= today /\ ledger.day <= new.day
           /\ new.day = ledger.day => ledger.forDay <= new.forDay
<1>1. /\ new = transitionResidualProjectionSnapshot(ledger, c)
      /\ residualProjectionIdentity(ledger) = c.expected /\ c.version = ledger.version
  BY Zenon DEF applyBoxExecutionAttemptProjection
<1>2. ledger \in AttemptRows  BY DEF LedgerInv, LedgerShape
<1>3. /\ ledger.quantity \in Nat /\ ledger.day \in Nat /\ ledger.forDay \in Nat /\ c.charge \in Nat
      /\ c.expected[1] > 0
  BY <1>2 DEF AttemptRows, Commands, CommandAgrees
<1>4. ledger.quantity > 0
  <2>1. CASE ledger.quantity = 0
    <3>1. c.expected = <<0, 0>>  BY <1>1, <2>1 DEF residualProjectionIdentity
    <3>. QED  BY <1>3, <3>1
  <2>. QED  BY <1>3, <2>1
<1>5. c.day \in Days /\ c.day <= today /\ ledger.day <= c.day  BY <1>1 DEF CommandIsDated
<1>6. ledger.day \in {0} \cup Days /\ ledger.day <= today  BY DEF ChargesInv, CopiesAreDated, RowIsDated
<1>7. /\ new.version = ledger.version + 1
      /\ new.day = (IF c.charge > 0 THEN c.day ELSE ledger.day)
      /\ new.forDay = (IF c.charge > 0 THEN (IF ledger.day = c.day THEN ledger.forDay ELSE 0) + c.charge
                       ELSE ledger.forDay)
  BY <1>1 DEF transitionResidualProjectionSnapshot
<1>8. CASE c.charge > 0  BY <1>3, <1>4, <1>5, <1>7, <1>8
<1>9. CASE ~(c.charge > 0)  BY <1>3, <1>4, <1>6, <1>7, <1>9
<1>. QED  BY <1>8, <1>9

(* A command at the row: copies of the row become older ones, and nothing is debited. *)
LEMMA ApplyKeepsCharges ==
    ASSUME LedgerInv, ChargesInv, NEW f \in Retriers \cup {"pass"}, LedgerApplies(f)
    PROVE  ChargesInv'
<1>0. LedgerShape  BY DEF LedgerInv
<1>1. PICK s, c : s = flights[f] /\ c = flights[f].command  OBVIOUS
<1>2. s \in Sendings /\ s # NoFlight /\ c \in Commands /\ CommandAgrees(c)
  <2>1. s \in Sendings /\ s # NoFlight  BY <1>0, <1>1 DEF LedgerShape, LedgerApplies, Sent
  <2>. QED  BY <1>1, <2>1 DEF LedgerInv, FlightAgrees, Sendings
<1>3. CommandIsDated(c)  BY <1>1, <1>2 DEF ChargesInv, CopiesAreDated, FlightIsDated
<1>4. PICK new, r : /\ new = applyBoxExecutionAttemptProjection(ledger, c)
                    /\ r = [new EXCEPT !.applications = {}]
  OBVIOUS
<1>5. /\ ledger' = new /\ flights' = [flights EXCEPT ![f].result = r]
      /\ UNCHANGED <<held, flattenOrders, memory, pass, pending, observed, today, managerVars, boundVars>>
  BY <1>1, <1>4, Zenon DEF LedgerApplies
<1>6. new \in AttemptRows /\ ledger \in AttemptRows /\ memory \in Residuals
  BY <1>0, <1>5, LedgerStep DEF LedgerInv, LedgerShape, LedgerNext
<1>7. flights'[f].command = c /\ flights'[f].result = r
  BY <1>0, <1>1, <1>2, <1>5 DEF LedgerShape, Sendings
<1>8. \A h \in Retriers \cup {"pass"} : h # f => flights'[h] = flights[h]
  BY <1>0, <1>5 DEF LedgerShape
<1>9. r.version = new.version /\ r.quantity = new.quantity /\ r.day = new.day /\ r.forDay = new.forDay
  BY <1>4, <1>6 DEF AttemptRows
<1>10. /\ new.version \in Nat /\ new.day \in Nat /\ new.forDay \in Nat /\ new.quantity \in Nat
       /\ ledger.version \in Nat /\ ledger.day \in Nat /\ ledger.forDay \in Nat /\ ledger.quantity \in Nat
       /\ memory.version \in Nat /\ memory.quantity \in Nat /\ today \in Nat
  BY <1>0, <1>6 DEF AttemptRows, Residuals, LedgerShape
<1>11. RowIsDated /\ MemoryIsDated /\ \A h \in Retriers \cup {"pass"} : FlightIsDated(h)
  BY DEF ChargesInv, CopiesAreDated
<1>12. /\ today' = today /\ managerDay' = managerDay /\ observed' = observed /\ debited' = debited
       /\ mutations' = mutations /\ seedHealthy' = seedHealthy /\ overtaken' = overtaken
       /\ seed' = seed /\ lateSeed' = lateSeed /\ memory' = memory /\ pending' = pending
  BY <1>5 DEF managerVars
<1>13. ChargesShape'  BY <1>12 DEF ChargesInv, ChargesShape
<1>14. CASE new = ledger
  <2>1. AnswerIsOfRow(r)'
    BY <1>5, <1>9, <1>10, <1>11, <1>14 DEF AnswerIsOfRow, RowIsDated
  <2>2. FlightIsDated(f)'
    BY <1>3, <1>5, <1>7, <1>12, <1>14, <2>1 DEF FlightIsDated, CommandIsDated
  <2>3. UNCHANGED <<ledger, memory, today, observed, managerVars>>  BY <1>5, <1>14
  <2>. QED  BY <1>8, <1>12, <2>2, <2>3, FlightsStayDated, ChargesRest
<1>15. CASE new # ledger
  <2>1. /\ new.version = ledger.version + 1 /\ ledger.quantity > 0
        /\ new.day \in {0} \cup Days /\ new.day <= today /\ ledger.day <= new.day
        /\ new.day = ledger.day => ledger.forDay <= new.forDay
    BY <1>2, <1>3, <1>4, <1>15, RowAdvances
  <2>2. RowIsDated'  BY <1>5, <1>12, <2>1 DEF RowIsDated
  <2>3. memory.version <= ledger.version /\ memory.quantity # 0  BY <1>10, <1>11, <2>1 DEF MemoryIsDated
  <2>4. MemoryIsDated'  BY <1>5, <1>10, <1>12, <2>1, <2>3 DEF MemoryIsDated
  <2>5. ~KnowsRow'
    <3>1. ~(memory.version = new.version)  BY <1>10, <2>1, <2>3
    <3>. QED  BY <1>5, <1>12, <2>3, <3>1 DEF KnowsRow
  <2>6. ASSUME NEW x \in Commands, CommandIsDated(x) PROVE CommandIsDated(x)'
    BY <1>5, <1>10, <1>12, <2>1, <2>6 DEF CommandIsDated, Commands
  <2>7. ASSUME NEW x \in AttemptRows, AnswerIsOfRow(x) PROVE AnswerIsOfRow(x)'
    <3>1. /\ x.version \in Nat /\ x.day \in Nat /\ x.forDay \in Nat
          /\ x.version <= ledger.version /\ x.quantity # 0
          /\ x.day <= ledger.day /\ (x.day = ledger.day => x.forDay <= ledger.forDay)
          /\ x.day \in {0} \cup Days
      BY <2>1, <2>7 DEF AnswerIsOfRow, AttemptRows
    <3>2. /\ x.version <= new.version /\ x.version # new.version
          /\ x.day <= new.day /\ (x.day = new.day => x.forDay <= new.forDay)
      BY <1>10, <2>1, <3>1
    <3>. QED  BY <1>5, <3>1, <3>2 DEF AnswerIsOfRow
  <2>8. AnswerIsOfRow(r)'
    BY <1>5, <1>9, <1>10, <2>1 DEF AnswerIsOfRow
  <2>9. FlightIsDated(f)'  BY <1>2, <1>3, <1>7, <2>6, <2>8 DEF FlightIsDated
  <2>10. ASSUME NEW h \in Retriers \cup {"pass"}, h # f PROVE FlightIsDated(h)'
    <3>1. flights[h] \in {NoFlight} \cup Sendings  BY <1>0 DEF LedgerShape
    <3>2. CASE flights[h] = NoFlight  BY <1>8, <2>10, <3>2 DEF FlightIsDated
    <3>3. CASE flights[h] # NoFlight
      <4>1. flights[h].command \in Commands /\ flights[h].result \in {NoAnswer} \cup AttemptRows
        BY <3>1, <3>3 DEF Sendings
      <4>2. /\ CommandIsDated(flights[h].command)
            /\ flights[h].result # NoAnswer => AnswerIsOfRow(flights[h].result)
        BY <1>11, <3>3 DEF FlightIsDated
      <4>. QED  BY <1>8, <2>6, <2>7, <2>10, <4>1, <4>2 DEF FlightIsDated
    <3>. QED  BY <3>2, <3>3
  <2>11. (pending # NoCommand => CommandIsDated(pending))'
    <3>1. pending \in {NoCommand} \cup Commands  BY <1>0 DEF LedgerShape
    <3>. QED  BY <1>12, <2>6, <3>1 DEF ChargesInv, CopiesAreDated
  <2>12. CopiesAreDated'  BY <2>2, <2>4, <2>9, <2>10, <2>11 DEF CopiesAreDated
  <2>13. ASSUME NEW d \in Int, NEW n \in Int, Recorded(d, n) PROVE Recorded(d, n)'
    BY <1>5, <1>10, <2>1, <2>13 DEF Recorded
  <2>14. MarksAreRecorded'
    <3>1. /\ observed \in [Days -> Nat] /\ seed \in {NoSeed} \cup SeedLoads
          /\ lateSeed \in {NoSeed} \cup SeedLoads
      BY DEF ChargesInv, ChargesShape
    <3>2. \A d \in Days : d \in Int /\ observed[d] \in Int  BY <3>1 DEF Days
    <3>3. \A l \in SeedLoads : l.day \in Int /\ l.baseline \in Int  BY DEF SeedLoads, Days, Marks, Unset
    <3>. QED  BY <1>12, <2>13, <3>1, <3>2, <3>3 DEF ChargesInv, MarksAreRecorded, LoadIsRecorded
  <2>15. DebitsSuffice'  BY <1>12, <2>5 DEF ChargesInv, DebitsSuffice, Suffices, Landing
  <2>. QED  BY <1>13, <2>12, <2>14, <2>15 DEF ChargesInv
<1>. QED  BY <1>14, <1>15

(* An answer becomes what the process believes: what it raises the watermark by is debited, *)
(* and noted for the load in flight.                                                        *)
LEMMA AnswerKeepsCharges ==
    ASSUME LedgerInv, ChargesInv, NEW f \in Retriers \cup {"pass"}, persistOwnedResidualProjection(f)
    PROVE  ChargesInv'
<1>0. LedgerShape  BY DEF LedgerInv
<1>1. PICK r : r = flights[f].result  OBVIOUS
<1>2. r \in AttemptRows /\ AnswerIsOfRow(r)
  <2>1. flights[f] # NoFlight /\ flights[f].result # NoAnswer  BY Zenon DEF persistOwnedResidualProjection
  <2>2. flights[f] \in Sendings  BY <1>0, <2>1 DEF LedgerShape
  <2>3. AnswerIsOfRow(r)  BY <1>1, <2>1 DEF ChargesInv, CopiesAreDated, FlightIsDated
  <2>. QED  BY <1>1, <2>1, <2>2, <2>3 DEF Sendings
<1>3. PICK fresh : fresh = (r.day # 0 /\ r.forDay > observed[r.day])  OBVIOUS
<1>4. PICK marks : marks = IF fresh THEN [observed EXCEPT ![r.day] = r.forDay] ELSE observed  OBVIOUS
<1>5. /\ IF fresh THEN recordFlattenCharge(r.day, observed[r.day], r.forDay)
         ELSE UNCHANGED <<debited, mutations>>
      /\ observed' = IF r.quantity = 0 THEN compactObservedFlattenChargeWatermarks(marks) ELSE marks
      /\ memory' = IF r.quantity = 0 THEN Residual(0, 1, Unset, 0)
                   ELSE Residual(r.quantity, r.attempt, r.accounted, r.version)
      /\ pending' = NoCommand /\ flights' = [flights EXCEPT ![f] = NoFlight]
      /\ ledger' = ledger /\ today' = today /\ managerDay' = managerDay /\ seed' = seed
      /\ seedHealthy' = seedHealthy /\ lateSeed' = lateSeed /\ overtaken' = overtaken
  BY <1>1, <1>3, <1>4, Zenon DEF persistOwnedResidualProjection
<1>6. ChargesShape /\ CopiesAreDated /\ MarksAreRecorded /\ DebitsSuffice  BY DEF ChargesInv
<1>7. /\ r.day \in {0} \cup Days /\ r.forDay \in Nat /\ r.quantity \in Nat /\ r.version \in Nat
      /\ ledger.version \in Nat /\ ledger.day \in Nat /\ ledger.forDay \in Nat /\ ledger.quantity \in Nat
  BY <1>0, <1>2 DEF AttemptRows, AnswerIsOfRow, LedgerShape
<1>8. /\ observed \in [Days -> Nat] /\ managerDay \in Days /\ today \in Days /\ debited \in Nat
      /\ mutations \in Seq(Mutations) /\ seed \in {NoSeed} \cup SeedLoads
      /\ seed # NoSeed => seed.day = managerDay
  BY <1>6 DEF ChargesShape
<1>9. fresh => r.day \in Days /\ observed[r.day] \in Nat /\ observed[r.day] < r.forDay
  BY <1>3, <1>7, <1>8
<1>10. marks \in [Days -> Nat] /\ \A d \in Days : marks[d] = observed[d] \/ (fresh /\ d = r.day /\ marks[d] = r.forDay)
  BY <1>4, <1>7, <1>8, <1>9
<1>11. observed' \in [Days -> Nat]
       /\ \A d \in Days : \/ observed'[d] = 0 \/ observed'[d] = observed[d]
                          \/ (fresh /\ d = r.day /\ observed'[d] = r.forDay)
  <2>1. CASE r.quantity = 0
    <3>1. observed' = [d \in Days |-> 0]
      BY <1>5, <2>1 DEF compactObservedFlattenChargeWatermarks
    <3>. QED  BY <3>1
  <2>2. CASE r.quantity # 0
    <3>1. observed' = marks  BY <1>5, <2>2
    <3>. QED  BY <1>10, <3>1
  <2>. QED  BY <2>1, <2>2
<1>12. PICK m : m = [previous |-> observed[r.day], current |-> r.forDay]  OBVIOUS
<1>13. /\ (fresh /\ r.day = managerDay) =>
             /\ debited' = debited + (r.forDay - observed[r.day])
             /\ mutations' = IF seed # NoSeed THEN Append(mutations, m) ELSE mutations
             /\ m \in Mutations /\ m.previous = observed[managerDay] /\ m.current = r.forDay
       /\ ~(fresh /\ r.day = managerDay) => debited' = debited /\ mutations' = mutations
  BY <1>5, <1>7, <1>8, <1>9, <1>12 DEF recordFlattenCharge, Mutations
<1>14. debited' \in Nat /\ mutations' \in Seq(Mutations)
  <2>1. CASE fresh /\ r.day = managerDay
    <3>1. Append(mutations, m) \in Seq(Mutations)  BY <1>8, <1>13, <2>1
    <3>2. debited \in Nat /\ r.forDay \in Nat /\ observed[r.day] \in Nat /\ observed[r.day] < r.forDay
      BY <1>7, <1>8, <1>9, <2>1
    <3>3. debited + (r.forDay - observed[r.day]) \in Nat  BY <3>2
    <3>. QED  BY <1>13, <2>1, <3>1, <3>3
  <2>2. CASE ~(fresh /\ r.day = managerDay)  BY <1>8, <1>13, <2>2
  <2>. QED  BY <2>1, <2>2
<1>15. ChargesShape'  BY <1>5, <1>6, <1>11, <1>13, <1>14 DEF ChargesShape
<1>16. /\ memory'.quantity = r.quantity
       /\ memory'.version = IF r.quantity = 0 THEN 0 ELSE r.version
  BY <1>5 DEF Residual
<1>17. MemoryIsDated'  BY <1>2, <1>5, <1>7, <1>16 DEF MemoryIsDated, AnswerIsOfRow
<1>18. CopiesAreDated'
  <2>1. DOMAIN flights = Retriers \cup {"pass"}  BY <1>0 DEF LedgerShape
  <2>2. FlightIsDated(f)'  BY <1>5, <2>1 DEF FlightIsDated
  <2>3. \A h \in Retriers \cup {"pass"} : h # f => flights'[h] = flights[h]  BY <1>5, <2>1
  <2>4. \A h \in Retriers \cup {"pass"} : FlightIsDated(h)'  BY <1>5, <2>2, <2>3, FlightsStayDated
  <2>5. RowIsDated'  BY <1>5, <1>6 DEF CopiesAreDated, RowIsDated
  <2>. QED  BY <1>5, <1>17, <2>4, <2>5 DEF CopiesAreDated
<1>19. MarksAreRecorded'
  <2>1. ASSUME NEW d \in Days PROVE Recorded(d, observed'[d])
    <3>1. Recorded(d, observed[d])  BY <1>6 DEF MarksAreRecorded
    <3>2. Recorded(d, 0)  BY DEF Recorded
    <3>3. d = r.day => Recorded(d, r.forDay)  BY <1>2 DEF Recorded, AnswerIsOfRow
    <3>. QED  BY <1>11, <3>1, <3>2, <3>3
  <2>2. \A d \in Days : Recorded(d, observed[d])'  BY <1>5, <2>1 DEF Recorded
  <2>. QED  BY <1>5, <1>6, <2>2 DEF MarksAreRecorded, LoadIsRecorded, Recorded
<1>20. ASSUME managerDay = today, NEW n \in Nat, NEW k \in Nat, observed[managerDay] <= n, n <= k,
              fresh /\ r.day = managerDay => r.forDay <= k
       PROVE  /\ observed'[managerDay] <= k
              /\ KnowsRow' => boxExecutionAttemptDailyRiskContribution(today)' <= k
  <2>1. observed'[managerDay] <= k
    <3>1. observed[managerDay] \in Nat  BY <1>8
    <3>. QED  BY <1>8, <1>11, <1>20, <3>1
  <2>2. ASSUME KnowsRow' PROVE r.day = ledger.day /\ r.forDay = ledger.forDay
    <3>1. r.version = ledger.version
      BY <1>2, <1>5, <1>16, <2>2 DEF KnowsRow, AnswerIsOfRow
    <3>. QED  BY <1>2, <3>1 DEF AnswerIsOfRow
  <2>3. ASSUME KnowsRow', ledger.day = today PROVE ledger.forDay <= k
    <3>1. r.day = managerDay /\ r.forDay = ledger.forDay /\ observed[managerDay] \in Nat
      BY <1>8, <1>20, <2>2, <2>3
    <3>2. CASE fresh  BY <1>20, <3>1, <3>2
    <3>3. CASE ~fresh
      <4>1. r.day # 0  BY <1>8, <3>1 DEF Days
      <4>2. ~(r.forDay > observed[managerDay])  BY <1>3, <3>1, <3>3, <4>1
      <4>3. r.forDay <= observed[managerDay]  BY <1>7, <3>1, <4>2
      <4>. QED  BY <1>7, <1>20, <3>1, <4>3
    <3>. QED  BY <3>2, <3>3
  <2>. QED  BY <1>5, <1>20, <2>1, <2>3 DEF boxExecutionAttemptDailyRiskContribution
<1>21. DebitsSuffice'
  <2>. SUFFICES ASSUME managerDay = today, ~overtaken
                PROVE  /\ seedHealthy => Suffices(debited)'
                       /\ seed # NoSeed /\ seed.baseline # Unset => Suffices(Landing)'
    BY <1>5 DEF DebitsSuffice
  <2>1. ASSUME seedHealthy PROVE Suffices(debited)'
    <3>1. observed[managerDay] <= debited  BY <1>6, <2>1 DEF DebitsSuffice, Suffices
    <3>2. debited <= debited' /\ (fresh /\ r.day = managerDay => r.forDay <= debited')
      BY <1>7, <1>8, <1>9, <1>13, <3>1
    <3>. QED  BY <1>5, <1>8, <1>14, <1>20, <3>1, <3>2 DEF Suffices
  <2>2. ASSUME seed # NoSeed, seed.baseline # Unset PROVE Suffices(Landing)'
    <3>1. PICK b, t : b = seed.baseline /\ t = mergePostLoadFlattenCharges(mutations, seed.baseline)
      OBVIOUS
    <3>2. b \in Nat  BY <1>8, <2>2, <3>1 DEF SeedLoads, Marks
    <3>3. t \in Nat  BY <1>8, <3>1, <3>2, MergeIsNat
    <3>4. observed[managerDay] <= b + t  BY <1>6, <2>2, <3>1 DEF DebitsSuffice, Suffices, Landing
    <3>5. PICK k : k = b + mergePostLoadFlattenCharges(mutations', b)  OBVIOUS
    <3>6. k \in Nat /\ b + t <= k /\ (fresh /\ r.day = managerDay => r.forDay <= k)
      <4>1. CASE fresh /\ r.day = managerDay
        <5>1. mergePostLoadFlattenCharges(mutations', b) = t + Unseeded(m, b)
          BY <1>8, <1>13, <2>2, <3>1, <3>2, <4>1, MergeOfOneMore
        <5>2. Unseeded(m, b) \in Nat /\ m.current <= b + (t + Unseeded(m, b))
          BY <1>13, <3>2, <3>3, <3>4, <4>1, UnseededIsNat
        <5>. QED  BY <1>13, <3>2, <3>3, <3>5, <4>1, <5>1, <5>2
      <4>2. CASE ~(fresh /\ r.day = managerDay)
        <5>1. k = b + t  BY <1>13, <3>1, <3>5, <4>2
        <5>. QED  BY <3>2, <3>3, <4>2, <5>1
      <4>. QED  BY <4>1, <4>2
    <3>7. Landing' = k  BY <1>5, <3>1, <3>5 DEF Landing
    <3>8. b + t \in Nat  BY <3>2, <3>3
    <3>. QED  BY <1>5, <1>20, <3>4, <3>6, <3>7, <3>8 DEF Suffices
  <2>. QED  BY <2>1, <2>2
<1>. QED  BY <1>15, <1>18, <1>19, <1>21 DEF ChargesInv

(* The watermarks a load installs are old ones, none, or what it read. *)
LEMMA WatermarksAreRead ==
    ASSUME ChargesShape, NEW load \in SeedLoads, load.baseline # Unset, InstallWatermarks(load)
    PROVE  /\ observed' \in [Days -> Nat]
           /\ \A d \in Days : \/ observed'[d] = 0 \/ observed'[d] = observed[d]
                              \/ (d = load.day /\ observed'[d] = load.baseline)
<1>1. observed \in [Days -> Nat]  BY DEF ChargesShape
<1>2. load.baseline \in Nat  BY DEF SeedLoads, Marks
<1>3. CASE load.day = today
  <2>1. PICK marks : marks = SeededWatermarks(load)  OBVIOUS
  <2>2. observed' = marks  BY <1>3, <2>1 DEF InstallWatermarks
  <2>3. marks \in [Days -> Nat]
        /\ \A d \in Days : marks[d] = 0 \/ marks[d] = observed[d] \/ (d = load.day /\ marks[d] = load.baseline)
    BY <1>1, <1>2, <2>1 DEF SeededWatermarks
  <2>. QED  BY <2>2, <2>3
<1>4. CASE load.day # today
  <2>1. observed' = observed  BY <1>4 DEF InstallWatermarks
  <2>. QED  BY <1>1, <2>1
<1>. QED  BY <1>3, <1>4

(* Marks of which each is an old one, none, or what a load read stay recorded. *)
LEMMA MarksStayRecorded ==
    ASSUME MarksAreRecorded, NEW load \in SeedLoads, Recorded(load.day, load.baseline), ledger' = ledger,
           \A d \in Days : \/ observed'[d] = 0 \/ observed'[d] = observed[d]
                           \/ (d = load.day /\ observed'[d] = load.baseline)
    PROVE  \A d \in Days : Recorded(d, observed[d])'
<1>. SUFFICES ASSUME NEW d \in Days PROVE Recorded(d, observed'[d])  BY DEF Recorded
<1>1. Recorded(d, observed[d])  BY DEF MarksAreRecorded
<1>2. Recorded(d, 0)  BY DEF Recorded
<1>. QED  BY <1>1, <1>2

(* What a load reads is recorded, and suffices if nothing was charged since. *)
LEMMA LoadReads ==
    ASSUME LedgerShape, NEW load \in SeedLoads
    PROVE  /\ Loaded(load) \in SeedLoads /\ Loaded(load).day = load.day
           /\ Loaded(load).baseline = boxExecutionAttemptDailyRiskContribution(load.day)
           /\ Loaded(load).baseline \in Nat /\ Recorded(load.day, Loaded(load).baseline)
<1>1. ledger \in AttemptRows  BY DEF LedgerShape
<1>2. PICK b, u : b = boxExecutionAttemptDailyRiskContribution(load.day) /\ u = (ledger.quantity > 0)
  OBVIOUS
<1>3. b \in Nat /\ b \in Marks /\ u \in BOOLEAN
  BY <1>1, <1>2 DEF boxExecutionAttemptDailyRiskContribution, AttemptRows, Marks
<1>4. Loaded(load) = [load EXCEPT !.baseline = b, !.unresolved = u]  BY <1>2, Zenon DEF Loaded
<1>5. Loaded(load) \in SeedLoads /\ Loaded(load).day = load.day /\ Loaded(load).baseline = b
  BY <1>3, <1>4 DEF SeedLoads
<1>6. Recorded(load.day, b)
  BY <1>1, <1>2 DEF Recorded, boxExecutionAttemptDailyRiskContribution, AttemptRows, SeedLoads, Days
<1>. QED  BY <1>2, <1>3, <1>5, <1>6

(* The load in flight reads the row, lands, fails or is begun again. *)
LEMMA SeedKeepsCharges ==
    ASSUME LedgerInv, ChargesInv,
           refreshDailyRiskSeed \/ loadBoxLiveRiskSeed \/ seedLimits \/ abandonDailyRiskSeed
    PROVE  ChargesInv'
<1>0. LedgerShape  BY DEF LedgerInv
<1>1. ChargesShape /\ CopiesAreDated /\ MarksAreRecorded /\ DebitsSuffice  BY DEF ChargesInv
<1>2. UNCHANGED <<held, flattenOrders, ledger, memory, pass, pending, flights, today, managerDay>>
  BY Zenon DEF refreshDailyRiskSeed, loadBoxLiveRiskSeed, seedLimits, abandonDailyRiskSeed
<1>3. CopiesAreDated'
  <2>1. RowIsDated' /\ MemoryIsDated'  BY <1>1, <1>2 DEF CopiesAreDated, RowIsDated, MemoryIsDated
  <2>2. \A f \in Retriers \cup {"pass"} : FlightIsDated(f)'  BY <1>2, FlightsStayDated
  <2>3. (pending # NoCommand => CommandIsDated(pending))'
    BY <1>1, <1>2 DEF CopiesAreDated, CommandIsDated
  <2>. QED  BY <2>1, <2>2, <2>3 DEF CopiesAreDated
<1>4. KnowsRow' = KnowsRow
      /\ \A d : boxExecutionAttemptDailyRiskContribution(d)' = boxExecutionAttemptDailyRiskContribution(d)
  BY <1>2 DEF KnowsRow, boxExecutionAttemptDailyRiskContribution
<1>5. CASE refreshDailyRiskSeed
  <2>1. PICK new : new = beginDailyRiskSeed(managerDay)  OBVIOUS
  <2>2. new \in SeedLoads /\ new.day = managerDay /\ new.baseline = Unset
    BY <1>1, <2>1 DEF beginDailyRiskSeed, SeedLoads, Marks, ChargesShape
  <2>3. /\ seed' = new /\ overtaken' = FALSE /\ seedHealthy = FALSE
        /\ UNCHANGED <<observed, debited, mutations, seedHealthy, lateSeed>>
    BY <1>1, <1>5, <2>1 DEF refreshDailyRiskSeed, ChargesShape
  <2>4. seed = NoSeed  BY <1>5 DEF refreshDailyRiskSeed
  <2>5. ChargesShape'  BY <1>1, <1>2, <2>2, <2>3, <2>4 DEF ChargesShape
  <2>6. Recorded(new.day, Unset)  BY DEF Recorded, Unset
  <2>7. MarksAreRecorded'
    BY <1>1, <1>2, <2>2, <2>3, <2>6 DEF MarksAreRecorded, LoadIsRecorded, Recorded
  <2>8. DebitsSuffice'  BY <2>2, <2>3 DEF DebitsSuffice
  <2>. QED  BY <1>3, <2>5, <2>7, <2>8 DEF ChargesInv
<1>6. CASE loadBoxLiveRiskSeed
  <2>1. PICK new : new = Loaded(seed)  OBVIOUS
  <2>2. seed \in SeedLoads /\ seed # NoSeed /\ seed.day = managerDay
    BY <1>1, <1>6 DEF loadBoxLiveRiskSeed, ChargesShape
  <2>3. /\ new \in SeedLoads /\ new.day = managerDay /\ new.baseline \in Nat
        /\ new.baseline = boxExecutionAttemptDailyRiskContribution(managerDay)
        /\ Recorded(managerDay, new.baseline)
    BY <1>0, <2>1, <2>2, LoadReads
  <2>4. seed' = new /\ UNCHANGED <<observed, debited, mutations, seedHealthy, lateSeed, overtaken>>
    BY <1>6, <2>1, Zenon DEF loadBoxLiveRiskSeed
  <2>5. ~seedHealthy  BY <1>1, <2>2 DEF ChargesShape
  <2>6. ChargesShape'
    <3>1. new # NoSeed  BY <2>3 DEF SeedLoads, Days, NoSeed
    <3>. QED  BY <1>1, <1>2, <2>2, <2>3, <2>4, <2>5, <3>1 DEF ChargesShape
  <2>7. MarksAreRecorded'
    BY <1>1, <1>2, <2>3, <2>4 DEF MarksAreRecorded, LoadIsRecorded, Recorded
  <2>8. ASSUME managerDay = today PROVE Suffices(Landing)'
    <3>1. PICK t : t = mergePostLoadFlattenCharges(mutations, new.baseline)  OBVIOUS
    <3>2. t \in Nat  BY <1>1, <2>3, <3>1, MergeIsNat DEF ChargesShape
    <3>3. Landing' = new.baseline + t  BY <2>4, <3>1 DEF Landing
    <3>4. observed[managerDay] \in Nat /\ Recorded(managerDay, observed[managerDay])
      BY <1>1 DEF ChargesShape, MarksAreRecorded
    <3>5. observed[managerDay] <= new.baseline
      <4>1. /\ ledger.day \in Nat /\ ledger.forDay \in Nat /\ ledger.day <= today /\ managerDay \in Nat
        BY <1>0, <1>1 DEF LedgerShape, AttemptRows, CopiesAreDated, RowIsDated, ChargesShape, Days
      <4>. QED
        BY <2>3, <2>8, <3>4, <4>1 DEF Recorded, boxExecutionAttemptDailyRiskContribution
    <3>6. new.baseline <= new.baseline + t /\ observed[managerDay] <= new.baseline + t
      BY <2>3, <3>2, <3>4, <3>5
    <3>. QED  BY <1>2, <1>4, <2>3, <2>4, <2>8, <3>3, <3>6 DEF Suffices
  <2>9. DebitsSuffice'  BY <1>2, <2>4, <2>5, <2>8 DEF DebitsSuffice
  <2>. QED  BY <1>3, <2>6, <2>7, <2>9 DEF ChargesInv
<1>7. CASE seedLimits
  <2>1. seed \in SeedLoads /\ seed # NoSeed /\ seed.day = managerDay /\ seed.baseline # Unset
    BY <1>1, <1>7 DEF seedLimits, ChargesShape
  <2>2. /\ InstallWatermarks(seed) /\ debited' = Landing /\ seedHealthy' = TRUE /\ seed' = NoSeed
        /\ mutations' = <<>> /\ lateSeed' = lateSeed /\ overtaken' = overtaken
    BY <1>7, Zenon DEF seedLimits, Landing
  <2>3. /\ observed' \in [Days -> Nat]
        /\ \A d \in Days : \/ observed'[d] = 0 \/ observed'[d] = observed[d]
                           \/ (d = seed.day /\ observed'[d] = seed.baseline)
    BY <1>1, <2>1, <2>2, WatermarksAreRead
  <2>4. PICK b, t : b = seed.baseline /\ t = mergePostLoadFlattenCharges(mutations, seed.baseline)
    OBVIOUS
  <2>5. b \in Nat /\ t \in Nat /\ Landing = b + t
    <3>1. b \in Nat  BY <2>1, <2>4 DEF SeedLoads, Marks
    <3>. QED  BY <1>1, <2>4, <3>1, MergeIsNat DEF ChargesShape, Landing
  <2>6. ChargesShape'
    <3>1. <<>> \in Seq(Mutations)  OBVIOUS
    <3>2. debited' \in Nat  BY <2>2, <2>5
    <3>3. mutations' \in Seq(Mutations)  BY <2>2, <3>1, Zenon
    <3>. QED  BY <1>1, <1>2, <2>2, <2>3, <3>2, <3>3, Zenon DEF ChargesShape
  <2>7. Recorded(seed.day, seed.baseline)  BY <1>1, <2>1 DEF MarksAreRecorded, LoadIsRecorded
  <2>8. \A d \in Days : Recorded(d, observed[d])'  BY <1>1, <1>2, <2>1, <2>3, <2>7, MarksStayRecorded
  <2>9. MarksAreRecorded'
    BY <1>1, <1>2, <2>2, <2>8 DEF MarksAreRecorded, LoadIsRecorded, Recorded
  <2>10. ASSUME managerDay = today, ~overtaken PROVE Suffices(debited)'
    <3>1. Suffices(Landing)  BY <1>1, <2>1, <2>10 DEF DebitsSuffice
    <3>2. observed'[managerDay] <= b + t
      <4>1. managerDay \in Days /\ observed[managerDay] \in Nat  BY <1>1 DEF ChargesShape
      <4>. QED  BY <2>3, <2>4, <2>5, <3>1, <4>1 DEF Suffices
    <3>. QED  BY <1>2, <1>4, <2>2, <2>5, <3>1, <3>2 DEF Suffices
  <2>11. DebitsSuffice'  BY <1>2, <2>2, <2>10 DEF DebitsSuffice
  <2>. QED  BY <1>3, <2>6, <2>9, <2>11 DEF ChargesInv
<1>8. CASE abandonDailyRiskSeed
  <2>1. /\ seed # NoSeed /\ seed' = NoSeed /\ mutations' = <<>> /\ seedHealthy' = FALSE /\ lateSeed' = seed
        /\ UNCHANGED <<observed, debited, overtaken>>
    BY <1>8, Zenon DEF abandonDailyRiskSeed
  <2>2. ChargesShape'
    <3>1. <<>> \in Seq(Mutations)  OBVIOUS
    <3>2. mutations' \in Seq(Mutations) /\ seedHealthy' \in BOOLEAN  BY <2>1, <3>1, Zenon
    <3>. QED  BY <1>1, <1>2, <2>1, <3>2, Zenon DEF ChargesShape
  <2>3. MarksAreRecorded'
    BY <1>1, <1>2, <2>1 DEF MarksAreRecorded, LoadIsRecorded, Recorded
  <2>4. DebitsSuffice'  BY <2>1 DEF DebitsSuffice
  <2>. QED  BY <1>3, <2>2, <2>3, <2>4 DEF ChargesInv
<1>. QED  BY <1>5, <1>6, <1>7, <1>8

(* A load that answers late installs watermarks that were read, and is held against the seed. *)
LEMMA LateLoadKeepsCharges ==
    ASSUME LedgerInv, ChargesInv, LateLoad
    PROVE  ChargesInv'
<1>0. LedgerShape  BY DEF LedgerInv
<1>1. ChargesShape /\ CopiesAreDated /\ MarksAreRecorded /\ DebitsSuffice  BY DEF ChargesInv
<1>2. UNCHANGED <<ledger, memory, pending, flights, today, managerDay, debited, seed, mutations, seedHealthy>>
  BY Zenon DEF LateLoad
<1>3. CopiesAreDated'
  <2>1. RowIsDated' /\ MemoryIsDated'  BY <1>1, <1>2 DEF CopiesAreDated, RowIsDated, MemoryIsDated
  <2>2. \A f \in Retriers \cup {"pass"} : FlightIsDated(f)'  BY <1>2, FlightsStayDated
  <2>3. (pending # NoCommand => CommandIsDated(pending))'
    BY <1>1, <1>2 DEF CopiesAreDated, CommandIsDated
  <2>. QED  BY <2>1, <2>2, <2>3 DEF CopiesAreDated
<1>4. lateSeed \in SeedLoads  BY <1>1 DEF LateLoad, ChargesShape
<1>5. CASE lateSeed.baseline = Unset
  <2>1. lateSeed' = Loaded(lateSeed) /\ observed' = observed /\ overtaken' = overtaken
    BY <1>5 DEF LateLoad
  <2>2. lateSeed' \in SeedLoads /\ Recorded(lateSeed'.day, lateSeed'.baseline)
    BY <1>0, <1>4, <2>1, LoadReads
  <2>3. ChargesShape'  BY <1>1, <1>2, <2>1, <2>2 DEF ChargesShape
  <2>4. MarksAreRecorded'
    BY <1>1, <1>2, <2>1, <2>2 DEF MarksAreRecorded, LoadIsRecorded, Recorded
  <2>5. DebitsSuffice'
    BY <1>1, <1>2, <2>1 DEF DebitsSuffice, Suffices, Landing, KnowsRow, boxExecutionAttemptDailyRiskContribution
  <2>. QED  BY <1>3, <2>3, <2>4, <2>5 DEF ChargesInv
<1>6. CASE lateSeed.baseline # Unset
  <2>1. InstallWatermarks(lateSeed) /\ lateSeed' = NoSeed /\ overtaken' = TRUE
    BY <1>6, Zenon DEF LateLoad
  <2>2. /\ observed' \in [Days -> Nat]
        /\ \A d \in Days : \/ observed'[d] = 0 \/ observed'[d] = observed[d]
                           \/ (d = lateSeed.day /\ observed'[d] = lateSeed.baseline)
    BY <1>1, <1>4, <1>6, <2>1, WatermarksAreRead
  <2>3. Recorded(lateSeed.day, lateSeed.baseline)
    BY <1>1 DEF LateLoad, MarksAreRecorded, LoadIsRecorded
  <2>4. \A d \in Days : Recorded(d, observed[d])'  BY <1>1, <1>2, <1>4, <2>2, <2>3, MarksStayRecorded
  <2>5. ChargesShape'  BY <1>1, <1>2, <2>1, <2>2 DEF ChargesShape
  <2>6. MarksAreRecorded'
    BY <1>1, <1>2, <2>1, <2>4 DEF MarksAreRecorded, LoadIsRecorded, Recorded
  <2>7. DebitsSuffice'  BY <2>1 DEF DebitsSuffice
  <2>. QED  BY <1>3, <2>5, <2>6, <2>7 DEF ChargesInv
<1>. QED  BY <1>5, <1>6

(* A new day: nothing is owed for it until its own load has read the row. *)
LEMMA DayKeepsCharges ==
    ASSUME LedgerInv, ChargesInv, MidnightPasses \/ rollTradingDay
    PROVE  ChargesInv'
<1>0. LedgerShape  BY DEF LedgerInv
<1>1. ChargesShape /\ CopiesAreDated /\ MarksAreRecorded /\ DebitsSuffice  BY DEF ChargesInv
<1>2. /\ UNCHANGED <<ledger, memory, pending, flights, observed, lateSeed>>
      /\ today' \in Days /\ today <= today'
  BY <1>1 DEF MidnightPasses, rollTradingDay, managerVars, ChargesShape, Days
<1>3. today \in Int /\ today' \in Int /\ managerDay \in Int /\ ledger.day \in Int
  BY <1>0, <1>1, <1>2 DEF ChargesShape, Days, LedgerShape, AttemptRows
<1>4. CopiesAreDated'
  <2>1. RowIsDated'  BY <1>1, <1>2, <1>3 DEF CopiesAreDated, RowIsDated
  <2>2. MemoryIsDated'  BY <1>1, <1>2 DEF CopiesAreDated, MemoryIsDated
  <2>3. \A c : CommandIsDated(c) => CommandIsDated(c)'
    BY <1>2, <1>3 DEF CommandIsDated, Days
  <2>4. \A r : AnswerIsOfRow(r) => AnswerIsOfRow(r)'  BY <1>2 DEF AnswerIsOfRow
  <2>5. \A f \in Retriers \cup {"pass"} : FlightIsDated(f)'
    BY <1>1, <1>2, <2>3, <2>4 DEF CopiesAreDated, FlightIsDated
  <2>6. (pending # NoCommand => CommandIsDated(pending))'  BY <1>1, <1>2, <2>3 DEF CopiesAreDated
  <2>. QED  BY <2>1, <2>2, <2>5, <2>6 DEF CopiesAreDated
<1>5. CASE MidnightPasses
  <2>1. /\ managerDay' = managerDay /\ debited' = debited /\ mutations' = mutations /\ seed' = seed
        /\ seedHealthy' = seedHealthy /\ overtaken' = overtaken /\ today' = today + 1
    BY <1>5 DEF MidnightPasses, managerVars
  <2>2. ChargesShape'  BY <1>1, <1>2, <1>3, <2>1 DEF ChargesShape
  <2>3. MarksAreRecorded'  BY <1>1, <1>2, <2>1 DEF MarksAreRecorded, LoadIsRecorded, Recorded
  <2>4. managerDay' # today'  BY <1>1, <1>3, <2>1 DEF ChargesShape
  <2>5. DebitsSuffice'  BY <2>4 DEF DebitsSuffice
  <2>. QED  BY <1>4, <2>2, <2>3, <2>5 DEF ChargesInv
<1>6. CASE rollTradingDay
  <2>1. PICK new : new = beginDailyRiskSeed(today)  OBVIOUS
  <2>2. new \in SeedLoads /\ new.day = today /\ new.baseline = Unset
    BY <1>1, <2>1 DEF beginDailyRiskSeed, SeedLoads, Marks, ChargesShape
  <2>3. /\ managerDay' = today /\ today' = today /\ debited' = 0 /\ mutations' = <<>> /\ seed' = new
        /\ seedHealthy' = FALSE /\ overtaken' = FALSE
    BY <1>6, <2>1, Zenon DEF rollTradingDay
  <2>4. <<>> \in Seq(Mutations) /\ 0 \in Nat /\ today <= today  BY <1>3
  <2>5. ChargesShape'  BY <1>1, <1>2, <2>2, <2>3, <2>4 DEF ChargesShape
  <2>6. Recorded(new.day, Unset)  BY DEF Recorded, Unset
  <2>7. MarksAreRecorded'
    BY <1>1, <1>2, <2>2, <2>3, <2>6 DEF MarksAreRecorded, LoadIsRecorded, Recorded
  <2>8. DebitsSuffice'  BY <2>2, <2>3 DEF DebitsSuffice
  <2>. QED  BY <1>4, <2>5, <2>7, <2>8 DEF ChargesInv
<1>. QED  BY <1>5, <1>6

(* A restart knows the row, and debits nothing before its load. *)
LEMMA RestartKeepsCharges ==
    ASSUME LedgerInv, ChargesInv, reconcileResidualExposure
    PROVE  ChargesInv'
<1>0. LedgerShape  BY DEF LedgerInv
<1>1. ChargesShape /\ CopiesAreDated  BY DEF ChargesInv
<1>2. PICK new : new = beginDailyRiskSeed(today)  OBVIOUS
<1>3. new \in SeedLoads /\ new.day = today /\ new.baseline = Unset
  BY <1>1, <1>2 DEF beginDailyRiskSeed, SeedLoads, Marks, ChargesShape
<1>4. /\ memory' = IF ledger.quantity = 0 THEN Residual(0, 1, Unset, 0)
                   ELSE Residual(ledger.quantity, ledger.attempt, ledger.accounted, ledger.version)
      /\ observed' = [d \in Days |-> IF ledger.quantity > 0 /\ d = ledger.day THEN ledger.forDay ELSE 0]
      /\ pending' = NoCommand /\ flights' = [f \in DOMAIN flights |-> NoFlight]
      /\ managerDay' = today /\ debited' = 0 /\ mutations' = <<>> /\ seed' = new
      /\ seedHealthy' = FALSE /\ lateSeed' = NoSeed /\ overtaken' = FALSE
      /\ ledger' = ledger /\ today' = today
  BY <1>2, Zenon DEF reconcileResidualExposure
<1>5. ledger \in AttemptRows /\ today \in Days  BY <1>0, <1>1 DEF LedgerShape, ChargesShape
<1>6. ledger.forDay \in Nat /\ ledger.version \in Nat /\ ledger.quantity \in Nat /\ ledger.day \in Nat
  BY <1>5 DEF AttemptRows
<1>7. observed' \in [Days -> Nat]  BY <1>4, <1>6
<1>8. ChargesShape'
  <2>1. <<>> \in Seq(Mutations) /\ 0 \in Nat /\ today <= today  BY <1>5 DEF Days
  <2>. QED  BY <1>3, <1>4, <1>5, <1>7, <2>1 DEF ChargesShape
<1>9. MemoryIsDated'
  <2>1. /\ memory'.quantity = ledger.quantity
        /\ memory'.version = IF ledger.quantity = 0 THEN 0 ELSE ledger.version
    BY <1>4 DEF Residual
  <2>. QED  BY <1>4, <1>6, <2>1 DEF MemoryIsDated
<1>10. CopiesAreDated'
  <2>1. DOMAIN flights = Retriers \cup {"pass"}  BY <1>0 DEF LedgerShape
  <2>2. \A f \in Retriers \cup {"pass"} : FlightIsDated(f)'  BY <1>4, <2>1 DEF FlightIsDated
  <2>3. RowIsDated'  BY <1>1, <1>4 DEF CopiesAreDated, RowIsDated
  <2>. QED  BY <1>4, <1>9, <2>2, <2>3 DEF CopiesAreDated
<1>11. MarksAreRecorded'
  <2>1. ASSUME NEW d \in Days PROVE Recorded(d, observed'[d])
    BY <1>4, <1>6, <2>1 DEF Recorded, Days
  <2>2. Recorded(new.day, Unset)  BY DEF Recorded, Unset
  <2>. QED  BY <1>3, <1>4, <2>1, <2>2 DEF MarksAreRecorded, LoadIsRecorded, Recorded
<1>12. DebitsSuffice'  BY <1>3, <1>4 DEF DebitsSuffice
<1>. QED  BY <1>8, <1>10, <1>11, <1>12 DEF ChargesInv

(* Before anything was flattened nothing is owed. *)
LEMMA ChargesStart == LedgerInit => ChargesInv
<1>. SUFFICES ASSUME LedgerInit PROVE ChargesInv  OBVIOUS
<1>1. /\ ledger = insertBoxExecutionAttempt /\ memory = Residual(Quantity, 1, Unset, 0)
      /\ pending = NoCommand /\ flights = [f \in Retriers \cup {"pass"} |-> NoFlight]
      /\ observed = [d \in Days |-> 0] /\ today = 1 /\ managerDay = 1 /\ debited = 0
      /\ seed = NoSeed /\ mutations = <<>> /\ seedHealthy = TRUE /\ lateSeed = NoSeed
      /\ overtaken = FALSE
  BY Zenon DEF LedgerInit
<1>2. /\ ledger.day = 0 /\ ledger.forDay = 0 /\ ledger.version = 0 /\ ledger.quantity = Quantity
      /\ memory.version = 0 /\ memory.quantity = Quantity
  BY <1>1 DEF insertBoxExecutionAttempt, Residual
<1>3. 1 \in Days /\ Quantity \in Nat /\ Quantity # 0  BY DEF Days
<1>4. ChargesShape
  <2>1. <<>> \in Seq(Mutations) /\ observed \in [Days -> Nat]  BY <1>1
  <2>2. mutations \in Seq(Mutations)  BY <1>1, <2>1, Zenon
  <2>3. debited \in Nat /\ managerDay <= today /\ today \in Days /\ managerDay \in Days  BY <1>1, <1>3
  <2>4. seedHealthy \in BOOLEAN /\ overtaken \in BOOLEAN  BY <1>1
  <2>. QED  BY <1>1, <2>1, <2>2, <2>3, <2>4, Zenon DEF ChargesShape
<1>5. CopiesAreDated
  BY <1>1, <1>2, <1>3 DEF CopiesAreDated, RowIsDated, MemoryIsDated, FlightIsDated
<1>6. MarksAreRecorded  BY <1>1 DEF MarksAreRecorded, LoadIsRecorded, Recorded
<1>7. DebitsSuffice
  BY <1>1, <1>2, <1>3 DEF DebitsSuffice, Suffices, boxExecutionAttemptDailyRiskContribution
<1>. QED  BY <1>4, <1>5, <1>6, <1>7 DEF ChargesInv

(* Every step of the ledger keeps the charges accounted for. *)
LEMMA ChargesStep == LedgerInv /\ ChargesInv /\ [LedgerNext]_ledgerVars => ChargesInv'
<1>. SUFFICES ASSUME LedgerInv, ChargesInv, [LedgerNext]_ledgerVars PROVE ChargesInv'  OBVIOUS
<1>1. CASE flattenResiduals \/ flattenOneResidual  BY <1>1, PassKeepsCharges
<1>2. CASE \E f \in Retriers \cup {"pass"} : RetryPending(f) \/ LedgerFails(f)
  BY <1>2, RetryKeepsCharges
<1>3. CASE \E f \in Retriers \cup {"pass"} : LedgerApplies(f)  BY <1>3, ApplyKeepsCharges
<1>4. CASE \E f \in Retriers \cup {"pass"} : persistOwnedResidualProjection(f)
  BY <1>4, AnswerKeepsCharges
<1>5. CASE refreshDailyRiskSeed \/ loadBoxLiveRiskSeed \/ seedLimits \/ abandonDailyRiskSeed
  BY <1>5, SeedKeepsCharges
<1>6. CASE LateLoad  BY <1>6, LateLoadKeepsCharges
<1>7. CASE MidnightPasses \/ rollTradingDay  BY <1>7, DayKeepsCharges
<1>8. CASE reconcileResidualExposure  BY <1>8, RestartKeepsCharges
<1>9. CASE \/ \E g \in Generations : BrokerFills(g) \/ BrokerEnds(g) \/ BrokerCancels(g)
           \/ UNCHANGED ledgerVars
  <2>1. UNCHANGED <<ledger, memory, today, observed, managerVars>> /\ pending' = pending /\ flights' = flights
    BY <1>9, Zenon DEF BrokerFills, BrokerEnds, BrokerCancels, ledgerVars, managerVars
  <2>. QED  BY <2>1, FlightsStayDated, ChargesRest
<1>. QED  BY <1>1, <1>2, <1>3, <1>4, <1>5, <1>6, <1>7, <1>8, <1>9, Zenon DEF LedgerNext

(* A residual is accounted for in lots and in money.  The row never claims less than the     *)
(* account holds, and a process that knows the row has debited every charge the row holds    *)
(* for the day, through lost answers, retries that overlap, loads that run while charges are *)
(* noted, days that roll and restarts (persistOwnedResidualProjection, recordFlattenCharge,  *)
(* mergePostLoadFlattenCharges, seedLimits).                                                 *)
THEOREM ChargesAreDebited == LedgerSpec => []ResidualIsAccounted
<1>1. LedgerInv => LedgerNeverUnderstates
  BY DEF LedgerInv, LedgerShape, AttemptRows, Covers, LedgerNeverUnderstates
<1>2. ChargesInv => ChargesNeverMissed
  BY DEF ChargesInv, DebitsSuffice, Suffices, ChargesNeverMissed
<1>. QED
  BY <1>1, <1>2, LedgerStarts, LedgerStep, ChargesStart, ChargesStep, PTL DEF LedgerSpec, ResidualIsAccounted

(***************************************************************************)
(* The trade book.                                                         *)
(***************************************************************************)

(* What an exit whose fills are not in its object yet still has to take off the object,    *)
(* and what the account holds: no projection made of the trade may claim less.  A report   *)
(* read between an exit's fills and its accounting has the fills already.                  *)
Owed == [r \in Roles |-> IF Unaccounted /\ ~ReconcilesDuringExit
                         THEN account[r] + closing.fills[r] ELSE account[r]]

Covering(owed, rem) == \A r \in Roles : rem[r] >= owed[r]

(* A projection of a position: it covers what is owed and is flat only when nothing is     *)
(* left (deriveBoxPositionState).                                                          *)
Sound(owed, p) ==
  p \in Projections /\ Covering(owed, p.remaining) /\ (p.state = "FLAT" => p.remaining = Nothing)

Due(owed, p) == p = NoProjection \/ Sound(owed, p)

BookRows == [status : {"absent", "open", "closed"}, remaining : Remaining, state : PositionStates]
Closings == [stage : {"idle", "executing", "persisting"}, object : Nat,
             verdict : {"none", "confirmed", "uncertain"}, fills : Remaining,
             projected : Projections \cup {NoProjection}]
Retries == [kind : {"none", "partial", "final"}, object : Nat,
            projected : Projections \cup {NoProjection}]

SoundRow(owed, row) ==
  /\ row \in BookRows
  /\ row.status # "absent" => Covering(owed, row.remaining)
  /\ row.status = "closed" => row.remaining = Nothing

SoundObjects(owed, book) ==
  book \in Seq(Projections) /\ \A n \in 1 .. Len(book) : Sound(owed, book[n])

SoundExit(owed, exit, made) ==
  /\ exit \in Closings
  /\ exit.stage # "idle" => exit.object \in 1 .. made
  /\ exit.projected # NoProjection => exit.stage = "persisting"
  /\ Due(owed, exit.projected)

SoundRetry(owed, retry, made) ==
  /\ retry \in Retries
  /\ retry.kind # "none" => retry.object \in 1 .. made /\ Sound(owed, retry.projected)
  /\ retry.kind = "final" => retry.projected.state = "FLAT"

SoundReport(owed, rep) == rep = NoReport \/ (rep \in Remaining /\ Covering(owed, rep))

(* Orders nobody knows the outcome of close no more than the account holds, and an exit    *)
(* has not filled more than one lot of a role.                                             *)
Quantities ==
  /\ account \in Remaining /\ working \in [Roles -> Nat]
  /\ \A r \in Roles : working[r] <= account[r]
  /\ Unaccounted => \A r \in Roles : account[r] + closing.fills[r] <= Lot

BookInv ==
  /\ Quantities
  /\ SoundRow(Owed, tradeRow)
  /\ SoundObjects(Owed, objects) /\ current \in 0 .. Len(objects)
  /\ SoundExit(Owed, closing, Len(objects))
  /\ Due(Owed, partialDue) /\ Due(Owed, finalDue)
  /\ finalDue # NoProjection => finalDue.state = "FLAT"
  /\ SoundRetry(Owed, retrying, Len(objects))
  /\ SoundReport(Owed, report)

(* What is owed is a quantity of every role. *)
LEMMA OwedTyped == ASSUME account \in Remaining, closing \in Closings PROVE Owed \in [Roles -> Nat]
<1>1. \A r \in Roles : account[r] \in Nat /\ closing.fills[r] \in Nat
  BY LotAssumption, SMT DEF Closings, Remaining
<1>2. \A m, n \in Nat : m + n \in Nat  BY SMT
<1>3. \A r \in Roles : account[r] + closing.fills[r] \in Nat
  BY <1>1, <1>2, Zenon
<1>. QED  BY <1>1, <1>3, Zenon DEF Owed

(* What covers more covers less. *)
LEMMA LessIsCovered ==
  ASSUME NEW owed \in [Roles -> Nat], NEW less \in [Roles -> Nat], \A r \in Roles : less[r] <= owed[r]
  PROVE  /\ \A rem \in Remaining : Covering(owed, rem) => Covering(less, rem)
         /\ \A p : Sound(owed, p) => Sound(less, p)
         /\ \A p : Due(owed, p) => Due(less, p)
         /\ \A row : SoundRow(owed, row) => SoundRow(less, row)
         /\ \A book : SoundObjects(owed, book) => SoundObjects(less, book)
         /\ \A exit, made : SoundExit(owed, exit, made) => SoundExit(less, exit, made)
         /\ \A retry, made : SoundRetry(owed, retry, made) => SoundRetry(less, retry, made)
         /\ \A rep : SoundReport(owed, rep) => SoundReport(less, rep)
<1>1. \A rem \in Remaining : Covering(owed, rem) => Covering(less, rem)
  <2>. SUFFICES ASSUME NEW rem \in Remaining, Covering(owed, rem), NEW r \in Roles PROVE rem[r] >= less[r]
    BY DEF Covering
  <2>1. rem[r] >= owed[r]  BY DEF Covering
  <2>2. rem[r] \in Int /\ owed[r] \in Int /\ less[r] \in Int  BY LotAssumption, SMT DEF Remaining
  <2>. QED  BY <2>1, <2>2, SMT
<1>2. \A p : Sound(owed, p) => Sound(less, p)
  <2>1. \A p \in Projections : p.remaining \in Remaining  BY DEF Projections
  <2>. QED  BY <1>1, <2>1, Zenon DEF Sound
<1>3. \A p : Due(owed, p) => Due(less, p)
  BY <1>2, Zenon DEF Due
<1>4. \A row : SoundRow(owed, row) => SoundRow(less, row)
  <2>1. \A row \in BookRows : row.remaining \in Remaining  BY DEF BookRows
  <2>. QED  BY <1>1, <2>1, Zenon DEF SoundRow
<1>5. \A book : SoundObjects(owed, book) => SoundObjects(less, book)
  BY <1>2, Zenon DEF SoundObjects
<1>6. \A exit, made : SoundExit(owed, exit, made) => SoundExit(less, exit, made)
  BY <1>3, Zenon DEF SoundExit
<1>7. \A retry, made : SoundRetry(owed, retry, made) => SoundRetry(less, retry, made)
  BY <1>2, Zenon DEF SoundRetry
<1>8. \A rep : SoundReport(owed, rep) => SoundReport(less, rep)
  BY <1>1, Zenon DEF SoundReport
<1>. QED  BY <1>1, <1>2, <1>3, <1>4, <1>5, <1>6, <1>7, <1>8

(* An object more does not move the ones an exit or a retry holds. *)
LEMMA MadeMore ==
  ASSUME NEW made \in Nat, NEW more \in Nat, made <= more, NEW owed
  PROVE  /\ \A exit : SoundExit(owed, exit, made) => SoundExit(owed, exit, more)
         /\ \A retry : SoundRetry(owed, retry, made) => SoundRetry(owed, retry, more)
<1>1. \A n : n \in 1 .. made => n \in 1 .. more  BY SMT
<1>2. \A exit : SoundExit(owed, exit, made) => SoundExit(owed, exit, more)
  BY <1>1, Zenon DEF SoundExit
<1>3. \A retry : SoundRetry(owed, retry, made) => SoundRetry(owed, retry, more)
  BY <1>1, Zenon DEF SoundRetry
<1>. QED  BY <1>2, <1>3

(* A step keeps the invariant when what is owed only falls and what it writes covers what  *)
(* was owed before it.                                                                     *)
LEMMA KeepsBook ==
  ASSUME BookInv, Quantities', \A r \in Roles : Owed[r]' <= Owed[r],
         SoundRow(Owed, tradeRow'), SoundObjects(Owed, objects'), current' \in 0 .. Len(objects'),
         SoundExit(Owed', closing', Len(objects')),
         Due(Owed, partialDue'), Due(Owed, finalDue'),
         finalDue' # NoProjection => finalDue'.state = "FLAT",
         SoundRetry(Owed, retrying', Len(objects')), SoundReport(Owed, report')
  PROVE  BookInv'
<1>1. Owed \in [Roles -> Nat]
  BY OwedTyped, Zenon DEF BookInv, Quantities, SoundExit
<1>2. account' \in Remaining /\ closing' \in Closings
  BY Zenon DEF Quantities, SoundExit
<1>3. Owed' \in [Roles -> Nat]
  <2>1. \A r \in Roles : account'[r] \in Nat /\ closing'.fills[r] \in Nat
    BY <1>2, LotAssumption, SMT DEF Closings, Remaining
  <2>2. \A m, n \in Nat : m + n \in Nat  BY SMT
  <2>3. \A r \in Roles : account'[r] + closing'.fills[r] \in Nat
    BY <2>1, <2>2, Zenon
  <2>. QED  BY <2>1, <2>3, Zenon DEF Owed
<1>4. PICK owed : owed = Owed  OBVIOUS
<1>5. PICK less : less = Owed'  OBVIOUS
<1>6. owed \in [Roles -> Nat] /\ less \in [Roles -> Nat] /\ \A r \in Roles : less[r] <= owed[r]
  BY <1>1, <1>3, <1>4, <1>5, Zenon
<1>7. SoundRow(less, tradeRow') /\ SoundObjects(less, objects') /\ Due(less, partialDue')
      /\ Due(less, finalDue') /\ SoundRetry(less, retrying', Len(objects')) /\ SoundReport(less, report')
  BY <1>4, <1>6, LessIsCovered, Zenon
<1>. QED  BY <1>5, <1>7, Zenon DEF BookInv

(* A step that touches neither the account nor the exit owes what was owed. *)
LEMMA OwedStays ==
  ASSUME BookInv, account' = account, closing' = closing
  PROVE  Owed' = Owed /\ \A r \in Roles : Owed[r]' <= Owed[r]
<1>1. Unaccounted' <=> Unaccounted  BY Zenon DEF Unaccounted
<1>2. Owed' = Owed  BY <1>1, Zenon DEF Owed
<1>3. Owed \in [Roles -> Nat]  BY OwedTyped, Zenon DEF BookInv, Quantities, SoundExit
<1>4. \A r \in Roles : Owed[r] <= Owed[r]  BY <1>3, SMT
<1>. QED  BY <1>2, <1>4, Zenon

(* An exit that has its fills accounted owes what the account holds. *)
LEMMA OwedFalls ==
  ASSUME BookInv, account' = account, ~Unaccounted'
  PROVE  \A r \in Roles : Owed[r]' <= Owed[r]
<1>1. Owed' = account
  <2>1. account = [r \in Roles |-> account[r]]  BY Zenon DEF BookInv, Quantities, Remaining
  <2>. QED  BY <2>1, Zenon DEF Owed
<1>2. \A r \in Roles : account[r] \in Nat /\ closing.fills[r] \in Nat
  BY LotAssumption, SMT DEF BookInv, Quantities, SoundExit, Closings, Remaining
<1>3. \A r \in Roles : account[r] <= Owed[r]  BY <1>2, SMT DEF Owed
<1>. QED  BY <1>1, <1>3, Zenon

(* Writing a sound projection to an object, or making one, leaves the objects sound. *)
LEMMA ObjectWritten ==
  ASSUME NEW owed, NEW book, NEW n, NEW p, n \in 1 .. Len(book), SoundObjects(owed, book), Sound(owed, p),
         NEW b \in Seq(Projections), Len(b) = Len(book),
         \A m \in 1 .. Len(book) : b[m] = p \/ b[m] = book[m]
  PROVE  SoundObjects(owed, b)
BY Zenon DEF SoundObjects

LEMMA ObjectMade ==
  ASSUME NEW owed, NEW book, NEW p, SoundObjects(owed, book), Sound(owed, p)
  PROVE  /\ SoundObjects(owed, Append(book, p)) /\ Len(Append(book, p)) = Len(book) + 1
         /\ Len(book) \in Nat
<1>1. book \in Seq(Projections) /\ p \in Projections  BY Zenon DEF SoundObjects, Sound
<1>2. PICK b : b = Append(book, p)  OBVIOUS
<1>3. b \in Seq(Projections) /\ Len(b) = Len(book) + 1 /\ Len(book) \in Nat  BY <1>1, <1>2, SMT
<1>4. \A m \in 1 .. Len(b) : m \in 1 .. Len(book) \/ m = Len(b)  BY <1>3, SMT
<1>5. b[Len(b)] = p /\ \A m \in 1 .. Len(book) : b[m] = book[m]  BY <1>1, <1>2, SMT
<1>6. \A m \in 1 .. Len(b) : Sound(owed, b[m])  BY <1>4, <1>5, Zenon DEF SoundObjects
<1>. QED  BY <1>2, <1>3, <1>6, Zenon DEF SoundObjects

(* The state derived from quantities is flat only when they are (deriveBoxPositionState). *)
LEMMA DerivedIsSound ==
  ASSUME NEW owed, NEW rem \in Remaining, Covering(owed, rem), NEW state
  PROVE  Sound(owed, [remaining |-> rem, state |-> deriveBoxPositionState(rem, state)])
<1>1. deriveBoxPositionState(rem, state) \in PositionStates
  BY Zenon DEF deriveBoxPositionState, PositionStates
<1>2. deriveBoxPositionState(rem, state) = "FLAT" => \A r \in Roles : rem[r] = 0
  BY Zenon DEF deriveBoxPositionState, isBoxPositionFlat
<1>3. rem = [r \in Roles |-> rem[r]]  BY Zenon DEF Remaining
<1>4. deriveBoxPositionState(rem, state) = "FLAT" => rem = Nothing
  BY <1>2, <1>3, Zenon DEF Nothing
<1>. QED  BY <1>1, <1>4, SMT DEF Sound, Projections

(* A position in recovery is sound whatever is left of it. *)
LEMMA RecoveryIsSound ==
  ASSUME NEW owed, NEW rem \in Remaining, Covering(owed, rem)
  PROVE  Sound(owed, [remaining |-> rem, state |-> "RECOVERY"])
BY SMT DEF Sound, Projections, PositionStates

(* A whole lot of every role covers the account and the exit that reduces it. *)
LEMMA WholeCovers == ASSUME BookInv PROVE Covering(Owed, fullLotByRole) /\ fullLotByRole \in Remaining
<1>1. fullLotByRole \in Remaining  BY LotAssumption, SMT DEF fullLotByRole, Remaining
<1>2. ASSUME NEW r \in Roles PROVE fullLotByRole[r] >= Owed[r]
  <2>1. Owed[r] = IF Unaccounted /\ ~ReconcilesDuringExit THEN account[r] + closing.fills[r] ELSE account[r]
    BY Zenon DEF Owed
  <2>2. account[r] \in Nat /\ account[r] <= Lot
    BY LotAssumption, SMT DEF BookInv, Quantities, Remaining
  <2>3. Unaccounted => account[r] + closing.fills[r] <= Lot
    BY Zenon DEF BookInv, Quantities
  <2>4. fullLotByRole[r] = Lot  BY Zenon DEF fullLotByRole
  <2>5. CASE Unaccounted /\ ~ReconcilesDuringExit
    <3>1. Owed[r] = account[r] + closing.fills[r]  BY <2>1, <2>5, Zenon
    <3>2. closing.fills \in Remaining  BY Zenon DEF BookInv, SoundExit, Closings
    <3>3. closing.fills[r] \in Nat  BY <3>2, LotAssumption, SMT DEF Remaining
    <3>. QED  BY <2>2, <2>3, <2>4, <2>5, <3>1, <3>3, LotAssumption, SMT
  <2>6. CASE ~(Unaccounted /\ ~ReconcilesDuringExit)
    <3>1. Owed[r] = account[r]  BY <2>1, <2>6, Zenon
    <3>. QED  BY <2>2, <2>4, <3>1, LotAssumption, SMT
  <2>. QED  BY <2>5, <2>6
<1>. QED  BY <1>1, <1>2 DEF Covering

(* What insertBoxTrade returns covers what is owed: a new row is whole, and a row that     *)
(* another pass has inserted is kept as it is.                                             *)
LEMMA InsertedIsSound ==
  ASSUME BookInv
  PROVE  /\ SoundRow(Owed, insertBoxTrade) /\ insertBoxTrade.status # "absent"
         /\ insertBoxTrade.remaining \in Remaining /\ Covering(Owed, insertBoxTrade.remaining)
<1>1. CASE tradeRow.status = "absent"
  <2>1. insertBoxTrade = NewRow  BY <1>1, Zenon DEF insertBoxTrade
  <2>2. NewRow \in BookRows /\ NewRow.status = "open" /\ NewRow.remaining = fullLotByRole
    BY WholeCovers, SMT DEF NewRow, BookRows, PositionStates
  <2>. QED  BY <2>1, <2>2, WholeCovers, SMT DEF SoundRow
<1>2. CASE tradeRow.status # "absent"
  <2>1. insertBoxTrade = tradeRow  BY <1>2, Zenon DEF insertBoxTrade
  <2>2. tradeRow \in BookRows /\ SoundRow(Owed, tradeRow) /\ Covering(Owed, tradeRow.remaining)
    BY <1>2, Zenon DEF BookInv, SoundRow
  <2>3. tradeRow.remaining \in Remaining  BY <2>2, SMT DEF BookRows
  <2>. QED  BY <1>2, <2>1, <2>2, <2>3, Zenon
<1>. QED  BY <1>1, <1>2

(* A position adopted from a row covers what its row covers (adoptDoc). *)
LEMMA AdoptIsSound ==
  ASSUME BookInv, NEW row, row.remaining \in Remaining, Covering(Owed, row.remaining), adoptDoc(row)
  PROVE  /\ SoundObjects(Owed, objects') /\ Len(objects') = Len(objects) + 1
         /\ current' \in 0 .. Len(objects') /\ Len(objects) \in Nat
<1>1. PICK p : p = [remaining |-> row.remaining, state |-> deriveBoxPositionState(row.remaining, row.state)]
  OBVIOUS
<1>2. Sound(Owed, p)  BY <1>1, DerivedIsSound, Zenon
<1>3. objects' = Append(objects, p) /\ current' = Len(objects) + 1  BY <1>1, Zenon DEF adoptDoc
<1>4. SoundObjects(Owed, objects)  BY Zenon DEF BookInv
<1>5. SoundObjects(Owed, objects') /\ Len(objects') = Len(objects) + 1 /\ Len(objects) \in Nat
  BY <1>2, <1>3, <1>4, ObjectMade, Zenon
<1>. QED  BY <1>3, <1>5, SMT

(* A step that leaves the account, the exit and the retries alone keeps the invariant when *)
(* the row and the objects stay sound.                                                     *)
LEMMA RowAndObjectsKeep ==
  ASSUME BookInv, UNCHANGED <<account, working, closing, partialDue, finalDue, retrying>>,
         SoundReport(Owed, report'), SoundRow(Owed, tradeRow'), SoundObjects(Owed, objects'),
         current' \in 0 .. Len(objects'), Len(objects') \in Nat, Len(objects) \in Nat,
         Len(objects) <= Len(objects')
  PROVE  BookInv'
<1>1. Owed' = Owed /\ \A r \in Roles : Owed[r]' <= Owed[r]  BY OwedStays, Zenon
<1>2. Quantities'  BY Zenon DEF BookInv, Quantities, Unaccounted
<1>3. PICK owed : owed = Owed  OBVIOUS
<1>4. PICK made : made = Len(objects)  OBVIOUS
<1>5. PICK more : more = Len(objects')  OBVIOUS
<1>6. SoundExit(owed, closing, made) /\ SoundRetry(owed, retrying, made)
  BY <1>3, <1>4, Zenon DEF BookInv
<1>7. SoundExit(owed, closing, more) /\ SoundRetry(owed, retrying, more)
  BY <1>4, <1>5, <1>6, MadeMore, Zenon
<1>8. SoundExit(Owed', closing', Len(objects')) /\ SoundRetry(Owed, retrying', Len(objects'))
  BY <1>1, <1>3, <1>5, <1>7, Zenon
<1>9. /\ Due(Owed, partialDue') /\ Due(Owed, finalDue')
      /\ finalDue' # NoProjection => finalDue'.state = "FLAT"
  BY Zenon DEF BookInv
<1>. QED  BY <1>1, <1>2, <1>8, <1>9, KeepsBook, Zenon

(* The objects are a finite list. *)
LEMMA ObjectsCounted == BookInv => Len(objects) \in Nat
<1>. SUFFICES ASSUME BookInv PROVE Len(objects) \in Nat  OBVIOUS
<1>1. objects \in Seq(Projections)  BY Zenon DEF BookInv, SoundObjects
<1>. QED  BY <1>1, SMT

(* SetObject writes one object of the list. *)
LEMMA SetIsSound ==
  ASSUME BookInv, NEW n, NEW p, n \in 1 .. Len(objects), Sound(Owed, p), SetObject(n, p)
  PROVE  SoundObjects(Owed, objects') /\ Len(objects') = Len(objects)
<1>1. objects \in Seq(Projections) /\ p \in Projections  BY Zenon DEF BookInv, SoundObjects, Sound
<1>2. objects' = [objects EXCEPT ![n] = p]  BY Zenon DEF SetObject
<1>3. objects' \in Seq(Projections) /\ Len(objects') = Len(objects)  BY <1>1, <1>2, SMT
<1>4. \A m \in 1 .. Len(objects) : objects'[m] = p \/ objects'[m] = objects[m]  BY <1>1, <1>2, SMT
<1>5. SoundObjects(Owed, objects)  BY Zenon DEF BookInv
<1>6. PICK owed : owed = Owed  OBVIOUS
<1>7. PICK b : b = objects'  OBVIOUS
<1>8. PICK book : book = objects  OBVIOUS
<1>9. /\ n \in 1 .. Len(book) /\ SoundObjects(owed, book) /\ Sound(owed, p) /\ b \in Seq(Projections)
      /\ Len(b) = Len(book) /\ \A m \in 1 .. Len(book) : b[m] = p \/ b[m] = book[m]
  BY <1>3, <1>4, <1>5, <1>6, <1>7, <1>8, Zenon
<1>10. SoundObjects(owed, b)  BY <1>9, ObjectWritten, Zenon
<1>. QED  BY <1>3, <1>6, <1>7, <1>10, Zenon

(* The insert: the first attempts and every drain (openPaperTrade, drainOwnedExecutions). *)
LEMMA InsertKeeps ==
  ASSUME BookInv, openPaperTrade \/ drainOwnedExecutions PROVE BookInv'
<1>1. PICK landed \in BOOLEAN, told \in BOOLEAN :
        /\ StoreAnswers(landed, told)
        /\ tradeRow' = IF landed THEN insertBoxTrade ELSE tradeRow
        /\ told => adoptDoc(insertBoxTrade)
        /\ ~told => UNCHANGED <<objects, current>>
  BY Zenon DEF openPaperTrade, drainOwnedExecutions
<1>2. UNCHANGED <<account, working, closing, partialDue, finalDue, retrying, report>>
  BY Zenon DEF openPaperTrade, drainOwnedExecutions
<1>3. SoundRow(Owed, tradeRow')  BY <1>1, InsertedIsSound, Zenon DEF BookInv
<1>4. Len(objects) \in Nat  BY ObjectsCounted
<1>5. /\ SoundObjects(Owed, objects') /\ current' \in 0 .. Len(objects')
      /\ Len(objects') \in Nat /\ Len(objects) <= Len(objects')
  <2>1. CASE told
    <3>1. PICK row : row = insertBoxTrade  OBVIOUS
    <3>2. row.remaining \in Remaining /\ Covering(Owed, row.remaining) /\ adoptDoc(row)
      BY <1>1, <2>1, <3>1, InsertedIsSound, Zenon
    <3>3. SoundObjects(Owed, objects') /\ Len(objects') = Len(objects) + 1 /\ current' \in 0 .. Len(objects')
      BY <3>2, AdoptIsSound, Zenon
    <3>. QED  BY <1>4, <3>3, SMT
  <2>2. CASE ~told
    <3>1. objects' = objects /\ current' = current  BY <1>1, <2>2, Zenon
    <3>2. SoundObjects(Owed, objects') /\ current' \in 0 .. Len(objects')  BY <3>1, Zenon DEF BookInv
    <3>3. Len(objects') \in Nat /\ Len(objects) <= Len(objects')  BY <1>4, <3>1, SMT
    <3>. QED  BY <3>2, <3>3
  <2>. QED  BY <2>1, <2>2
<1>6. SoundReport(Owed, report')  BY <1>2, Zenon DEF BookInv
<1>. QED  BY <1>2, <1>3, <1>4, <1>5, <1>6, RowAndObjectsKeep, Zenon

(* A restart adopts the open row (adoptOpenPositions). *)
LEMMA RestartAdopts == ASSUME BookInv, adoptOpenPositions PROVE BookInv'
<1>1. UNCHANGED <<account, working, closing, partialDue, finalDue, retrying, report, tradeRow>>
  BY Zenon DEF adoptOpenPositions
<1>2. PICK row : row = tradeRow  OBVIOUS
<1>3. row \in BookRows /\ row.status = "open" /\ Covering(Owed, row.remaining) /\ adoptDoc(row)
  BY <1>2, Zenon DEF BookInv, SoundRow, adoptOpenPositions
<1>4. row.remaining \in Remaining  BY <1>3, SMT DEF BookRows
<1>5. /\ SoundObjects(Owed, objects') /\ Len(objects') = Len(objects) + 1
      /\ current' \in 0 .. Len(objects') /\ Len(objects) \in Nat
  BY <1>3, <1>4, AdoptIsSound, Zenon
<1>6. Len(objects') \in Nat /\ Len(objects) <= Len(objects')  BY <1>5, SMT
<1>7. SoundRow(Owed, tradeRow') /\ SoundReport(Owed, report')  BY <1>1, Zenon DEF BookInv
<1>. QED  BY <1>1, <1>5, <1>6, <1>7, RowAndObjectsKeep, Zenon

(* Another pass of the drain starts, or nothing moves. *)
LEMMA BookRests ==
  ASSUME BookInv, DrainStarts \/ UNCHANGED bookVars PROVE BookInv'
<1>1. UNCHANGED <<account, working, closing, partialDue, finalDue, retrying, report, tradeRow, objects, current>>
  BY Zenon DEF DrainStarts, bookVars
<1>2. Len(objects) \in Nat  BY ObjectsCounted
<1>3. Len(objects') \in Nat /\ Len(objects) <= Len(objects')  BY <1>1, <1>2, SMT
<1>4. /\ SoundRow(Owed, tradeRow') /\ SoundReport(Owed, report') /\ SoundObjects(Owed, objects')
      /\ current' \in 0 .. Len(objects')
  BY <1>1, Zenon DEF BookInv
<1>. QED  BY <1>1, <1>2, <1>3, <1>4, RowAndObjectsKeep, Zenon

(* An exit starts on the position of the book, whose state alone may have changed. *)
LEMMA BoxExitStarts ==
  ASSUME BookInv, NEW pos, current # 0, Sound(Owed, pos), ExitRuns(pos) PROVE BookInv'
<1>1. UNCHANGED <<account, working, tradeRow, current, partialDue, finalDue, retrying, report>>
  BY Zenon DEF ExitRuns
<1>2. closing.stage = "idle" /\ objects' = [objects EXCEPT ![current] = pos]
  BY Zenon DEF ExitRuns, SetObject
<1>3. Len(objects) \in Nat /\ current \in 1 .. Len(objects)
  <2>1. Len(objects) \in Nat /\ current \in 0 .. Len(objects)  BY ObjectsCounted, Zenon DEF BookInv
  <2>. QED  BY <2>1, SMT
<1>4. SoundObjects(Owed, objects') /\ Len(objects') = Len(objects)
  <2>1. PICK n : n = current  OBVIOUS
  <2>2. n \in 1 .. Len(objects) /\ SetObject(n, pos)  BY <1>2, <1>3, <2>1, Zenon DEF SetObject
  <2>. QED  BY <2>2, SetIsSound, Zenon
<1>5. PICK e : e = [NoExit EXCEPT !.stage = "executing", !.object = current]  OBVIOUS
<1>6. closing' = e  BY <1>5, Zenon DEF ExitRuns
<1>7. /\ e = [stage |-> "executing", object |-> current, verdict |-> "none",
              fills |-> Nothing, projected |-> NoProjection]
  <2>1. PICK started : started = [NoExit EXCEPT !.stage = "executing"]  OBVIOUS
  <2>2. e = [started EXCEPT !.object = current]  BY <1>5, <2>1, Zenon
  <2>3. started = [stage |-> "executing", object |-> 0, verdict |-> "none",
                   fills |-> Nothing, projected |-> NoProjection]
    BY <2>1, SMT DEF NoExit
  <2>. QED  BY <2>2, <2>3, SMT
<1>8. Nothing \in Remaining  BY LotAssumption, SMT DEF Nothing, Remaining
<1>9. e \in Closings /\ e.stage = "executing" /\ e.object = current /\ e.projected = NoProjection
  BY <1>3, <1>7, <1>8, SMT DEF Closings
<1>10. ~Unaccounted' /\ ~Unaccounted
  <2>1. ~Unaccounted'  BY <1>6, <1>9, Zenon DEF Unaccounted
  <2>2. ~Unaccounted  BY <1>2, Zenon DEF Unaccounted
  <2>. QED  BY <2>1, <2>2
<1>11. \A r \in Roles : Owed[r]' <= Owed[r]  BY <1>1, <1>10, OwedFalls, Zenon
<1>12. Quantities'  BY <1>1, <1>10, Zenon DEF BookInv, Quantities
<1>13. SoundExit(Owed', closing', Len(objects'))
  <2>1. current \in 1 .. Len(objects')  BY <1>3, <1>4, Zenon
  <2>. QED  BY <1>6, <1>9, <2>1, Zenon DEF SoundExit, Due
<1>14. /\ Due(Owed, partialDue') /\ Due(Owed, finalDue') /\ SoundRow(Owed, tradeRow')
       /\ finalDue' # NoProjection => finalDue'.state = "FLAT"
       /\ SoundRetry(Owed, retrying', Len(objects')) /\ SoundReport(Owed, report')
       /\ current' \in 0 .. Len(objects')
  BY <1>1, <1>4, Zenon DEF BookInv
<1>. QED  BY <1>4, <1>11, <1>12, <1>13, <1>14, KeepsBook, Zenon

(* The monitor's exit, the operator's, and the flatten that lifts the quarantine. *)
LEMMA AnyExitStarts ==
  ASSUME BookInv, AutomaticExit \/ closeManually \/ flattenAttributedBoxExposure PROVE BookInv'
<1>1. current # 0  BY Zenon DEF AutomaticExit, closeManually, flattenAttributedBoxExposure
<1>2. Len(objects) \in Nat /\ current \in 0 .. Len(objects)  BY ObjectsCounted, Zenon DEF BookInv
<1>3. current \in 1 .. Len(objects)  BY <1>1, <1>2, SMT
<1>4. Sound(Owed, Pos)  BY <1>3, Zenon DEF BookInv, SoundObjects, Pos
<1>5. CASE AutomaticExit \/ closeManually
  <2>1. ExitRuns(Pos)  BY <1>5, Zenon DEF AutomaticExit, closeManually
  <2>2. PICK pos : pos = Pos  OBVIOUS
  <2>3. ExitRuns(pos) /\ Sound(Owed, pos)
    <3>1. closing.stage = "idle" /\ exitCount < MaxExits  BY <2>1, Zenon DEF ExitRuns
    <3>. QED  BY <1>4, <2>1, <2>2, Zenon DEF ExitRuns
  <2>. QED  BY <1>1, <2>3, BoxExitStarts, Zenon
<1>6. CASE flattenAttributedBoxExposure
  <2>1. PICK pos : pos = [Pos EXCEPT !.state = deriveBoxPositionState(Pos.remaining, "none")]  OBVIOUS
  <2>2. ExitRuns(pos)
    BY <1>6, <2>1, Zenon DEF flattenAttributedBoxExposure, ExitRuns
  <2>3. PICK p : p = Pos  OBVIOUS
  <2>4. p \in Projections /\ Covering(Owed, p.remaining)  BY <1>4, <2>3, Zenon DEF Sound
  <2>5. PICK rem : rem = p.remaining  OBVIOUS
  <2>6. PICK state : state = deriveBoxPositionState(rem, "none")  OBVIOUS
  <2>7. pos = [p EXCEPT !.state = state]  BY <2>1, <2>3, <2>5, <2>6, Zenon
  <2>8. rem \in Remaining  BY <2>4, <2>5, SMT DEF Projections
  <2>9. pos = [remaining |-> rem, state |-> state]  BY <2>4, <2>5, <2>7, SMT DEF Projections
  <2>10. Sound(Owed, pos)
    BY <2>4, <2>5, <2>6, <2>8, <2>9, DerivedIsSound, Zenon
  <2>. QED  BY <1>1, <2>2, <2>10, BoxExitStarts, Zenon
<1>. QED  BY <1>5, <1>6

(* What the invariant says of a role. *)
LEMMA OfARole ==
  ASSUME BookInv, NEW r \in Roles
  PROVE  /\ account[r] \in Nat /\ account[r] <= Lot /\ working[r] \in Nat /\ working[r] <= account[r]
         /\ closing.fills[r] \in Nat
         /\ Unaccounted => account[r] + closing.fills[r] <= Lot
         /\ Unaccounted /\ ~ReconcilesDuringExit => Owed[r] = account[r] + closing.fills[r]
         /\ ~(Unaccounted /\ ~ReconcilesDuringExit) => Owed[r] = account[r]
<1>1. account \in Remaining /\ working \in [Roles -> Nat] /\ working[r] <= account[r]
  BY Zenon DEF BookInv, Quantities
<1>2. closing.fills \in Remaining  BY Zenon DEF BookInv, SoundExit, Closings
<1>3. account[r] \in Nat /\ account[r] <= Lot /\ closing.fills[r] \in Nat /\ working[r] \in Nat
  BY <1>1, <1>2, LotAssumption, SMT DEF Remaining
<1>4. Unaccounted => account[r] + closing.fills[r] <= Lot  BY Zenon DEF BookInv, Quantities
<1>5. Owed[r] = IF Unaccounted /\ ~ReconcilesDuringExit THEN account[r] + closing.fills[r] ELSE account[r]
  BY Zenon DEF Owed
<1>6. /\ Unaccounted /\ ~ReconcilesDuringExit => Owed[r] = account[r] + closing.fills[r]
      /\ ~(Unaccounted /\ ~ReconcilesDuringExit) => Owed[r] = account[r]
  BY <1>5, Zenon
<1>. QED  BY <1>1, <1>3, <1>4, <1>6

(* An order whose outcome nobody knew fills, or ends. *)
LEMMA LateFillKeeps == ASSUME BookInv, NEW r \in Roles, LateFill(r) PROVE BookInv'
<1>1. UNCHANGED <<tradeRow, objects, current, closing, partialDue, finalDue, retrying, report>>
  BY Zenon DEF LateFill
<1>2. PICK filled \in {0, 1} : account' = [account EXCEPT ![r] = @ - filled]
  BY Zenon DEF LateFill
<1>3. working[r] > 0 /\ working' = [working EXCEPT ![r] = @ - 1]  BY Zenon DEF LateFill
<1>4. account \in Remaining /\ working \in [Roles -> Nat]  BY Zenon DEF BookInv, Quantities
<1>5. ASSUME NEW s \in Roles
      PROVE  /\ account'[s] \in 0 .. Lot /\ account'[s] <= account[s]
             /\ working'[s] \in Nat /\ working'[s] <= account'[s]
  <2>1. account[s] \in Nat /\ account[s] <= Lot /\ working[s] \in Nat /\ working[s] <= account[s]
    BY OfARole, Zenon
  <2>2. account'[s] = (IF s = r THEN account[s] - filled ELSE account[s])
    BY <1>2, <1>4, SMT DEF Remaining
  <2>3. working'[s] = (IF s = r THEN working[s] - 1 ELSE working[s])
    BY <1>3, <1>4, SMT
  <2>4. s = r => working[s] > 0  BY <1>3
  <2>. QED  BY <2>1, <2>2, <2>3, <2>4, LotAssumption, SMT
<1>6. account' \in Remaining /\ working' \in [Roles -> Nat]
  <2>1. account \in [Roles -> Int] /\ working \in [Roles -> Int]
    BY <1>4, LotAssumption, SMT DEF Remaining
  <2>2. account' \in [Roles -> Int] /\ working' \in [Roles -> Int]
    BY <1>2, <1>3, <2>1, SMT
  <2>3. account' \in Remaining  BY <1>5, <2>2, SMT DEF Remaining
  <2>4. working' \in [Roles -> Nat]  BY <1>5, <2>2, SMT
  <2>. QED  BY <2>3, <2>4
<1>7. Unaccounted' <=> Unaccounted  BY <1>1, Zenon DEF Unaccounted
<1>8. ASSUME Unaccounted', NEW s \in Roles PROVE account'[s] + closing'.fills[s] <= Lot
  <2>1. account[s] \in Nat /\ closing.fills[s] \in Nat /\ account[s] + closing.fills[s] <= Lot
    BY <1>7, <1>8, OfARole, Zenon
  <2>2. account'[s] \in Nat /\ account'[s] <= account[s]  BY <1>5, LotAssumption, SMT
  <2>3. PICK f : f = closing.fills[s]  OBVIOUS
  <2>4. closing'.fills[s] = f  BY <1>1, <2>3, Zenon
  <2>5. f \in Nat /\ account[s] + f <= Lot  BY <2>1, <2>3, Zenon
  <2>6. account'[s] + f <= Lot  BY <2>1, <2>2, <2>5, LotAssumption, SMT
  <2>. QED  BY <2>4, <2>6, Zenon
<1>9. Quantities'  BY <1>5, <1>6, <1>8, Zenon DEF Quantities
<1>10. ASSUME NEW s \in Roles PROVE Owed[s]' <= Owed[s]
  <2>1. Owed'[s] = IF Unaccounted /\ ~ReconcilesDuringExit THEN account'[s] + closing.fills[s] ELSE account'[s]
    BY <1>1, <1>7, Zenon DEF Owed
  <2>2. account'[s] \in Nat /\ account'[s] <= account[s]  BY <1>5, LotAssumption, SMT
  <2>3. CASE Unaccounted /\ ~ReconcilesDuringExit
    <3>1. Owed[s] = account[s] + closing.fills[s] /\ account[s] \in Nat /\ closing.fills[s] \in Nat
      BY <2>3, OfARole, Zenon
    <3>2. Owed'[s] = account'[s] + closing.fills[s]  BY <2>1, <2>3, Zenon
    <3>3. PICK f : f = closing.fills[s]  OBVIOUS
    <3>4. f \in Nat /\ account'[s] + f <= account[s] + f  BY <2>2, <3>1, <3>3, SMT
    <3>. QED  BY <3>1, <3>2, <3>3, <3>4, Zenon
  <2>4. CASE ~(Unaccounted /\ ~ReconcilesDuringExit)
    <3>1. Owed[s] = account[s] /\ Owed'[s] = account'[s]  BY <2>1, <2>4, OfARole, Zenon
    <3>. QED  BY <2>2, <3>1, Zenon
  <2>. QED  BY <2>3, <2>4
<1>11. SoundExit(Owed', closing', Len(objects'))
  <2>1. closing \in Closings /\ SoundExit(Owed, closing, Len(objects)) /\ account' \in Remaining
    BY <1>6, Zenon DEF BookInv, SoundExit
  <2>2. PICK owed : owed = Owed  OBVIOUS
  <2>3. PICK less : less = Owed'  OBVIOUS
  <2>4. owed \in [Roles -> Nat]  BY <2>1, <2>2, <1>4, OwedTyped, Zenon
  <2>5. ASSUME NEW s \in Roles PROVE less[s] \in Nat /\ less[s] <= owed[s]
    <3>1. less[s] <= owed[s]  BY <1>10, <2>2, <2>3, Zenon
    <3>2. less[s] = IF Unaccounted /\ ~ReconcilesDuringExit THEN account'[s] + closing.fills[s] ELSE account'[s]
      BY <1>1, <1>7, <2>3, Zenon DEF Owed
    <3>3. PICK f : f = closing.fills[s]  OBVIOUS
    <3>4. f \in Nat /\ account'[s] \in Nat  BY <1>5, <3>3, OfARole, LotAssumption, SMT
    <3>5. account'[s] + f \in Nat  BY <3>4, SMT
    <3>. QED  BY <3>1, <3>2, <3>3, <3>4, <3>5, Zenon
  <2>6. less \in [Roles -> Nat]
    <3>1. less = [s \in Roles |-> less[s]]  BY <2>3, Zenon DEF Owed
    <3>. QED  BY <2>5, <3>1, Zenon
  <2>7. SoundExit(less, closing, Len(objects))  BY <2>1, <2>2, <2>4, <2>5, <2>6, LessIsCovered, Zenon
  <2>. QED  BY <1>1, <2>3, <2>7, Zenon
<1>12. /\ SoundRow(Owed, tradeRow') /\ SoundObjects(Owed, objects') /\ current' \in 0 .. Len(objects')
       /\ Due(Owed, partialDue') /\ Due(Owed, finalDue')
       /\ finalDue' # NoProjection => finalDue'.state = "FLAT"
       /\ SoundRetry(Owed, retrying', Len(objects')) /\ SoundReport(Owed, report')
  BY <1>1, Zenon DEF BookInv
<1>. QED  BY <1>9, <1>10, <1>11, <1>12, KeepsBook, Zenon

(* The orders of an exit fill: what the account gives is what the exit has to account for. *)
LEMMA ExecutionKeeps == ASSUME BookInv, ExitExecutes PROVE BookInv'
<1>1. UNCHANGED <<tradeRow, objects, current, partialDue, finalDue, retrying, report>>
  BY Zenon DEF ExitExecutes
<1>2. closing.stage = "executing"  BY Zenon DEF ExitExecutes
<1>3. PICK rem : rem = objects[closing.object].remaining  OBVIOUS
<1>4. PICK room : room = [r \in Roles |-> IF rem[r] < account[r] - working[r] THEN rem[r] ELSE account[r] - working[r]]
  OBVIOUS
<1>5. PICK fills \in Remaining :
        /\ \A r \in Roles : fills[r] <= room[r]
        /\ account' = Minus(account, fills)
        /\ \/ /\ closing' = [closing EXCEPT !.stage = "persisting", !.verdict = "confirmed", !.fills = fills]
              /\ UNCHANGED working
           \/ /\ closing' = [closing EXCEPT !.stage = "persisting", !.verdict = "uncertain", !.fills = fills]
              /\ working' = [r \in Roles |-> working[r] + (room[r] - fills[r])]
  BY <1>3, <1>4, Zenon DEF ExitExecutes
<1>6. PICK v \in {"confirmed", "uncertain"} :
        closing' = [closing EXCEPT !.stage = "persisting", !.verdict = v, !.fills = fills]
  BY <1>5, Zenon
<1>7. closing \in Closings /\ closing.object \in 1 .. Len(objects) /\ closing.projected = NoProjection
  BY <1>2, Zenon DEF BookInv, SoundExit
<1>8. /\ closing' \in Closings /\ closing'.stage = "persisting" /\ closing'.object = closing.object
      /\ closing'.fills = fills /\ closing'.projected = NoProjection
  <2>1. PICK a : a = [closing EXCEPT !.stage = "persisting"]  OBVIOUS
  <2>2. PICK b : b = [a EXCEPT !.verdict = v]  OBVIOUS
  <2>3. PICK c : c = [b EXCEPT !.fills = fills]  OBVIOUS
  <2>4. closing' = c  BY <1>6, <2>1, <2>2, <2>3, Zenon
  <2>5. a \in Closings /\ a.stage = "persisting" /\ a.object = closing.object /\ a.projected = NoProjection
    BY <1>7, <2>1, SMT DEF Closings
  <2>6. b \in Closings /\ b.stage = "persisting" /\ b.object = closing.object /\ b.projected = NoProjection
    BY <2>2, <2>5, SMT DEF Closings
  <2>7. c \in Closings /\ c.stage = "persisting" /\ c.object = closing.object /\ c.projected = NoProjection
        /\ c.fills = fills
    BY <1>5, <2>3, <2>6, SMT DEF Closings
  <2>. QED  BY <2>4, <2>7
<1>9. rem \in Remaining
  <2>1. objects[closing.object] \in Projections  BY <1>7, Zenon DEF BookInv, SoundObjects, Sound
  <2>. QED  BY <1>3, <2>1, SMT DEF Projections
<1>10. ASSUME NEW r \in Roles
       PROVE  /\ fills[r] \in Nat /\ account'[r] = account[r] - fills[r] /\ account'[r] \in 0 .. Lot
              /\ room[r] - fills[r] \in Nat /\ working[r] + (room[r] - fills[r]) <= account'[r]
              /\ working[r] <= account'[r]
  <2>1. account[r] \in Nat /\ account[r] <= Lot /\ working[r] \in Nat /\ working[r] <= account[r]
    BY OfARole, Zenon
  <2>2. fills[r] \in Nat /\ rem[r] \in Nat  BY <1>5, <1>9, LotAssumption, SMT DEF Remaining
  <2>3. room[r] = IF rem[r] < account[r] - working[r] THEN rem[r] ELSE account[r] - working[r]
    BY <1>4, Zenon
  <2>4. fills[r] <= room[r]  BY <1>5
  <2>5. account'[r] = IF account[r] > fills[r] THEN account[r] - fills[r] ELSE 0
    BY <1>5, Zenon DEF Minus
  <2>. QED  BY <2>1, <2>2, <2>3, <2>4, <2>5, LotAssumption, SMT
<1>11. account' \in Remaining
  <2>1. account' = [r \in Roles |-> account'[r]]  BY <1>5, Zenon DEF Minus
  <2>2. [r \in Roles |-> account'[r]] \in Remaining  BY <1>10, Zenon DEF Remaining
  <2>. QED  BY <2>1, <2>2, Zenon
<1>12. working' \in [Roles -> Nat] /\ \A r \in Roles : working'[r] <= account'[r]
  <2>1. CASE working' = working
    <3>1. working \in [Roles -> Nat]  BY Zenon DEF BookInv, Quantities
    <3>. QED  BY <1>10, <2>1, <3>1, Zenon
  <2>2. CASE working' = [r \in Roles |-> working[r] + (room[r] - fills[r])]
    <3>1. ASSUME NEW r \in Roles PROVE working[r] + (room[r] - fills[r]) \in Nat
      <4>1. working[r] \in Nat /\ room[r] - fills[r] \in Nat  BY <1>10, OfARole, Zenon
      <4>. QED  BY <4>1, SMT
    <3>2. working' \in [Roles -> Nat]  BY <2>2, <3>1, Zenon
    <3>3. \A r \in Roles : working'[r] = working[r] + (room[r] - fills[r])  BY <2>2, Zenon
    <3>. QED  BY <1>10, <3>2, <3>3, Zenon
  <2>. QED  BY <1>5, <2>1, <2>2, Zenon
<1>13. ASSUME NEW r \in Roles PROVE account'[r] + closing'.fills[r] = account[r] /\ account'[r] <= account[r]
  <2>1. account[r] \in Nat /\ fills[r] \in Nat /\ account'[r] = account[r] - fills[r]
    BY <1>10, OfARole, Zenon
  <2>2. account'[r] + fills[r] = account[r] /\ account'[r] <= account[r]  BY <2>1, SMT
  <2>. QED  BY <1>8, <2>2, Zenon
<1>14. Quantities'
  <2>1. \A r \in Roles : account'[r] + closing'.fills[r] <= Lot
    BY <1>13, OfARole, Zenon
  <2>. QED  BY <1>11, <1>12, <2>1, Zenon DEF Quantities
<1>15. ASSUME NEW r \in Roles PROVE Owed[r]' <= Owed[r]
  <2>1. ~Unaccounted  BY <1>2, Zenon DEF Unaccounted
  <2>2. Owed[r] = account[r] /\ account[r] \in Nat  BY <2>1, OfARole, Zenon
  <2>3. Owed'[r] = account'[r] + closing'.fills[r] \/ Owed'[r] = account'[r]
    BY Zenon DEF Owed
  <2>4. account[r] <= account[r]  BY <2>2, SMT
  <2>. QED  BY <1>13, <2>2, <2>3, <2>4, Zenon
<1>16. SoundExit(Owed', closing', Len(objects'))
  BY <1>1, <1>7, <1>8, Zenon DEF SoundExit, Due
<1>17. /\ SoundRow(Owed, tradeRow') /\ SoundObjects(Owed, objects') /\ current' \in 0 .. Len(objects')
       /\ Due(Owed, partialDue') /\ Due(Owed, finalDue')
       /\ finalDue' # NoProjection => finalDue'.state = "FLAT"
       /\ SoundRetry(Owed, retrying', Len(objects')) /\ SoundReport(Owed, report')
  BY <1>1, Zenon DEF BookInv
<1>. QED  BY <1>14, <1>15, <1>16, <1>17, KeepsBook, Zenon

(* The exit ends: its outcome is written, kept for a retry, or nothing was closed. *)
LEMMA ExitEnds ==
  ASSUME BookInv, UNCHANGED <<account, working, retrying, report>>, closing' = NoExit,
         SoundRow(Owed, tradeRow'), SoundObjects(Owed, objects'), Len(objects') = Len(objects),
         current' \in 0 .. Len(objects'), Due(Owed, partialDue'), Due(Owed, finalDue'),
         finalDue' # NoProjection => finalDue'.state = "FLAT"
  PROVE  BookInv'
<1>1. ~Unaccounted'  BY Zenon DEF Unaccounted, NoExit
<1>2. \A r \in Roles : Owed[r]' <= Owed[r]  BY <1>1, OwedFalls, Zenon
<1>3. Quantities'  BY <1>1, Zenon DEF BookInv, Quantities
<1>4. NoExit \in Closings /\ NoExit.stage = "idle" /\ NoExit.projected = NoProjection
  <2>1. Nothing \in Remaining  BY LotAssumption, SMT DEF Nothing, Remaining
  <2>. QED  BY <2>1, SMT DEF NoExit, Closings
<1>5. SoundExit(Owed', closing', Len(objects'))  BY <1>4, Zenon DEF SoundExit, Due
<1>6. SoundRetry(Owed, retrying', Len(objects')) /\ SoundReport(Owed, report')  BY Zenon DEF BookInv
<1>. QED  BY <1>2, <1>3, <1>5, <1>6, KeepsBook, Zenon

(* The projection an exit writes covers the account: the fills come off quantities that    *)
(* had them, or nothing comes off (applyLeggingExitResult).                                *)
LEMMA ProjectedIsSound ==
  ASSUME BookInv, Unaccounted, Lot = 1 \/ ~ReconcilesDuringExit, NEW pos, Sound(Owed, pos)
  PROVE  Sound(account, Projected(pos, closing.verdict, closing.fills))
<1>1. PICK f : f = closing.fills  OBVIOUS
<1>2. PICK v : v = closing.verdict  OBVIOUS
<1>3. PICK rem : rem = pos.remaining  OBVIOUS
<1>4. pos \in Projections /\ Covering(Owed, rem)  BY <1>3, Zenon DEF Sound
<1>5. rem \in Remaining  BY <1>3, <1>4, SMT DEF Projections
<1>6. ASSUME NEW r \in Roles
      PROVE  /\ rem[r] \in 0 .. Lot /\ f[r] \in Nat /\ rem[r] >= account[r]
             /\ f[r] <= rem[r] => rem[r] - f[r] \in 0 .. Lot /\ rem[r] - f[r] >= account[r]
  <2>1. /\ account[r] \in Nat /\ account[r] <= Lot /\ f[r] \in Nat /\ account[r] + f[r] <= Lot
        /\ ~ReconcilesDuringExit => Owed[r] = account[r] + f[r]
        /\ ReconcilesDuringExit => Owed[r] = account[r]
    BY <1>1, OfARole, Zenon
  <2>2. rem[r] \in 0 .. Lot /\ rem[r] >= Owed[r]  BY <1>4, <1>5, Zenon DEF Covering, Remaining
  <2>. QED  BY <2>1, <2>2, LotAssumption, SMT
<1>7. Covering(account, rem)  BY <1>6, Zenon DEF Covering
<1>8. CASE v = "uncertain" \/ \E r \in Roles : f[r] > rem[r]
  <2>1. Projected(pos, v, f) = [remaining |-> rem, state |-> "RECOVERY"]
    BY <1>3, <1>8, Zenon DEF Projected
  <2>. QED  BY <1>1, <1>2, <1>5, <1>7, <2>1, RecoveryIsSound, Zenon
<1>9. CASE ~(v = "uncertain" \/ \E r \in Roles : f[r] > rem[r])
  <2>1. PICK d : d = Decremented(pos, f)  OBVIOUS
  <2>2. d = [r \in Roles |-> IF rem[r] > f[r] THEN rem[r] - f[r] ELSE 0]
    BY <1>3, <2>1, Zenon DEF Decremented, Minus
  <2>3. ASSUME NEW r \in Roles PROVE d[r] \in 0 .. Lot /\ d[r] >= account[r]
    <3>1. d[r] = IF rem[r] > f[r] THEN rem[r] - f[r] ELSE 0  BY <2>2, Zenon
    <3>2. f[r] <= rem[r]
      <4>1. ~(f[r] > rem[r])  BY <1>9
      <4>. QED  BY <1>6, <4>1, SMT
    <3>. QED  BY <1>6, <3>1, <3>2, LotAssumption, SMT
  <2>4. d \in Remaining /\ Covering(account, d)
    <3>1. d = [r \in Roles |-> d[r]]  BY <2>2, Zenon
    <3>2. [r \in Roles |-> d[r]] \in Remaining  BY <2>3, Zenon DEF Remaining
    <3>. QED  BY <2>3, <3>1, <3>2, Zenon DEF Covering
  <2>5. Projected(pos, v, f) = [remaining |-> d, state |-> deriveBoxPositionState(d, pos.state)]
    BY <1>3, <1>9, <2>1, Zenon DEF Projected
  <2>. QED  BY <1>1, <1>2, <2>4, <2>5, DerivedIsSound, Zenon
<1>. QED  BY <1>8, <1>9

(* The exit has its fills and projects what is left; nothing is written when nothing       *)
(* closed.                                                                                 *)
LEMMA ReturnKeeps ==
  ASSUME BookInv, ExitReturns, Lot = 1 \/ ~ReconcilesDuringExit PROVE BookInv'
<1>1. UNCHANGED <<account, working, tradeRow, objects, current, partialDue, finalDue, retrying, report>>
  BY Zenon DEF ExitReturns
<1>2. Unaccounted  BY Zenon DEF ExitReturns, Unaccounted
<1>3. /\ SoundRow(Owed, tradeRow') /\ SoundObjects(Owed, objects') /\ current' \in 0 .. Len(objects')
      /\ Due(Owed, partialDue') /\ Due(Owed, finalDue')
      /\ finalDue' # NoProjection => finalDue'.state = "FLAT"
      /\ SoundRetry(Owed, retrying', Len(objects')) /\ SoundReport(Owed, report')
      /\ Len(objects') = Len(objects)
  BY <1>1, Zenon DEF BookInv
<1>4. CASE closing' = NoExit
  BY <1>1, <1>3, <1>4, ExitEnds, Zenon
<1>5. CASE closing' # NoExit
  <2>1. PICK p : p = Projected(objects[closing.object], closing.verdict, closing.fills)  OBVIOUS
  <2>2. closing' = [closing EXCEPT !.projected = p]  BY <1>5, <2>1, Zenon DEF ExitReturns
  <2>3. closing \in Closings /\ closing.stage = "persisting" /\ closing.object \in 1 .. Len(objects)
    BY <1>2, Zenon DEF BookInv, SoundExit, Unaccounted
  <2>4. PICK pos : pos = objects[closing.object]  OBVIOUS
  <2>5. Sound(Owed, pos)  BY <2>3, <2>4, Zenon DEF BookInv, SoundObjects
  <2>6. Sound(account, p)  BY <1>2, <2>1, <2>4, <2>5, ProjectedIsSound, Zenon
  <2>7. p \in Projections /\ p # NoProjection
    <3>1. p \in Projections  BY <2>6, Zenon DEF Sound
    <3>. QED  BY <3>1, SMT DEF Projections, NoProjection, PositionStates
  <2>8. /\ closing' \in Closings /\ closing'.stage = "persisting" /\ closing'.object = closing.object
        /\ closing'.projected = p
    BY <2>2, <2>3, <2>7, SMT DEF Closings
  <2>9. ~Unaccounted'  BY <2>7, <2>8, Zenon DEF Unaccounted
  <2>10. Owed' = account
    <3>1. account = [r \in Roles |-> account[r]]  BY Zenon DEF BookInv, Quantities, Remaining
    <3>. QED  BY <1>1, <2>9, <3>1, Zenon DEF Owed
  <2>11. \A r \in Roles : Owed[r]' <= Owed[r]  BY <1>1, <2>9, OwedFalls, Zenon
  <2>12. Quantities'  BY <1>1, <2>9, Zenon DEF BookInv, Quantities
  <2>13. SoundExit(Owed', closing', Len(objects'))
    <3>1. PICK owed : owed = account  OBVIOUS
    <3>2. SoundExit(owed, closing', Len(objects))
      BY <2>3, <2>6, <2>8, <3>1, Zenon DEF SoundExit, Due
    <3>. QED  BY <1>1, <2>10, <3>1, <3>2, Zenon
  <2>. QED  BY <1>3, <2>11, <2>12, <2>13, KeepsBook, Zenon
<1>. QED  BY <1>4, <1>5

(* A close writes a flat row, and only a flat projection is closed (closeBoxTrade). *)
LEMMA CloseWritesFlat ==
  ASSUME BookInv, NEW p, Sound(Owed, p), p.state = "FLAT", NEW landed, closeBoxTrade(landed)
  PROVE  SoundRow(Owed, tradeRow')
<1>1. CASE tradeRow' = tradeRow  BY <1>1, Zenon DEF BookInv
<1>2. CASE tradeRow' = [status |-> "closed", remaining |-> Nothing, state |-> "FLAT"]
  <2>1. p.remaining = Nothing /\ Covering(Owed, Nothing)  BY Zenon DEF Sound
  <2>2. Nothing \in Remaining  BY LotAssumption, SMT DEF Nothing, Remaining
  <2>3. tradeRow' \in BookRows /\ tradeRow'.remaining = Nothing
    BY <1>2, <2>2, SMT DEF BookRows, PositionStates
  <2>. QED  BY <2>1, <2>3, Zenon DEF SoundRow
<1>. QED  BY <1>1, <1>2, Zenon DEF closeBoxTrade

(* A partial exit writes its projection to an open row (applyBoxPartialExit). *)
LEMMA PartialWritesSound ==
  ASSUME BookInv, NEW p, Sound(Owed, p), NEW landed, applyBoxPartialExit(landed, p)
  PROVE  SoundRow(Owed, tradeRow')
<1>1. CASE tradeRow' = tradeRow  BY <1>1, Zenon DEF BookInv
<1>2. CASE tradeRow' = [status |-> "open", remaining |-> p.remaining, state |-> p.state]
  <2>1. p \in Projections /\ Covering(Owed, p.remaining)  BY Zenon DEF Sound
  <2>2. tradeRow' \in BookRows /\ tradeRow'.remaining = p.remaining /\ tradeRow'.status = "open"
    BY <1>2, <2>1, SMT DEF BookRows, Projections
  <2>. QED  BY <2>1, <2>2, SMT DEF SoundRow
<1>. QED  BY <1>1, <1>2, Zenon DEF applyBoxPartialExit

(* A quarantined object keeps its quantities. *)
LEMMA QuarantineIsSound ==
  ASSUME NEW owed, NEW p, Sound(owed, p) PROVE Sound(owed, [p EXCEPT !.state = "RECOVERY"])
<1>1. p \in Projections  BY Zenon DEF Sound
<1>2. [p EXCEPT !.state = "RECOVERY"] = [remaining |-> p.remaining, state |-> "RECOVERY"]
      /\ p.remaining \in Remaining
  BY <1>1, SMT DEF Projections
<1>3. Covering(owed, p.remaining)  BY Zenon DEF Sound
<1>4. PICK rem : rem = p.remaining  OBVIOUS
<1>5. rem \in Remaining /\ Covering(owed, rem)  BY <1>2, <1>3, <1>4, Zenon
<1>6. PICK q : q = [remaining |-> rem, state |-> "RECOVERY"]  OBVIOUS
<1>7. Sound(owed, q)  BY <1>5, <1>6, RecoveryIsSound, Zenon
<1>. QED  BY <1>2, <1>4, <1>6, <1>7, Zenon

(* The store answers the close: confirmed, or kept for a retry with the object in          *)
(* quarantine (closePaperTrade).                                                           *)
LEMMA CloseKeeps == ASSUME BookInv, CloseAnswered PROVE BookInv'
<1>1. closing.projected # NoProjection /\ closing.projected.state = "FLAT"  BY Zenon DEF CloseAnswered
<1>2. PICK p : p = closing.projected  OBVIOUS
<1>3. PICK n : n = closing.object  OBVIOUS
<1>4. Sound(Owed, p) /\ p.state = "FLAT" /\ n \in 1 .. Len(objects)
  <2>1. closing.stage # "idle"
    <3>1. closing.stage = "persisting"  BY <1>1, Zenon DEF BookInv, SoundExit
    <3>. QED  BY <3>1
  <2>2. Due(Owed, closing.projected) /\ closing.object \in 1 .. Len(objects)
    BY <2>1, Zenon DEF BookInv, SoundExit
  <2>. QED  BY <1>1, <1>2, <1>3, <2>2, Zenon DEF Due
<1>5. PICK q : q = [objects[n] EXCEPT !.state = "RECOVERY"]  OBVIOUS
<1>6. Sound(Owed, q)
  <2>1. PICK o : o = objects[n]  OBVIOUS
  <2>2. Sound(Owed, o)  BY <1>4, <2>1, Zenon DEF BookInv, SoundObjects
  <2>. QED  BY <1>5, <2>1, <2>2, QuarantineIsSound, Zenon
<1>7. PICK landed \in BOOLEAN, told \in BOOLEAN :
        /\ closeBoxTrade(landed)
        /\ told => SetObject(n, p) /\ current' = 0 /\ UNCHANGED finalDue
        /\ ~told => SetObject(n, q) /\ finalDue' = p /\ UNCHANGED current
  BY <1>2, <1>3, <1>5, Zenon DEF CloseAnswered
<1>8. closing' = NoExit /\ UNCHANGED <<account, working, partialDue, retrying, report>>
  BY Zenon DEF CloseAnswered
<1>9. SoundRow(Owed, tradeRow')  BY <1>4, <1>7, CloseWritesFlat, Zenon
<1>10. SoundObjects(Owed, objects') /\ Len(objects') = Len(objects)
  BY <1>4, <1>6, <1>7, SetIsSound, Zenon
<1>11. current' \in 0 .. Len(objects')
  <2>1. Len(objects) \in Nat /\ current \in 0 .. Len(objects)  BY ObjectsCounted, Zenon DEF BookInv
  <2>2. current' = 0 \/ current' = current  BY <1>7
  <2>. QED  BY <1>10, <2>1, <2>2, SMT
<1>12. /\ Due(Owed, finalDue')
       /\ finalDue' # NoProjection => finalDue'.state = "FLAT"
       /\ Due(Owed, partialDue')
  BY <1>4, <1>7, <1>8, Zenon DEF BookInv, Due
<1>. QED  BY <1>8, <1>9, <1>10, <1>11, <1>12, ExitEnds, Zenon

(* The store answers a partial or quarantined exit. *)
LEMMA PartialKeeps == ASSUME BookInv, PartialAnswered PROVE BookInv'
<1>1. closing.projected # NoProjection  BY Zenon DEF PartialAnswered
<1>2. PICK p : p = closing.projected  OBVIOUS
<1>3. PICK n : n = closing.object  OBVIOUS
<1>4. Sound(Owed, p) /\ n \in 1 .. Len(objects)
  <2>1. closing.stage # "idle"
    <3>1. closing.stage = "persisting"  BY <1>1, Zenon DEF BookInv, SoundExit
    <3>. QED  BY <3>1
  <2>2. Due(Owed, closing.projected) /\ closing.object \in 1 .. Len(objects)
    BY <2>1, Zenon DEF BookInv, SoundExit
  <2>. QED  BY <1>1, <1>2, <1>3, <2>2, Zenon DEF Due
<1>5. PICK o : o = objects[n]  OBVIOUS
<1>6. PICK q : q = [o EXCEPT !.state = "RECOVERY"]  OBVIOUS
<1>7. Sound(Owed, o) /\ Sound(Owed, q)
  <2>1. Sound(Owed, o)  BY <1>4, <1>5, Zenon DEF BookInv, SoundObjects
  <2>. QED  BY <1>6, <2>1, QuarantineIsSound, Zenon
<1>8. PICK landed \in BOOLEAN :
        /\ applyBoxPartialExit(landed, p)
        /\ SetObject(n, p) \/ SetObject(n, o) \/ SetObject(n, q)
        /\ partialDue' = p \/ partialDue' = partialDue
  BY <1>2, <1>3, <1>5, <1>6, Zenon DEF PartialAnswered
<1>9. closing' = NoExit /\ UNCHANGED <<account, working, current, finalDue, retrying, report>>
  BY Zenon DEF PartialAnswered
<1>10. SoundRow(Owed, tradeRow')  BY <1>4, <1>8, PartialWritesSound, Zenon
<1>11. SoundObjects(Owed, objects') /\ Len(objects') = Len(objects)
  BY <1>4, <1>7, <1>8, SetIsSound, Zenon
<1>12. current' \in 0 .. Len(objects')  BY <1>9, <1>11, Zenon DEF BookInv
<1>13. /\ Due(Owed, finalDue')
       /\ finalDue' # NoProjection => finalDue'.state = "FLAT"
       /\ Due(Owed, partialDue')
  BY <1>4, <1>8, <1>9, Zenon DEF BookInv, Due
<1>. QED  BY <1>9, <1>10, <1>11, <1>12, <1>13, ExitEnds, Zenon

(* The monitor's cycle takes a pending outcome up for the object the book holds. *)
LEMMA RetryIsTaken == ASSUME BookInv, RetryStarts PROVE BookInv'
<1>1. UNCHANGED <<account, working, tradeRow, objects, current, closing, report>>
  BY Zenon DEF RetryStarts
<1>2. Owed' = Owed /\ \A r \in Roles : Owed[r]' <= Owed[r]  BY <1>1, OwedStays, Zenon
<1>3. Quantities'  BY <1>1, Zenon DEF BookInv, Quantities, Unaccounted
<1>4. /\ SoundRow(Owed, tradeRow') /\ SoundObjects(Owed, objects') /\ current' \in 0 .. Len(objects')
      /\ SoundExit(Owed, closing', Len(objects')) /\ SoundReport(Owed, report')
  BY <1>1, Zenon DEF BookInv
<1>5. SoundExit(Owed', closing', Len(objects'))
  <2>1. PICK owed : owed = Owed  OBVIOUS
  <2>. QED  BY <1>2, <1>4, <2>1, Zenon
<1>6. /\ Due(Owed, partialDue') /\ Due(Owed, finalDue')
      /\ finalDue' # NoProjection => finalDue'.state = "FLAT"
  BY Zenon DEF RetryStarts, BookInv, Due
<1>7. SoundRetry(Owed, retrying', Len(objects'))
  <2>1. CASE retrying' = retrying  BY <1>1, <2>1, Zenon DEF BookInv
  <2>2. CASE retrying' # retrying
    <3>1. /\ current # 0
          /\ \/ /\ finalDue # NoProjection
                /\ retrying' = [kind |-> "final", object |-> current, projected |-> finalDue]
             \/ /\ partialDue # NoProjection
                /\ retrying' = [kind |-> "partial", object |-> current, projected |-> partialDue]
      BY <2>2, Zenon DEF RetryStarts
    <3>2. Len(objects) \in Nat /\ current \in 0 .. Len(objects)  BY ObjectsCounted, Zenon DEF BookInv
    <3>3. current \in 1 .. Len(objects') /\ current \in Nat  BY <1>1, <3>1, <3>2, SMT
    <3>4. PICK p : p = retrying'.projected  OBVIOUS
    <3>5. \/ /\ finalDue # NoProjection
             /\ retrying' = [kind |-> "final", object |-> current, projected |-> p] /\ p = finalDue
          \/ /\ partialDue # NoProjection
             /\ retrying' = [kind |-> "partial", object |-> current, projected |-> p] /\ p = partialDue
      BY <3>1, <3>4, SMT
    <3>6. Sound(Owed, p)  BY <3>5, Zenon DEF BookInv, Due
    <3>7. p \in Projections  BY <3>6, Zenon DEF Sound
    <3>8. retrying' \in Retries /\ retrying'.object = current /\ retrying'.projected = p
      BY <3>3, <3>5, <3>7, SMT DEF Retries
    <3>9. retrying'.kind = "final" => p.state = "FLAT"
      <4>1. CASE p = finalDue /\ finalDue # NoProjection  BY <4>1, Zenon DEF BookInv
      <4>2. CASE retrying' = [kind |-> "partial", object |-> current, projected |-> p]
        <5>1. retrying'.kind = "partial"  BY <4>2
        <5>. QED  BY <5>1
      <4>. QED  BY <3>5, <4>1, <4>2, Zenon
    <3>. QED  BY <3>3, <3>6, <3>8, <3>9, Zenon DEF SoundRetry
  <2>. QED  BY <2>1, <2>2
<1>. QED  BY <1>2, <1>3, <1>4, <1>5, <1>6, <1>7, KeepsBook, Zenon

(* A retry is answered: what it wrote was sound when it was taken up, and what is owed has *)
(* only fallen since (retryPendingFinalPersists, retryPendingPartialPersists).             *)
LEMMA RetryKeepsBook ==
  ASSUME BookInv, retryPendingFinalPersists \/ retryPendingPartialPersists PROVE BookInv'
<1>1. UNCHANGED <<account, working, closing, report>> /\ retrying' = NoRetry
  BY Zenon DEF retryPendingFinalPersists, retryPendingPartialPersists
<1>2. Owed' = Owed /\ \A r \in Roles : Owed[r]' <= Owed[r]  BY <1>1, OwedStays, Zenon
<1>3. Quantities'  BY <1>1, Zenon DEF BookInv, Quantities, Unaccounted
<1>4. retrying.kind \in {"final", "partial"}
  BY Zenon DEF retryPendingFinalPersists, retryPendingPartialPersists
<1>5. PICK p : p = retrying.projected  OBVIOUS
<1>6. PICK n : n = retrying.object  OBVIOUS
<1>7. retrying.kind # "none"  BY <1>4
<1>8. /\ Sound(Owed, p) /\ n \in 1 .. Len(objects)
      /\ retrying.kind = "final" => p.state = "FLAT"
  BY <1>5, <1>6, <1>7, Zenon DEF BookInv, SoundRetry
<1>9. /\ SoundRow(Owed, tradeRow') /\ SoundObjects(Owed, objects') /\ Len(objects') = Len(objects)
      /\ current' = 0 \/ current' = current
      /\ partialDue' = NoProjection \/ partialDue' = partialDue
      /\ finalDue' = NoProjection \/ finalDue' = finalDue
  <2>1. CASE retryPendingFinalPersists
    <3>1. PICK landed \in BOOLEAN : closeBoxTrade(landed)
      BY <2>1, Zenon DEF retryPendingFinalPersists
    <3>2. p.state = "FLAT"  BY <1>8, <2>1, Zenon DEF retryPendingFinalPersists
    <3>3. SoundRow(Owed, tradeRow')  BY <1>8, <3>1, <3>2, CloseWritesFlat, Zenon
    <3>4. /\ objects' = objects /\ partialDue' = partialDue
          /\ current' = 0 \/ current' = current
          /\ finalDue' = NoProjection \/ finalDue' = finalDue
      BY <2>1, Zenon DEF retryPendingFinalPersists
    <3>. QED  BY <3>3, <3>4, Zenon DEF BookInv
  <2>2. CASE retryPendingPartialPersists
    <3>1. PICK landed \in BOOLEAN : /\ applyBoxPartialExit(landed, p)
                                    /\ SetObject(n, p) \/ objects' = objects
      BY <1>5, <1>6, <2>2, Zenon DEF retryPendingPartialPersists
    <3>2. SoundRow(Owed, tradeRow')  BY <1>8, <3>1, PartialWritesSound, Zenon
    <3>3. SoundObjects(Owed, objects') /\ Len(objects') = Len(objects)
      <4>1. CASE SetObject(n, p)  BY <1>8, <4>1, SetIsSound, Zenon
      <4>2. CASE objects' = objects  BY <4>2, Zenon DEF BookInv
      <4>. QED  BY <3>1, <4>1, <4>2
    <3>4. /\ current' = current /\ finalDue' = finalDue
          /\ partialDue' = NoProjection \/ partialDue' = partialDue
      BY <2>2, Zenon DEF retryPendingPartialPersists
    <3>. QED  BY <3>2, <3>3, <3>4, Zenon
  <2>. QED  BY <2>1, <2>2
<1>10. current' \in 0 .. Len(objects')
  <2>1. Len(objects) \in Nat /\ current \in 0 .. Len(objects)  BY ObjectsCounted, Zenon DEF BookInv
  <2>. QED  BY <1>9, <2>1, SMT
<1>11. SoundExit(Owed', closing', Len(objects'))
  <2>1. PICK owed : owed = Owed  OBVIOUS
  <2>2. SoundExit(owed, closing, Len(objects))  BY <2>1, Zenon DEF BookInv
  <2>. QED  BY <1>1, <1>2, <1>9, <2>1, <2>2, Zenon
<1>12. SoundRetry(Owed, retrying', Len(objects'))
  <2>1. NoProjection \in Projections \cup {NoProjection}  OBVIOUS
  <2>2. NoRetry \in Retries /\ NoRetry.kind = "none"  BY <2>1, SMT DEF NoRetry, Retries
  <2>3. NoRetry.kind # "final"  BY <2>2
  <2>. QED  BY <1>1, <2>2, <2>3, Zenon DEF SoundRetry
<1>13. /\ Due(Owed, partialDue') /\ Due(Owed, finalDue')
       /\ finalDue' # NoProjection => finalDue'.state = "FLAT"
       /\ SoundReport(Owed, report')
  BY <1>1, <1>9, Zenon DEF BookInv, Due
<1>. QED  BY <1>2, <1>3, <1>9, <1>10, <1>11, <1>12, <1>13, KeepsBook, Zenon

(* A reconciliation pass reads what the account holds. *)
LEMMA ReadKeeps == ASSUME BookInv, ReconcileReads PROVE BookInv'
<1>1. UNCHANGED <<account, working, closing, partialDue, finalDue, retrying, tradeRow, objects, current>>
      /\ report' = account
  BY Zenon DEF ReconcileReads
<1>2. ASSUME NEW r \in Roles PROVE account[r] >= Owed[r]
  <2>1. ~(Unaccounted /\ ~ReconcilesDuringExit)  BY Zenon DEF ReconcileReads
  <2>2. Owed[r] = account[r] /\ account[r] \in Nat  BY <2>1, OfARole, Zenon
  <2>. QED  BY <2>2, SMT
<1>3. SoundReport(Owed, report')
  <2>1. account \in Remaining  BY Zenon DEF BookInv, Quantities
  <2>. QED  BY <1>1, <1>2, <2>1, Zenon DEF SoundReport, Covering
<1>4. Len(objects) \in Nat  BY ObjectsCounted
<1>5. Len(objects') \in Nat /\ Len(objects) <= Len(objects')  BY <1>1, <1>4, SMT
<1>6. SoundRow(Owed, tradeRow') /\ SoundObjects(Owed, objects') /\ current' \in 0 .. Len(objects')
  BY <1>1, Zenon DEF BookInv
<1>. QED  BY <1>1, <1>3, <1>4, <1>5, <1>6, RowAndObjectsKeep, Zenon

(* The report is applied: to an open row, and to the object of the book once the store has *)
(* confirmed it; a trade with an uncertain order is quarantined.                           *)
LEMMA ApplyReportKeeps == ASSUME BookInv, markReconciliationRecovery PROVE BookInv'
<1>1. UNCHANGED <<account, working, closing, partialDue, finalDue, retrying, current>> /\ report' = NoReport
  BY Zenon DEF markReconciliationRecovery
<1>2. SoundReport(Owed, report')  BY <1>1, Zenon DEF SoundReport
<1>3. Len(objects) \in Nat /\ current \in 0 .. Len(objects)  BY ObjectsCounted, Zenon DEF BookInv
<1>4. SoundRow(Owed, tradeRow') /\ SoundObjects(Owed, objects') /\ Len(objects') = Len(objects)
  <2>1. CASE current = 0
    <3>1. UNCHANGED <<objects, tradeRow>>  BY <2>1, Zenon DEF markReconciliationRecovery
    <3>. QED  BY <3>1, Zenon DEF BookInv
  <2>2. CASE current # 0
    <3>1. PICK n : n = current  OBVIOUS
    <3>2. PICK o : o = Pos  OBVIOUS
    <3>3. PICK exact : exact = IF ~(report # o.remaining) THEN o
                               ELSE [remaining |-> report,
                                     state |-> IF isBoxPositionFlat(report) THEN "RECOVERY"
                                               ELSE deriveBoxPositionState(report, o.state)]
      OBVIOUS
    <3>4. PICK final, state :
            /\ final \in {"RECOVERY", exact.state} /\ state \in {exact.state, final}
            /\ SetObject(n, [exact EXCEPT !.state = final]) \/ objects' = objects
            /\ \/ tradeRow' = tradeRow
               \/ /\ tradeRow.status = "open"
                  /\ tradeRow' = [status |-> "open", state |-> state,
                                  remaining |-> IF report # o.remaining THEN report ELSE tradeRow.remaining]
      <4>1. PICK landed \in BOOLEAN, told \in BOOLEAN :
              LET changed == report # Pos.remaining
                  ex == IF ~changed THEN Pos
                           ELSE [remaining |-> report,
                                 state |-> IF isBoxPositionFlat(report) THEN "RECOVERY"
                                           ELSE deriveBoxPositionState(report, Pos.state)]
                  accepted == changed => told /\ tradeRow.status = "open"
                  fin == IF accepted /\ working # Nothing THEN "RECOVERY" ELSE ex.state IN
              /\ IF accepted THEN SetObject(current, [ex EXCEPT !.state = fin]) ELSE UNCHANGED objects
              /\ \E st \in {ex.state, fin} :
                   tradeRow' = IF landed /\ tradeRow.status = "open" /\ (changed \/ working # Nothing)
                               THEN [status |-> "open", state |-> st,
                                     remaining |-> IF changed THEN report ELSE tradeRow.remaining]
                               ELSE tradeRow
        BY <2>2, Zenon DEF markReconciliationRecovery
      <4>2. PICK accepted : accepted = (report # o.remaining => told /\ tradeRow.status = "open")
        OBVIOUS
      <4>3. PICK fin : fin = IF accepted /\ working # Nothing THEN "RECOVERY" ELSE exact.state
        OBVIOUS
      <4>4. fin \in {"RECOVERY", exact.state}  BY <4>3, Zenon
      <4>5. IF accepted THEN SetObject(n, [exact EXCEPT !.state = fin]) ELSE UNCHANGED objects
        BY <3>1, <3>2, <3>3, <4>1, <4>2, <4>3, Zenon
      <4>6. PICK st \in {exact.state, fin} :
              tradeRow' = IF landed /\ tradeRow.status = "open" /\ (report # o.remaining \/ working # Nothing)
                          THEN [status |-> "open", state |-> st,
                                remaining |-> IF report # o.remaining THEN report ELSE tradeRow.remaining]
                          ELSE tradeRow
        BY <3>1, <3>2, <3>3, <4>1, <4>2, <4>3, Zenon
      <4>. QED  BY <4>4, <4>5, <4>6, Zenon
    <3>5. n \in 1 .. Len(objects)  BY <1>3, <2>2, <3>1, SMT
    <3>6. Sound(Owed, o)  BY <3>1, <3>2, <3>5, Zenon DEF BookInv, SoundObjects, Pos
    <3>7. o \in Projections /\ o.remaining \in Remaining /\ Covering(Owed, o.remaining)
      <4>1. o \in Projections /\ Covering(Owed, o.remaining)  BY <3>6, Zenon DEF Sound
      <4>. QED  BY <4>1, SMT DEF Projections
    <3>8. report \in Remaining /\ Covering(Owed, report)
      <4>1. report # NoReport  BY Zenon DEF markReconciliationRecovery
      <4>. QED  BY <4>1, Zenon DEF BookInv, SoundReport
    <3>9. Sound(Owed, exact)
      <4>1. CASE report = o.remaining  BY <3>3, <3>6, <4>1, Zenon
      <4>2. CASE report # o.remaining /\ isBoxPositionFlat(report)
        <5>1. exact = [remaining |-> report, state |-> "RECOVERY"]  BY <3>3, <4>2, Zenon
        <5>. QED  BY <3>8, <5>1, RecoveryIsSound, Zenon
      <4>3. CASE report # o.remaining /\ ~isBoxPositionFlat(report)
        <5>1. exact = [remaining |-> report, state |-> deriveBoxPositionState(report, o.state)]
          BY <3>3, <4>3, Zenon
        <5>. QED  BY <3>8, <5>1, DerivedIsSound, Zenon
      <4>. QED  BY <4>1, <4>2, <4>3
    <3>10. exact \in Projections  BY <3>9, Zenon DEF Sound
    <3>11. Sound(Owed, [exact EXCEPT !.state = final])
      <4>1. CASE final = "RECOVERY"  BY <3>9, <4>1, QuarantineIsSound, Zenon
      <4>2. CASE final = exact.state
        <5>1. [exact EXCEPT !.state = final] = exact  BY <3>10, <4>2, SMT DEF Projections
        <5>. QED  BY <3>9, <5>1, Zenon
      <4>. QED  BY <3>4, <4>1, <4>2, Zenon
    <3>12. SoundObjects(Owed, objects') /\ Len(objects') = Len(objects)
      <4>1. CASE objects' = objects  BY <4>1, Zenon DEF BookInv
      <4>2. CASE SetObject(n, [exact EXCEPT !.state = final])
        <5>1. PICK p : p = [exact EXCEPT !.state = final]  OBVIOUS
        <5>2. SetObject(n, p) /\ Sound(Owed, p)  BY <3>11, <4>2, <5>1, Zenon
        <5>. QED  BY <3>5, <5>2, SetIsSound, Zenon
      <4>. QED  BY <3>4, <4>1, <4>2
    <3>13. SoundRow(Owed, tradeRow')
      <4>1. CASE tradeRow' = tradeRow  BY <4>1, Zenon DEF BookInv
      <4>2. CASE tradeRow' # tradeRow
        <5>1. PICK rem : rem = IF report # o.remaining THEN report ELSE tradeRow.remaining  OBVIOUS
        <5>2. tradeRow.status = "open" /\ tradeRow' = [status |-> "open", state |-> state, remaining |-> rem]
          BY <3>4, <4>2, <5>1, Zenon
        <5>3. tradeRow \in BookRows /\ Covering(Owed, tradeRow.remaining)
          BY <5>2, SMT DEF BookInv, SoundRow
        <5>4. tradeRow.remaining \in Remaining  BY <5>3, SMT DEF BookRows
        <5>5. rem \in Remaining /\ Covering(Owed, rem)  BY <3>8, <5>1, <5>3, <5>4, Zenon
        <5>6. state \in PositionStates
          <6>1. exact.state \in PositionStates  BY <3>10, SMT DEF Projections
          <6>. QED  BY <3>4, <6>1, SMT DEF PositionStates
        <5>7. tradeRow' \in BookRows /\ tradeRow'.status = "open" /\ tradeRow'.remaining = rem
          BY <5>2, <5>5, <5>6, SMT DEF BookRows
        <5>. QED  BY <5>5, <5>7, SMT DEF SoundRow
      <4>. QED  BY <4>1, <4>2
    <3>. QED  BY <3>12, <3>13
  <2>. QED  BY <2>1, <2>2
<1>5. current' \in 0 .. Len(objects') /\ Len(objects') \in Nat /\ Len(objects) <= Len(objects')
  BY <1>1, <1>3, <1>4, SMT
<1>. QED  BY <1>1, <1>2, <1>3, <1>4, <1>5, RowAndObjectsKeep, Zenon

(* The process dies: the row and the account stay. *)
LEMMA CrashKeeps == ASSUME BookInv, BookCrash PROVE BookInv'
<1>1. /\ UNCHANGED <<account, tradeRow, objects>> /\ closing' = NoExit /\ current' = 0
      /\ partialDue' = NoProjection /\ finalDue' = NoProjection /\ retrying' = NoRetry /\ report' = NoReport
  BY Zenon DEF BookCrash
<1>2. ~Unaccounted'  BY <1>1, Zenon DEF Unaccounted, NoExit
<1>3. \A r \in Roles : Owed[r]' <= Owed[r]  BY <1>1, <1>2, OwedFalls, Zenon
<1>4. working' \in [Roles -> Nat] /\ \A r \in Roles : working'[r] <= account'[r]
  <2>1. CASE working' = working  BY <1>1, <2>1, Zenon DEF BookInv, Quantities
  <2>2. CASE working' = [r \in Roles |-> account[r]]
    <3>1. \A r \in Roles : account[r] \in Nat /\ working'[r] = account[r]  BY <2>2, OfARole, Zenon
    <3>2. \A m \in Nat : m <= m  BY SMT
    <3>. QED  BY <1>1, <2>2, <3>1, <3>2, Zenon
  <2>. QED  BY <2>1, <2>2, Zenon DEF BookCrash
<1>5. Quantities'  BY <1>1, <1>2, <1>4, Zenon DEF BookInv, Quantities
<1>6. NoExit \in Closings /\ NoExit.stage = "idle" /\ NoExit.projected = NoProjection
  <2>1. Nothing \in Remaining  BY LotAssumption, SMT DEF Nothing, Remaining
  <2>. QED  BY <2>1, SMT DEF NoExit, Closings
<1>7. SoundExit(Owed', closing', Len(objects'))  BY <1>1, <1>6, Zenon DEF SoundExit, Due
<1>8. SoundRetry(Owed, retrying', Len(objects'))
  <2>1. NoProjection \in Projections \cup {NoProjection}  OBVIOUS
  <2>2. NoRetry \in Retries /\ NoRetry.kind = "none"  BY <2>1, SMT DEF NoRetry, Retries
  <2>3. NoRetry.kind # "final"  BY <2>2
  <2>. QED  BY <1>1, <2>2, <2>3, Zenon DEF SoundRetry
<1>9. current' \in 0 .. Len(objects')
  <2>1. Len(objects) \in Nat  BY ObjectsCounted
  <2>. QED  BY <1>1, <2>1, SMT
<1>10. /\ SoundRow(Owed, tradeRow') /\ SoundObjects(Owed, objects')
       /\ Due(Owed, partialDue') /\ Due(Owed, finalDue')
       /\ finalDue' # NoProjection => finalDue'.state = "FLAT"
       /\ SoundReport(Owed, report')
  BY <1>1, Zenon DEF BookInv, Due, SoundReport
<1>. QED  BY <1>3, <1>5, <1>7, <1>8, <1>9, <1>10, KeepsBook, Zenon

(* The entry has filled and nothing is written yet. *)
LEMMA BookStarts == BookInit => BookInv
<1>. SUFFICES ASSUME BookInit PROVE BookInv  OBVIOUS
<1>1. Nothing \in Remaining /\ fullLotByRole \in Remaining
  BY LotAssumption, SMT DEF Nothing, fullLotByRole, Remaining
<1>2. /\ account = fullLotByRole /\ working = Nothing /\ objects = <<>> /\ current = 0 /\ closing = NoExit
      /\ partialDue = NoProjection /\ finalDue = NoProjection /\ retrying = NoRetry /\ report = NoReport
      /\ tradeRow = [status |-> "absent", remaining |-> Nothing, state |-> "BOX"]
  BY Zenon DEF BookInit
<1>3. NoExit \in Closings /\ NoExit.stage = "idle" /\ NoExit.projected = NoProjection
  BY <1>1, SMT DEF NoExit, Closings
<1>4. ~Unaccounted  BY <1>2, <1>3, Zenon DEF Unaccounted
<1>5. Quantities
  <2>1. \A r \in Roles : working[r] = 0 /\ account[r] = Lot
    BY <1>2, Zenon DEF Nothing, fullLotByRole
  <2>2. working \in [Roles -> Nat]  BY <1>2, SMT DEF Nothing
  <2>3. \A r \in Roles : working[r] <= account[r]
    <3>1. 0 <= Lot  BY LotAssumption, SMT
    <3>. QED  BY <2>1, <3>1, Zenon
  <2>. QED  BY <1>1, <1>2, <1>4, <2>2, <2>3, Zenon DEF Quantities
<1>6. SoundRow(Owed, tradeRow)
  <2>1. tradeRow \in BookRows /\ tradeRow.status = "absent"
    BY <1>1, <1>2, SMT DEF BookRows, PositionStates
  <2>2. tradeRow.status # "closed"  BY <2>1
  <2>. QED  BY <2>1, <2>2, Zenon DEF SoundRow
<1>7. SoundObjects(Owed, objects) /\ current \in 0 .. Len(objects) /\ Len(objects) = 0
  <2>1. objects \in Seq(Projections) /\ Len(objects) = 0  BY <1>2, SMT
  <2>2. \A n \in 1 .. Len(objects) : FALSE  BY <2>1, SMT
  <2>3. current \in 0 .. Len(objects)  BY <1>2, <2>1, SMT
  <2>. QED  BY <2>1, <2>2, <2>3, Zenon DEF SoundObjects
<1>8. SoundExit(Owed, closing, Len(objects))  BY <1>2, <1>3, Zenon DEF SoundExit, Due
<1>9. SoundRetry(Owed, retrying, Len(objects))
  <2>1. NoProjection \in Projections \cup {NoProjection}  OBVIOUS
  <2>2. NoRetry \in Retries /\ NoRetry.kind = "none"  BY <2>1, SMT DEF NoRetry, Retries
  <2>3. NoRetry.kind # "final"  BY <2>2
  <2>. QED  BY <1>2, <2>2, <2>3, Zenon DEF SoundRetry
<1>10. /\ Due(Owed, partialDue) /\ Due(Owed, finalDue)
       /\ finalDue # NoProjection => finalDue.state = "FLAT"
       /\ SoundReport(Owed, report)
  BY <1>2, Zenon DEF Due, SoundReport
<1>. QED  BY <1>5, <1>6, <1>7, <1>8, <1>9, <1>10, Zenon DEF BookInv

(* Every step of the book. *)
LEMMA BookStep ==
  ASSUME Lot = 1 \/ ~ReconcilesDuringExit, BookInv, [BookNext]_bookVars PROVE BookInv'
<1>1. CASE openPaperTrade \/ drainOwnedExecutions  BY <1>1, InsertKeeps, Zenon
<1>2. CASE DrainStarts \/ UNCHANGED bookVars  BY <1>2, BookRests, Zenon
<1>3. CASE AutomaticExit \/ closeManually \/ flattenAttributedBoxExposure  BY <1>3, AnyExitStarts, Zenon
<1>4. CASE ExitExecutes  BY <1>4, ExecutionKeeps, Zenon
<1>5. CASE ExitReturns  BY <1>5, ReturnKeeps, Zenon
<1>6. CASE CloseAnswered  BY <1>6, CloseKeeps, Zenon
<1>7. CASE PartialAnswered  BY <1>7, PartialKeeps, Zenon
<1>8. CASE RetryStep  BY <1>8, RetryIsTaken, RetryKeepsBook, Zenon DEF RetryStep
<1>9. ASSUME NEW r \in Roles, LateFill(r) PROVE BookInv'  BY <1>9, LateFillKeeps, Zenon
<1>10. CASE ReconcileReads  BY <1>10, ReadKeeps, Zenon
<1>11. CASE markReconciliationRecovery  BY <1>11, ApplyReportKeeps, Zenon
<1>12. CASE BookCrash  BY <1>12, CrashKeeps, Zenon
<1>13. CASE adoptOpenPositions  BY <1>13, RestartAdopts, Zenon
<1>. QED
  BY <1>1, <1>2, <1>3, <1>4, <1>5, <1>6, <1>7, <1>8, <1>9, <1>10, <1>11, <1>12, <1>13, Zenon DEF BookNext

(* Neither the row nor the object in the book ever claims less than the account holds, and *)
(* a trade is closed only when the account holds nothing of it, over lost answers, retries *)
(* of all three kinds, restarts and reconciliation in the middle of an exit: when a role   *)
(* is one indivisible lot, or else when no report is read between the fills of an exit and *)
(* its accounting (applyLeggingExitResult, closePaperTrade, markReconciliationRecovery).   *)
THEOREM BookNeverClaimsLess ==
  ASSUME Lot = 1 \/ ~ReconcilesDuringExit PROVE BookSpec => []BookCoversAccount
<1>1. BookInv => BookCoversAccount
  <2>. SUFFICES ASSUME BookInv PROVE BookCoversAccount  OBVIOUS
  <2>1. ASSUME NEW rem \in Remaining, Covering(Owed, rem), NEW r \in Roles PROVE rem[r] >= account[r]
    <3>1. rem[r] >= Owed[r]  BY <2>1, Zenon DEF Covering
    <3>2. rem[r] \in Nat  BY LotAssumption, SMT DEF Remaining
    <3>3. PICK f : f = closing.fills[r]  OBVIOUS
    <3>4. account[r] \in Nat /\ f \in Nat /\ (Owed[r] = account[r] \/ Owed[r] = account[r] + f)
      BY <3>3, OfARole, Zenon
    <3>. QED  BY <3>1, <3>2, <3>4, SMT
  <2>2. tradeRow \in BookRows  BY Zenon DEF BookInv, SoundRow
  <2>3. tradeRow.remaining \in Remaining  BY <2>2, SMT DEF BookRows
  <2>4. ClosedOnlyWhenFlat
    <3>. SUFFICES ASSUME tradeRow.status = "closed" PROVE account = Nothing  BY DEF ClosedOnlyWhenFlat
    <3>1. tradeRow.status # "absent"  OBVIOUS
    <3>2. tradeRow.remaining = Nothing /\ Covering(Owed, tradeRow.remaining)
      BY <3>1, Zenon DEF BookInv, SoundRow
    <3>3. ASSUME NEW r \in Roles PROVE account[r] = 0
      <4>1. Nothing[r] >= account[r]  BY <2>1, <2>3, <3>2, Zenon
      <4>2. Nothing[r] = 0 /\ account[r] \in Nat  BY OfARole, Zenon DEF Nothing
      <4>. QED  BY <4>1, <4>2, SMT
    <3>4. account = [r \in Roles |-> account[r]]  BY Zenon DEF BookInv, Quantities, Remaining
    <3>. QED  BY <3>3, <3>4, Zenon DEF Nothing
  <2>5. ASSUME tradeRow.status = "open", NEW r \in Roles PROVE tradeRow.remaining[r] >= account[r]
    <3>1. tradeRow.status # "absent"  BY <2>5
    <3>2. Covering(Owed, tradeRow.remaining)  BY <3>1, Zenon DEF BookInv, SoundRow
    <3>. QED  BY <2>1, <2>3, <3>2, Zenon
  <2>6. ASSUME current # 0, NEW r \in Roles PROVE Pos.remaining[r] >= account[r]
    <3>1. Len(objects) \in Nat /\ current \in 0 .. Len(objects)  BY ObjectsCounted, Zenon DEF BookInv
    <3>2. current \in 1 .. Len(objects)  BY <2>6, <3>1, SMT
    <3>3. PICK p : p = Pos  OBVIOUS
    <3>4. Sound(Owed, p)  BY <3>2, <3>3, Zenon DEF BookInv, SoundObjects, Pos
    <3>5. p \in Projections /\ Covering(Owed, p.remaining)  BY <3>4, Zenon DEF Sound
    <3>6. p.remaining \in Remaining  BY <3>5, SMT DEF Projections
    <3>. QED  BY <2>1, <3>3, <3>5, <3>6, Zenon
  <2>7. NoExposureForgotten  BY <2>5, <2>6, Zenon DEF NoExposureForgotten
  <2>. QED  BY <2>4, <2>7 DEF BookCoversAccount
<1>. QED  BY <1>1, BookStarts, BookStep, PTL DEF BookSpec

(* What a pending close needs: a position, an exit or a retry is of a trade that has a row, *)
(* and an exit under way, or a close still due, when the book holds no position is of a     *)
(* trade whose row is closed.                                                              *)
Traded == tradeRow.status \in {"open", "closed"}
Listed == \E S : objects \in Seq(S)
CloseInv ==
  /\ Listed
  /\ tradeRow.status \in {"absent", "open", "closed"}
  /\ current # 0 => Traded
  /\ closing.stage # "idle" => Traded
  /\ closing.projected # NoProjection => Traded
  /\ retrying.kind # "none" => Traded
  /\ /\ finalDue # NoProjection \/ closing.stage # "idle" \/ closing.projected # NoProjection
     /\ current = 0
     => tradeRow.status = "closed"

CloseKept == finalDue # NoProjection /\ finalDue' = NoProjection
               => tradeRow'.status = "closed" \/ insertion' = "down"

(* A trade's row stays, and once closed it stays closed. *)
RowStays ==
  /\ tradeRow'.status \in {"absent", "open", "closed"}
  /\ Traded => Traded'
  /\ tradeRow.status = "closed" => tradeRow'.status = "closed"

Writes ==
  \/ UNCHANGED objects
  \/ \E n, p : SetObject(n, p)
  \/ \E p : objects' = Append(objects, p)

(* What is written to the book leaves it a list. *)
LEMMA StaysListed == ASSUME Listed, Writes PROVE Listed' /\ Len(objects) + 1 # 0
<1>1. PICK S : objects \in Seq(S)  BY DEF Listed
<1>2. Len(objects) + 1 # 0  BY <1>1
<1>3. CASE UNCHANGED objects  BY <1>1, <1>3 DEF Listed
<1>4. ASSUME NEW n, NEW p, SetObject(n, p) PROVE Listed'
  <2>1. PICK T : T = S \cup {p}  OBVIOUS
  <2>2. objects \in Seq(T) /\ p \in T  BY <1>1, <2>1
  <2>3. [objects EXCEPT ![n] = p] \in Seq(T)
    <3>1. CASE n \in 1..Len(objects)  BY <2>2, <3>1, ExceptSeq
    <3>2. CASE n \notin 1..Len(objects)
      <4>1. DOMAIN objects = 1..Len(objects)  BY <2>2
      <4>2. [objects EXCEPT ![n] = p] = objects  BY <2>2, <3>2, <4>1
      <4>. QED  BY <2>2, <4>2
    <3>. QED  BY <3>1, <3>2
  <2>. QED  BY <1>4, <2>3, Zenon DEF SetObject, Listed
<1>5. ASSUME NEW p, objects' = Append(objects, p) PROVE Listed'
  <2>1. PICK T : T = S \cup {p}  OBVIOUS
  <2>2. objects \in Seq(T) /\ p \in T  BY <1>1, <2>1
  <2>3. Append(objects, p) \in Seq(T)  BY <2>2
  <2>. QED  BY <1>5, <2>3, Zenon DEF Listed
<1>. QED  BY <1>2, <1>3, <1>4, <1>5, Zenon DEF Writes

(* A step that leaves the exit, the retry and the pending close alone keeps it. *)
LEMMA BookkeepingKeepsClose ==
  ASSUME CloseInv, RowStays, Writes, UNCHANGED <<closing, retrying, finalDue>>,
         current' # 0 => Traded', current' = 0 => current = 0
  PROVE  CloseInv' /\ CloseKept
BY StaysListed, Zenon DEF CloseInv, RowStays, CloseKept

(* The writes of a row leave a closed one closed. *)
LEMMA RowWritesStay ==
  ASSUME tradeRow.status \in {"absent", "open", "closed"}
  PROVE  /\ insertBoxTrade.status \in {"open", "closed"}
         /\ tradeRow.status = "closed" => insertBoxTrade.status = "closed"
         /\ \A landed \in BOOLEAN : closeBoxTrade(landed) =>
              RowStays /\ (Traded /\ landed => tradeRow'.status = "closed")
         /\ \A landed, p : landed \in BOOLEAN /\ applyBoxPartialExit(landed, p) => RowStays
<1>1. insertBoxTrade.status \in {"open", "closed"} /\ (tradeRow.status = "closed" => insertBoxTrade.status = "closed")
  BY DEF insertBoxTrade, NewRow
<1>2. ASSUME NEW landed \in BOOLEAN, closeBoxTrade(landed)
      PROVE  RowStays /\ (Traded /\ landed => tradeRow'.status = "closed")
  <2>1. CASE landed /\ tradeRow.status = "open"
    <3>1. tradeRow' = [status |-> "closed", remaining |-> Nothing, state |-> "FLAT"]
      BY <1>2, <2>1, Zenon DEF closeBoxTrade
    <3>2. tradeRow'.status = "closed"  BY <3>1
    <3>. QED  BY <3>2, Zenon DEF RowStays, Traded
  <2>2. CASE ~(landed /\ tradeRow.status = "open")
    <3>1. tradeRow' = tradeRow  BY <1>2, <2>2, Zenon DEF closeBoxTrade
    <3>. QED  BY <2>2, <3>1, Zenon DEF RowStays, Traded
  <2>. QED  BY <2>1, <2>2
<1>3. ASSUME NEW landed \in BOOLEAN, NEW p, applyBoxPartialExit(landed, p) PROVE RowStays
  <2>1. CASE landed /\ tradeRow.status = "open"
    <3>1. tradeRow' = [status |-> "open", remaining |-> p.remaining, state |-> p.state]
      BY <1>3, <2>1, Zenon DEF applyBoxPartialExit
    <3>2. tradeRow'.status = "open"  BY <3>1
    <3>3. tradeRow.status # "closed"  BY <2>1
    <3>. QED  BY <3>2, <3>3, Zenon DEF RowStays, Traded
  <2>2. CASE ~(landed /\ tradeRow.status = "open")
    <3>1. tradeRow' = tradeRow  BY <1>3, <2>2, Zenon DEF applyBoxPartialExit
    <3>. QED  BY <3>1, Zenon DEF RowStays, Traded
  <2>. QED  BY <2>1, <2>2
<1>. QED  BY <1>1, <1>2, <1>3, Zenon

(* Inserting, adopting and reconciling. *)
LEMMA InsertionKeepsClose ==
  ASSUME CloseInv, openPaperTrade \/ drainOwnedExecutions
  PROVE  CloseInv' /\ CloseKept
<1>1. UNCHANGED <<closing, retrying, finalDue>>
  BY Zenon DEF openPaperTrade, drainOwnedExecutions
<1>2. PICK landed \in BOOLEAN, told \in BOOLEAN :
        /\ StoreAnswers(landed, told)
        /\ tradeRow' = IF landed THEN insertBoxTrade ELSE tradeRow
        /\ IF told THEN adoptDoc(insertBoxTrade) ELSE UNCHANGED current
  BY Zenon DEF openPaperTrade, drainOwnedExecutions
<1>3. tradeRow.status \in {"absent", "open", "closed"}  BY Zenon DEF CloseInv
<1>4. tradeRow' = insertBoxTrade \/ (tradeRow' = tradeRow /\ ~landed)  BY <1>2
<1>5. RowStays  BY <1>3, <1>4, RowWritesStay, Zenon DEF RowStays, Traded
<1>6. Writes  BY Zenon DEF openPaperTrade, drainOwnedExecutions, adoptDoc, Writes
<1>7. CASE told
  <2>1. tradeRow' = insertBoxTrade /\ current' = Len(objects) + 1
    BY <1>2, <1>7, Zenon DEF StoreAnswers, adoptDoc
  <2>2. Traded'  BY <1>3, <2>1, RowWritesStay, Zenon DEF Traded
  <2>3. current' # 0  BY <1>6, <2>1, StaysListed, Zenon DEF CloseInv
  <2>. QED  BY <1>1, <1>5, <1>6, <2>2, <2>3, BookkeepingKeepsClose, Zenon
<1>8. CASE ~told
  <2>1. current' = current  BY <1>2, <1>8, Zenon
  <2>2. current' # 0 => Traded'  BY <1>5, <2>1, Zenon DEF CloseInv, RowStays
  <2>. QED  BY <1>1, <1>5, <1>6, <2>1, <2>2, BookkeepingKeepsClose, Zenon
<1>. QED  BY <1>7, <1>8

(* An exit is of the position in the book, and what it writes is of a trade. *)
LEMMA ExitKeepsClose ==
  ASSUME CloseInv, AutomaticExit \/ closeManually \/ flattenAttributedBoxExposure \/ ExitExecutes \/ ExitReturns
  PROVE  CloseInv' /\ CloseKept
<1>1. UNCHANGED <<tradeRow, current, retrying, finalDue>>
  BY Zenon DEF AutomaticExit, closeManually, flattenAttributedBoxExposure, ExitRuns, ExitExecutes, ExitReturns
<1>2. Writes
  BY Zenon DEF AutomaticExit, closeManually, flattenAttributedBoxExposure, ExitRuns, ExitExecutes, ExitReturns, Writes
<1>3. Traded
  <2>1. CASE AutomaticExit \/ closeManually \/ flattenAttributedBoxExposure
    BY <2>1, Zenon DEF AutomaticExit, closeManually, flattenAttributedBoxExposure, CloseInv
  <2>2. CASE ExitExecutes \/ ExitReturns
    <3>1. closing.stage \in {"executing", "persisting"}  BY <2>2, Zenon DEF ExitExecutes, ExitReturns
    <3>2. closing.stage # "idle"  BY <3>1
    <3>. QED  BY <3>2, Zenon DEF CloseInv
  <2>. QED  BY <2>1, <2>2
<1>4. Listed'  BY <1>2, StaysListed, Zenon DEF CloseInv
<1>5. Traded'  BY <1>1, <1>3, Zenon DEF Traded
<1>6. current = 0 => tradeRow.status = "closed"
  <2>1. CASE AutomaticExit \/ closeManually \/ flattenAttributedBoxExposure
    BY <2>1, Zenon DEF AutomaticExit, closeManually, flattenAttributedBoxExposure
  <2>2. CASE ExitExecutes \/ ExitReturns
    <3>1. closing.stage \in {"executing", "persisting"}  BY <2>2, Zenon DEF ExitExecutes, ExitReturns
    <3>2. closing.stage # "idle"  BY <3>1
    <3>. QED  BY <3>2, Zenon DEF CloseInv
  <2>. QED  BY <2>1, <2>2
<1>. QED  BY <1>1, <1>4, <1>5, <1>6, Zenon DEF CloseInv, CloseKept

(* The store answers the write of an exit: told of a close, the row is closed; otherwise   *)
(* the close is due.                                                                       *)
LEMMA AnswerKeepsClose ==
  ASSUME CloseInv, CloseAnswered \/ PartialAnswered
  PROVE  CloseInv' /\ CloseKept
<1>1. Traded  BY Zenon DEF CloseAnswered, PartialAnswered, CloseInv
<1>2. closing'.stage = "idle" /\ closing'.projected = NoProjection /\ UNCHANGED retrying
  <2>1. closing' = NoExit /\ UNCHANGED retrying  BY Zenon DEF CloseAnswered, PartialAnswered
  <2>2. NoExit.stage = "idle" /\ NoExit.projected = NoProjection  BY DEF NoExit
  <2>. QED  BY <2>1, <2>2, Zenon
<1>3. tradeRow.status \in {"absent", "open", "closed"}  BY Zenon DEF CloseInv
<1>4. CASE CloseAnswered
  <2>1. PICK landed \in BOOLEAN, told \in BOOLEAN :
          /\ told => landed
          /\ closeBoxTrade(landed)
          /\ \E p : SetObject(closing.object, p)
          /\ \/ told /\ current' = 0 /\ finalDue' = finalDue
             \/ ~told /\ current' = current /\ finalDue' = closing.projected
    BY <1>4, Zenon DEF CloseAnswered, StoreAnswers
  <2>2. closing.projected # NoProjection  BY <1>4, Zenon DEF CloseAnswered
  <2>3. RowStays /\ (told => tradeRow'.status = "closed")  BY <1>1, <1>3, <2>1, RowWritesStay, Zenon
  <2>4. Listed'  BY <2>1, StaysListed, Zenon DEF CloseInv, Writes
  <2>5. Traded'  BY <1>1, <2>3, Zenon DEF RowStays
  <2>6. CloseKept  BY <2>1, <2>2, <2>3, Zenon DEF CloseKept
  <2>7. finalDue' # NoProjection /\ current' = 0 => tradeRow'.status = "closed"
    <3>1. CASE told  BY <2>3, <3>1
    <3>2. CASE ~told
      <4>1. current' = current  BY <2>1, <3>2, Zenon
      <4>2. current = 0 => tradeRow.status = "closed"  BY <2>2, Zenon DEF CloseInv
      <4>. QED  BY <4>1, <4>2, <2>3, Zenon DEF RowStays
    <3>. QED  BY <3>1, <3>2
  <2>. QED  BY <1>2, <2>3, <2>4, <2>5, <2>6, <2>7, Zenon DEF CloseInv, RowStays
<1>5. CASE PartialAnswered
  <2>1. PICK landed \in BOOLEAN : applyBoxPartialExit(landed, closing.projected)
    BY <1>5, Zenon DEF PartialAnswered
  <2>2. RowStays  BY <1>3, <2>1, RowWritesStay, Zenon
  <2>3. Writes  BY <1>5, Zenon DEF PartialAnswered, Writes
  <2>4. Listed'  BY <2>3, StaysListed, Zenon DEF CloseInv
  <2>5. UNCHANGED <<current, finalDue>>  BY <1>5, Zenon DEF PartialAnswered
  <2>6. Traded'  BY <1>1, <2>2, Zenon DEF RowStays
  <2>. QED  BY <1>2, <2>2, <2>4, <2>5, <2>6, Zenon DEF CloseInv, CloseKept, RowStays
<1>. QED  BY <1>4, <1>5

(* A retry drops the close only when the store has told that it is done, or when the book   *)
(* holds the position no more.                                                              *)
LEMMA RetryKeepsClose ==
  ASSUME CloseInv, RetryStep
  PROVE  CloseInv' /\ CloseKept
<1>1. UNCHANGED closing
  BY Zenon DEF RetryStep, RetryStarts, retryPendingFinalPersists, retryPendingPartialPersists
<1>2. tradeRow.status \in {"absent", "open", "closed"}  BY Zenon DEF CloseInv
<1>3. NoRetry.kind = "none"  BY DEF NoRetry
<1>4. CASE RetryStarts
  <2>1. UNCHANGED <<tradeRow, current, objects>>  BY <1>4, Zenon DEF RetryStarts
  <2>2. Listed'  BY <2>1, StaysListed, Zenon DEF CloseInv, Writes
  <2>3. CASE current = 0
    <3>1. UNCHANGED retrying /\ finalDue' = NoProjection  BY <1>4, <2>3, Zenon DEF RetryStarts
    <3>. QED  BY <1>1, <2>1, <2>2, <2>3, <3>1, Zenon DEF CloseInv, CloseKept, Traded
  <2>4. CASE current # 0
    <3>1. UNCHANGED finalDue  BY <1>4, <2>4, Zenon DEF RetryStarts
    <3>. QED  BY <1>1, <2>1, <2>2, <2>4, <3>1, Zenon DEF CloseInv, CloseKept, Traded
  <2>. QED  BY <2>3, <2>4
<1>5. CASE retryPendingFinalPersists
  <2>1. Traded
    <3>1. retrying.kind = "final"  BY <1>5, Zenon DEF retryPendingFinalPersists
    <3>2. retrying.kind # "none"  BY <3>1
    <3>. QED  BY <3>2, Zenon DEF CloseInv
  <2>2. PICK landed \in BOOLEAN, told \in BOOLEAN :
          /\ told => landed
          /\ closeBoxTrade(landed)
          /\ \/ told /\ current' = 0 /\ finalDue' = NoProjection
             \/ ~told /\ current' = current /\ finalDue' = finalDue
    BY <1>5, Zenon DEF retryPendingFinalPersists, StoreAnswers
  <2>3. UNCHANGED objects /\ retrying' = NoRetry  BY <1>5, Zenon DEF retryPendingFinalPersists
  <2>4. RowStays /\ (told => tradeRow'.status = "closed")  BY <1>2, <2>1, <2>2, RowWritesStay, Zenon
  <2>5. Listed'  BY <2>3, StaysListed, Zenon DEF CloseInv, Writes
  <2>6. Traded'  BY <2>1, <2>4, Zenon DEF RowStays
  <2>. QED  BY <1>1, <1>3, <2>2, <2>3, <2>4, <2>5, <2>6, Zenon DEF CloseInv, CloseKept, RowStays
<1>6. CASE retryPendingPartialPersists
  <2>1. PICK landed \in BOOLEAN : applyBoxPartialExit(landed, retrying.projected)
    BY <1>6, Zenon DEF retryPendingPartialPersists
  <2>2. RowStays  BY <1>2, <2>1, RowWritesStay, Zenon
  <2>3. Writes  BY <1>6, Zenon DEF retryPendingPartialPersists, Writes
  <2>4. Listed'  BY <2>3, StaysListed, Zenon DEF CloseInv
  <2>5. UNCHANGED <<current, finalDue>> /\ retrying' = NoRetry  BY <1>6, Zenon DEF retryPendingPartialPersists
  <2>. QED  BY <1>1, <1>3, <2>2, <2>4, <2>5, Zenon DEF CloseInv, CloseKept, RowStays
<1>. QED  BY <1>4, <1>5, <1>6, Zenon DEF RetryStep

(* A report writes quantities to an open row. *)
LEMMA ReconciliationKeepsClose ==
  ASSUME CloseInv, markReconciliationRecovery
  PROVE  CloseInv' /\ CloseKept
<1>1. UNCHANGED <<current, closing, retrying, finalDue>>  BY Zenon DEF markReconciliationRecovery
<1>2. Writes  BY Zenon DEF markReconciliationRecovery, Writes
<1>3. RowStays
  <2>1. tradeRow' = tradeRow \/ (tradeRow.status = "open" /\ \E s, rem : tradeRow' = [status |-> "open", state |-> s, remaining |-> rem])
    BY Zenon DEF markReconciliationRecovery
  <2>2. ASSUME tradeRow.status = "open", NEW s, NEW rem, tradeRow' = [status |-> "open", state |-> s, remaining |-> rem]
        PROVE  RowStays
    <3>1. tradeRow'.status = "open" /\ tradeRow.status # "closed"  BY <2>2
    <3>. QED  BY <3>1, Zenon DEF RowStays, Traded
  <2>3. CASE tradeRow' = tradeRow  BY <2>3, Zenon DEF RowStays, Traded, CloseInv
  <2>. QED  BY <2>1, <2>2, <2>3, Zenon
<1>4. current' # 0 => Traded'  BY <1>1, <1>3, Zenon DEF CloseInv, RowStays
<1>. QED  BY <1>1, <1>2, <1>3, <1>4, BookkeepingKeepsClose, Zenon

(* Nothing else touches a close. *)
LEMMA OthersKeepClose ==
  ASSUME CloseInv, DrainStarts \/ (\E r \in Roles : LateFill(r)) \/ ReconcileReads \/ UNCHANGED bookVars
  PROVE  CloseInv' /\ CloseKept
<1>1. UNCHANGED <<tradeRow, objects, current, closing, retrying, finalDue>>
  BY Zenon DEF DrainStarts, LateFill, ReconcileReads, bookVars
<1>2. RowStays /\ Writes  BY <1>1, Zenon DEF RowStays, Traded, CloseInv, Writes
<1>3. current' # 0 => Traded'  BY <1>1, <1>2, Zenon DEF CloseInv, RowStays
<1>. QED  BY <1>1, <1>2, <1>3, BookkeepingKeepsClose, Zenon

(* With the process goes the close; what it comes back with is an open row. *)
LEMMA RestartKeepsClose ==
  ASSUME CloseInv, BookCrash \/ adoptOpenPositions
  PROVE  CloseInv' /\ CloseKept
<1>1. CASE BookCrash
  <2>1. /\ insertion' = "down" /\ current' = 0 /\ closing' = NoExit /\ finalDue' = NoProjection
        /\ retrying' = NoRetry /\ UNCHANGED <<tradeRow, objects>>
    BY <1>1, Zenon DEF BookCrash
  <2>2. NoRetry.kind = "none" /\ NoExit.stage = "idle" /\ NoExit.projected = NoProjection
    BY DEF NoRetry, NoExit
  <2>3. Listed'  BY <2>1, StaysListed, Zenon DEF CloseInv, Writes
  <2>. QED  BY <2>1, <2>2, <2>3, Zenon DEF CloseInv, CloseKept
<1>2. CASE adoptOpenPositions
  <2>1. /\ UNCHANGED <<tradeRow, closing, retrying, finalDue>> /\ tradeRow.status = "open"
        /\ current' = Len(objects) + 1
    BY <1>2, Zenon DEF adoptOpenPositions, adoptDoc
  <2>2. Writes  BY <1>2, Zenon DEF adoptOpenPositions, adoptDoc, Writes
  <2>3. current' # 0  BY <2>1, <2>2, StaysListed, Zenon DEF CloseInv
  <2>4. Traded /\ Traded' /\ RowStays  BY <2>1, Zenon DEF Traded, RowStays
  <2>. QED  BY <2>1, <2>2, <2>3, <2>4, BookkeepingKeepsClose, Zenon
<1>. QED  BY <1>1, <1>2

(* A close that the store has not confirmed is not forgotten while the process lives: not   *)
(* by a retry that fails again, a report, a drain, a later exit or an adoption               *)
(* (pendingFinalPersists, retryPendingFinalPersists).                                       *)
THEOREM PendingCloseSurvives == BookSpec => PendingCloseIsKept
<1>1. BookInit => CloseInv
  <2>1. SUFFICES ASSUME BookInit PROVE CloseInv  OBVIOUS
  <2>2. objects \in Seq({})  BY <2>1 DEF BookInit
  <2>3. tradeRow.status = "absent"  BY <2>1 DEF BookInit
  <2>4. NoRetry.kind = "none" /\ NoExit.stage = "idle" /\ NoExit.projected = NoProjection
    BY DEF NoRetry, NoExit
  <2>5. current = 0 /\ closing = NoExit /\ retrying = NoRetry /\ finalDue = NoProjection
    BY <2>1, Zenon DEF BookInit
  <2>. QED  BY <2>2, <2>3, <2>4, <2>5, Zenon DEF CloseInv, Listed
<1>2. CloseInv /\ [BookNext]_bookVars => CloseInv' /\ CloseKept
  BY InsertionKeepsClose, ExitKeepsClose, AnswerKeepsClose, RetryKeepsClose, ReconciliationKeepsClose,
     OthersKeepClose, RestartKeepsClose, Zenon DEF BookNext
<1>. QED  BY <1>1, <1>2, PTL DEF BookSpec, PendingCloseIsKept, CloseKept
=============================================================================
