------------------------ MODULE EntryTransportProofs ------------------------
(***************************************************************************)
(* Theorems about EntryTransport for any number of attempts, legs and      *)
(* exits, any slots, lot and ceiling.                                      *)
(***************************************************************************)
EXTENDS EntryTransport, FiniteSetTheorems, TLAPS

USE LegCountAssumption, SlotsAssumption, LotAssumption

(* The ranks of an attempt are counted as its legs are. *)
LEMMA RankCount == /\ Cardinality(Ranks) = HedgeCount + SellCount
                   /\ Hedges \subseteq Ranks
  <1>1. 0 \in Int /\ HedgeCount + SellCount - 1 \in Int OBVIOUS
  <1>2. Cardinality(0..(HedgeCount + SellCount - 1)) =
          IF 0 > HedgeCount + SellCount - 1 THEN 0 ELSE (HedgeCount + SellCount - 1) - 0 + 1
        BY <1>1, FS_Interval
  <1> QED BY <1>2 DEF Ranks, Hedges

(* A leg is its attempt and its rank. *)
LEMMA LegParts ==
    ASSUME NEW l \in Legs
    PROVE  /\ AttemptOf(l) \in Attempts
           /\ RankOf(l) \in Ranks
           /\ l = <<AttemptOf(l), RankOf(l)>>
  BY DEF Legs, AttemptOf, RankOf

(* Registering keeps a gate well formed and leaves decisions and evidence alone. *)
LEMMA RegisterTypes ==
    ASSUME NEW g \in Gates, NEW l \in Legs
    PROVE  /\ Register(g, l) \in Gates
           /\ Register(g, l).present
           /\ Register(g, l).covered = g.covered
           /\ Register(g, l).decided = g.decided
  BY LegParts DEF Register, Gates

(* Deciding keeps a gate well formed and adds the leg's rank to the covered ones only *)
(* on proof.                                                                          *)
LEMMA GateTypes ==
    ASSUME NEW g \in Gates, NEW l \in Legs,
           NEW outcome \in {"posted", "no_post"}, NEW proven \in BOOLEAN
    PROVE  /\ NoGate \in Gates /\ ~NoGate.present /\ NoGate.covered = {}
           /\ Decide(g, l, outcome, proven) \in Gates
           /\ Decide(g, l, outcome, proven).present = g.present
           /\ \A r \in Decide(g, l, outcome, proven).covered :
                r \in g.covered \/ (proven /\ r = RankOf(l))
  <1>1. RankOf(l) \in Ranks BY LegParts
  <1>2. NoGate \in Gates BY DEF NoGate, Gates
  <1>4. /\ g.present \in BOOLEAN /\ g.registered \subseteq Ranks /\ g.covered \subseteq Hedges
        /\ g.decided \in [Ranks -> {"none", "posted", "no_post"}]
        BY DEF Gates
  <1> DEFINE r == RankOf(l)
             first == IF g.decided[r] = "none" THEN outcome ELSE g.decided[r]
             evidence == IF IsHedge(l) /\ proven THEN {r} ELSE {}
             dec == [g.decided EXCEPT ![r] = first]
  <1>5. dec \in [Ranks -> {"none", "posted", "no_post"}] BY <1>1, <1>4
  <1>6. g.covered \cup evidence \subseteq Hedges BY <1>4 DEF IsHedge
  <1>7. Decide(g, l, outcome, proven) = [present |-> g.present, registered |-> g.registered,
                                         decided |-> dec, covered |-> g.covered \cup evidence]
        BY DEF Decide
  <1>8. \A q \in g.covered \cup evidence : q \in g.covered \/ (proven /\ q = RankOf(l)) OBVIOUS
  <1> HIDE DEF dec, evidence
  <1>9. Decide(g, l, outcome, proven) \in Gates BY <1>4, <1>5, <1>6, <1>7 DEF Gates
  <1> QED BY <1>2, <1>7, <1>8, <1>9 DEF NoGate

-----------------------------------------------------------------------------
(* Types. *)

(* A decision keeps gates and stages well typed, and only the gate of its attempt     *)
(* gains evidence.                                                                    *)
LEMMA DecideRankFacts ==
    ASSUME TypeOK, NEW l \in Legs, NEW outcome \in {"posted", "no_post"}, NEW proven \in BOOLEAN,
           NEW g \in Gates, DecideRank(l, outcome, proven, g)
    PROVE  /\ gate' \in [Attempts -> Gates]
           /\ pc' \in [Legs -> Stages]
           /\ \A a \in Attempts : \A r \in gate'[a].covered :
                IF a = AttemptOf(l) THEN r \in g.covered \/ (proven /\ r = RankOf(l))
                                    ELSE r \in gate[a].covered
  <1> DEFINE d == Decide(g, l, outcome, proven)
             woken == IF g.present /\ HedgesDecided(d) THEN Parked(AttemptOf(l)) ELSE {}
             drop == Parked(AttemptOf(l)) \subseteq woken /\ AllDecided(d)
             new == IF ~g.present THEN g ELSE IF drop THEN NoGate ELSE d
  <1>1. /\ NoGate \in Gates /\ NoGate.covered = {} /\ d \in Gates
        /\ \A r \in d.covered : r \in g.covered \/ (proven /\ r = RankOf(l))
        BY GateTypes
  <1>2. gate \in [Attempts -> Gates] /\ pc \in [Legs -> Stages] BY DEF TypeOK
  <1>3. gate' = [gate EXCEPT ![AttemptOf(l)] = new] BY DEF DecideRank
  <1>4. pc' = [k \in Legs |-> IF k = l THEN "settled" ELSE IF k \in woken THEN "pacing" ELSE pc[k]]
        BY DEF DecideRank
  <1> HIDE DEF d, woken, drop
  <1>5. new \in Gates /\ \A r \in new.covered : r \in g.covered \/ (proven /\ r = RankOf(l))
        BY <1>1
  <1>6. pc' \in [Legs -> Stages] BY <1>2, <1>4 DEF Stages
  <1> HIDE DEF new
  <1> QED BY <1>2, <1>3, <1>5, <1>6, LegParts

(* The initial state is well typed. *)
LEMMA TypeInit == Init => TypeOK
  <1> SUFFICES ASSUME Init PROVE TypeOK OBVIOUS
  <1>1. NoGate \in Gates BY DEF NoGate, Gates
  <1>2. /\ queue \in Seq(Legs) /\ batch \in Seq(Legs) /\ exitQueue \in Seq(Exits)
        BY DEF Init
  <1>3. /\ filled \in [Legs -> 0..Quantity] /\ attributed \in [Legs -> 0..Quantity]
        BY DEF Init
  <1> QED BY <1>1, <1>2, <1>3 DEF Init, TypeOK, Stages

(* Every step keeps the state well typed. *)
LEMMA TypeStep == TypeOK /\ [Next]_vars => TypeOK'
  <1> SUFFICES ASSUME TypeOK, [Next]_vars PROVE TypeOK' OBVIOUS
  <1>t. /\ pc \in [Legs -> Stages] /\ gate \in [Attempts -> Gates]
        /\ queue \in Seq(Legs) /\ batch \in Seq(Legs) /\ exitQueue \in Seq(Exits)
        BY DEF TypeOK
  <1>1. ASSUME NEW a \in Attempts, SubmitAttempt(a) PROVE TypeOK'
    <2>1. batch' = [i \in 1..(HedgeCount + SellCount) |-> <<a, i - 1>>]
          BY <1>1, RankCount DEF SubmitAttempt
    <2>2. batch' \in [1..(HedgeCount + SellCount) -> Legs] BY <2>1 DEF Legs, Ranks
    <2>3. batch' \in Seq(Legs) BY <2>2
    <2> QED BY <1>1, <2>3 DEF SubmitAttempt, TypeOK, broker, exposure, controls
  <1>2. CASE AcceptLeg
    <2>1. batch # <<>> /\ Head(batch) \in Legs /\ Tail(batch) \in Seq(Legs)
          /\ Append(queue, Head(batch)) \in Seq(Legs)
          BY <1>2, <1>t DEF AcceptLeg
    <2> DEFINE l == Head(batch)
    <2>2. AttemptOf(l) \in Attempts BY <2>1, LegParts
    <2>3. Register(gate[AttemptOf(l)], l) \in Gates BY <2>1, <2>2, <1>t, RegisterTypes
    <2>4. gate' \in [Attempts -> Gates] BY <1>2, <1>t, <2>2, <2>3 DEF AcceptLeg
    <2>5. pc' \in [Legs -> Stages] BY <1>2, <1>t, <2>1 DEF AcceptLeg, Stages
    <2> QED BY <1>2, <2>1, <2>4, <2>5 DEF AcceptLeg, TypeOK, broker, controls
  <1>3. CASE RejectLeg
    <2>1. batch # <<>> /\ Head(batch) \in Legs /\ Tail(batch) \in Seq(Legs)
          BY <1>3, <1>t DEF RejectLeg
    <2> DEFINE l == Head(batch)
    <2>2. AttemptOf(l) \in Attempts BY <2>1, LegParts
    <2>3. Register(gate[AttemptOf(l)], l) \in Gates BY <2>1, <2>2, <1>t, RegisterTypes
    <2>4. gate' \in [Attempts -> Gates] /\ pc' \in [Legs -> Stages]
          BY <1>3, <2>1, <2>3, DecideRankFacts DEF RejectLeg
    <2> QED BY <1>3, <2>1, <2>4 DEF RejectLeg, TypeOK, broker, exposure, controls
  <1>4. ASSUME NEW x \in Exits, SubmitExit(x) PROVE TypeOK'
    BY <1>4 DEF SubmitExit, TypeOK, broker, exposure, controls
  <1>5. CASE PumpExit
    <2>1. exitQueue # <<>> /\ Head(exitQueue) \in Exits /\ Tail(exitQueue) \in Seq(Exits)
          BY <1>5, <1>t DEF PumpExit
    <2> QED BY <1>5, <2>1 DEF PumpExit, TypeOK, broker, exposure, controls
  <1>6. CASE PumpLeg
    <2>1. queue # <<>> /\ Head(queue) \in Legs /\ Tail(queue) \in Seq(Legs)
          BY <1>6, <1>t DEF PumpLeg
    <2>2. AdmittedSlot(Head(queue)) \in {"none", "base", "entry_burst"} BY DEF AdmittedSlot
    <2> QED BY <1>6, <2>1, <2>2 DEF PumpLeg, TypeOK, Stages, broker, exposure, controls
  <1>7. CASE PumpBlocked
    <2>1. queue # <<>> /\ Head(queue) \in Legs /\ Tail(queue) \in Seq(Legs)
          BY <1>7, <1>t DEF PumpBlocked
    <2> QED BY <1>7, <2>1 DEF PumpBlocked, TypeOK, Stages, broker, controls
  <1>8. CASE PumpReturns
    BY <1>8 DEF PumpReturns, TypeOK, broker, exposure, controls
  <1>9. ASSUME NEW l \in Legs, Execute(l) PROVE TypeOK'
    <2>g. gate[AttemptOf(l)] \in Gates BY <1>t, LegParts
    <2>1. CASE Created(l)
      BY <2>1 DEF Created, Refuse, TypeOK, Stages, broker, exposure, scheduler, controls
    <2>2. CASE Claimed(l)
      BY <2>2 DEF Claimed, Refuse, TypeOK, Stages, broker, exposure, scheduler, controls
    <2>3. CASE SendBoundary(l)
      BY <2>3 DEF SendBoundary, Refuse, TypeOK, Stages, exposure, scheduler, controls
    <2>4. CASE RefusalPersisted(l)
      <3>1. gate' \in [Attempts -> Gates] /\ pc' \in [Legs -> Stages]
            BY <2>4, <2>g, DecideRankFacts DEF RefusalPersisted
      <3> QED BY <2>4, <3>1 DEF RefusalPersisted, ReleaseSlot, TypeOK, broker, controls
    <2>5. CASE StoreFails(l)
      <3>1. gate' \in [Attempts -> Gates] /\ pc' \in [Legs -> Stages]
            BY <2>5, <2>g, DecideRankFacts DEF StoreFails
      <3> QED BY <2>5, <3>1 DEF StoreFails, ReleaseSlot, TypeOK, broker
    <2>6. CASE Answer(l)
      <3>1. gate' \in [Attempts -> Gates] /\ pc' \in [Legs -> Stages]
        <4>1. (filled[l] >= Quantity) \in BOOLEAN OBVIOUS
        <4> QED BY <2>6, <2>g, <4>1, DecideRankFacts DEF Answer
      <3> QED BY <2>6, <3>1 DEF Answer, ReleaseSlot, TypeOK, broker, controls
    <2>7. CASE AnswerUncertain(l)
      <3>1. gate' \in [Attempts -> Gates] /\ pc' \in [Legs -> Stages]
            BY <2>7, <2>g, DecideRankFacts DEF AnswerUncertain
      <3> QED BY <2>7, <3>1 DEF AnswerUncertain, ReleaseSlot, TypeOK, broker, exposure, controls
    <2>8. CASE PersistFails(l)
      <3>1. gate' \in [Attempts -> Gates] /\ pc' \in [Legs -> Stages]
            BY <2>8, <2>g, DecideRankFacts DEF PersistFails
      <3> QED BY <2>8, <3>1 DEF PersistFails, ReleaseSlot, TypeOK, broker
    <2> QED BY <1>9, <2>1, <2>2, <2>3, <2>4, <2>5, <2>6, <2>7, <2>8 DEF Execute
  <1>10. ASSUME NEW x \in Exits, ExitRuns(x) PROVE TypeOK'
    BY <1>10 DEF ExitRuns, ExitEnds, TypeOK, broker, controls
  <1>11. CASE World
    <2>1. ASSUME NEW l \in Legs, BrokerFills(l) PROVE TypeOK'
      BY <2>1 DEF BrokerFills, TypeOK, exposure, scheduler, controls
    <2>2. ASSUME NEW l \in Legs, Attribute(l) PROVE TypeOK'
      BY <2>2 DEF Attribute, TypeOK, broker, scheduler, controls
    <2>3. CASE Reconcile
      BY <2>3 DEF Reconcile, TypeOK, broker, scheduler, controls
    <2>4. CASE Dispose
      <3>1. NoGate \in Gates BY DEF NoGate, Gates
      <3>2. pc' \in [Legs -> Stages] BY <2>4, <1>t DEF Dispose, Stages
      <3> QED BY <2>4, <3>1, <3>2 DEF Dispose, TypeOK, broker
    <2>5. ASSUME NEW value \in BOOLEAN, SetOpen(value) PROVE TypeOK'
      BY <2>5 DEF SetOpen, TypeOK, broker, exposure, scheduler
    <2>6. ASSUME NEW a \in Attempts, Withdraw(a) PROVE TypeOK'
      BY <2>6 DEF Withdraw, TypeOK, broker, exposure, scheduler
    <2> QED BY <1>11, <2>1, <2>2, <2>3, <2>4, <2>5, <2>6 DEF World
  <1>12. CASE UNCHANGED vars
    BY <1>12 DEF vars, TypeOK, broker, exposure, scheduler, controls
  <1> QED BY <1>1, <1>2, <1>3, <1>4, <1>5, <1>6, <1>7, <1>8, <1>9, <1>10, <1>11, <1>12
          DEF Next, Turn, Pump

(* The specification is type correct. *)
THEOREM TypeCorrect == Spec => []TypeOK
  <1> QED BY TypeInit, TypeStep, PTL DEF Spec

-----------------------------------------------------------------------------
(* Hedge first. *)

(* What a gate calls covered is filled at the broker. *)
CoveredIsFilled ==
    \A a \in Attempts : \A r \in gate[a].covered : filled[<<a, r>>] >= Quantity

(* The inductive invariant behind HedgeFirst. *)
HedgeInv == TypeOK /\ CoveredIsFilled /\ HedgedBeforeSell

(* A decision whose proof is a full fill keeps the evidence true. *)
LEMMA DecisionKeepsEvidence ==
    ASSUME TypeOK, CoveredIsFilled, NEW l \in Legs, NEW outcome \in {"posted", "no_post"},
           NEW proven \in BOOLEAN, proven => filled[l] >= Quantity,
           NEW g \in Gates, g.covered = gate[AttemptOf(l)].covered,
           DecideRank(l, outcome, proven, g), UNCHANGED filled
    PROVE  CoveredIsFilled'
  <1> SUFFICES ASSUME NEW a \in Attempts, NEW r \in gate'[a].covered
               PROVE  filled[<<a, r>>] >= Quantity
      BY DEF CoveredIsFilled
  <1>1. IF a = AttemptOf(l) THEN r \in g.covered \/ (proven /\ r = RankOf(l))
                            ELSE r \in gate[a].covered
        BY DecideRankFacts
  <1>2. l = <<AttemptOf(l), RankOf(l)>> /\ AttemptOf(l) \in Attempts BY LegParts
  <1> QED BY <1>1, <1>2 DEF CoveredIsFilled

(* Every step keeps the evidence true and POSTs a SELL leg only on evidence. *)
LEMMA HedgeStep == HedgeInv /\ [Next]_vars => HedgeInv'
  <1> SUFFICES ASSUME HedgeInv, [Next]_vars PROVE CoveredIsFilled' /\ HedgedBeforeSell'
      BY TypeStep DEF HedgeInv
  <1> USE DEF HedgeInv
  <1>t. /\ gate \in [Attempts -> Gates] /\ filled \in [Legs -> 0..Quantity]
        /\ posted \subseteq Legs /\ batch \in Seq(Legs)
        BY DEF TypeOK
  <1>s. ASSUME UNCHANGED <<filled, posted>> PROVE HedgedBeforeSell'
        BY <1>s DEF HedgedBeforeSell
  <1>q. ASSUME UNCHANGED <<filled, posted, gate>> PROVE CoveredIsFilled' /\ HedgedBeforeSell'
        BY <1>q, <1>s DEF CoveredIsFilled
  <1>1. ASSUME NEW a \in Attempts, SubmitAttempt(a) PROVE UNCHANGED <<filled, posted, gate>>
        BY <1>1 DEF SubmitAttempt, broker
  <1>2. CASE AcceptLeg
    <2>1. Head(batch) \in Legs BY <1>2, <1>t DEF AcceptLeg
    <2> DEFINE l == Head(batch)
    <2>2. AttemptOf(l) \in Attempts BY <2>1, LegParts
    <2>3. Register(gate[AttemptOf(l)], l).covered = gate[AttemptOf(l)].covered
          BY <2>1, <2>2, <1>t, RegisterTypes
    <2>4. gate' = [gate EXCEPT ![AttemptOf(l)] = Register(gate[AttemptOf(l)], l)]
          /\ UNCHANGED <<filled, posted>>
          BY <1>2 DEF AcceptLeg, broker
    <2> HIDE DEF l
    <2> QED BY <1>s, <1>t, <2>2, <2>3, <2>4 DEF CoveredIsFilled
  <1>3. CASE RejectLeg
    <2>1. Head(batch) \in Legs BY <1>3, <1>t DEF RejectLeg
    <2> DEFINE l == Head(batch)
    <2>2. AttemptOf(l) \in Attempts BY <2>1, LegParts
    <2>3. /\ Register(gate[AttemptOf(l)], l) \in Gates
          /\ Register(gate[AttemptOf(l)], l).covered = gate[AttemptOf(l)].covered
          BY <2>1, <2>2, <1>t, RegisterTypes
    <2> DEFINE g == Register(gate[AttemptOf(l)], l)
    <2>4. DecideRank(l, "no_post", FALSE, g) /\ UNCHANGED <<filled, posted>>
          BY <1>3 DEF RejectLeg, broker
    <2> HIDE DEF l, g
    <2>5. l \in Legs /\ g \in Gates /\ g.covered = gate[AttemptOf(l)].covered BY <2>1, <2>3 DEF l, g
    <2>6. CoveredIsFilled' BY <2>4, <2>5, DecisionKeepsEvidence
    <2> QED BY <1>s, <2>4, <2>6
  <1>4. ASSUME NEW x \in Exits, SubmitExit(x) \/ ExitRuns(x) PROVE UNCHANGED <<filled, posted, gate>>
        BY <1>4 DEF SubmitExit, ExitRuns, ExitEnds, broker
  <1>5. CASE Pump
    <2>1. UNCHANGED <<filled, posted, gate>>
          BY <1>5 DEF Pump, PumpExit, PumpLeg, PumpBlocked, PumpReturns, broker
    <2> QED BY <2>1, <1>q
  <1>6. ASSUME NEW l \in Legs, Execute(l) PROVE CoveredIsFilled' /\ HedgedBeforeSell'
    <2>g. AttemptOf(l) \in Attempts /\ gate[AttemptOf(l)] \in Gates BY <1>t, LegParts
    <2>1. CASE Created(l) \/ Claimed(l)
      <3>1. UNCHANGED <<filled, posted, gate>> BY <2>1 DEF Created, Claimed, broker
      <3> QED BY <3>1, <1>q
    <2>2. CASE SendBoundary(l)
      <3>1. UNCHANGED <<filled, gate>> BY <2>2 DEF SendBoundary
      <3>2. CoveredIsFilled' BY <3>1 DEF CoveredIsFilled
      <3>3. CASE posted' = posted BY <3>1, <3>2, <3>3, <1>s
      <3>4. CASE posted' = posted \cup {l} /\ BoundaryPasses(l)
        <4>1. ~IsHedge(l) => Hedges \subseteq gate[AttemptOf(l)].covered
              BY <3>4 DEF BoundaryPasses, CoverageProven
        <4>2. ~IsHedge(l) => \A r \in Hedges : filled[<<AttemptOf(l), r>>] >= Quantity
              BY <4>1, <2>g DEF CoveredIsFilled
        <4> QED BY <3>1, <3>2, <3>4, <4>2 DEF HedgedBeforeSell
      <3> QED BY <2>2, <3>3, <3>4 DEF SendBoundary
    <2>3. CASE RefusalPersisted(l) \/ StoreFails(l)
      <3>1. DecideRank(l, "no_post", FALSE, gate[AttemptOf(l)]) /\ UNCHANGED <<filled, posted>>
            BY <2>3 DEF RefusalPersisted, StoreFails, broker
      <3> QED BY <1>s, <2>g, <3>1, DecisionKeepsEvidence
    <2>4. CASE Answer(l)
      <3>1. DecideRank(l, "posted", filled[l] >= Quantity, gate[AttemptOf(l)])
            /\ UNCHANGED <<filled, posted>>
            BY <2>4 DEF Answer, broker
      <3> DEFINE proven == filled[l] >= Quantity
      <3>2. proven \in BOOLEAN /\ (proven => filled[l] >= Quantity) OBVIOUS
      <3>3. DecideRank(l, "posted", proven, gate[AttemptOf(l)]) BY <3>1
      <3> HIDE DEF proven
      <3>4. CoveredIsFilled' BY <2>g, <3>1, <3>2, <3>3, DecisionKeepsEvidence
      <3> QED BY <1>s, <3>1, <3>4
    <2>5. CASE AnswerUncertain(l) \/ PersistFails(l)
      <3>1. DecideRank(l, "posted", FALSE, gate[AttemptOf(l)]) /\ UNCHANGED <<filled, posted>>
            BY <2>5 DEF AnswerUncertain, PersistFails, broker
      <3> QED BY <1>s, <2>g, <3>1, DecisionKeepsEvidence
    <2> QED BY <1>6, <2>1, <2>2, <2>3, <2>4, <2>5 DEF Execute
  <1>7. CASE World
    <2>1. ASSUME NEW l \in Legs, BrokerFills(l) PROVE CoveredIsFilled' /\ HedgedBeforeSell'
      <3>1. /\ filled' = [filled EXCEPT ![l] = filled[l] + 1]
            /\ UNCHANGED <<gate, posted>>
            BY <2>1 DEF BrokerFills
      <3>2. \A k \in Legs : filled'[k] >= filled[k] BY <3>1, <1>t
      <3>3. \A a \in Attempts, r \in Hedges : <<a, r>> \in Legs
            BY RankCount DEF Legs
      <3>4. \A a \in Attempts : gate[a].covered \subseteq Hedges BY <1>t DEF Gates
      <3>5. \A a \in Attempts, r \in Hedges :
               filled[<<a, r>>] >= Quantity => filled'[<<a, r>>] >= Quantity
        <4> SUFFICES ASSUME NEW a \in Attempts, NEW r \in Hedges, filled[<<a, r>>] >= Quantity
                     PROVE  filled'[<<a, r>>] >= Quantity
            OBVIOUS
        <4>1. <<a, r>> \in Legs BY <3>3
        <4>2. filled[<<a, r>>] \in Int /\ filled'[<<a, r>>] \in Int /\ Quantity \in Int
              BY <4>1, <3>1, <1>t
        <4> QED BY <4>1, <4>2, <3>2
      <3>6. CoveredIsFilled' BY <3>1, <3>4, <3>5 DEF CoveredIsFilled
      <3>7. \A k \in posted : AttemptOf(k) \in Attempts BY <1>t, LegParts
      <3> QED BY <3>1, <3>5, <3>6, <3>7 DEF HedgedBeforeSell
    <2>2. ASSUME NEW l \in Legs, Attribute(l) PROVE UNCHANGED <<filled, posted, gate>>
      BY <2>2 DEF Attribute, broker
    <2>3. CASE Dispose
      <3>1. gate' = [a \in Attempts |-> NoGate] /\ UNCHANGED <<filled, posted>>
            BY <2>3 DEF Dispose, broker
      <3> QED BY <1>s, <3>1 DEF CoveredIsFilled, NoGate
    <2>4. ASSUME Reconcile \/ (\E value \in BOOLEAN : SetOpen(value))
                           \/ (\E a \in Attempts : Withdraw(a))
          PROVE  UNCHANGED <<filled, posted, gate>>
      BY <2>4 DEF Reconcile, SetOpen, Withdraw, broker
    <2> QED BY <1>7, <1>q, <2>1, <2>2, <2>3, <2>4 DEF World
  <1>8. CASE UNCHANGED vars
    <2>1. UNCHANGED <<filled, posted, gate>> BY <1>8 DEF vars, broker
    <2> QED BY <2>1, <1>q
  <1> QED BY <1>1, <1>2, <1>3, <1>4, <1>5, <1>6, <1>7, <1>8, <1>q DEF Next, Turn

(* No SELL leg is ever POSTed before every BUY hedge of its attempt is filled in full  *)
(* at the broker, for any number of attempts, legs and slots and any interleaving of   *)
(* refusals, ambiguous answers, disposal and reconciliation.                           *)
THEOREM HedgeFirst == Spec => []HedgedBeforeSell
  <1>1. Init => HedgeInv
    <2> SUFFICES ASSUME Init PROVE CoveredIsFilled /\ HedgedBeforeSell
        BY TypeInit DEF HedgeInv
    <2> QED BY DEF Init, CoveredIsFilled, HedgedBeforeSell, NoGate
  <1>2. HedgeInv => HedgedBeforeSell BY DEF HedgeInv
  <1> QED BY <1>1, <1>2, HedgeStep, PTL DEF Spec

-----------------------------------------------------------------------------
(* The barrier. *)

(* A decision wakes every leg it unblocks, and drops no gate a leg still waits on. *)
LEMMA DecisionKeepsBarrier ==
    ASSUME TypeOK, ParkedForAReason, NEW l \in Legs, NEW outcome \in {"posted", "no_post"},
           NEW proven \in BOOLEAN, NEW g \in Gates,
           gate[AttemptOf(l)].present => g.present,
           DecideRank(l, outcome, proven, g)
    PROVE  ParkedForAReason'
  <1> DEFINE d == Decide(g, l, outcome, proven)
             woken == IF g.present /\ HedgesDecided(d) THEN Parked(AttemptOf(l)) ELSE {}
             drop == Parked(AttemptOf(l)) \subseteq woken /\ AllDecided(d)
  <1>1. gate' = [gate EXCEPT ![AttemptOf(l)] = IF ~g.present THEN g ELSE IF drop THEN NoGate ELSE d]
        BY DEF DecideRank
  <1>2. pc' = [k \in Legs |-> IF k = l THEN "settled" ELSE IF k \in woken THEN "pacing" ELSE pc[k]]
        BY DEF DecideRank
  <1>3. d.present = g.present BY GateTypes
  <1>4. gate \in [Attempts -> Gates] BY DEF TypeOK
  <1> SUFFICES ASSUME NEW k \in Legs, pc'[k] = "parked"
               PROVE  gate'[AttemptOf(k)].present /\ ~HedgesDecided(gate'[AttemptOf(k)])
      BY DEF ParkedForAReason, HedgesDecided
  <1> HIDE DEF d
  <1>5. k # l /\ k \notin woken /\ pc[k] = "parked" BY <1>2
  <1>6. AttemptOf(k) \in Attempts /\ AttemptOf(l) \in Attempts BY LegParts
  <1>7. gate[AttemptOf(k)].present /\ ~HedgesDecided(gate[AttemptOf(k)])
        BY <1>5 DEF ParkedForAReason
  <1>8. CASE AttemptOf(k) = AttemptOf(l)
    <2>1. g.present BY <1>7, <1>8
    <2>2. k \in Parked(AttemptOf(l)) BY <1>5, <1>8 DEF Parked
    <2>3. ~HedgesDecided(d) BY <1>5, <2>1, <2>2
    <2>4. ~drop BY <1>5, <2>2
    <2>5. gate'[AttemptOf(k)] = d BY <1>1, <1>4, <1>6, <1>8, <2>1, <2>4
    <2> QED BY <1>3, <2>1, <2>3, <2>5
  <1>9. CASE AttemptOf(k) # AttemptOf(l)
    <2>1. gate'[AttemptOf(k)] = gate[AttemptOf(k)] BY <1>1, <1>4, <1>6, <1>9
    <2> QED BY <1>7, <2>1
  <1> QED BY <1>8, <1>9

(* The inductive invariant behind NoLostWakeup. *)
BarrierInv == TypeOK /\ ParkedForAReason

(* Every step keeps the barrier sound. *)
LEMMA BarrierStep == BarrierInv /\ [Next]_vars => BarrierInv'
  <1> SUFFICES ASSUME BarrierInv, [Next]_vars PROVE ParkedForAReason'
      BY TypeStep DEF BarrierInv
  <1> USE DEF BarrierInv
  <1>t. /\ gate \in [Attempts -> Gates] /\ pc \in [Legs -> Stages]
        /\ queue \in Seq(Legs) /\ batch \in Seq(Legs)
        BY DEF TypeOK
  <1>p. ASSUME UNCHANGED gate, NEW l \in Legs, NEW v \in Stages \ {"parked"},
               pc' = [pc EXCEPT ![l] = v]
        PROVE  ParkedForAReason'
        BY <1>p, <1>t DEF ParkedForAReason, HedgesDecided
  <1>q. ASSUME UNCHANGED <<pc, gate>> PROVE ParkedForAReason'
        BY <1>q DEF ParkedForAReason, HedgesDecided
  <1>1. ASSUME NEW a \in Attempts, SubmitAttempt(a) PROVE UNCHANGED <<pc, gate>>
        BY <1>1 DEF SubmitAttempt
  <1>2. CASE AcceptLeg
    <2> DEFINE l == Head(batch)
               g == Register(gate[AttemptOf(l)], l)
    <2>1. l \in Legs BY <1>2, <1>t DEF AcceptLeg
    <2>2. AttemptOf(l) \in Attempts BY <2>1, LegParts
    <2>3. g.present /\ g.decided = gate[AttemptOf(l)].decided BY <2>1, <2>2, <1>t, RegisterTypes
    <2>4. pc' = [pc EXCEPT ![l] = "queued"] /\ gate' = [gate EXCEPT ![AttemptOf(l)] = g]
          BY <1>2 DEF AcceptLeg
    <2> HIDE DEF l, g
    <2> SUFFICES ASSUME NEW k \in Legs, pc'[k] = "parked"
                 PROVE  gate'[AttemptOf(k)].present /\ ~HedgesDecided(gate'[AttemptOf(k)])
        BY DEF ParkedForAReason, HedgesDecided
    <2>5. pc[k] = "parked" BY <1>t, <2>1, <2>4
    <2>6. gate[AttemptOf(k)].present /\ ~HedgesDecided(gate[AttemptOf(k)]) /\ AttemptOf(k) \in Attempts
          BY <2>5, LegParts DEF ParkedForAReason
    <2>7. gate'[AttemptOf(k)].present /\ gate'[AttemptOf(k)].decided = gate[AttemptOf(k)].decided
          BY <1>t, <2>2, <2>3, <2>4, <2>6
    <2> QED BY <2>6, <2>7 DEF HedgesDecided
  <1>3. CASE RejectLeg
    <2> DEFINE l == Head(batch)
               g == Register(gate[AttemptOf(l)], l)
    <2>1. l \in Legs BY <1>3, <1>t DEF RejectLeg
    <2>2. g \in Gates /\ g.present BY <2>1, <1>t, LegParts, RegisterTypes
    <2>3. DecideRank(l, "no_post", FALSE, g) BY <1>3 DEF RejectLeg
    <2> HIDE DEF l, g
    <2> QED BY <2>1, <2>2, <2>3, DecisionKeepsBarrier
  <1>4. ASSUME NEW x \in Exits, SubmitExit(x) \/ ExitRuns(x) PROVE UNCHANGED <<pc, gate>>
        BY <1>4 DEF SubmitExit, ExitRuns, ExitEnds
  <1>5. CASE Pump
    <2>1. CASE PumpExit \/ PumpReturns
      <3>1. UNCHANGED <<pc, gate>> BY <2>1 DEF PumpExit, PumpReturns
      <3> QED BY <3>1, <1>q
    <2>2. CASE PumpLeg \/ PumpBlocked
      <3>1. Head(queue) \in Legs BY <2>2, <1>t DEF PumpLeg, PumpBlocked
      <3>2. /\ UNCHANGED gate
            /\ pc' = [pc EXCEPT ![Head(queue)] = "creating"]
               \/ pc' = [pc EXCEPT ![Head(queue)] = "settled"]
            BY <2>2 DEF PumpLeg, PumpBlocked
      <3> QED BY <3>1, <3>2, <1>p DEF Stages
    <2> QED BY <1>5, <2>1, <2>2 DEF Pump
  <1>6. ASSUME NEW l \in Legs, Execute(l) PROVE ParkedForAReason'
    <2>g. AttemptOf(l) \in Attempts /\ gate[AttemptOf(l)] \in Gates BY <1>t, LegParts
    <2>1. CASE Created(l)
      <3>1. UNCHANGED gate /\ (pc' = [pc EXCEPT ![l] = "claiming"] \/ pc' = [pc EXCEPT ![l] = "refusing"])
            BY <2>1 DEF Created, Refuse
      <3> QED BY <3>1, <1>p DEF Stages
    <2>2. CASE Claimed(l)
      <3>1. UNCHANGED gate BY <2>2 DEF Claimed
      <3>2. \/ pc' = [pc EXCEPT ![l] = "refusing"]
            \/ pc' = [pc EXCEPT ![l] = "pacing"]
            \/ /\ pc' = [pc EXCEPT ![l] = "parked"]
               /\ gate[AttemptOf(l)].present /\ ~HedgesDecided(gate[AttemptOf(l)])
            BY <2>2 DEF Claimed, Refuse
      <3>3. CASE pc' = [pc EXCEPT ![l] = "parked"]
                 /\ gate[AttemptOf(l)].present /\ ~HedgesDecided(gate[AttemptOf(l)])
        BY <3>1, <3>3, <1>t DEF ParkedForAReason, HedgesDecided
      <3> QED BY <3>1, <3>2, <3>3, <1>p DEF Stages
    <2>3. CASE SendBoundary(l)
      <3>1. UNCHANGED gate /\ (pc' = [pc EXCEPT ![l] = "sent"] \/ pc' = [pc EXCEPT ![l] = "refusing"])
            BY <2>3 DEF SendBoundary, Refuse
      <3> QED BY <3>1, <1>p DEF Stages
    <2>4. CASE RefusalPersisted(l) \/ StoreFails(l)
      <3>1. DecideRank(l, "no_post", FALSE, gate[AttemptOf(l)])
            BY <2>4 DEF RefusalPersisted, StoreFails
      <3> QED BY <2>g, <3>1, DecisionKeepsBarrier
    <2>5. CASE Answer(l)
      <3> DEFINE proven == filled[l] >= Quantity
      <3>1. DecideRank(l, "posted", proven, gate[AttemptOf(l)]) /\ proven \in BOOLEAN
            BY <2>5 DEF Answer
      <3> HIDE DEF proven
      <3> QED BY <2>g, <3>1, DecisionKeepsBarrier
    <2>6. CASE AnswerUncertain(l) \/ PersistFails(l)
      <3>1. DecideRank(l, "posted", FALSE, gate[AttemptOf(l)])
            BY <2>6 DEF AnswerUncertain, PersistFails
      <3> QED BY <2>g, <3>1, DecisionKeepsBarrier
    <2> QED BY <1>6, <2>1, <2>2, <2>3, <2>4, <2>5, <2>6 DEF Execute
  <1>7. CASE World
    <2>1. CASE Dispose
      BY <2>1 DEF Dispose, ParkedForAReason
    <2>2. CASE ~Dispose
      <3>1. UNCHANGED <<pc, gate>>
            BY <1>7, <2>2 DEF World, BrokerFills, Attribute, Reconcile, SetOpen, Withdraw
      <3> QED BY <3>1, <1>q
    <2> QED BY <2>1, <2>2
  <1>8. CASE UNCHANGED vars
    BY <1>8, <1>q DEF vars
  <1> QED BY <1>1, <1>2, <1>3, <1>4, <1>5, <1>6, <1>7, <1>8, <1>q DEF Next, Turn

(* No wake-up is lost: as long as a SELL leg is parked its gate exists and a hedge of   *)
(* its attempt has yet to decide.                                                       *)
THEOREM NoLostWakeup == Spec => []ParkedForAReason
  <1>1. Init => BarrierInv
    BY TypeInit DEF BarrierInv, Init, ParkedForAReason
  <1>2. BarrierInv => ParkedForAReason BY DEF BarrierInv
  <1> QED BY <1>1, <1>2, BarrierStep, PTL DEF Spec

-----------------------------------------------------------------------------
(* The pump. *)

(* The slots in use: finitely many, no more base slots than the policy has, burst slots   *)
(* only beyond a full base, and one pipeline.                                             *)
SlotsInv ==
    /\ IsFiniteSet(InFlight("base")) /\ IsFiniteSet(InFlight("entry_burst"))
    /\ IsFiniteSet(ExitsInFlight)
    /\ BaseInFlight <= Base
    /\ BurstInFlight > 0 => Base + BurstInFlight <= Burst
    /\ \A k, l \in Legs : slot[k] # "none" /\ slot[l] # "none" => AttemptOf(k) = AttemptOf(l)

(* What the pump leaves behind when it returns; dispose leaves nothing queued. *)
QueueInv ==
    /\ disposed => queue = <<>> /\ exitQueue = <<>>
    /\ ~pumping => /\ exitQueue # <<>> => BaseInFlight = Base
                   /\ queue # <<>> => BaseInFlight + BurstInFlight > 0

(* The inductive invariant behind PumpServesAll. *)
PumpInv == TypeOK /\ SlotsInv /\ QueueInv

(* The numbers of slots in use are numbers. *)
LEMMA SlotCounts ==
    ASSUME SlotsInv
    PROVE  /\ Cardinality(InFlight("base")) \in Nat /\ Cardinality(ExitsInFlight) \in Nat
           /\ BurstInFlight \in Nat /\ BaseInFlight \in Nat
  <1>1. /\ Cardinality(InFlight("base")) \in Nat /\ Cardinality(ExitsInFlight) \in Nat
        /\ Cardinality(InFlight("entry_burst")) \in Nat
        BY FS_CardinalityType DEF SlotsInv
  <1> QED BY <1>1 DEF BaseInFlight, BurstInFlight

(* Slots given back: nothing is overspent, no second pipeline appears. *)
LEMMA SlotsShrink ==
    ASSUME TypeOK, SlotsInv, \A l \in Legs : slot'[l] # "none" => slot'[l] = slot[l],
           \A x \in Exits : exit'[x] = "sent" => exit[x] = "sent"
    PROVE  SlotsInv'
  <1>1. /\ InFlight("base")' \in SUBSET InFlight("base")
        /\ InFlight("entry_burst")' \in SUBSET InFlight("entry_burst")
        /\ ExitsInFlight' \in SUBSET ExitsInFlight
        BY DEF InFlight, ExitsInFlight
  <1>2. /\ IsFiniteSet(InFlight("base")') /\ IsFiniteSet(InFlight("entry_burst")')
        /\ IsFiniteSet(ExitsInFlight')
        /\ Cardinality(InFlight("base")') <= Cardinality(InFlight("base"))
        /\ Cardinality(InFlight("entry_burst")') <= Cardinality(InFlight("entry_burst"))
        /\ Cardinality(ExitsInFlight') <= Cardinality(ExitsInFlight)
        BY <1>1, FS_Subset DEF SlotsInv
  <1>3. /\ Cardinality(InFlight("base")') \in Nat /\ Cardinality(InFlight("entry_burst")') \in Nat
        /\ Cardinality(ExitsInFlight') \in Nat
        BY <1>2, FS_CardinalityType
  <1>4. BaseInFlight' <= Base
        BY <1>2, <1>3, SlotCounts DEF SlotsInv, BaseInFlight
  <1>5. BurstInFlight' > 0 => Base + BurstInFlight' <= Burst
        BY <1>2, <1>3, SlotCounts DEF SlotsInv, BurstInFlight
  <1>6. \A k, l \in Legs : slot'[k] # "none" /\ slot'[l] # "none" => AttemptOf(k) = AttemptOf(l)
        BY DEF SlotsInv
  <1> QED BY <1>2, <1>4, <1>5, <1>6 DEF SlotsInv

(* The admission policy: an admitted leg is of the running pipeline and fits. *)
LEMMA LegAdmitted ==
    ASSUME TypeOK, SlotsInv, NEW l \in Legs, AdmittedSlot(l) # "none",
           slot' = [slot EXCEPT ![l] = AdmittedSlot(l)], exit' = exit
    PROVE  SlotsInv'
  <1> DEFINE s == AdmittedSlot(l)
             B == InFlight("base")
             U == InFlight("entry_burst")
             E == ExitsInFlight
  <1>1. ~OtherPipeline(l) /\ s \in {"base", "entry_burst"} BY DEF AdmittedSlot
  <1>2. \A k \in Legs : slot'[k] = IF k = l THEN s ELSE slot[k] BY DEF TypeOK
  <1>3. \A j, k \in Legs : slot'[j] # "none" /\ slot'[k] # "none" => AttemptOf(j) = AttemptOf(k)
        BY <1>1, <1>2 DEF SlotsInv, OtherPipeline
  <1>4. E' = E BY DEF ExitsInFlight
  <1>5. IsFiniteSet(B) /\ IsFiniteSet(U) /\ IsFiniteSet(E) BY DEF SlotsInv
  <1>6. /\ Cardinality(B) \in Nat /\ Cardinality(U) \in Nat /\ Cardinality(E) \in Nat
        /\ BaseInFlight = Cardinality(B) + Cardinality(E) /\ BurstInFlight = Cardinality(U)
        /\ BaseInFlight' = Cardinality(B') + Cardinality(E') /\ BurstInFlight' = Cardinality(U')
        BY SlotCounts DEF BaseInFlight, BurstInFlight
  <1>7. CASE s = "base"
    <2>1. BaseInFlight < Base BY <1>1, <1>7 DEF AdmittedSlot
    <2>2. B' = B \cup {l} BY <1>2, <1>7 DEF InFlight
    <2>3. U' \in SUBSET U BY <1>2, <1>7 DEF InFlight
    <2>4. IsFiniteSet(B') /\ Cardinality(B') \in {Cardinality(B), Cardinality(B) + 1}
      BY <1>5, <2>2, FS_AddElement
    <2>5. IsFiniteSet(U') /\ Cardinality(U') <= Cardinality(U) BY <1>5, <2>3, FS_Subset
    <2>6. Cardinality(U') \in Nat BY <2>5, FS_CardinalityType
    <2>7. BaseInFlight' <= Base BY <1>4, <1>6, <2>1, <2>4
    <2>8. BurstInFlight' > 0 => Base + BurstInFlight' <= Burst BY <1>6, <2>5, <2>6 DEF SlotsInv
    <2> QED BY <1>3, <1>4, <1>5, <2>4, <2>5, <2>7, <2>8 DEF SlotsInv
  <1>8. CASE s = "entry_burst"
    <2>1. BaseInFlight >= Base /\ BaseInFlight + BurstInFlight < Burst
      BY <1>1, <1>8 DEF AdmittedSlot, BurstAdmits
    <2>2. U' = U \cup {l} BY <1>2, <1>8 DEF InFlight
    <2>3. B' \in SUBSET B BY <1>2, <1>8 DEF InFlight
    <2>4. IsFiniteSet(U') /\ Cardinality(U') \in {Cardinality(U), Cardinality(U) + 1}
      BY <1>5, <2>2, FS_AddElement
    <2>5. IsFiniteSet(B') /\ Cardinality(B') <= Cardinality(B) BY <1>5, <2>3, FS_Subset
    <2>6. Cardinality(B') \in Nat BY <2>5, FS_CardinalityType
    <2>7. BaseInFlight' <= Base BY <1>4, <1>6, <2>5, <2>6 DEF SlotsInv
    <2>8. Base + BurstInFlight' <= Burst BY <1>6, <2>1, <2>4 DEF SlotsInv
    <2> QED BY <1>3, <1>4, <1>5, <2>4, <2>5, <2>7, <2>8 DEF SlotsInv
  <1> QED BY <1>1, <1>7, <1>8

(* An exit takes a base slot that is free. *)
LEMMA ExitIsAdmitted ==
    ASSUME TypeOK, SlotsInv, NEW x \in Exits, ExitAdmitted,
           exit' = [exit EXCEPT ![x] = "sent"], slot' = slot
    PROVE  SlotsInv'
  <1>1. ExitsInFlight' = ExitsInFlight \cup {x} BY DEF ExitsInFlight, TypeOK
  <1>2. InFlight("base")' = InFlight("base") /\ InFlight("entry_burst")' = InFlight("entry_burst")
        BY DEF InFlight
  <1>3. /\ IsFiniteSet(ExitsInFlight')
        /\ Cardinality(ExitsInFlight') \in {Cardinality(ExitsInFlight), Cardinality(ExitsInFlight) + 1}
        BY <1>1, FS_AddElement DEF SlotsInv
  <1>4. BaseInFlight' <= Base
        BY <1>2, <1>3, SlotCounts DEF BaseInFlight, ExitAdmitted
  <1>5. BurstInFlight' = BurstInFlight BY <1>2 DEF BurstInFlight
  <1> QED BY <1>2, <1>3, <1>4, <1>5 DEF SlotsInv

(* The loop of pump returns only when nothing admissible is left at its head. *)
LEMMA NothingLeftAtReturn ==
    ASSUME TypeOK, SlotsInv, PumpReturns
    PROVE  /\ exitQueue # <<>> => BaseInFlight = Base
           /\ queue # <<>> => BaseInFlight + BurstInFlight > 0
  <1>1. BaseInFlight \in Nat /\ BurstInFlight \in Nat /\ BaseInFlight <= Base
        BY SlotCounts DEF SlotsInv
  <1>2. ASSUME exitQueue # <<>> PROVE BaseInFlight = Base
    BY <1>1, <1>2 DEF PumpReturns, ExitAdmitted
  <1>3. ASSUME queue # <<>>, exitQueue = <<>> PROVE BaseInFlight + BurstInFlight > 0
    <2>1. AdmittedSlot(Head(queue)) = "none" BY <1>3 DEF PumpReturns
    <2>2. CASE OtherPipeline(Head(queue))
      <3>1. PICK k \in Legs : slot[k] # "none" BY <2>2 DEF OtherPipeline
      <3>2. k \in InFlight("base") \/ k \in InFlight("entry_burst")
        BY <3>1 DEF InFlight, TypeOK
      <3>3. Cardinality(InFlight("base")) # 0 \/ Cardinality(InFlight("entry_burst")) # 0
        BY <3>2, FS_EmptySet DEF SlotsInv
      <3>4. /\ Cardinality(InFlight("base")) \in Nat /\ Cardinality(ExitsInFlight) \in Nat
            /\ BaseInFlight = Cardinality(InFlight("base")) + Cardinality(ExitsInFlight)
            /\ BurstInFlight = Cardinality(InFlight("entry_burst"))
        BY SlotCounts DEF BaseInFlight, BurstInFlight
      <3> QED BY <1>1, <3>3, <3>4
    <2>3. CASE ~OtherPipeline(Head(queue))
      <3>1. ~(BaseInFlight < Base) BY <2>1, <2>3 DEF AdmittedSlot
      <3> QED BY <1>1, <3>1
    <2> QED BY <2>2, <2>3
  <1> QED BY <1>1, <1>2, <1>3

(* The counts follow the slots and the exits. *)
LEMMA SameSlots ==
    ASSUME slot' = slot, exit' = exit
    PROVE  BaseInFlight' = BaseInFlight /\ BurstInFlight' = BurstInFlight
  <1>1. /\ InFlight("base")' = InFlight("base")
        /\ InFlight("entry_burst")' = InFlight("entry_burst")
        /\ ExitsInFlight' = ExitsInFlight
        BY DEF InFlight, ExitsInFlight
  <1> QED BY <1>1 DEF BaseInFlight, BurstInFlight

(* Every step keeps the slots within the policy and leaves nothing admissible behind. *)
LEMMA PumpStep == PumpInv /\ [Next]_vars => PumpInv'
  <1> SUFFICES ASSUME TypeOK, SlotsInv, QueueInv, [Next]_vars PROVE SlotsInv' /\ QueueInv'
      BY TypeStep DEF PumpInv
  <1>t. /\ slot \in [Legs -> {"none", "base", "entry_burst"}]
        /\ exit \in [Exits -> {"idle", "queued", "sent"}]
        /\ queue \in Seq(Legs) /\ exitQueue \in Seq(Exits) /\ pumping \in BOOLEAN
        BY DEF TypeOK
  <1>q. ASSUME UNCHANGED <<slot, exit, queue, exitQueue, disposed>>,
               ~pumping' => ~pumping
        PROVE  SlotsInv' /\ QueueInv'
    <2>1. SlotsInv' BY <1>q, SlotsShrink
    <2>2. BaseInFlight' = BaseInFlight /\ BurstInFlight' = BurstInFlight BY <1>q, SameSlots
    <2> QED BY <1>q, <2>1, <2>2 DEF QueueInv
  <1>r. ASSUME UNCHANGED <<queue, exitQueue, disposed>>, pumping' = ~disposed, SlotsInv'
        PROVE  SlotsInv' /\ QueueInv'
    <2>1. ~pumping' => disposed BY <1>r, Zenon
    <2> QED BY <1>r, <2>1 DEF QueueInv
  <1>1. ASSUME NEW a \in Attempts, SubmitAttempt(a) PROVE SlotsInv' /\ QueueInv'
    <2>1. UNCHANGED <<slot, exit, queue, exitQueue, disposed, pumping>>
      BY <1>1 DEF SubmitAttempt, controls
    <2> QED BY <1>q, <2>1
  <1>2. CASE AcceptLeg
    <2>1. UNCHANGED <<slot, exit, exitQueue, disposed>> /\ ~disposed /\ pumping' = ~disposed
      BY <1>2 DEF AcceptLeg, GuardPasses, CanEnter, controls
    <2>2. pumping' BY <2>1, Zenon
    <2>3. SlotsInv' BY <2>1, SlotsShrink
    <2> QED BY <2>1, <2>2, <2>3 DEF QueueInv
  <1>3. CASE RejectLeg
    <2>1. UNCHANGED <<slot, exit, queue, exitQueue, disposed, pumping>>
      BY <1>3 DEF RejectLeg, controls
    <2> QED BY <1>q, <2>1
  <1>4. ASSUME NEW x \in Exits, SubmitExit(x) PROVE SlotsInv' /\ QueueInv'
    <2>1. UNCHANGED <<slot, queue, disposed>> /\ ~disposed /\ pumping' = TRUE
          /\ exit' = [exit EXCEPT ![x] = "queued"]
      BY <1>4 DEF SubmitExit, controls
    <2>2. SlotsInv' BY <1>t, <2>1, SlotsShrink
    <2> QED BY <2>1, <2>2 DEF QueueInv
  <1>5. ASSUME NEW x \in Exits, ExitRuns(x) PROVE SlotsInv' /\ QueueInv'
    <2>1. UNCHANGED <<slot, queue, exitQueue, disposed>> /\ pumping' = ~disposed
          /\ exit' = [exit EXCEPT ![x] = "idle"]
      BY <1>5 DEF ExitRuns, ExitEnds, controls
    <2>2. SlotsInv' BY <1>t, <2>1, SlotsShrink
    <2> QED BY <1>r, <2>1, <2>2
  <1>6. CASE PumpExit
    <2>1. /\ UNCHANGED <<slot, queue, disposed, pumping>> /\ pumping /\ exitQueue # <<>>
          /\ ExitAdmitted /\ exitQueue' = Tail(exitQueue)
          /\ exit' = [exit EXCEPT ![Head(exitQueue)] = "sent"]
      BY <1>6 DEF PumpExit, controls
    <2>2. Head(exitQueue) \in Exits BY <1>t, <2>1
    <2>3. SlotsInv' BY <2>1, <2>2, ExitIsAdmitted
    <2>4. ~disposed BY <2>1 DEF QueueInv
    <2> QED BY <2>1, <2>3, <2>4 DEF QueueInv
  <1>7. CASE PumpLeg
    <2>1. /\ UNCHANGED <<exit, exitQueue, disposed, pumping>> /\ pumping /\ queue # <<>>
          /\ AdmittedSlot(Head(queue)) # "none"
          /\ slot' = [slot EXCEPT ![Head(queue)] = AdmittedSlot(Head(queue))]
      BY <1>7 DEF PumpLeg, controls
    <2>2. Head(queue) \in Legs BY <1>t, <2>1
    <2>3. SlotsInv' BY <2>1, <2>2, LegAdmitted
    <2>4. ~disposed BY <2>1 DEF QueueInv
    <2> QED BY <2>1, <2>3, <2>4 DEF QueueInv
  <1>8. CASE PumpBlocked
    <2>1. UNCHANGED <<slot, exit, exitQueue, disposed, pumping>> /\ pumping /\ queue # <<>>
      BY <1>8 DEF PumpBlocked, controls
    <2>2. SlotsInv' BY <2>1, SlotsShrink
    <2>3. ~disposed BY <2>1 DEF QueueInv
    <2> QED BY <2>1, <2>2, <2>3 DEF QueueInv
  <1>9. CASE PumpReturns
    <2>1. UNCHANGED <<slot, exit, queue, exitQueue, disposed>> BY <1>9 DEF PumpReturns, controls
    <2>2. SlotsInv' BY <2>1, SlotsShrink
    <2>3. BaseInFlight' = BaseInFlight /\ BurstInFlight' = BurstInFlight BY <2>1, SameSlots
    <2> QED BY <1>9, <2>1, <2>2, <2>3, NothingLeftAtReturn DEF QueueInv
  <1>10. ASSUME NEW l \in Legs, Created(l) \/ Claimed(l) \/ SendBoundary(l)
         PROVE  SlotsInv' /\ QueueInv'
    <2>1. UNCHANGED <<slot, exit, queue, exitQueue, disposed, pumping>>
      BY <1>10 DEF Created, Claimed, SendBoundary, scheduler, controls
    <2> QED BY <1>q, <2>1
  <1>11. ASSUME NEW l \in Legs,
                \/ RefusalPersisted(l) \/ StoreFails(l) \/ Answer(l) \/ PersistFails(l)
                \/ AnswerUncertain(l)
         PROVE  SlotsInv' /\ QueueInv'
    <2>1. UNCHANGED <<exit, queue, exitQueue, disposed>> /\ ReleaseSlot(l)
      BY <1>11 DEF RefusalPersisted, StoreFails, Answer, PersistFails, AnswerUncertain, controls
    <2>2. slot' = [slot EXCEPT ![l] = "none"] /\ pumping' = ~disposed BY <2>1 DEF ReleaseSlot
    <2>3. SlotsInv' BY <1>t, <2>1, <2>2, SlotsShrink
    <2> QED BY <1>r, <2>1, <2>2, <2>3
  <1>12. CASE World
    <2>1. CASE Dispose
      <3>1. /\ UNCHANGED slot /\ queue' = <<>> /\ exitQueue' = <<>>
            /\ exit' = [x \in Exits |-> IF exit[x] = "queued" THEN "idle" ELSE exit[x]]
        BY <2>1 DEF Dispose
      <3>2. SlotsInv' BY <3>1, SlotsShrink
      <3> QED BY <3>1, <3>2 DEF QueueInv
    <2>2. CASE ~Dispose
      <3>1. UNCHANGED <<slot, exit, queue, exitQueue, disposed, pumping>>
        BY <1>12, <2>2 DEF World, BrokerFills, Attribute, Reconcile, SetOpen, Withdraw, scheduler, controls
      <3> QED BY <1>q, <3>1
    <2> QED BY <2>1, <2>2
  <1>13. CASE UNCHANGED vars
    BY <1>13, <1>q DEF vars, scheduler, controls
  <1> QED BY <1>1, <1>2, <1>3, <1>4, <1>5, <1>6, <1>7, <1>8, <1>9, <1>10, <1>11, <1>12, <1>13
          DEF Next, Turn, Pump, Execute

(* The pump admits neither too little nor too much: between turns a queued exit waits   *)
(* only for a full base and a queued leg only behind work in flight, two pipelines      *)
(* never overlap, and no more slots are in use than the policy grants.                  *)
THEOREM PumpServesAll == Spec => []PumpIsExact
  <1>1. Init => PumpInv
    <2> SUFFICES ASSUME Init PROVE SlotsInv /\ QueueInv
      BY TypeInit DEF PumpInv
    <2>1. InFlight("base") = {} /\ InFlight("entry_burst") = {} /\ ExitsInFlight = {}
      BY DEF Init, InFlight, ExitsInFlight
    <2>2. BaseInFlight = 0 /\ BurstInFlight = 0
      BY <2>1, FS_EmptySet DEF BaseInFlight, BurstInFlight
    <2>3. IsFiniteSet({}) /\ \A l \in Legs : slot[l] = "none" BY FS_EmptySet DEF Init
    <2>4. SlotsInv BY <2>1, <2>2, <2>3 DEF SlotsInv
    <2>5. queue = <<>> /\ exitQueue = <<>> BY DEF Init
    <2> QED BY <2>4, <2>5 DEF QueueInv
  <1>2. PumpInv => PumpIsExact
    <2> SUFFICES ASSUME TypeOK, SlotsInv, QueueInv PROVE PumpIsExact
      BY DEF PumpInv
    <2>1. PumpIsExhausted BY DEF PumpIsExhausted, QueueInv, Busy
    <2>2. ASSUME BurstInFlight > 0 PROVE Cardinality({l \in Legs : slot[l] # "none"}) <= Burst
      <3> DEFINE B == InFlight("base")
                 U == InFlight("entry_burst")
      <3>1. {l \in Legs : slot[l] # "none"} = B \cup U BY DEF InFlight, TypeOK
      <3>2. B \cap U = {} BY DEF InFlight
      <3>3. Cardinality(B \cup U) = Cardinality(B) + Cardinality(U) - Cardinality(B \cap U)
        BY FS_Union DEF SlotsInv
      <3>4. Cardinality(B \cap U) = 0 BY <3>2, FS_EmptySet
      <3>5. /\ Cardinality(B) \in Nat /\ Cardinality(ExitsInFlight) \in Nat
            /\ BurstInFlight \in Nat /\ BurstInFlight = Cardinality(U)
            /\ BaseInFlight = Cardinality(B) + Cardinality(ExitsInFlight)
        BY SlotCounts DEF BaseInFlight, BurstInFlight
      <3>6. Base + BurstInFlight <= Burst /\ BaseInFlight <= Base BY <2>2 DEF SlotsInv
      <3>7. Cardinality(B) + Cardinality(U) <= Burst BY <3>5, <3>6
      <3>8. Cardinality(B \cup U) = Cardinality(B) + Cardinality(U) BY <3>3, <3>4, <3>5
      <3> QED BY <3>1, <3>7, <3>8
    <2>3. OnePipelineWithinSlots BY <2>2 DEF OnePipelineWithinSlots, SlotsInv
    <2> QED BY <2>1, <2>3 DEF PumpIsExact
  <1> QED BY <1>1, <1>2, PumpStep, PTL DEF Spec
=============================================================================
