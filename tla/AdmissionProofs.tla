--------------------------- MODULE AdmissionProofs ---------------------------
(***************************************************************************)
(* Theorems about the admission of entries: the coordinator's claims on    *)
(* underlyings, the trading session's budget, and the scanner's positions, *)
(* for any processes, candidates and contracts.                            *)
(***************************************************************************)
EXTENDS Coordinator, TradingSession, Scanner, FiniteSetTheorems, TLAPS

USE CoordinatorAssumption, SessionAssumption

-----------------------------------------------------------------------------
(* The stages of an entry. *)

(* Before Layer 1b; before the contracts; from Layer 1b until the inner gateway answered. *)
Early == {"idle", "counting", "holding"}
Before == Early \cup {"acquiring", "waiting"}
Reaching == {"acquiring", "waiting", "running"}

(* The shapes of the state that the steps read and update in place. *)
CoordinatorShape ==
    /\ step \in [Entries -> Steps]
    /\ exit \in [Entries -> {"none", "running", "done"}]
    /\ exposure \in [Entries -> Exposures]
    /\ booked \subseteq Entries
    /\ lock = [k \in Keys |-> lock[k]]
    /\ claims = [p \in Procs |-> [u \in Underlyings |->
                   [owner |-> claims[p][u].owner, holders |-> claims[p][u].holders]]]

(* What the stage of an entry says of its exposure. *)
StageInv(e) ==
    /\ step[e] \in Before => exposure[e] = "none"
    /\ step[e] = "settlingHold" => exposure[e] \notin {"working", "orphan"}
    /\ e \in booked \/ exit[e] = "running" => step[e] = "done"

(* The inductive invariant of the stages. *)
StagesInv == CoordinatorShape /\ \A e \in Entries : StageInv(e)

(* A claim stays a record when it is taken, joined, left or dropped. *)
LEMMA ClaimShape ==
    ASSUME CoordinatorShape, NEW p \in Procs, NEW u \in Underlyings, NEW o, NEW h,
           SetClaim(p, u, [owner |-> o, holders |-> h])
    PROVE  /\ claims' = [q \in Procs |-> [v \in Underlyings |->
                   [owner |-> claims'[q][v].owner, holders |-> claims'[q][v].holders]]]
           /\ claims'[p][u] = [owner |-> o, holders |-> h]
           /\ \A q \in Procs, v \in Underlyings :
                 q # p \/ v # u => claims'[q][v] = claims[q][v]
  <1>1. claims' = [q \in Procs |-> [v \in Underlyings |->
                     IF q = p /\ v = u THEN [owner |-> o, holders |-> h] ELSE claims[q][v]]]
        BY DEF CoordinatorShape, SetClaim
  <1>2. \A q \in Procs, v \in Underlyings :
           claims[q][v] = [owner |-> claims[q][v].owner, holders |-> claims[q][v].holders]
        BY DEF CoordinatorShape
  <1> QED BY <1>1, <1>2

ClaimsShaped == claims = [q \in Procs |-> [v \in Underlyings |->
                   [owner |-> claims[q][v].owner, holders |-> claims[q][v].holders]]]

(* A holder joins or leaves the claim of p on u. *)
Rehold(p, u, h) == SetClaim(p, u, [claims[p][u] EXCEPT !.holders = h])

(* It changes the holders and nothing else: the owner of the lease stays. *)
LEMMA HoldersUpdate ==
    ASSUME CoordinatorShape, NEW p \in Procs, NEW u \in Underlyings, NEW h, Rehold(p, u, h)
    PROVE  SetClaim(p, u, [owner |-> claims[p][u].owner, holders |-> h])
  <1>1. claims[p][u] = [owner |-> claims[p][u].owner, holders |-> claims[p][u].holders]
        BY DEF CoordinatorShape
  <1>2. [claims[p][u] EXCEPT !.holders = h] = [owner |-> claims[p][u].owner, holders |-> h]
        BY <1>1
  <1> QED BY <1>2, Zenon DEF Rehold

(* The claims after a holder joined or left. *)
LEMMA ReholdFacts ==
    ASSUME CoordinatorShape, NEW p \in Procs, NEW u \in Underlyings, NEW h, Rehold(p, u, h)
    PROVE  /\ ClaimsShaped'
           /\ claims'[p][u] = [owner |-> claims[p][u].owner, holders |-> h]
           /\ \A q \in Procs, v \in Underlyings : q # p \/ v # u => claims'[q][v] = claims[q][v]
  <1>1. SetClaim(p, u, [owner |-> claims[p][u].owner, holders |-> h]) BY HoldersUpdate, Zenon
  <1> QED BY <1>1, ClaimShape DEF ClaimsShaped

(* dropUnderlyingHolder: nothing, or one holder less, or the claim is gone and its owner  *)
(* on its way out of the store.                                                           *)
LEMMA DropFacts ==
    ASSUME CoordinatorShape, NEW p \in Procs, NEW u \in Underlyings, NEW h, DropHolder(p, u, h)
    PROVE  /\ ClaimsShaped'
           /\ \A q \in Procs, v \in Underlyings : q # p \/ v # u => claims'[q][v] = claims[q][v]
           /\ \/ ~Claimed(p, u) /\ claims' = claims /\ releasing' = releasing
              \/ /\ Claimed(p, u) /\ releasing' = releasing
                 /\ claims'[p][u] = [owner |-> claims[p][u].owner, holders |-> claims[p][u].holders \ {h}]
              \/ /\ Claimed(p, u) /\ claims[p][u].holders \ {h} = {}
                 /\ releasing' = releasing \cup {claims[p][u].owner}
                 /\ claims'[p][u] = NoClaim
  <1> DEFINE left == claims[p][u].holders \ {h}
  <1>1. CASE ~Claimed(p, u)
    <2>1. claims' = claims /\ releasing' = releasing BY <1>1 DEF DropHolder
    <2> QED BY <1>1, <2>1 DEF CoordinatorShape, ClaimsShaped
  <1>2. CASE Claimed(p, u) /\ left # {}
    <2>1. Rehold(p, u, left) /\ releasing' = releasing
      BY <1>2, Zenon DEF DropHolder, Rehold
    <2> HIDE DEF left
    <2>2. /\ ClaimsShaped' /\ claims'[p][u] = [owner |-> claims[p][u].owner, holders |-> left]
          /\ \A q \in Procs, v \in Underlyings : q # p \/ v # u => claims'[q][v] = claims[q][v]
      BY <2>1, ReholdFacts
    <2> QED BY <1>2, <2>1, <2>2, Zenon DEF left
  <1>3. CASE Claimed(p, u) /\ left = {}
    <2>1. SetClaim(p, u, NoClaim) /\ releasing' = releasing \cup {claims[p][u].owner}
      BY <1>3 DEF DropHolder
    <2>2. SetClaim(p, u, [owner |-> NoOwner, holders |-> {}]) BY <2>1 DEF NoClaim
    <2> QED BY <1>3, <2>1, <2>2, ClaimShape DEF ClaimsShaped, NoClaim
  <1> QED BY <1>1, <1>2, <1>3

(* The entries' processes and underlyings. *)
LEMMA EntryHome ==
    ASSUME NEW e \in Entries
    PROVE  ProcOf[e] \in Procs /\ UnderlyingOf[e] \in Underlyings
           /\ ContractsOf[e] \subseteq Contracts
  BY DEF Underlyings, Contracts

(* The coordinator starts in a proper shape. *)
LEMMA StagesInit == CoordinatorInit => StagesInv
  <1> SUFFICES ASSUME CoordinatorInit PROVE StagesInv
    OBVIOUS
  <1>1. CoordinatorShape BY DEF CoordinatorInit, CoordinatorShape, Steps, Exposures, NoClaim
  <1>2. ASSUME NEW e \in Entries PROVE StageInv(e) BY DEF CoordinatorInit, StageInv, Before, Early
  <1> QED BY <1>1, <1>2 DEF StagesInv

(* Every step keeps the stages in order. *)
LEMMA StagesStep == StagesInv /\ [CoordinatorNext]_coordinatorVars => StagesInv'
  <1> SUFFICES ASSUME StagesInv, [CoordinatorNext]_coordinatorVars PROVE StagesInv'
    OBVIOUS
  <1>0. /\ CoordinatorShape
        /\ step \in [Entries -> Steps] /\ exit \in [Entries -> {"none", "running", "done"}]
        /\ exposure \in [Entries -> Exposures] /\ booked \subseteq Entries
        /\ \A e \in Entries : StageInv(e)
        /\ ClaimsShaped /\ lock = [k \in Keys |-> lock[k]]
    BY DEF StagesInv, CoordinatorShape, ClaimsShaped
  <1> DEFINE LockShaped == lock = [k \in Keys |-> lock[k]]
  <1>s. ASSUME LockShaped', ClaimsShaped',
               step' \in [Entries -> Steps], exit' \in [Entries -> {"none", "running", "done"}],
               exposure' \in [Entries -> Exposures], booked' \subseteq Entries,
               \A e \in Entries : StageInv(e)'
        PROVE  StagesInv'
    BY <1>s DEF StagesInv, CoordinatorShape, ClaimsShaped
  <1>l. ASSUME NEW p \in Procs, NEW ks, NEW o, Take(p, ks, o) PROVE LockShaped'
    BY <1>l DEF Take
  <1>1. ASSUME NEW e \in Entries, Begin(e) \/ Counted(e) \/ HoldRefused(e) \/ WaitForContracts(e) \/ Settle(e)
        PROVE  StagesInv'
    <2>1. UNCHANGED <<exit, exposure, booked, lock, claims>>
      BY <1>1 DEF Begin, Counted, HoldRefused, WaitForContracts, Settle
    <2>2. \E s \in {"counting", "holding", "refused", "waiting", "returned"} :
             step' = [step EXCEPT ![e] = s] /\ (s \in Before => step[e] \in Before)
      <3>1. CASE Begin(e) BY <3>1 DEF Begin, Before, Early
      <3>2. CASE Counted(e) BY <3>2 DEF Counted, Before, Early
      <3>3. CASE HoldRefused(e) \/ WaitForContracts(e) \/ Settle(e)
        BY <3>3 DEF HoldRefused, WaitForContracts, Settle, Before, Early
      <3> QED BY <1>1, <3>1, <3>2, <3>3
    <2>3. PICK s \in {"counting", "holding", "refused", "waiting", "returned"} :
             step' = [step EXCEPT ![e] = s] /\ (s \in Before => step[e] \in Before)
      BY <2>2
    <2>4. step[e] # "done" BY <1>1 DEF Begin, Counted, HoldRefused, WaitForContracts, Settle
    <2>5. step' \in [Entries -> Steps] BY <1>0, <2>3 DEF Steps
    <2>6. \A x \in Entries : StageInv(x)' BY <1>0, <2>1, <2>3, <2>4 DEF StageInv
    <2> QED BY <1>0, <1>s, <2>1, <2>5, <2>6 DEF ClaimsShaped
  <1>2. ASSUME NEW e \in Entries, HoldPipeline(e) PROVE StagesInv'
    <2>1. UNCHANGED <<exit, exposure, booked>> /\ step[e] = "holding"
      BY <1>2 DEF HoldPipeline
    <2>2. PICK s \in {"refused", "acquiring"} : step' = [step EXCEPT ![e] = s]
      BY <1>2 DEF HoldPipeline
    <2>3. PICK o, h : SetClaim(ProcOf[e], UnderlyingOf[e], [owner |-> o, holders |-> h])
      BY <1>2 DEF HoldPipeline
    <2>4. ClaimsShaped' BY <1>0, <2>3, ClaimShape, EntryHome DEF ClaimsShaped
    <2>5. LockShaped' BY <1>2 DEF HoldPipeline, Take
    <2>6. step' \in [Entries -> Steps] BY <1>0, <2>2 DEF Steps
    <2>7. \A x \in Entries : StageInv(x)' BY <1>0, <2>1, <2>2 DEF StageInv, Before, Early
    <2> QED BY <1>0, <1>s, <2>1, <2>4, <2>5, <2>6, <2>7
  <1>3. ASSUME NEW e \in Entries, AcquireContracts(e) PROVE StagesInv'
    <2>1. UNCHANGED <<exit, booked, claims>> /\ step[e] \in {"acquiring", "waiting"}
          /\ step' = [step EXCEPT ![e] = "running"] /\ exposure' = [exposure EXCEPT ![e] = "working"]
      BY <1>3 DEF AcquireContracts
    <2>2. LockShaped' BY <1>3 DEF AcquireContracts, Take
    <2>3. step' \in [Entries -> Steps] /\ exposure' \in [Entries -> Exposures]
      BY <1>0, <2>1 DEF Steps, Exposures
    <2>4. \A x \in Entries : StageInv(x)' BY <1>0, <2>1 DEF StageInv, Before, Early
    <2> QED BY <1>0, <1>s, <2>1, <2>2, <2>3, <2>4 DEF ClaimsShaped
  <1>4. ASSUME NEW e \in Entries, GiveUpWaiting(e) \/ DurableUnavailable(e) PROVE StagesInv'
    <2>1. UNCHANGED <<exit, booked, lock>> /\ step[e] \in {"acquiring", "waiting"}
      BY <1>4 DEF GiveUpWaiting, DurableUnavailable
    <2>2. \/ Abandon(e) /\ exposure' = exposure
          \/ /\ claims' = claims /\ step' = [step EXCEPT ![e] = "running"]
             /\ exposure' = [exposure EXCEPT ![e] = "working"]
      BY <1>4 DEF GiveUpWaiting, DurableUnavailable
    <2>3. ClaimsShaped'
      <3>1. CASE DropHolder(ProcOf[e], UnderlyingOf[e], Pipeline(e))
        BY <1>0, <3>1, DropFacts, EntryHome, Zenon
      <3>2. CASE claims' = claims BY <1>0, <3>2 DEF ClaimsShaped
      <3> QED BY <2>2, <3>1, <3>2, Zenon DEF Abandon
    <2>4. PICK s \in {"refused", "running"}, x \in {exposure[e], "working"} :
             /\ step' = [step EXCEPT ![e] = s] /\ exposure' = [exposure EXCEPT ![e] = x]
      BY <1>0, <2>2 DEF Abandon
    <2>5. step' \in [Entries -> Steps] /\ exposure' \in [Entries -> Exposures]
      BY <1>0, <2>4 DEF Steps, Exposures
    <2>6. \A x1 \in Entries : StageInv(x1)' BY <1>0, <2>1, <2>4 DEF StageInv, Before, Early
    <2> QED BY <1>0, <1>s, <2>1, <2>3, <2>5, <2>6
  <1>5. ASSUME NEW e \in Entries, EntryReturns(e) \/ EntryThrows(e) PROVE StagesInv'
    <2>1. UNCHANGED <<exit, booked, lock, claims>> /\ step[e] = "running"
      BY <1>5 DEF EntryReturns, EntryThrows
    <2>2. \/ /\ step' = [step EXCEPT ![e] = "settlingHold"]
             /\ \E x \in {"open", "none", "residual"} : exposure' = [exposure EXCEPT ![e] = x]
          \/ step' = [step EXCEPT ![e] = "done"] /\ exposure' = [exposure EXCEPT ![e] = "orphan"]
      BY <1>5 DEF EntryReturns, EntryThrows
    <2>3. step' \in [Entries -> Steps] /\ exposure' \in [Entries -> Exposures]
      BY <1>0, <2>2 DEF Steps, Exposures
    <2>4. \A x \in Entries : StageInv(x)' BY <1>0, <2>1, <2>2 DEF StageInv, Before, Early
    <2> QED BY <1>0, <1>s, <2>1, <2>3, <2>4 DEF ClaimsShaped
  <1>6. ASSUME NEW e \in Entries, SettleHold(e) PROVE StagesInv'
    <2>1. UNCHANGED <<exit, exposure, booked, lock>> /\ step[e] = "settlingHold"
          /\ step' = [step EXCEPT ![e] = "settling"]
      BY <1>6 DEF SettleHold
    <2>2. \/ claims' = claims
          \/ \E h : Rehold(ProcOf[e], UnderlyingOf[e], h)
          \/ DropHolder(ProcOf[e], UnderlyingOf[e], Pipeline(e))
      BY <1>6, Zenon DEF SettleHold, Rehold
    <2>3. ClaimsShaped'
      <3>1. CASE DropHolder(ProcOf[e], UnderlyingOf[e], Pipeline(e))
        BY <1>0, <3>1, DropFacts, EntryHome, Zenon
      <3>2. CASE claims' = claims BY <1>0, <3>2 DEF ClaimsShaped
      <3>3. CASE \E h : Rehold(ProcOf[e], UnderlyingOf[e], h)
        BY <1>0, <3>3, ReholdFacts, EntryHome, Zenon
      <3> QED BY <2>2, <3>1, <3>2, <3>3
    <2>4. step' \in [Entries -> Steps] BY <1>0, <2>1 DEF Steps
    <2>5. \A x \in Entries : StageInv(x)' BY <1>0, <2>1 DEF StageInv, Before, Early
    <2> QED BY <1>0, <1>s, <2>1, <2>3, <2>4, <2>5
  <1>7. ASSUME NEW e \in Entries, Book(e) PROVE StagesInv'
    <2>1. UNCHANGED <<exit, exposure, lock>> /\ step[e] = "returned"
          /\ step' = [step EXCEPT ![e] = "done"] /\ booked' \subseteq booked \cup {e}
      BY <1>7 DEF Book
    <2>2. ClaimsShaped'
      <3>1. claims' = claims \/ \E h : Rehold(ProcOf[e], UnderlyingOf[e], h)
        BY <1>7, Zenon DEF Book, JoinClaim, Rehold
      <3>2. CASE claims' = claims BY <1>0, <3>2 DEF ClaimsShaped
      <3>3. CASE \E h : Rehold(ProcOf[e], UnderlyingOf[e], h)
        BY <1>0, <3>3, ReholdFacts, EntryHome, Zenon
      <3> QED BY <3>1, <3>2, <3>3
    <2>3. step' \in [Entries -> Steps] BY <1>0, <2>1 DEF Steps
    <2>4. \A x \in Entries : StageInv(x)' BY <1>0, <2>1 DEF StageInv, Before, Early
    <2> QED BY <1>0, <1>s, <2>1, <2>2, <2>3, <2>4
  <1>8. ASSUME NEW e \in Entries, ExitBegins(e) \/ ExitFails(e) PROVE StagesInv'
    <2>1. UNCHANGED <<step, exposure, booked, claims>> /\ (e \in booked \/ exit[e] = "running")
      BY <1>8 DEF ExitBegins, ExitFails
    <2>2. PICK x \in {"running", "none"} : exit' = [exit EXCEPT ![e] = x]
      BY <1>8 DEF ExitBegins, ExitFails
    <2>3. LockShaped' BY <1>0, <1>8 DEF ExitBegins, ExitFails, Take
    <2>4. \A y \in Entries : StageInv(y)' BY <1>0, <2>1, <2>2 DEF StageInv
    <2> QED BY <1>0, <1>s, <2>1, <2>2, <2>3, <2>4 DEF ClaimsShaped
  <1>9. ASSUME NEW e \in Entries, ExitFills(e) PROVE StagesInv'
    <2>1. UNCHANGED <<step, lock>> /\ exit[e] = "running" /\ exit' = [exit EXCEPT ![e] = "done"]
          /\ exposure' = [exposure EXCEPT ![e] = "flat"] /\ booked' \subseteq booked
      BY <1>9 DEF ExitFills
    <2>2. \/ claims' = claims
          \/ \E h : Rehold(ProcOf[e], UnderlyingOf[e], h)
          \/ SetClaim(ProcOf[e], UnderlyingOf[e], [owner |-> NoOwner, holders |-> {}])
      BY <1>9, Zenon DEF ExitFills, NoClaim, Rehold
    <2>3. ClaimsShaped'
      <3>1. CASE SetClaim(ProcOf[e], UnderlyingOf[e], [owner |-> NoOwner, holders |-> {}])
        BY <1>0, <3>1, ClaimShape, EntryHome DEF ClaimsShaped
      <3>2. CASE claims' = claims BY <1>0, <3>2 DEF ClaimsShaped
      <3>3. CASE \E h : Rehold(ProcOf[e], UnderlyingOf[e], h)
        BY <1>0, <3>3, ReholdFacts, EntryHome, Zenon
      <3> QED BY <2>2, <3>1, <3>2, <3>3
    <2>4. exposure' \in [Entries -> Exposures] BY <1>0, <2>1 DEF Exposures
    <2>5. \A x \in Entries : StageInv(x)' BY <1>0, <2>1 DEF StageInv, Before, Early
    <2> QED BY <1>0, <1>s, <2>1, <2>3, <2>4, <2>5
  <1>10. ASSUME NEW e \in Entries, ResidualResolved(e) \/ OrphanResolved(e) PROVE StagesInv'
    <2>1. UNCHANGED <<step, exit, lock>> /\ booked' \subseteq booked
          /\ (e \in booked \/ exposure[e] = "orphan")
      BY <1>10 DEF ResidualResolved, OrphanResolved
    <2>2. \/ e \in booked /\ exposure' = [exposure EXCEPT ![e] = "flat"]
          \/ exposure' = [exposure EXCEPT ![e] = "none"]
      BY <1>10 DEF ResidualResolved, OrphanResolved
    <2>3. ClaimsShaped'
      <3>1. CASE DropHolder(ProcOf[e], UnderlyingOf[e], ResidualHold(e))
        BY <1>0, <3>1, DropFacts, EntryHome, Zenon
      <3>2. CASE claims' = claims BY <1>0, <3>2 DEF ClaimsShaped
      <3> QED BY <1>10, <3>1, <3>2, Zenon DEF ResidualResolved, OrphanResolved
    <2>4. exposure' \in [Entries -> Exposures] BY <1>0, <2>2 DEF Exposures
    <2>5. \A x \in Entries : StageInv(x)' BY <1>0, <2>1, <2>2 DEF StageInv, Before, Early
    <2> QED BY <1>0, <1>s, <2>1, <2>3, <2>4, <2>5
  <1>11. ASSUME NEW e \in Entries, Reclaim(e) PROVE StagesInv'
    <2>1. UNCHANGED <<step, exit, exposure, booked>> BY <1>11 DEF Reclaim
    <2>2. LockShaped' BY <1>0, <1>11 DEF Reclaim, Take
    <2>3. \/ \E h : Rehold(ProcOf[e], UnderlyingOf[e], h)
          \/ \E o, h : SetClaim(ProcOf[e], UnderlyingOf[e], [owner |-> o, holders |-> h])
      BY <1>11, Zenon DEF Reclaim, JoinClaim, Rehold
    <2>4. ClaimsShaped'
      <3>1. CASE \E o, h : SetClaim(ProcOf[e], UnderlyingOf[e], [owner |-> o, holders |-> h])
        BY <1>0, <3>1, ClaimShape, EntryHome DEF ClaimsShaped
      <3>2. CASE \E h : Rehold(ProcOf[e], UnderlyingOf[e], h)
        BY <1>0, <3>2, ReholdFacts, EntryHome, Zenon
      <3> QED BY <2>3, <3>1, <3>2
    <2>5. \A x \in Entries : StageInv(x)' BY <1>0, <2>1 DEF StageInv
    <2> QED BY <1>0, <1>s, <2>1, <2>2, <2>4, <2>5
  <1>12. CASE \/ \E o \in releasing : ReleaseLands(o)
              \/ \E o \in holds : HoldAbandoned(o)
              \/ \E k \in Keys : Lapse(k) \/ \E p \in Procs : LapseLocally(p, k)
    <2>1. UNCHANGED <<step, exit, exposure, booked, claims>>
      BY <1>12 DEF ReleaseLands, HoldAbandoned, Lapse, LapseLocally
    <2>2. LockShaped' BY <1>0, <1>12 DEF ReleaseLands, HoldAbandoned, Lapse, LapseLocally
    <2>3. \A x \in Entries : StageInv(x)' BY <1>0, <2>1 DEF StageInv
    <2> QED BY <1>0, <1>s, <2>1, <2>2, <2>3 DEF ClaimsShaped
  <1>13. ASSUME NEW p \in Procs, Crash(p) PROVE StagesInv'
    <2>1. /\ lock' = lock
          /\ step' = [e \in Entries |-> IF ProcOf[e] = p /\ step[e] # "idle" THEN "done" ELSE step[e]]
          /\ exit' = [e \in Entries |-> IF ProcOf[e] = p /\ exit[e] = "running" THEN "none" ELSE exit[e]]
          /\ exposure' = [e \in Entries |->
                IF ProcOf[e] = p /\ exposure[e] \in {"working", "open"} /\ e \notin booked
                THEN "orphan" ELSE exposure[e]]
          /\ booked' = booked \cup {e \in Entries : ProcOf[e] = p /\ exposure[e] = "residual"}
          /\ claims' = [claims EXCEPT ![p] = [u \in Underlyings |-> NoClaim]]
      BY <1>13 DEF Crash
    <2>2. ClaimsShaped' BY <1>0, <2>1 DEF ClaimsShaped, NoClaim
    <2>3. /\ step' \in [Entries -> Steps] /\ exit' \in [Entries -> {"none", "running", "done"}]
          /\ exposure' \in [Entries -> Exposures] /\ booked' \subseteq Entries
      BY <1>0, <2>1 DEF Steps, Exposures
    <2>4. \A x \in Entries : StageInv(x)' BY <1>0, <2>1 DEF StageInv, Before, Early
    <2> QED BY <1>0, <1>s, <2>1, <2>2, <2>3, <2>4
  <1>14. CASE UNCHANGED coordinatorVars
    BY <1>14 DEF coordinatorVars, StagesInv, CoordinatorShape, StageInv
  <1> QED
    BY <1>1, <1>2, <1>3, <1>4, <1>5, <1>6, <1>7, <1>8, <1>9, <1>10, <1>11, <1>12, <1>13, <1>14
       DEF CoordinatorNext, EntryAction, ExitAction

-----------------------------------------------------------------------------
(* The claims. *)

(* The owner o of a lock was made for the pipeline of e, in some life of its process. *)
OwnedBy(o, e) == \E n : o = <<"underlying", Pipeline(e), n>>

(* e has something at the broker, or is on its way there with its claim taken. *)
Tied(e) == exposure[e] \in Exposed \/ step[e] \in Reaching

(* An entry that did not claim yet has left no owner behind. *)
Fresh(e) ==
    step[e] \in Early =>
        \A o : OwnedBy(o, e) =>
            o \notin releasing /\ \A q \in Procs, u \in Underlyings : claims[q][u].owner # o

(* While its underlying has not lapsed, a tied entry owns the durable lock. *)
TiedOwnsLock(e) ==
    Tied(e) /\ UnderlyingOf[e] \notin lapsed =>
        OwnedBy(lock[UnderlyingOf[e]], e) /\ lock[UnderlyingOf[e]] \notin releasing

(* A claim in memory has the lock of its underlying, made for some pipeline. *)
ClaimOwnsLock(q, u) ==
    Claimed(q, u) /\ u \notin lapsed =>
        /\ claims[q][u].owner = lock[u] /\ lock[u] \notin releasing
        /\ \E e \in Entries : OwnedBy(lock[u], e)

(* A tied entry is among the holders of its process's claim, if there is one; and until   *)
(* its gateway answers there is one.                                                      *)
TiedHolds(e) ==
    Tied(e) /\ UnderlyingOf[e] \notin lapsed =>
        /\ Claimed(ProcOf[e], UnderlyingOf[e]) =>
              {Pipeline(e), Trade(e)} \cap claims[ProcOf[e]][UnderlyingOf[e]].holders # {}
        /\ step[e] \in Reaching => Claimed(ProcOf[e], UnderlyingOf[e])

(* A claim made for a pipeline is where that entry runs. *)
ClaimAtHome(q, u) ==
    \A e \in Entries : OwnedBy(claims[q][u].owner, e) => ProcOf[e] = q /\ UnderlyingOf[e] = u

(* The inductive invariant of the claims, on top of the stages. *)
ClaimInv ==
    /\ \A e \in Entries : Fresh(e) /\ TiedOwnsLock(e) /\ TiedHolds(e)
    /\ \A q \in Procs, u \in Underlyings : ClaimOwnsLock(q, u) /\ ClaimAtHome(q, u)

(* The owners' names tell the pipelines apart, and apart from every other owner. *)
LEMMA OwnerNames ==
    /\ \A o, e, f : OwnedBy(o, e) /\ OwnedBy(o, f) => e = f
    /\ \A e : ~OwnedBy(NoOwner, e)
    /\ \A e, x : ~OwnedBy(<<"entry", x>>, e) /\ ~OwnedBy(<<"exit", x>>, e)
    /\ \A e, x, n : /\ ~OwnedBy(<<"underlying", Trade(x), n>>, e)
                    /\ ~OwnedBy(<<"underlying", ResidualHold(x), n>>, e)
    /\ \A e, n : OwnedBy(<<"underlying", Pipeline(e), n>>, e)
  BY DEF OwnedBy, Pipeline, Trade, ResidualHold, NoOwner

(* A step keeps the invariant when it ties no entry, takes no claim outside lapsed        *)
(* underlyings, and gives up a lock only with the claim of an entry it unties.            *)
LEMMA ClaimsFrame ==
    ASSUME ClaimInv, lapsed \subseteq lapsed',
           \A e \in Entries : /\ Tied(e)' => Tied(e)
                              /\ step'[e] \in Early => step[e] \in Early
                              /\ TiedHolds(e)',
           \A u \in Underlyings \ lapsed' :
              \/ lock'[u] = lock[u]
              \/ /\ \A e \in Entries : UnderlyingOf[e] = u => ~Tied(e)
                 /\ \A q \in Procs : ~Claimed(q, u),
           \A q \in Procs, u \in Underlyings :
              /\ u \notin lapsed' /\ Claimed(q, u)' =>
                    Claimed(q, u) /\ claims'[q][u].owner = claims[q][u].owner
              /\ \A e \in Entries : OwnedBy(claims'[q][u].owner, e) =>
                    claims'[q][u].owner = claims[q][u].owner,
           \A e \in Entries, o \in releasing' \ releasing : OwnedBy(o, e) =>
              /\ claims[ProcOf[e]][UnderlyingOf[e]].owner = o
              /\ ~Claimed(ProcOf[e], UnderlyingOf[e])'
              /\ UnderlyingOf[e] \in lapsed' \/ ~Tied(e)'
    PROVE  ClaimInv'
  <1>1. ASSUME NEW e \in Entries PROVE Fresh(e)'
    BY <1>1, EntryHome DEF ClaimInv, Fresh
  <1>2. ASSUME NEW e \in Entries PROVE TiedOwnsLock(e)'
    BY <1>2, EntryHome DEF ClaimInv, TiedOwnsLock
  <1>3. ASSUME NEW q \in Procs, NEW u \in Underlyings PROVE ClaimOwnsLock(q, u)'
    <2> SUFFICES ASSUME Claimed(q, u)', u \notin lapsed'
                 PROVE  /\ claims'[q][u].owner = lock'[u] /\ lock'[u] \notin releasing'
                        /\ \E e \in Entries : OwnedBy(lock'[u], e)
      BY DEF ClaimOwnsLock, OwnedBy, Pipeline
    <2>1. Claimed(q, u) /\ claims'[q][u].owner = claims[q][u].owner /\ u \notin lapsed
      BY <1>3
    <2>2. lock'[u] = lock[u] BY <1>3, <2>1
    <2>3. claims[q][u].owner = lock[u] /\ lock[u] \notin releasing BY <1>3, <2>1 DEF ClaimInv, ClaimOwnsLock
    <2>4. PICK e \in Entries : OwnedBy(lock[u], e) BY <1>3, <2>1 DEF ClaimInv, ClaimOwnsLock
    <2>5. ProcOf[e] = q /\ UnderlyingOf[e] = u BY <1>3, <2>3, <2>4 DEF ClaimInv, ClaimAtHome
    <2>6. lock[u] \notin releasing' BY <1>3, <2>3, <2>4, <2>5
    <2> QED BY <2>1, <2>2, <2>3, <2>4, <2>6
  <1>4. ASSUME NEW q \in Procs, NEW u \in Underlyings PROVE ClaimAtHome(q, u)'
    BY <1>4 DEF ClaimInv, ClaimAtHome
  <1> QED BY <1>1, <1>2, <1>3, <1>4 DEF ClaimInv

(* A step that leaves the claims and the locks of underlyings alone and ties no entry. *)
LEMMA ClaimsUntouched ==
    ASSUME ClaimInv, claims' = claims, lapsed' = lapsed,
           \A u \in Underlyings : lock'[u] = lock[u],
           \A e \in Entries : /\ Tied(e)' => Tied(e)
                              /\ step'[e] \in Early => step[e] \in Early
                              /\ step'[e] \in Reaching => step[e] \in Reaching,
           \A e \in Entries, o \in releasing' \ releasing : ~OwnedBy(o, e)
    PROVE  ClaimInv'
  <1>1. \A q \in Procs, u \in Underlyings : Claimed(q, u)' <=> Claimed(q, u)
    BY DEF Claimed, NoClaim, NoOwner
  <1>2. \A e \in Entries : TiedHolds(e)'
    BY <1>1, EntryHome DEF ClaimInv, TiedHolds, Pipeline, Trade
  <1> QED BY <1>1, <1>2, ClaimsFrame

(* A holder joins the claim of its entry, or the entry's trade takes its pipeline's place. *)
LEMMA ClaimJoined ==
    ASSUME ClaimInv, CoordinatorShape, NEW e \in Entries, NEW h,
           Rehold(ProcOf[e], UnderlyingOf[e], h), Claimed(ProcOf[e], UnderlyingOf[e]),
           Tied(e)' /\ UnderlyingOf[e] \notin lapsed => {Pipeline(e), Trade(e)} \cap h # {},
           \A f \in Entries \ {e} :
              {Pipeline(f), Trade(f)} \cap claims[ProcOf[e]][UnderlyingOf[e]].holders \subseteq h,
           lapsed' = lapsed, releasing' = releasing, lock' = lock,
           \A f \in Entries : /\ Tied(f)' => Tied(f)
                              /\ step'[f] \in Early => step[f] \in Early
                              /\ step'[f] \in Reaching => step[f] \in Reaching
    PROVE  ClaimInv'
  <1> DEFINE p == ProcOf[e]  u == UnderlyingOf[e]
  <1>1. /\ claims'[p][u] = [owner |-> claims[p][u].owner, holders |-> h]
        /\ \A q \in Procs, v \in Underlyings : q # p \/ v # u => claims'[q][v] = claims[q][v]
    <2>1. p \in Procs /\ u \in Underlyings BY EntryHome
    <2>2. Rehold(p, u, h) OBVIOUS
    <2> HIDE DEF p, u
    <2> QED BY <2>1, <2>2, ReholdFacts
  <1>2. claims'[p][u].owner = claims[p][u].owner /\ claims'[p][u].holders = h BY <1>1
  <1>3. \A q \in Procs, v \in Underlyings : q # p \/ v # u => (Claimed(q, v)' <=> Claimed(q, v))
    BY <1>1 DEF Claimed, NoClaim, NoOwner
  <1>4. h # {} => Claimed(p, u)' BY <1>2 DEF Claimed, NoClaim
  <1>5. ASSUME NEW f \in Entries PROVE TiedHolds(f)'
    <2> SUFFICES ASSUME Tied(f)', UnderlyingOf[f] \notin lapsed'
                 PROVE  /\ Claimed(ProcOf[f], UnderlyingOf[f])' =>
                             {Pipeline(f), Trade(f)} \cap claims'[ProcOf[f]][UnderlyingOf[f]].holders # {}
                        /\ step'[f] \in Reaching => Claimed(ProcOf[f], UnderlyingOf[f])'
      BY DEF TiedHolds, Pipeline, Trade
    <2>1. /\ Claimed(ProcOf[f], UnderlyingOf[f]) =>
                  {Pipeline(f), Trade(f)} \cap claims[ProcOf[f]][UnderlyingOf[f]].holders # {}
          /\ step'[f] \in Reaching => Claimed(ProcOf[f], UnderlyingOf[f])
      BY <1>5 DEF ClaimInv, TiedHolds
    <2>2. CASE f = e BY <1>2, <1>4, <2>2
    <2>3. CASE f # e /\ ProcOf[f] = p /\ UnderlyingOf[f] = u
      <3>1. {Pipeline(f), Trade(f)} \cap h # {} BY <2>1, <2>3
      <3> QED BY <1>2, <1>4, <2>3, <3>1
    <2>4. CASE ProcOf[f] # p \/ UnderlyingOf[f] # u
      BY <1>1, <1>3, <2>1, <2>4, <1>5, EntryHome
    <2> QED BY <2>2, <2>3, <2>4
  <1>6. \A q \in Procs, v \in Underlyings :
           claims'[q][v].owner = claims[q][v].owner /\ (Claimed(q, v)' => Claimed(q, v))
    BY <1>1, <1>2, <1>3
  <1> QED BY <1>5, <1>6, ClaimsFrame

(* dropUnderlyingHolder for a holder of an entry that is no longer tied; other owners may *)
(* start their release in the same step.                                                  *)
Dropped(p, u, h, extra) ==
    /\ \A q \in Procs, v \in Underlyings : q # p \/ v # u => claims'[q][v] = claims[q][v]
    /\ \/ ~Claimed(p, u) /\ claims' = claims /\ releasing' = releasing \cup extra
       \/ /\ Claimed(p, u) /\ releasing' = releasing \cup extra
          /\ claims'[p][u] = [owner |-> claims[p][u].owner, holders |-> claims[p][u].holders \ {h}]
       \/ /\ Claimed(p, u) /\ claims[p][u].holders \ {h} = {}
          /\ releasing' = releasing \cup extra \cup {claims[p][u].owner}
          /\ claims'[p][u] = NoClaim

(* Leaving gives up the lock only when no tied entry is among the holders. *)
LEMMA ClaimDropped ==
    ASSUME ClaimInv, NEW e \in Entries, NEW h \in {Pipeline(e), Trade(e), ResidualHold(e)},
           NEW extra, \A f \in Entries, o \in extra : ~OwnedBy(o, f),
           Dropped(ProcOf[e], UnderlyingOf[e], h, extra), ~Tied(e)',
           lapsed' = lapsed, \A v \in Underlyings : lock'[v] = lock[v],
           \A f \in Entries : /\ Tied(f)' => Tied(f)
                              /\ step'[f] \in Early => step[f] \in Early
                              /\ step'[f] \in Reaching => step[f] \in Reaching
    PROVE  ClaimInv'
  <1> DEFINE p == ProcOf[e]  u == UnderlyingOf[e]
  <1>1. \A q \in Procs, v \in Underlyings : q # p \/ v # u => claims'[q][v] = claims[q][v]
    BY DEF Dropped
  <1>2. \A q \in Procs, v \in Underlyings : q # p \/ v # u => (Claimed(q, v)' <=> Claimed(q, v))
    BY <1>1 DEF Claimed, NoClaim, NoOwner
  <1>3. \A f \in Entries \ {e} : h \notin {Pipeline(f), Trade(f)}
    BY DEF Pipeline, Trade, ResidualHold
  <1>h. ASSUME NEW f \in Entries, Tied(f)', UnderlyingOf[f] \notin lapsed, ProcOf[f] = p, UnderlyingOf[f] = u
        PROVE  /\ Claimed(p, u) => {Pipeline(f), Trade(f)} \cap (claims[p][u].holders \ {h}) # {}
               /\ step'[f] \in Reaching => Claimed(p, u)
    BY <1>h, <1>3 DEF ClaimInv, TiedHolds
  <1>o. ASSUME NEW f \in Entries, Tied(f)', UnderlyingOf[f] \notin lapsed,
               ProcOf[f] # p \/ UnderlyingOf[f] # u
        PROVE  TiedHolds(f)'
    <2>1. TiedHolds(f) BY <1>o DEF ClaimInv
    <2> QED BY <2>1, <1>o, <1>1, <1>2, EntryHome DEF TiedHolds, Pipeline, Trade
  <1>t. ASSUME NEW f \in Entries, ~(Tied(f)' /\ UnderlyingOf[f] \notin lapsed) PROVE TiedHolds(f)'
    BY <1>t DEF TiedHolds
  <1>4. CASE ~Claimed(p, u) /\ claims' = claims /\ releasing' = releasing \cup extra
    BY <1>4, ClaimsUntouched
  <1>5. CASE /\ Claimed(p, u) /\ releasing' = releasing \cup extra
             /\ claims'[p][u] = [owner |-> claims[p][u].owner, holders |-> claims[p][u].holders \ {h}]
    <2>1. claims'[p][u].owner = claims[p][u].owner /\ claims'[p][u].holders = claims[p][u].holders \ {h}
      BY <1>5
    <2>2. claims[p][u].holders \ {h} # {} => Claimed(p, u)' BY <2>1 DEF Claimed, NoClaim
    <2>3. ASSUME NEW f \in Entries PROVE TiedHolds(f)'
      <3>1. CASE Tied(f)' /\ UnderlyingOf[f] \notin lapsed /\ ProcOf[f] = p /\ UnderlyingOf[f] = u
        BY <1>h, <1>5, <2>1, <2>2, <2>3, <3>1 DEF TiedHolds, Pipeline, Trade
      <3> QED BY <1>o, <1>t, <2>3, <3>1
    <2>4. \A q \in Procs, v \in Underlyings :
             claims'[q][v].owner = claims[q][v].owner /\ (Claimed(q, v)' => Claimed(q, v))
      BY <1>1, <1>2, <1>5, <2>1
    <2> QED BY <1>5, <2>3, <2>4, ClaimsFrame
  <1>6. CASE /\ Claimed(p, u) /\ claims[p][u].holders \ {h} = {}
             /\ releasing' = releasing \cup extra \cup {claims[p][u].owner}
             /\ claims'[p][u] = NoClaim
    <2>1. claims'[p][u].owner = NoOwner /\ ~Claimed(p, u)' BY <1>6 DEF Claimed, NoClaim, NoOwner
    <2>2. \A f \in Entries : ProcOf[f] = p /\ UnderlyingOf[f] = u /\ u \notin lapsed => ~Tied(f)'
      BY <1>h, <1>6
    <2>3. \A f \in Entries : TiedHolds(f)' BY <1>o, <1>t, <2>2
    <2>4. \A q \in Procs, v \in Underlyings :
             /\ Claimed(q, v)' => Claimed(q, v) /\ claims'[q][v].owner = claims[q][v].owner
             /\ \A f \in Entries : OwnedBy(claims'[q][v].owner, f) => claims'[q][v].owner = claims[q][v].owner
      BY <1>1, <1>2, <2>1, OwnerNames
    <2>5. ASSUME NEW f \in Entries, NEW o \in releasing' \ releasing, OwnedBy(o, f)
          PROVE  /\ claims[ProcOf[f]][UnderlyingOf[f]].owner = o
                 /\ ~Claimed(ProcOf[f], UnderlyingOf[f])'
                 /\ UnderlyingOf[f] \in lapsed' \/ ~Tied(f)'
      <3>1. o = claims[p][u].owner BY <1>6, <2>5
      <3>2. ProcOf[f] = p /\ UnderlyingOf[f] = u
        BY <2>5, <3>1, EntryHome DEF ClaimInv, ClaimAtHome
      <3> QED BY <2>1, <2>2, <2>5, <3>1, <3>2
    <2> QED BY <2>3, <2>4, <2>5, ClaimsFrame
  <1> QED BY <1>4, <1>5, <1>6 DEF Dropped

(* abandonAndReleaseHold, settleUnderlyingHold and registerResidual leave through         *)
(* dropUnderlyingHolder.                                                                  *)
LEMMA DropGivesDropped ==
    ASSUME CoordinatorShape, NEW e \in Entries, NEW h, DropHolder(ProcOf[e], UnderlyingOf[e], h)
    PROVE  Dropped(ProcOf[e], UnderlyingOf[e], h, {})
  <1> DEFINE p == ProcOf[e]  u == UnderlyingOf[e]
  <1>1. p \in Procs /\ u \in Underlyings BY EntryHome
  <1>2. DropHolder(p, u, h) OBVIOUS
  <1> HIDE DEF p, u
  <1>3. Dropped(p, u, h, {}) BY <1>1, <1>2, DropFacts DEF Dropped
  <1> QED BY <1>3 DEF p, u

(* A filled exit drops the claim of its trade and releases its contracts. *)
LEMMA ExitGivesDropped ==
    ASSUME CoordinatorShape, NEW e \in Entries, ExitFills(e)
    PROVE  Dropped(ProcOf[e], UnderlyingOf[e], Trade(e), {<<"exit", e>>})
  <1> DEFINE p == ProcOf[e]  u == UnderlyingOf[e]  left == claims[p][u].holders \ {Trade(e)}
             exitOwner == <<"exit", e>>
  <1>1. p \in Procs /\ u \in Underlyings BY EntryHome
  <1>2. \/ ~Claimed(p, u) /\ claims' = claims /\ releasing' = releasing \cup {exitOwner}
        \/ Claimed(p, u) /\ left # {} /\ releasing' = releasing \cup {exitOwner} /\ Rehold(p, u, left)
        \/ /\ Claimed(p, u) /\ left = {} /\ SetClaim(p, u, [owner |-> NoOwner, holders |-> {}])
           /\ releasing' = releasing \cup {exitOwner} \cup {claims[p][u].owner}
    <2>1. CASE ~Claimed(p, u) BY <2>1 DEF ExitFills
    <2>2. CASE Claimed(p, u) /\ left # {}
      <3>1. Rehold(p, u, left) BY <2>2, Zenon DEF ExitFills, Rehold
      <3>2. releasing' = releasing \cup {exitOwner} BY <2>2 DEF ExitFills
      <3> QED BY <2>2, <3>1, <3>2
    <2>3. CASE Claimed(p, u) /\ left = {}
      <3>1. SetClaim(p, u, [owner |-> NoOwner, holders |-> {}]) BY <2>3, Zenon DEF ExitFills, NoClaim
      <3>2. releasing' = releasing \cup {exitOwner} \cup {claims[p][u].owner} BY <2>3 DEF ExitFills
      <3> QED BY <2>3, <3>1, <3>2
    <2> QED BY <2>1, <2>2, <2>3
  <1> HIDE DEF p, u, exitOwner
  <1>3. Dropped(p, u, Trade(e), {exitOwner})
    <2>1. CASE ~Claimed(p, u) BY <1>2, <2>1 DEF Dropped
    <2>2. CASE Claimed(p, u) /\ left # {}
      <3>1. Rehold(p, u, left) /\ releasing' = releasing \cup {exitOwner} BY <1>2, <2>2
      <3> HIDE DEF left
      <3>2. /\ claims'[p][u] = [owner |-> claims[p][u].owner, holders |-> left]
            /\ \A q \in Procs, v \in Underlyings : q # p \/ v # u => claims'[q][v] = claims[q][v]
        BY <1>1, <3>1, ReholdFacts
      <3> QED BY <2>2, <3>1, <3>2 DEF Dropped, left
    <2>3. CASE Claimed(p, u) /\ left = {}
      <3>1. SetClaim(p, u, [owner |-> NoOwner, holders |-> {}]) BY <1>2, <2>3
      <3>2. /\ claims'[p][u] = [owner |-> NoOwner, holders |-> {}]
            /\ \A q \in Procs, v \in Underlyings : q # p \/ v # u => claims'[q][v] = claims[q][v]
        BY <1>1, <3>1, ClaimShape
      <3> QED BY <1>2, <2>3, <3>2 DEF Dropped, NoClaim
    <2> QED BY <2>1, <2>2, <2>3
  <1> QED BY <1>3 DEF p, u, exitOwner

(* A residual or a trade joins the claim of its entry. *)
HolderJoins(e, h) ==
    /\ Claimed(ProcOf[e], UnderlyingOf[e])
    /\ Rehold(ProcOf[e], UnderlyingOf[e], claims[ProcOf[e]][UnderlyingOf[e]].holders \cup {h})

(* Joining keeps the invariant: nobody leaves, and the owner stays. *)
LEMMA JoinKeeps ==
    ASSUME ClaimInv, CoordinatorShape, NEW e \in Entries, NEW h, HolderJoins(e, h),
           lapsed' = lapsed, releasing' = releasing, lock' = lock,
           \A f \in Entries : /\ Tied(f)' => Tied(f)
                              /\ step'[f] \in Early => step[f] \in Early
                              /\ step'[f] \in Reaching => step[f] \in Reaching
    PROVE  ClaimInv'
  <1> DEFINE H == claims[ProcOf[e]][UnderlyingOf[e]].holders \cup {h}
  <1>1. Claimed(ProcOf[e], UnderlyingOf[e]) /\ Rehold(ProcOf[e], UnderlyingOf[e], H) BY DEF HolderJoins
  <1>2. Tied(e)' /\ UnderlyingOf[e] \notin lapsed => {Pipeline(e), Trade(e)} \cap H # {}
    BY <1>1 DEF ClaimInv, TiedHolds
  <1>3. \A f \in Entries \ {e} :
          {Pipeline(f), Trade(f)} \cap claims[ProcOf[e]][UnderlyingOf[e]].holders \subseteq H
    OBVIOUS
  <1> HIDE DEF H
  <1> QED BY <1>1, <1>2, <1>3, ClaimJoined

(* Taking contracts leaves the locks of underlyings alone: their keys differ. *)
LEMMA ContractsApart ==
    ASSUME NEW p \in Procs, NEW ks \in SUBSET Contracts, NEW o, Take(p, ks, o)
    PROVE  \A u \in Underlyings : lock'[u] = lock[u]
  BY DEF Take, Keys

(* Layer 1b takes a claim only where no claim and no lock is: nobody is tied there, except *)
(* where the claim lapsed.                                                                 *)
LEMMA HoldKeeps ==
    ASSUME ClaimInv, CoordinatorShape, NEW e \in Entries, HoldPipeline(e)
    PROVE  ClaimInv'
  <1> DEFINE p == ProcOf[e]  u == UnderlyingOf[e]  o == <<"underlying", Pipeline(e), life[p]>>
             hs == {Pipeline(e)}
  <1>0. p \in Procs /\ u \in Underlyings /\ step \in [Entries -> Steps] BY EntryHome DEF CoordinatorShape
  <1>1. /\ step[e] = "holding" /\ ~Claimed(p, u) /\ Free(p, {u}) /\ Take(p, {u}, o)
        /\ SetClaim(p, u, [owner |-> o, holders |-> hs])
        /\ UNCHANGED <<exposure, releasing, lapsed>>
    BY DEF HoldPipeline, UnderlyingOwner
  <1>2. PICK s \in {"refused", "acquiring"} : step' = [step EXCEPT ![e] = s] BY DEF HoldPipeline
  <1>3. OwnedBy(o, e) BY OwnerNames
  <1>4. Pipeline(e) \in hs OBVIOUS
  <1> HIDE DEF o, hs
  <1>5. /\ claims'[p][u] = [owner |-> o, holders |-> hs]
        /\ \A q \in Procs, v \in Underlyings : q # p \/ v # u => claims'[q][v] = claims[q][v]
    <2> HIDE DEF p, u
    <2> QED BY <1>0, <1>1, ClaimShape
  <1>6. claims'[p][u].owner = o /\ claims'[p][u].holders = hs BY <1>5
  <1>7. Claimed(p, u)' BY <1>4, <1>6 DEF Claimed, NoClaim
  <1>8. \A q \in Procs, v \in Underlyings : q # p \/ v # u => (Claimed(q, v)' <=> Claimed(q, v))
    BY <1>5 DEF Claimed, NoClaim, NoOwner
  <1>9. lock[u] = NoOwner /\ lock'[u] = o /\ \A v \in Underlyings \ {u} : lock'[v] = lock[v]
    BY <1>0, <1>1 DEF Free, Take, Keys
  (* Nobody else is tied or holds a claim on u, unless it lapsed. *)
  <1>10. ASSUME u \notin lapsed
         PROVE  /\ \A f \in Entries : UnderlyingOf[f] = u => ~Tied(f)
                /\ \A q \in Procs : ~Claimed(q, u)
    BY <1>0, <1>9, <1>10, OwnerNames DEF ClaimInv, TiedOwnsLock, ClaimOwnsLock
  <1>11. o \notin releasing /\ \A q \in Procs, v \in Underlyings : claims[q][v].owner # o
    BY <1>1, <1>3 DEF ClaimInv, Fresh, Early
  <1>12. \A f \in Entries : /\ step'[f] \in Early => step[f] \in Early /\ f # e
                            /\ f # e => (Tied(f)' <=> Tied(f)) /\ step'[f] = step[f]
    BY <1>0, <1>1, <1>2 DEF Tied, Early
  <1>13. ASSUME NEW f \in Entries PROVE Fresh(f)'
    BY <1>1, <1>3, <1>5, <1>6, <1>12, <1>13, OwnerNames DEF ClaimInv, Fresh
  <1>14. ASSUME NEW f \in Entries PROVE TiedOwnsLock(f)'
    <2>1. CASE f = e BY <1>1, <1>3, <1>9, <1>11, <2>1 DEF TiedOwnsLock
    <2>2. CASE f # e /\ UnderlyingOf[f] = u BY <1>1, <1>10, <1>12, <2>2 DEF TiedOwnsLock
    <2>3. CASE UnderlyingOf[f] # u
      BY <1>1, <1>9, <1>12, <1>14, <2>3, EntryHome DEF ClaimInv, TiedOwnsLock
    <2> QED BY <2>1, <2>2, <2>3
  <1>15. ASSUME NEW f \in Entries PROVE TiedHolds(f)'
    <2>1. CASE f = e BY <1>4, <1>6, <1>7, <2>1 DEF TiedHolds, Pipeline, Trade
    <2>2. CASE f # e /\ UnderlyingOf[f] = u BY <1>1, <1>10, <1>12, <2>2 DEF TiedHolds
    <2>3. CASE UnderlyingOf[f] # u
      <3>1. TiedHolds(f) BY <1>15 DEF ClaimInv
      <3> QED BY <1>1, <1>5, <1>8, <1>12, <1>15, <2>3, <3>1, EntryHome DEF TiedHolds, Pipeline, Trade
    <2> QED BY <2>1, <2>2, <2>3
  <1>16. ASSUME NEW q \in Procs, NEW v \in Underlyings PROVE ClaimOwnsLock(q, v)'
    <2>1. CASE q = p /\ v = u BY <1>1, <1>3, <1>6, <1>9, <1>11, <2>1 DEF ClaimOwnsLock, OwnedBy, Pipeline
    <2>2. CASE q # p /\ v = u BY <1>1, <1>8, <1>10, <2>2 DEF ClaimOwnsLock
    <2>3. CASE v # u
      <3>1. ClaimOwnsLock(q, v) BY DEF ClaimInv
      <3> QED BY <1>1, <1>5, <1>8, <1>9, <2>3, <3>1 DEF ClaimOwnsLock, OwnedBy, Pipeline
    <2> QED BY <2>1, <2>2, <2>3
  <1>17. ASSUME NEW q \in Procs, NEW v \in Underlyings PROVE ClaimAtHome(q, v)'
    <2>1. CASE q = p /\ v = u BY <1>3, <1>6, <2>1, OwnerNames DEF ClaimAtHome
    <2>2. CASE q # p \/ v # u BY <1>5, <1>17, <2>2 DEF ClaimInv, ClaimAtHome
    <2> QED BY <2>1, <2>2
  <1> QED BY <1>13, <1>14, <1>15, <1>16, <1>17 DEF ClaimInv

(* Every process starts with no claim. *)
LEMMA ClaimsInit == CoordinatorInit => ClaimInv
  <1> SUFFICES ASSUME CoordinatorInit PROVE ClaimInv
    OBVIOUS
  <1>1. \A q \in Procs, u \in Underlyings : claims[q][u] = NoClaim /\ claims[q][u].owner = NoOwner
    BY DEF CoordinatorInit, NoClaim
  <1>2. \A e \in Entries : ~Tied(e) BY DEF CoordinatorInit, Tied, Exposed, Reaching
  <1>3. releasing = {} BY DEF CoordinatorInit
  <1>4. \A e \in Entries : Fresh(e) BY <1>1, <1>3, OwnerNames DEF Fresh
  <1> QED BY <1>1, <1>2, <1>4, OwnerNames
          DEF ClaimInv, TiedOwnsLock, TiedHolds, ClaimOwnsLock, ClaimAtHome, Claimed

(* Every step of a live coordinator keeps the claims in order. *)
LEMMA ClaimsStep == Live /\ StagesInv /\ ClaimInv /\ [CoordinatorNext]_coordinatorVars => ClaimInv'
  <1> SUFFICES ASSUME Live, StagesInv, ClaimInv, [CoordinatorNext]_coordinatorVars PROVE ClaimInv'
    OBVIOUS
  <1>0. /\ CoordinatorShape
        /\ step \in [Entries -> Steps] /\ exit \in [Entries -> {"none", "running", "done"}]
        /\ exposure \in [Entries -> Exposures] /\ booked \subseteq Entries
        /\ \A e \in Entries : StageInv(e)
        /\ lock = [k \in Keys |-> lock[k]]
    BY DEF StagesInv, CoordinatorShape
  (* The step of one entry: its own stage decides what becomes of the ties. *)
  <1>e. ASSUME NEW e \in Entries, NEW s, NEW x,
               step' = [step EXCEPT ![e] = s], exposure' = [exposure EXCEPT ![e] = x],
               s \in Early => step[e] \in Early,
               s \in Reaching => step[e] \in Reaching,
               x \in Exposed => Tied(e)
        PROVE  \A f \in Entries : /\ Tied(f)' => Tied(f)
                                  /\ step'[f] \in Early => step[f] \in Early
                                  /\ step'[f] \in Reaching => step[f] \in Reaching
    BY <1>0, <1>e DEF Tied
  <1>f. ASSUME UNCHANGED <<step, exposure>>
        PROVE  \A f \in Entries : /\ Tied(f)' => Tied(f)
                                  /\ step'[f] \in Early => step[f] \in Early
                                  /\ step'[f] \in Reaching => step[f] \in Reaching
    BY <1>f DEF Tied
  <1>1. ASSUME NEW e \in Entries, Begin(e) \/ Counted(e) \/ HoldRefused(e) PROVE ClaimInv'
    <2>1. UNCHANGED <<exposure, lock, claims, releasing, lapsed>> /\ step[e] \in Early
      BY <1>1 DEF Begin, Counted, HoldRefused, Early
    <2>2. PICK s \in {"counting", "holding", "refused"} : step' = [step EXCEPT ![e] = s]
      BY <1>1 DEF Begin, Counted, HoldRefused
    <2>3. exposure' = [exposure EXCEPT ![e] = exposure[e]] BY <1>0, <2>1
    <2>4. s \notin Reaching /\ (exposure[e] \in Exposed => Tied(e)) BY DEF Reaching, Tied
    <2>5. \A f \in Entries : /\ Tied(f)' => Tied(f)
                             /\ step'[f] \in Early => step[f] \in Early
                             /\ step'[f] \in Reaching => step[f] \in Reaching
      BY <1>e, <2>1, <2>2, <2>3, <2>4
    <2> QED BY <2>1, <2>5, ClaimsUntouched
  <1>2. ASSUME NEW e \in Entries, WaitForContracts(e) \/ Settle(e) PROVE ClaimInv'
    <2>1. UNCHANGED <<exposure, lock, claims, lapsed>> /\ releasing' \subseteq releasing \cup {<<"entry", e>>}
      BY <1>2 DEF WaitForContracts, Settle
    <2>2. \/ step[e] = "acquiring" /\ step' = [step EXCEPT ![e] = "waiting"]
          \/ step' = [step EXCEPT ![e] = "returned"]
      BY <1>2 DEF WaitForContracts, Settle
    <2>3. \A f \in Entries : /\ Tied(f)' => Tied(f)
                             /\ step'[f] \in Early => step[f] \in Early
                             /\ step'[f] \in Reaching => step[f] \in Reaching
      BY <1>0, <2>1, <2>2 DEF Tied, Early, Reaching
    <2>4. \A f \in Entries, o \in releasing' \ releasing : ~OwnedBy(o, f) BY <2>1, OwnerNames
    <2> QED BY <2>1, <2>3, <2>4, ClaimsUntouched
  <1>3. ASSUME NEW e \in Entries, AcquireContracts(e) PROVE ClaimInv'
    <2>1. UNCHANGED <<claims, releasing, lapsed>> /\ step[e] \in {"acquiring", "waiting"}
          /\ step' = [step EXCEPT ![e] = "running"] /\ exposure' = [exposure EXCEPT ![e] = "working"]
          /\ Take(ProcOf[e], ContractsOf[e], <<"entry", e>>)
      BY <1>3 DEF AcquireContracts
    <2>2. \A u \in Underlyings : lock'[u] = lock[u] BY <2>1, ContractsApart, EntryHome
    <2>3. \A f \in Entries : /\ Tied(f)' => Tied(f)
                             /\ step'[f] \in Early => step[f] \in Early
                             /\ step'[f] \in Reaching => step[f] \in Reaching
      BY <1>0, <2>1 DEF Tied, Early, Reaching
    <2> QED BY <2>1, <2>2, <2>3, ClaimsUntouched
  <1>4. ASSUME NEW e \in Entries, EntryReturns(e) \/ EntryThrows(e) PROVE ClaimInv'
    <2>1. UNCHANGED <<lock, claims, releasing, lapsed>> /\ step[e] = "running"
      BY <1>4 DEF EntryReturns, EntryThrows
    <2>2. \E s \in {"settlingHold", "done"}, x \in {"open", "none", "residual", "orphan"} :
             step' = [step EXCEPT ![e] = s] /\ exposure' = [exposure EXCEPT ![e] = x]
      BY <1>4 DEF EntryReturns, EntryThrows
    <2>3. \A f \in Entries : /\ Tied(f)' => Tied(f)
                             /\ step'[f] \in Early => step[f] \in Early
                             /\ step'[f] \in Reaching => step[f] \in Reaching
      BY <1>0, <2>1, <2>2 DEF Tied, Early, Reaching
    <2> QED BY <2>1, <2>3, ClaimsUntouched
  <1>5. ASSUME NEW e \in Entries, ExitBegins(e) \/ ExitFails(e) PROVE ClaimInv'
    <2>1. UNCHANGED <<step, exposure, claims, lapsed>> /\ releasing' \subseteq releasing \cup {<<"exit", e>>}
      BY <1>5 DEF ExitBegins, ExitFails
    <2>2. lock' = lock \/ Take(ProcOf[e], ContractsOf[e], <<"exit", e>>)
      BY <1>5 DEF ExitBegins, ExitFails
    <2>3. \A u \in Underlyings : lock'[u] = lock[u] BY <2>2, ContractsApart, EntryHome
    <2>4. \A f \in Entries, o \in releasing' \ releasing : ~OwnedBy(o, f) BY <2>1, OwnerNames
    <2> QED BY <1>f, <2>1, <2>3, <2>4, ClaimsUntouched
  <1>6. ASSUME NEW e \in Entries, OrphanResolved(e) PROVE ClaimInv'
    <2>1. UNCHANGED <<step, lock, claims, releasing, lapsed>> /\ exposure' = [exposure EXCEPT ![e] = "none"]
      BY <1>6 DEF OrphanResolved
    <2>2. \A f \in Entries : Tied(f)' => Tied(f) BY <1>0, <2>1 DEF Tied, Exposed
    <2> QED BY <2>1, <2>2, ClaimsUntouched
  <1>7. CASE (\E o \in holds : HoldAbandoned(o)) \/ (\E k \in Keys, p \in Procs : LapseLocally(p, k))
    <2>1. UNCHANGED <<step, exposure, lock, claims, releasing, lapsed>>
      BY <1>7 DEF HoldAbandoned, LapseLocally
    <2> QED BY <1>f, <2>1, ClaimsUntouched
  (* The droppers. *)
  <1>8. ASSUME NEW e \in Entries, GiveUpWaiting(e) \/ DurableUnavailable(e) PROVE ClaimInv'
    <2>1. UNCHANGED <<exposure, lock, lapsed>> /\ Abandon(e) /\ step[e] \in {"acquiring", "waiting"}
      BY <1>8 DEF GiveUpWaiting, DurableUnavailable
    <2>2. step' = [step EXCEPT ![e] = "refused"] BY <2>1 DEF Abandon
    <2>3. \A f \in Entries : /\ Tied(f)' => Tied(f)
                             /\ step'[f] \in Early => step[f] \in Early
                             /\ step'[f] \in Reaching => step[f] \in Reaching
      BY <1>0, <2>1, <2>2 DEF Tied, Early, Reaching
    <2>4. exposure[e] = "none" BY <1>0, <2>1 DEF StageInv, Before
    <2>5. ~Tied(e)' BY <1>0, <2>1, <2>2, <2>4 DEF Tied, Reaching, Exposed
    <2>6. Dropped(ProcOf[e], UnderlyingOf[e], Pipeline(e), {})
      <3>1. DropHolder(ProcOf[e], UnderlyingOf[e], Pipeline(e)) BY <2>1 DEF Abandon
      <3> QED BY <1>0, <3>1, DropGivesDropped
    <2> QED BY <2>1, <2>3, <2>5, <2>6, ClaimDropped
  <1>9. ASSUME NEW e \in Entries, ResidualResolved(e) PROVE ClaimInv'
    <2>1. UNCHANGED <<step, lock, lapsed>> /\ exposure' = [exposure EXCEPT ![e] = "flat"] /\ e \in booked
          /\ DropHolder(ProcOf[e], UnderlyingOf[e], ResidualHold(e))
      BY <1>9 DEF ResidualResolved
    <2>2. step[e] = "done" BY <1>0, <2>1 DEF StageInv
    <2>3. ~Tied(e)' /\ \A f \in Entries : Tied(f)' => Tied(f)
      BY <1>0, <2>1, <2>2 DEF Tied, Exposed, Reaching
    <2>4. Dropped(ProcOf[e], UnderlyingOf[e], ResidualHold(e), {}) BY <1>0, <2>1, DropGivesDropped
    <2> QED BY <2>1, <2>3, <2>4, ClaimDropped
  <1>10. ASSUME NEW e \in Entries, ExitFills(e) PROVE ClaimInv'
    <2>1. UNCHANGED <<step, lock, lapsed>> /\ exposure' = [exposure EXCEPT ![e] = "flat"] /\ exit[e] = "running"
      BY <1>10 DEF ExitFills
    <2>2. step[e] = "done" BY <1>0, <2>1 DEF StageInv
    <2>3. ~Tied(e)' /\ \A f \in Entries : Tied(f)' => Tied(f)
      BY <1>0, <2>1, <2>2 DEF Tied, Exposed, Reaching
    <2>4. Dropped(ProcOf[e], UnderlyingOf[e], Trade(e), {<<"exit", e>>}) BY <1>0, <1>10, ExitGivesDropped
    <2>5. \A f \in Entries, o \in {<<"exit", e>>} : ~OwnedBy(o, f) BY OwnerNames
    <2> QED BY <2>1, <2>3, <2>4, <2>5, ClaimDropped
  <1>11. ASSUME NEW e \in Entries, SettleHold(e) PROVE ClaimInv'
    <2>1. UNCHANGED <<exposure, lock, lapsed>> /\ step[e] = "settlingHold"
          /\ step' = [step EXCEPT ![e] = "settling"]
      BY <1>11 DEF SettleHold
    <2>2. \A f \in Entries : /\ Tied(f)' => Tied(f)
                             /\ step'[f] \in Early => step[f] \in Early
                             /\ step'[f] \in Reaching => step[f] \in Reaching
      BY <1>0, <2>1 DEF Tied, Early, Reaching
    <2> DEFINE p == ProcOf[e]  u == UnderlyingOf[e]  h == (claims[p][u].holders \cup {Trade(e)}) \ {Pipeline(e)}
    <2>3. \/ claims' = claims /\ releasing' = releasing
          \/ Claimed(p, u) /\ Rehold(p, u, h) /\ releasing' = releasing
          \/ ~(exposure[e] = "open" /\ Claimed(p, u)) /\ exposure[e] # "residual" /\ DropHolder(p, u, Pipeline(e))
      BY <1>11, Zenon DEF SettleHold, Rehold
    <2>4. CASE claims' = claims /\ releasing' = releasing BY <2>1, <2>2, <2>4, ClaimsUntouched
    <2>5. CASE Claimed(p, u) /\ Rehold(p, u, h) /\ releasing' = releasing
      <3>0. Trade(e) # Pipeline(e) BY DEF Pipeline, Trade
      <3>1. {Pipeline(e), Trade(e)} \cap h # {} BY <3>0
      <3>2. \A f \in Entries \ {e} : {Pipeline(f), Trade(f)} \cap claims[p][u].holders \subseteq h
        BY DEF Pipeline, Trade
      <3> HIDE DEF h
      <3> QED BY <1>0, <2>1, <2>2, <2>5, <3>1, <3>2, ClaimJoined
    <2>6. CASE /\ ~(exposure[e] = "open" /\ Claimed(p, u)) /\ exposure[e] # "residual"
               /\ DropHolder(p, u, Pipeline(e))
      <3>1. Dropped(p, u, Pipeline(e), {}) BY <1>0, <2>6, DropGivesDropped
      <3>2. CASE ~Claimed(p, u)
        <4>1. claims' = claims /\ releasing' = releasing BY <2>6, <3>2 DEF DropHolder
        <4> QED BY <2>4, <4>1
      <3>3. CASE Claimed(p, u)
        <4>1. ~Tied(e)' BY <1>0, <2>1, <2>6, <3>3 DEF StageInv, Tied, Reaching, Exposed
        <4> QED BY <2>1, <2>2, <3>1, <4>1, ClaimDropped
      <3> QED BY <3>2, <3>3
    <2> QED BY <2>3, <2>4, <2>5, <2>6
  (* The joiners. *)
  <1>12. ASSUME NEW e \in Entries, Book(e) PROVE ClaimInv'
    <2>1. UNCHANGED <<exposure, lock, releasing, lapsed>> /\ step[e] = "returned"
          /\ step' = [step EXCEPT ![e] = "done"]
      BY <1>12 DEF Book
    <2>2. \A f \in Entries : /\ Tied(f)' => Tied(f)
                             /\ step'[f] \in Early => step[f] \in Early
                             /\ step'[f] \in Reaching => step[f] \in Reaching
      BY <1>0, <2>1 DEF Tied, Early, Reaching
    <2>3. claims' = claims \/ HolderJoins(e, ResidualHold(e))
      BY <1>12, Zenon DEF Book, JoinClaim, HolderJoins, Rehold
    <2>4. CASE claims' = claims BY <2>1, <2>2, <2>4, ClaimsUntouched
    <2>5. CASE HolderJoins(e, ResidualHold(e)) BY <1>0, <2>1, <2>2, <2>5, JoinKeeps
    <2> QED BY <2>3, <2>4, <2>5
  <1>13. ASSUME NEW e \in Entries, Reclaim(e) PROVE ClaimInv'
    <2> DEFINE p == ProcOf[e]  u == UnderlyingOf[e]
    <2>1. UNCHANGED <<step, exposure, releasing, lapsed>> /\ exposure[e] \in {"open", "residual"}
      BY <1>13 DEF Reclaim
    <2>2. \/ lock' = lock /\ \E h : HolderJoins(e, h)
          \/ /\ ~Claimed(p, u) /\ Free(p, {u})
             /\ \E h \in {Trade(e), ResidualHold(e)} :
                   /\ Take(p, {u}, <<"underlying", h, life[p]>>)
                   /\ SetClaim(p, u, [owner |-> <<"underlying", h, life[p]>>, holders |-> {h}])
      BY <1>13, Zenon DEF Reclaim, JoinClaim, HolderJoins, Rehold, UnderlyingOwner
    <2>3. CASE lock' = lock /\ \E h : HolderJoins(e, h) BY <1>0, <1>f, <2>1, <2>3, JoinKeeps
    <2>4. ASSUME ~Claimed(p, u), Free(p, {u}), NEW h \in {Trade(e), ResidualHold(e)},
                 Take(p, {u}, <<"underlying", h, life[p]>>),
                 SetClaim(p, u, [owner |-> <<"underlying", h, life[p]>>, holders |-> {h}])
          PROVE  ClaimInv'
      <3> DEFINE o == <<"underlying", h, life[p]>>
      <3>0. p \in Procs /\ u \in Underlyings BY EntryHome
      <3>1. \A f : ~OwnedBy(o, f) BY OwnerNames
      <3>2. Take(p, {u}, o) /\ SetClaim(p, u, [owner |-> o, holders |-> {h}]) BY <2>4
      <3> HIDE DEF o
      <3>3. Tied(e) /\ lock[u] = NoOwner BY <2>1, <2>4 DEF Tied, Exposed, Free
      <3>4. u \in lapsed BY <3>3, OwnerNames DEF ClaimInv, TiedOwnsLock
      <3>5. /\ claims'[p][u] = [owner |-> o, holders |-> {h}]
            /\ \A q \in Procs, v \in Underlyings : q # p \/ v # u => claims'[q][v] = claims[q][v]
        <4> HIDE DEF p, u
        <4> QED BY <1>0, <3>0, <3>2, ClaimShape
      <3>6. claims'[p][u].owner = o BY <3>5
      <3>7. \A v \in Underlyings \ lapsed' : lock'[v] = lock[v] BY <2>1, <3>2, <3>4 DEF Take, Keys
      <3>8. \A q \in Procs, v \in Underlyings : v \notin lapsed => claims'[q][v] = claims[q][v]
        BY <3>4, <3>5
      <3>9. \A f \in Entries : TiedHolds(f)'
        BY <2>1, <3>8, EntryHome DEF ClaimInv, TiedHolds, Tied, Claimed, NoClaim, NoOwner, Pipeline, Trade
      <3>10. \A q \in Procs, v \in Underlyings :
                /\ v \notin lapsed' /\ Claimed(q, v)' =>
                      Claimed(q, v) /\ claims'[q][v].owner = claims[q][v].owner
                /\ \A f \in Entries : OwnedBy(claims'[q][v].owner, f) =>
                      claims'[q][v].owner = claims[q][v].owner
        <4>1. ASSUME NEW q \in Procs, NEW v \in Underlyings, v \notin lapsed', Claimed(q, v)'
              PROVE  Claimed(q, v) /\ claims'[q][v].owner = claims[q][v].owner
          BY <2>1, <3>8, <4>1 DEF Claimed, NoClaim, NoOwner
        <4>2. ASSUME NEW q \in Procs, NEW v \in Underlyings, NEW f \in Entries, OwnedBy(claims'[q][v].owner, f)
              PROVE  claims'[q][v].owner = claims[q][v].owner
          BY <3>1, <3>5, <3>6, <4>2
        <4> QED BY <4>1, <4>2
      <3> QED BY <1>f, <2>1, <3>7, <3>9, <3>10, ClaimsFrame
    <2> QED BY <2>2, <2>3, <2>4
  (* The lock of an underlying goes. *)
  <1>14. ASSUME NEW k \in Keys, Lapse(k) PROVE ClaimInv'
    <2>1. UNCHANGED <<step, exposure, claims, releasing>> /\ lapsed \subseteq lapsed'
          /\ ~Renewed(lock[k]) /\ lock' = [lock EXCEPT ![k] = NoOwner]
      BY <1>14 DEF Lapse
    <2>2. k \notin lapsed' => \A e \in Entries : UnderlyingOf[e] = k => exposure[e] \notin Exposed
      BY <1>14 DEF Lapse
    <2>3. \A q \in Procs, v \in Underlyings : claims[q][v].owner # lock[k] BY <2>1 DEF Renewed
    <2>4. \A q \in Procs, v \in Underlyings : Claimed(q, v)' <=> Claimed(q, v)
      BY <2>1 DEF Claimed, NoClaim, NoOwner
    <2>5. ASSUME k \in Underlyings, k \notin lapsed', NEW q \in Procs PROVE ~Claimed(q, k)
      BY <2>1, <2>3, <2>5 DEF ClaimInv, ClaimOwnsLock
    <2>6. ASSUME k \in Underlyings, k \notin lapsed', NEW e \in Entries, UnderlyingOf[e] = k PROVE ~Tied(e)
      <3>1. SUFFICES ASSUME Tied(e) PROVE FALSE OBVIOUS
      <3>2. step[e] \in Reaching BY <2>2, <2>6, <3>1 DEF Tied
      <3>3. Claimed(ProcOf[e], k) BY <2>1, <2>6, <3>1, <3>2 DEF ClaimInv, TiedHolds
      <3> QED BY <2>5, <2>6, <3>3, EntryHome
    <2>7. \A e \in Entries : TiedHolds(e)'
      BY <2>1, <2>4, EntryHome DEF ClaimInv, TiedHolds, Tied, Pipeline, Trade
    <2>8. \A v \in Underlyings \ lapsed' :
             \/ lock'[v] = lock[v]
             \/ /\ \A e \in Entries : UnderlyingOf[e] = v => ~Tied(e)
                /\ \A q \in Procs : ~Claimed(q, v)
      BY <1>0, <2>1, <2>5, <2>6
    <2> QED BY <1>f, <2>1, <2>4, <2>7, <2>8, ClaimsFrame
  <1>15. ASSUME NEW o \in releasing, ReleaseLands(o) PROVE ClaimInv'
    <2>1. UNCHANGED <<step, exposure, claims, lapsed>> /\ releasing' \subseteq releasing
          /\ lock' = [k \in Keys |-> IF lock[k] = o THEN NoOwner ELSE lock[k]]
      BY <1>15 DEF ReleaseLands
    <2>2. \A q \in Procs, v \in Underlyings : Claimed(q, v)' <=> Claimed(q, v)
      BY <2>1 DEF Claimed, NoClaim, NoOwner
    <2>3. \A e \in Entries : TiedHolds(e)'
      BY <2>1, <2>2, EntryHome DEF ClaimInv, TiedHolds, Tied, Pipeline, Trade
    <2>4. \A v \in Underlyings \ lapsed' :
             \/ lock'[v] = lock[v]
             \/ /\ \A e \in Entries : UnderlyingOf[e] = v => ~Tied(e)
                /\ \A q \in Procs : ~Claimed(q, v)
      BY <1>15, <2>1 DEF ClaimInv, TiedOwnsLock, ClaimOwnsLock, Keys
    <2> QED BY <1>f, <2>1, <2>2, <2>3, <2>4, ClaimsFrame
  <1>16. ASSUME NEW e \in Entries, HoldPipeline(e) PROVE ClaimInv'
    BY <1>0, <1>16, HoldKeeps
  <1>17. ASSUME NEW p \in Procs, Crash(p) PROVE ClaimInv'
    <2>1. /\ lock' = lock /\ lapsed' = lapsed /\ releasing' \subseteq releasing
          /\ step' = [e \in Entries |-> IF ProcOf[e] = p /\ step[e] # "idle" THEN "done" ELSE step[e]]
          /\ exposure' = [e \in Entries |->
                IF ProcOf[e] = p /\ exposure[e] \in {"working", "open"} /\ e \notin booked
                THEN "orphan" ELSE exposure[e]]
          /\ claims' = [claims EXCEPT ![p] = [u \in Underlyings |-> NoClaim]]
      BY <1>17 DEF Crash
    <2>2. \A u \in Underlyings : claims'[p][u] = NoClaim /\ claims'[p][u].owner = NoOwner /\ ~Claimed(p, u)'
      <3>1. \A u \in Underlyings : claims'[p][u] = NoClaim BY <1>0, <2>1 DEF CoordinatorShape
      <3> QED BY <3>1 DEF NoClaim, NoOwner, Claimed
    <2>3. \A q \in Procs \ {p}, u \in Underlyings : claims'[q][u] = claims[q][u]
      BY <1>0, <2>1 DEF CoordinatorShape
    <2>4. \A q \in Procs \ {p}, u \in Underlyings : Claimed(q, u)' <=> Claimed(q, u)
      BY <2>3 DEF Claimed, NoClaim, NoOwner
    <2>5. \A e \in Entries : /\ Tied(e)' => Tied(e)
                             /\ step'[e] \in Early => step[e] \in Early
                             /\ step'[e] \in Reaching => step[e] \in Reaching /\ ProcOf[e] # p
      BY <2>1 DEF Tied, Exposed, Early, Reaching
    <2>6. ASSUME NEW e \in Entries PROVE TiedHolds(e)'
      <3>1. CASE ProcOf[e] = p BY <2>2, <2>5, <2>6, <3>1, EntryHome DEF TiedHolds
      <3>2. CASE ProcOf[e] # p
        BY <2>1, <2>3, <2>4, <2>5, <2>6, <3>2, EntryHome DEF ClaimInv, TiedHolds, Pipeline, Trade
      <3> QED BY <3>1, <3>2
    <2>7. \A q \in Procs, u \in Underlyings :
             /\ Claimed(q, u)' => Claimed(q, u) /\ claims'[q][u].owner = claims[q][u].owner
             /\ \A e \in Entries : OwnedBy(claims'[q][u].owner, e) =>
                   claims'[q][u].owner = claims[q][u].owner
      BY <2>2, <2>3, <2>4, OwnerNames
    <2> QED BY <2>1, <2>5, <2>6, <2>7, ClaimsFrame
  <1>18. CASE UNCHANGED coordinatorVars
    <2>1. UNCHANGED <<step, exposure, lock, claims, releasing, lapsed>> BY <1>18 DEF coordinatorVars
    <2> QED BY <1>f, <2>1, ClaimsUntouched
  <1> QED
    BY <1>1, <1>2, <1>3, <1>4, <1>5, <1>6, <1>7, <1>8, <1>9, <1>10, <1>11, <1>12, <1>13, <1>14,
       <1>15, <1>16, <1>17, <1>18
       DEF CoordinatorNext, EntryAction, ExitAction

-----------------------------------------------------------------------------
(* One Box per underlying: in live mode two candidates of one underlying are exposed      *)
(* together only after the claim lapsed, whatever the processes, candidates, contracts,   *)
(* crashes and outages.  Both would own the one durable lock of the underlying, and the   *)
(* owner's name tells them apart.  (A simulated Box has no trade id, and passes no claim  *)
(* on: settleUnderlyingHold releases it.)                                                 *)
THEOREM OneBoxPerUnderlying == Live => (CoordinatorSpec => []SecondBoxNeedsLapse)
  <1> SUFFICES ASSUME Live PROVE CoordinatorSpec => []SecondBoxNeedsLapse
    OBVIOUS
  <1>1. CoordinatorInit => StagesInv /\ ClaimInv BY StagesInit, ClaimsInit
  <1>2. StagesInv /\ ClaimInv /\ [CoordinatorNext]_coordinatorVars => (StagesInv /\ ClaimInv)'
    BY StagesStep, ClaimsStep
  <1>3. ClaimInv => SecondBoxNeedsLapse
    BY OwnerNames DEF ClaimInv, TiedOwnsLock, Tied, SecondBoxNeedsLapse
  <1> QED BY <1>1, <1>2, <1>3, PTL DEF CoordinatorSpec

-----------------------------------------------------------------------------
(* The budget of a session (tradingSession.ts, tradingSessionStore.ts). *)

SessionRecords == [armed : BOOLEAN, established : SUBSET Boxes, completed : SUBSET Boxes,
                   attempts : Nat, aborted : Nat, arms : Nat]
Changes == {<<"arm">>, <<"disarm">>, <<"established">>, <<"aborted">>, <<"completed">>, <<"retry">>}
             \cup {<<"attempt", b>> : b \in Boxes}
Saves == [rec : SessionRecords, previous : SessionRecords, what : Changes, rollback : BOOLEAN]
BoxStages == {"idle", "counting", "refused", "trading", "aborted", "open", "flat"}

SessionShape ==
    /\ record \in SessionRecords /\ stored \in SessionRecords /\ saves \subseteq Saves
    /\ boxes \in [Boxes -> BoxStages]
    /\ lifeOpened \subseteq Boxes /\ IsFiniteSet(started)
    /\ writeFailed \in BOOLEAN /\ (~loaded => saves = {} /\ lifeOpened = {} /\ ~writeFailed)

(* Boxes this process opened and has not closed; attempts that record r accounts for. *)
Standing == {b \in lifeOpened : boxes[b] # "flat"}
Accounts(r) == Cardinality(started) <= r.attempts
WithinLimit(n) == MaxEntryAttempts > 0 => n <= MaxEntryAttempts

(* A save in flight writes the record as it is.  Its undo would hand nothing back, and an *)
(* attempt it counts has not started.                                                     *)
SaveIsSafe(s) ==
    /\ s.rec = record /\ Accounts(s.previous)
    /\ s.rollback => Standing \subseteq s.previous.established
    /\ s.what[1] = "attempt" => /\ boxes[s.what[2]] = "counting"
                                /\ Cardinality(started) + 1 <= s.rec.attempts
                                /\ WithinLimit(s.rec.attempts)

(* While no two saves were in flight together: what was read, what is stored and what an  *)
(* undo would restore all account for what was spent.                                     *)
BudgetInv ==
    /\ \A s, t \in saves : s = t
    /\ \A s \in saves : SaveIsSafe(s)
    /\ \A b \in lifeOpened : boxes[b] \in {"open", "flat"}
    /\ Accounts(stored) /\ WithinLimit(Cardinality(started))
    /\ loaded => Accounts(record) /\ Standing \subseteq record.established

(* The inductive invariant of the session. *)
SessionInv == SessionShape /\ (~overlapped => BudgetInv)

(* The pure updates of the record keep its shape; only an arm forgets what was spent, and *)
(* only a start counts an attempt.                                                        *)
LEMMA RecordUpdates ==
    ASSUME NEW r \in SessionRecords, NEW flat
    PROVE  /\ ArmSession(r) \in SessionRecords
           /\ \A n \in {DisarmSession(r), RecordAbortedAttempt(r), ReconcileCompletions(r, flat)} :
                 n \in SessionRecords /\ n.attempts = r.attempts /\ n.established = r.established
           /\ RecordEntryAttemptStarted(r) \in SessionRecords
           /\ RecordEntryAttemptStarted(r).attempts = r.attempts + 1
           /\ RecordEntryAttemptStarted(r).established = r.established
  <1>0. /\ r.attempts + 1 \in Nat /\ r.aborted + 1 \in Nat /\ r.arms + 1 \in Nat
        /\ r.attempts \in Nat /\ r.established \subseteq Boxes /\ r.completed \subseteq Boxes
        /\ IdleSessionRecord \in SessionRecords
    BY DEF SessionRecords, IdleSessionRecord
  <1>1. ArmSession(r) \in SessionRecords BY <1>0 DEF ArmSession, SessionRecords
  <1>2. /\ DisarmSession(r) \in SessionRecords
        /\ DisarmSession(r).attempts = r.attempts /\ DisarmSession(r).established = r.established
    BY <1>0 DEF DisarmSession, SessionRecords
  <1>3. /\ RecordAbortedAttempt(r) \in SessionRecords
        /\ RecordAbortedAttempt(r).attempts = r.attempts
        /\ RecordAbortedAttempt(r).established = r.established
    BY <1>0 DEF RecordAbortedAttempt, SessionRecords
  <1>4. /\ RecordEntryAttemptStarted(r) \in SessionRecords
        /\ RecordEntryAttemptStarted(r).attempts = r.attempts + 1
        /\ RecordEntryAttemptStarted(r).established = r.established
    BY <1>0 DEF RecordEntryAttemptStarted, SessionRecords
  <1>5. /\ ReconcileCompletions(r, flat) \in SessionRecords
        /\ ReconcileCompletions(r, flat).attempts = r.attempts
        /\ ReconcileCompletions(r, flat).established = r.established
    BY <1>0 DEF ReconcileCompletions, SessionRecords
  <1> QED BY <1>1, <1>2, <1>3, <1>4, <1>5

(* A Box that opened is added to the record, one that closed stays in it. *)
LEMMA BoxUpdates ==
    ASSUME NEW r \in SessionRecords, NEW b \in Boxes
    PROVE  /\ RecordEstablishedBox(r, b) \in SessionRecords
           /\ RecordEstablishedBox(r, b).attempts = r.attempts
           /\ RecordEstablishedBox(r, b).established = r.established \cup {b}
           /\ RecordCompletedBox(r, b) \in SessionRecords
           /\ RecordCompletedBox(r, b).attempts = r.attempts
           /\ RecordCompletedBox(r, b).established = r.established
  <1>0. r.established \subseteq Boxes /\ r.completed \subseteq Boxes BY DEF SessionRecords
  <1>1. /\ RecordEstablishedBox(r, b) \in SessionRecords
        /\ RecordEstablishedBox(r, b).attempts = r.attempts
        /\ RecordEstablishedBox(r, b).established = r.established \cup {b}
    BY <1>0 DEF RecordEstablishedBox, SessionRecords
  <1>2. /\ RecordCompletedBox(r, b) \in SessionRecords
        /\ RecordCompletedBox(r, b).attempts = r.attempts
        /\ RecordCompletedBox(r, b).established = r.established
    BY <1>0 DEF RecordCompletedBox, SessionRecords
  <1> QED BY <1>1, <1>2

(* commit: a record that accounts for what was spent, saved while no save is in flight. *)
LEMMA CommitKeeps ==
    ASSUME SessionInv, loaded, loaded' = loaded, stored' = stored,
           NEW next \in SessionRecords, NEW what \in Changes, NEW rollback \in BOOLEAN,
           Commit(next, what, rollback),
           boxes' \in [Boxes -> BoxStages], lifeOpened' \subseteq Boxes, started' \in {started, {}},
           writeFailed' = writeFailed,
           ~overlapped =>
             /\ Cardinality(started') <= next.attempts
             /\ Standing' \subseteq next.established
             /\ rollback => Standing' \subseteq record.established
             /\ \A b \in lifeOpened' : boxes'[b] \in {"open", "flat"}
             /\ what[1] = "attempt" => /\ boxes'[what[2]] = "counting"
                                       /\ Cardinality(started') + 1 <= next.attempts
                                       /\ WithinLimit(next.attempts)
    PROVE  SessionInv'
  <1>0. PICK sv : sv = [rec |-> next, previous |-> record, what |-> what, rollback |-> rollback]
    OBVIOUS
  <1>1. record' = next /\ saves' = saves \cup {sv} BY <1>0 DEF Commit
  <1>2. ~overlapped' => ~overlapped /\ saves = {} BY Zenon DEF Commit
  <1>3. sv \in Saves /\ sv.rec = next /\ sv.previous = record /\ sv.what = what /\ sv.rollback = rollback
    BY <1>0 DEF Saves, SessionInv, SessionShape
  <1>4. IsFiniteSet(started') /\ Cardinality(started') <= Cardinality(started)
        /\ Cardinality(started') \in Nat /\ Cardinality(started) \in Nat
    <2>1. IsFiniteSet(started) /\ Cardinality(started) \in Nat
      BY FS_CardinalityType DEF SessionInv, SessionShape
    <2>2. CASE started' = started BY <2>1, <2>2
    <2>3. CASE started' = {}
      <3>1. IsFiniteSet({}) /\ Cardinality({}) = 0 BY FS_EmptySet
      <3> QED BY <2>1, <2>3, <3>1
    <2> QED BY <2>2, <2>3
  <1>5. SessionShape' BY <1>1, <1>3, <1>4 DEF SessionInv, SessionShape
  <1>6. ASSUME ~overlapped' PROVE BudgetInv'
    <2>1. ~overlapped /\ saves' = {sv} /\ BudgetInv BY <1>1, <1>2, <1>6 DEF SessionInv
    <2>2. /\ record.attempts \in Nat /\ stored.attempts \in Nat /\ next.attempts \in Nat
      BY DEF SessionInv, SessionShape, SessionRecords
    <2>3. Cardinality(started') <= record.attempts /\ Cardinality(started') <= stored.attempts
      BY <1>4, <2>1, <2>2 DEF BudgetInv, Accounts
    <2>4. WithinLimit(Cardinality(started'))
      BY <1>4, <2>1, SessionAssumption DEF BudgetInv, WithinLimit
    <2>5. SaveIsSafe(sv)' BY <1>1, <1>3, <2>1, <2>3 DEF SaveIsSafe, Accounts
    <2> QED BY <1>1, <2>1, <2>3, <2>4, <2>5 DEF BudgetInv, Accounts
  <1> QED BY <1>5, <1>6 DEF SessionInv

(* A step outside the record: no attempt starts, and no Box this process opened is left out. *)
LEMMA BudgetFrame ==
    ASSUME SessionInv,
           UNCHANGED <<record, stored, loaded, writeFailed, saves, lifeOpened, started, overlapped>>,
           boxes' \in [Boxes -> BoxStages],
           \A b \in Boxes : /\ boxes[b] \in {"open", "flat"} => boxes'[b] \in {"open", "flat"}
                            /\ boxes[b] = "flat" => boxes'[b] = "flat"
                            /\ boxes[b] = "counting" => boxes'[b] = "counting"
    PROVE  SessionInv'
  <1>1. SessionShape' BY DEF SessionInv, SessionShape
  <1>2. ASSUME ~overlapped' PROVE BudgetInv'
    <2>1. BudgetInv /\ SessionShape BY <1>2 DEF SessionInv
    <2>2. Standing' \subseteq Standing BY <2>1 DEF Standing, SessionShape
    <2>3. ASSUME NEW s \in saves PROVE SaveIsSafe(s)'
      <3>1. SaveIsSafe(s) BY <2>1, <2>3 DEF BudgetInv
      <3>2. s.what[1] = "attempt" => s.what[2] \in Boxes
        <4>1. s.what \in Changes BY <2>1, <2>3 DEF SessionShape, Saves
        <4> QED BY <4>1 DEF Changes
      <3> QED BY <2>2, <3>1, <3>2 DEF SaveIsSafe, Accounts
    <2> QED BY <2>1, <2>2, <2>3 DEF BudgetInv, Accounts, SessionShape
  <1> QED BY <1>1, <1>2 DEF SessionInv

(* A session starts with nothing spent. *)
LEMMA SessionStarts == SessionInit => SessionInv
  <1> SUFFICES ASSUME SessionInit PROVE SessionInv
    OBVIOUS
  <1>1. IsFiniteSet({}) /\ Cardinality({}) = 0 BY FS_EmptySet
  <1>2. IdleSessionRecord \in SessionRecords /\ IdleSessionRecord.attempts = 0
    BY DEF IdleSessionRecord, SessionRecords
  <1>3. SessionShape BY <1>1, <1>2 DEF SessionInit, SessionShape, BoxStages
  <1>4. BudgetInv
    BY <1>1, <1>2, SessionAssumption DEF SessionInit, BudgetInv, Accounts, WithinLimit
  <1> QED BY <1>3, <1>4 DEF SessionInv

(* The save lands, fails or is lost, and the row is read again: what it leaves in memory  *)
(* and in the row accounts for every attempt that started.                                *)
LEMMA SavesKeepBudget ==
    ASSUME SessionInv, (\E s \in saves : SaveLands(s) \/ SaveFails(s)) \/ SessionCrash \/ Initialise
    PROVE  SessionInv'
  <1>0. SessionShape /\ IsFiniteSet(started) /\ Cardinality(started) \in Nat
    BY FS_CardinalityType DEF SessionInv, SessionShape
  <1>n. \A r \in SessionRecords : r.attempts \in Nat BY DEF SessionRecords
  <1>1. ASSUME NEW s \in saves PROVE /\ s.rec \in SessionRecords /\ s.previous \in SessionRecords
                                     /\ s.what[1] = "attempt" => s.what[2] \in Boxes
    <2>1. s \in Saves BY <1>0, <1>1 DEF SessionShape
    <2>2. s.rec \in SessionRecords /\ s.previous \in SessionRecords /\ s.what \in Changes BY <2>1 DEF Saves
    <2> QED BY <2>2 DEF Changes
  <1>2. ASSUME NEW s \in saves, SaveLands(s) PROVE SessionInv'
    <2>1. /\ UNCHANGED <<record, loaded, lifeOpened, overlapped>> /\ stored' = s.rec /\ saves' = saves \ {s}
          /\ writeFailed' = FALSE
      BY <1>2 DEF SaveLands
    <2>2. \/ s.what[1] # "attempt" /\ boxes' = boxes /\ started' = started
          \/ /\ s.what[1] = "attempt" /\ boxes' = [boxes EXCEPT ![s.what[2]] = "trading"]
             /\ started' = started \cup {s.what[2]}
      BY <1>2 DEF SaveLands
    <2>3. IsFiniteSet(started') /\ Cardinality(started') \in Nat /\ Cardinality(started') <= Cardinality(started) + 1
      BY <1>0, <2>2, FS_AddElement, FS_CardinalityType
    <2>4. SessionShape' BY <1>0, <1>1, <1>2, <2>1, <2>2, <2>3 DEF SessionShape, BoxStages
    <2>5. ASSUME ~overlapped' PROVE BudgetInv'
      <3>1. BudgetInv /\ saves' = {} /\ SaveIsSafe(s) /\ loaded /\ s.rec = record
        BY <1>0, <1>2, <2>1, <2>5 DEF SessionInv, SessionShape, BudgetInv, SaveIsSafe
      <3>2. Cardinality(started') <= record.attempts /\ WithinLimit(Cardinality(started'))
        <4>1. record.attempts \in Nat BY <1>0, <1>n DEF SessionShape
        <4> QED BY <1>0, <2>2, <2>3, <3>1, <4>1, SessionAssumption
                DEF BudgetInv, SaveIsSafe, Accounts, WithinLimit
      <3>3. \A b \in lifeOpened : boxes'[b] = boxes[b]
        BY <1>0, <2>2, <3>1 DEF BudgetInv, SaveIsSafe, SessionShape
      <3> QED BY <2>1, <3>1, <3>2, <3>3 DEF BudgetInv, Accounts, Standing
    <2> QED BY <2>4, <2>5 DEF SessionInv
  <1>3. ASSUME NEW s \in saves, SaveFails(s) PROVE SessionInv'
    <2>1. /\ UNCHANGED <<stored, loaded, lifeOpened, started, overlapped>> /\ saves' = saves \ {s}
          /\ boxes' = IF s.what[1] = "attempt" THEN [boxes EXCEPT ![s.what[2]] = "refused"] ELSE boxes
      BY <1>3 DEF SaveFails
    <2>2. /\ (s.rollback /\ record' = s.previous) \/ record' = record
          /\ writeFailed' \in {writeFailed, TRUE} /\ loaded
      BY <1>0, <1>3 DEF SaveFails, SessionShape
    <2>3. SessionShape' BY <1>0, <1>1, <1>3, <2>1, <2>2 DEF SessionShape, BoxStages
    <2>4. ASSUME ~overlapped' PROVE BudgetInv'
      <3>1. BudgetInv /\ saves' = {} /\ SaveIsSafe(s) /\ loaded
        BY <1>3, <2>1, <2>2, <2>4 DEF SessionInv, BudgetInv
      <3>2. \A b \in lifeOpened : boxes'[b] = boxes[b]
        BY <1>0, <2>1, <3>1 DEF BudgetInv, SaveIsSafe, SessionShape
      <3>3. Standing' = Standing BY <2>1, <3>2 DEF Standing
      <3> QED BY <2>1, <2>2, <3>1, <3>2, <3>3 DEF BudgetInv, SaveIsSafe, Accounts
    <2> QED BY <2>3, <2>4 DEF SessionInv
  <1>4. ASSUME SessionCrash PROVE SessionInv'
    <2>1. /\ stored' \in {stored} \cup {s.rec : s \in saves} /\ record' = IdleSessionRecord
          /\ ~loaded' /\ saves' = {} /\ lifeOpened' = {} /\ ~writeFailed' /\ writeFailed' \in BOOLEAN
          /\ UNCHANGED <<started, overlapped>>
          /\ boxes' = [b \in Boxes |-> IF boxes[b] \in {"counting", "trading"} THEN "aborted" ELSE boxes[b]]
      BY <1>4 DEF SessionCrash
    <2>2. IdleSessionRecord \in SessionRecords BY DEF IdleSessionRecord, SessionRecords
    <2>3. SessionShape' BY <1>0, <1>1, <2>1, <2>2 DEF SessionShape, BoxStages
    <2>4. ASSUME ~overlapped' PROVE BudgetInv'
      <3>1. BudgetInv BY <2>1, <2>4 DEF SessionInv
      <3>2. Accounts(stored)'
        <4>1. CASE stored' = stored BY <2>1, <3>1, <4>1 DEF BudgetInv, Accounts
        <4>2. ASSUME NEW s \in saves, stored' = s.rec PROVE Accounts(stored)'
          <5>1. loaded /\ s.rec = record BY <1>0, <3>1, <4>2 DEF SessionShape, BudgetInv, SaveIsSafe
          <5> QED BY <2>1, <3>1, <4>2, <5>1 DEF BudgetInv, Accounts
        <4> QED BY <2>1, <4>1, <4>2
      <3> QED BY <2>1, <3>1, <3>2 DEF BudgetInv
    <2> QED BY <2>3, <2>4 DEF SessionInv
  <1>5. ASSUME Initialise PROVE SessionInv'
    <2> DEFINE flat == {b \in InFlightCycles(stored) : boxes[b] = "flat"}
               next == ReconcileCompletions(stored, flat)
    <2>1. ~loaded /\ loaded' /\ UNCHANGED <<stored, writeFailed, boxes, lifeOpened, started>>
      BY <1>5, Zenon DEF Initialise
    <2>2. PICK sv : sv = [rec |-> next, previous |-> stored, what |-> <<"completed">>, rollback |-> TRUE]
      OBVIOUS
    <2>3. \/ record' = stored /\ saves' = saves /\ overlapped' = overlapped
          \/ record' = next /\ saves' = {sv} /\ overlapped' = (overlapped \/ saves # {})
      BY <1>5, <2>2, Zenon DEF Initialise
    <2>4. next \in SessionRecords /\ next.attempts = stored.attempts
      BY <1>0, RecordUpdates DEF SessionShape
    <2> HIDE DEF next
    <2>5. sv \in Saves /\ sv.rec = next /\ sv.previous = stored /\ sv.what[1] # "attempt"
      BY <1>0, <2>2, <2>4 DEF Saves, SessionShape, Changes
    <2>6. SessionShape' BY <1>0, <2>1, <2>3, <2>4, <2>5 DEF SessionShape
    <2>7. ASSUME ~overlapped' PROVE BudgetInv'
      <3>1. ~overlapped BY <2>3, <2>7, Zenon
      <3>2. BudgetInv /\ saves = {} /\ lifeOpened = {} BY <1>0, <2>1, <3>1 DEF SessionInv, SessionShape
      <3>3. Standing' = {} BY <2>1, <3>2 DEF Standing
      <3>4. CASE record' = stored /\ saves' = saves
        BY <2>1, <3>2, <3>3, <3>4 DEF BudgetInv, Accounts
      <3>5. CASE record' = next /\ saves' = {sv}
        <4>1. SaveIsSafe(sv)' BY <2>1, <2>4, <2>5, <3>2, <3>3, <3>5 DEF SaveIsSafe, Accounts, BudgetInv
        <4> QED BY <2>1, <2>4, <3>2, <3>3, <3>5, <4>1 DEF BudgetInv, Accounts
      <3> QED BY <2>3, <3>4, <3>5
    <2> QED BY <2>6, <2>7 DEF SessionInv
  <1> QED BY <1>2, <1>3, <1>4, <1>5

(* Every step of the session keeps its books. *)
LEMMA SessionStep == SessionInv /\ [SessionNext]_sessionVars => SessionInv'
  <1> SUFFICES ASSUME SessionInv, [SessionNext]_sessionVars PROVE SessionInv'
    OBVIOUS
  <1>0. /\ SessionShape /\ record \in SessionRecords /\ record.attempts \in Nat
        /\ boxes \in [Boxes -> BoxStages] /\ lifeOpened \subseteq Boxes
        /\ Cardinality(started) \in Nat
    BY FS_CardinalityType DEF SessionInv, SessionShape, SessionRecords
  <1>c. {<<"arm">>, <<"disarm">>, <<"established">>, <<"aborted">>, <<"completed">>, <<"retry">>} \subseteq Changes
        /\ \A b \in Boxes : <<"attempt", b>> \in Changes
    BY DEF Changes
  <1>b. ASSUME ~overlapped, loaded
        PROVE  /\ Accounts(record) /\ Standing \subseteq record.established
               /\ \A b \in lifeOpened : boxes[b] \in {"open", "flat"}
               /\ Cardinality(started) <= record.attempts
    BY <1>b DEF SessionInv, BudgetInv, Accounts
  <1>1. ASSUME Arm PROVE SessionInv'
    <2> DEFINE next == ArmSession(record)
    <2>1. /\ loaded /\ OpenBoxes = {} /\ Commit(next, <<"arm">>, TRUE) /\ started' = {}
          /\ UNCHANGED <<stored, loaded, writeFailed, boxes, lifeOpened>>
      BY <1>1 DEF Arm, CanArm
    <2>2. next \in SessionRecords /\ next.attempts \in Nat
      <3>1. next \in SessionRecords BY <1>0, RecordUpdates, Zenon
      <3> QED BY <3>1 DEF SessionRecords
    <2> HIDE DEF next
    <2>3. ~overlapped => Standing' = {} BY <1>b, <1>0, <2>1 DEF OpenBoxes, Standing
    <2>4. Cardinality(started') = 0 BY <2>1, FS_EmptySet
    <2>5. PICK what \in Changes : what = <<"arm">> /\ what[1] # "attempt" BY <1>c
    <2>6. Commit(next, what, TRUE) BY <2>1, <2>5
    <2>7. ~overlapped =>
             /\ Cardinality(started') <= next.attempts
             /\ Standing' \subseteq next.established /\ Standing' \subseteq record.established
             /\ \A b \in lifeOpened' : boxes'[b] \in {"open", "flat"}
      BY <1>b, <2>1, <2>2, <2>3, <2>4
    <2> QED BY <1>0, <2>1, <2>2, <2>5, <2>6, <2>7, CommitKeeps
  <1>2. ASSUME Disarm \/ RetryPendingWrite PROVE SessionInv'
    <2>1. PICK next \in {DisarmSession(record), record}, what \in {<<"disarm">>, <<"retry">>}, rb \in BOOLEAN :
             Commit(next, what, rb)
      BY <1>2 DEF Disarm, RetryPendingWrite
    <2>2. loaded /\ UNCHANGED <<stored, loaded, writeFailed, boxes, lifeOpened, started>>
      BY <1>0, <1>2 DEF Disarm, RetryPendingWrite, SessionShape
    <2>3. next \in SessionRecords /\ next.attempts = record.attempts /\ next.established = record.established
      BY <1>0, <2>1, RecordUpdates
    <2>4. what \in Changes /\ what[1] # "attempt" BY <1>c, <2>1
    <2>5. Standing' = Standing BY <2>2 DEF Standing
    <2>6. ~overlapped =>
             /\ Cardinality(started') <= next.attempts
             /\ Standing' \subseteq next.established /\ Standing' \subseteq record.established
             /\ \A b \in lifeOpened' : boxes'[b] \in {"open", "flat"}
      BY <1>b, <2>2, <2>3, <2>5
    <2> QED BY <1>0, <2>1, <2>2, <2>3, <2>4, <2>6, CommitKeeps
  <1>3. ASSUME NEW b \in Boxes, StartAttempt(b) PROVE SessionInv'
    <2> DEFINE next == RecordEntryAttemptStarted(record)
    <2>1. /\ boxes[b] = "idle" /\ loaded /\ ~IsAttemptBudgetExhausted(record)
          /\ boxes' = [boxes EXCEPT ![b] = "counting"] /\ Commit(next, <<"attempt", b>>, TRUE)
          /\ UNCHANGED <<stored, loaded, writeFailed, lifeOpened, started>>
      BY <1>3 DEF StartAttempt, EvaluateSessionEntry
    <2>2. next \in SessionRecords /\ next.attempts = record.attempts + 1
          /\ next.established = record.established
      BY <1>0, RecordUpdates
    <2> HIDE DEF next
    <2>3. PICK what \in Changes : what = <<"attempt", b>> /\ what[1] = "attempt" /\ what[2] = b BY <1>c
    <2>4. Commit(next, what, TRUE) BY <2>1, <2>3
    <2>5. boxes' \in [Boxes -> BoxStages] /\ boxes'[b] = "counting" BY <1>0, <2>1 DEF BoxStages
    <2>6. WithinLimit(next.attempts)
      BY <1>0, <2>1, <2>2, SessionAssumption DEF WithinLimit, IsAttemptBudgetExhausted
    <2>7. ASSUME ~overlapped
          PROVE  /\ Cardinality(started') + 1 <= next.attempts /\ Cardinality(started') <= next.attempts
                 /\ Standing' \subseteq next.established /\ Standing' \subseteq record.established
                 /\ \A x \in lifeOpened' : boxes'[x] \in {"open", "flat"}
      <3>1. \A x \in lifeOpened : x # b /\ boxes'[x] = boxes[x] BY <1>0, <1>b, <2>1, <2>7
      <3>2. Standing' = Standing BY <2>1, <3>1 DEF Standing
      <3> QED BY <1>0, <1>b, <2>1, <2>2, <2>7, <3>1, <3>2
    <2> QED BY <1>0, <2>1, <2>2, <2>3, <2>4, <2>5, <2>6, <2>7, CommitKeeps
  <1>4. ASSUME NEW b \in Boxes, BoxOpens(b) PROVE SessionInv'
    <2>1. boxes[b] = "trading" /\ boxes' = [boxes EXCEPT ![b] = "open"]
          /\ UNCHANGED <<stored, loaded, writeFailed, started>>
      BY <1>4 DEF BoxOpens
    <2>2. boxes' \in [Boxes -> BoxStages] BY <1>0, <2>1 DEF BoxStages
    <2>3. CASE UNCHANGED <<record, saves, overlapped, lifeOpened>>
      BY <1>0, <2>1, <2>2, <2>3, BudgetFrame
    <2>4. CASE loaded /\ Commit(RecordEstablishedBox(record, b), <<"established">>, FALSE)
               /\ lifeOpened' = lifeOpened \cup {b}
      <3> DEFINE next == RecordEstablishedBox(record, b)
      <3>1. next \in SessionRecords /\ next.attempts = record.attempts
            /\ next.established = record.established \cup {b}
        BY <1>0, BoxUpdates
      <3>2. Commit(next, <<"established">>, FALSE) BY <2>4
      <3> HIDE DEF next
      <3>3. PICK what \in Changes : what = <<"established">> /\ what[1] # "attempt" BY <1>c
      <3>4. Commit(next, what, FALSE) BY <3>2, <3>3
      <3>5. ASSUME ~overlapped
            PROVE  /\ Cardinality(started') <= next.attempts /\ Standing' \subseteq next.established
                   /\ \A x \in lifeOpened' : boxes'[x] \in {"open", "flat"}
        <4>1. Standing' \subseteq Standing \cup {b} BY <1>0, <2>1, <2>4 DEF Standing
        <4> QED BY <1>0, <1>b, <2>1, <2>4, <3>1, <3>5, <4>1
      <3> QED BY <1>0, <2>1, <2>2, <2>4, <3>1, <3>3, <3>4, <3>5, CommitKeeps
    <2> QED BY <1>4, <2>3, <2>4 DEF BoxOpens
  <1>5. ASSUME NEW b \in Boxes, AttemptAborts(b) \/ BoxCloses(b) PROVE SessionInv'
    <2>1. /\ \/ boxes[b] = "trading" /\ boxes' = [boxes EXCEPT ![b] = "aborted"]
             \/ boxes[b] = "open" /\ boxes' = [boxes EXCEPT ![b] = "flat"]
          /\ UNCHANGED <<stored, loaded, writeFailed, lifeOpened, started>>
      BY <1>5 DEF AttemptAborts, BoxCloses
    <2>2. boxes' \in [Boxes -> BoxStages] BY <1>0, <2>1 DEF BoxStages
    <2>3. CASE UNCHANGED <<record, saves, overlapped>>
      <3>1. \A x \in Boxes : /\ boxes[x] \in {"open", "flat"} => boxes'[x] \in {"open", "flat"}
                             /\ boxes[x] = "flat" => boxes'[x] = "flat"
                             /\ boxes[x] = "counting" => boxes'[x] = "counting"
        BY <1>0, <2>1
      <3> QED BY <2>1, <2>2, <2>3, <3>1, BudgetFrame
    <2>4. ASSUME loaded, NEW next \in {RecordAbortedAttempt(record), RecordCompletedBox(record, b)},
                 NEW what \in {<<"aborted">>, <<"completed">>}, Commit(next, what, TRUE)
          PROVE  SessionInv'
      <3>1. next \in SessionRecords /\ next.attempts = record.attempts
            /\ next.established = record.established
        <4>1. CASE next = RecordAbortedAttempt(record) BY <1>0, <4>1, RecordUpdates
        <4>2. CASE next = RecordCompletedBox(record, b) BY <1>0, <4>2, BoxUpdates
        <4> QED BY <4>1, <4>2
      <3>2. what \in Changes /\ what[1] # "attempt" BY <1>c
      <3>3. ASSUME ~overlapped
            PROVE  /\ Cardinality(started') <= next.attempts
                   /\ Standing' \subseteq next.established /\ Standing' \subseteq record.established
                   /\ \A x \in lifeOpened' : boxes'[x] \in {"open", "flat"}
        <4>1. \A x \in lifeOpened : boxes'[x] \in {"open", "flat"} /\ (boxes[x] = "flat" => boxes'[x] = "flat")
          BY <1>0, <1>b, <2>1, <2>4, <3>3
        <4>2. Standing' \subseteq Standing BY <2>1, <4>1 DEF Standing
        <4> QED BY <1>0, <1>b, <2>1, <2>4, <3>1, <3>3, <4>1, <4>2
      <3> QED BY <1>0, <2>1, <2>2, <2>4, <3>1, <3>2, <3>3, CommitKeeps
    <2>5. \/ UNCHANGED <<record, saves, overlapped>>
          \/ /\ loaded
             /\ \/ Commit(RecordAbortedAttempt(record), <<"aborted">>, TRUE)
                \/ Commit(RecordCompletedBox(record, b), <<"completed">>, TRUE)
      BY <1>5 DEF AttemptAborts, BoxCloses
    <2> QED BY <2>3, <2>4, <2>5
  <1>6. CASE UNCHANGED sessionVars
    BY <1>0, <1>6, BudgetFrame DEF sessionVars
  <1> QED BY <1>1, <1>2, <1>3, <1>4, <1>5, <1>6, SavesKeepBudget DEF SessionNext

(* Budget that was spent is not handed back: for any Boxes, limits (0 being none), faults *)
(* and restarts, as long as no two saves were in flight together.                         *)
THEOREM SpentBudgetStaysSpent == SessionSpec => []NothingHandedBack
  <1>1. SessionInv => NothingHandedBack
    BY DEF SessionInv, BudgetInv, NothingHandedBack, Accounts, WithinLimit, Standing
  <1> QED BY <1>1, SessionStarts, SessionStep, PTL DEF SessionSpec

-----------------------------------------------------------------------------
(* The reservations of strike pairs and the index of tokens (scanner.ts, positions.ts). *)

ReclaimJob(k) == [job |-> "reclaim", key |-> k]
ReleasedJob(k) == [job |-> "released", key |-> k]

(* The queue holds nothing, or the two jobs of one retained fill, or the second of them; the *)
(* fill they belong to is retained.                                                          *)
QueueIsOneFills ==
    \/ micro = <<>>
    \/ \E k \in StrikePairs : retained[k] > 0 /\ micro \in {<<ReclaimJob(k), ReleasedJob(k)>>, <<ReleasedJob(k)>>}

(* The inductive invariant of the scanner's bookkeeping. *)
ScannerInv ==
    /\ retained \in [StrikePairs -> Nat] /\ candidates \subseteq StrikePairs
    /\ QueueIsOneFills
    /\ ReservationHasHolder
    /\ IndexIsExact

(* What leaves the candidates alone leaves the index alone. *)
LEMMA IndexFrame == ASSUME IndexIsExact, UNCHANGED <<candidates, tokenIndex>> PROVE IndexIsExact'
BY DEF IndexIsExact

(* A step that keeps the fills and the entries, and reserves nothing, keeps the invariant. *)
LEMMA ScannerFrame ==
    ASSUME ScannerInv, UNCHANGED <<candidates, tokenIndex, retained, micro>>,
           keyReserved' \subseteq keyReserved,
           \A k \in keyReserved' : k \in entryInFlight => k \in entryInFlight'
    PROVE  ScannerInv'
<1>1. IndexIsExact'  BY IndexFrame DEF ScannerInv
<1>2. ReservationHasHolder'  BY DEF ScannerInv, ReservationHasHolder
<1>3. QueueIsOneFills'  BY DEF ScannerInv, QueueIsOneFills
<1>. QED  BY <1>1, <1>2, <1>3 DEF ScannerInv

(* The scanner starts with no candidate, no reservation and an empty queue. *)
LEMMA ScannerStarts == ScannerInit => ScannerInv
BY DEF ScannerInit, ScannerInv, QueueIsOneFills, ReservationHasHolder, IndexIsExact

(* The invariant is inductive: one step per action of the scanner and the engine's store. *)
LEMMA ScannerKept == ScannerInv /\ [ScannerNext]_scanVars => ScannerInv'
<1>. SUFFICES ASSUME ScannerInv, [ScannerNext]_scanVars PROVE ScannerInv'  OBVIOUS
<1>0. /\ retained \in [StrikePairs -> Nat] /\ candidates \subseteq StrikePairs /\ QueueIsOneFills
      /\ ReservationHasHolder /\ IndexIsExact
  BY DEF ScannerInv
<1>1. ASSUME NEW next \in SUBSET StrikePairs, setCandidatesForUnderlying(next) PROVE ScannerInv'
  <2>1. /\ candidates' = next /\ UNCHANGED <<retained, keyReserved, entryInFlight, micro>>
        /\ tokenIndex' = [t \in Tokens |-> (tokenIndex[t] \ {k \in candidates : t \in legsOf[k]})
                                              \cup {k \in next : t \in legsOf[k]}]
    BY <1>1 DEF setCandidatesForUnderlying, bookVars, entryVars, fillVars
  <2>2. IndexIsExact'  BY <1>0, <2>1 DEF IndexIsExact
  <2>3. ReservationHasHolder' /\ QueueIsOneFills'  BY <1>0, <2>1 DEF ReservationHasHolder, QueueIsOneFills
  <2>. QED  BY <1>0, <2>1, <2>2, <2>3 DEF ScannerInv
<1>2. ASSUME NEW g \in Gates, setGate(g) PROVE ScannerInv'
  BY <1>2, ScannerFrame DEF setGate, bookVars, entryVars, fillVars
<1>3. ASSUME NEW t \in Tokens, NEW q \in Quotes, onTokensUpdated(t, q) PROVE ScannerInv'
  <2>1. UNCHANGED <<candidates, tokenIndex, retained, micro>>  BY <1>3 DEF onTokensUpdated, fillVars
  <2>2. PICK begun : keyReserved' = keyReserved \cup begun /\ entryInFlight' = entryInFlight \cup begun
    BY <1>3, Zenon DEF onTokensUpdated
  <2>3. ReservationHasHolder'  BY <1>0, <2>1, <2>2 DEF ReservationHasHolder
  <2>4. QueueIsOneFills'  BY <1>0, <2>1 DEF QueueIsOneFills
  <2>. QED  BY <1>0, <2>1, <2>3, <2>4, IndexFrame DEF ScannerInv
<1>4. CASE publishIndicative
  BY <1>4, ScannerFrame DEF publishIndicative, marketVars, bookVars, entryVars, fillVars
<1>5. CASE clearOpportunities
  BY <1>5, ScannerFrame DEF clearOpportunities, marketVars, bookVars, entryVars, fillVars
<1>6. CASE ReclaimRuns
  <2>1. PICK k \in StrikePairs : retained[k] > 0 /\ micro \in {<<ReclaimJob(k), ReleasedJob(k)>>, <<ReleasedJob(k)>>}
    BY <1>0, <1>6 DEF ReclaimRuns, QueueIsOneFills
  <2>2. micro = <<ReclaimJob(k), ReleasedJob(k)>>  BY <1>6, <2>1 DEF ReclaimRuns, ReleasedJob
  <2>3. Head(micro) = ReclaimJob(k) /\ Tail(micro) = <<ReleasedJob(k)>> /\ ReclaimJob(k).key = k
    BY <2>2 DEF ReclaimJob, ReleasedJob
  <2>4. /\ keyReserved' \subseteq keyReserved \cup {k} /\ micro' = <<ReleasedJob(k)>>
        /\ UNCHANGED <<candidates, tokenIndex, retained, entryInFlight>>
    BY <1>6, <2>3 DEF ReclaimRuns, marketVars, entryVars, fillVars
  <2>5. ReservationHasHolder'  BY <1>0, <2>1, <2>4 DEF ReservationHasHolder
  <2>6. QueueIsOneFills'  BY <2>1, <2>4 DEF QueueIsOneFills, ReleasedJob
  <2>. QED  BY <1>0, <2>4, <2>5, <2>6, IndexFrame DEF ScannerInv
<1>7. CASE finalizeOpen
  <2>1. PICK k \in StrikePairs : retained[k] > 0 /\ micro \in {<<ReclaimJob(k), ReleasedJob(k)>>, <<ReleasedJob(k)>>}
    BY <1>0, <1>7 DEF finalizeOpen, QueueIsOneFills
  <2>2. micro = <<ReleasedJob(k)>>  BY <1>7, <2>1 DEF finalizeOpen, ReclaimJob
  <2>3. Head(micro).key = k /\ Tail(micro) = <<>>  BY <2>2 DEF ReleasedJob
  <2>4. /\ keyReserved' = keyReserved \ {k} /\ micro' = <<>> /\ entryInFlight' = entryInFlight \ {k}
        /\ UNCHANGED <<candidates, tokenIndex, retained>>
    BY <1>7, <2>3 DEF finalizeOpen, Ended, marketVars, fillVars
  <2>5. ReservationHasHolder'  BY <1>0, <2>4 DEF ReservationHasHolder
  <2>6. QueueIsOneFills'  BY <2>4 DEF QueueIsOneFills
  <2>. QED  BY <1>0, <2>4, <2>5, <2>6, IndexFrame DEF ScannerInv
<1>8. ASSUME NEW k \in StrikePairs, ExecutionStarts(k) PROVE ScannerInv'
  BY <1>8, ScannerFrame DEF ExecutionStarts, marketVars, bookVars, fillVars
<1>9. ASSUME NEW k \in StrikePairs, recordExecutionFailure(k) PROVE ScannerInv'
  BY <1>9, ScannerFrame DEF recordExecutionFailure, Ended, marketVars, fillVars
<1>10. ASSUME NEW k \in StrikePairs, ExecutionFills(k) PROVE ScannerInv'
  BY <1>10, ScannerFrame DEF ExecutionFills, marketVars, bookVars
<1>11. ASSUME NEW k \in StrikePairs, openPaperTrade(k) PROVE ScannerInv'
  BY <1>11, ScannerFrame DEF openPaperTrade, Ended, marketVars
<1>12. ASSUME NEW k \in StrikePairs, DuplicateInsert(k) PROVE ScannerInv'
  BY <1>12, ScannerFrame DEF DuplicateInsert, Ended, marketVars, fillVars
<1>13. ASSUME NEW k \in StrikePairs, retainOwnedExecution(k) PROVE ScannerInv'
  <2>1. /\ retained' = [retained EXCEPT ![k] = @ + 1] /\ micro' = <<ReclaimJob(k), ReleasedJob(k)>>
        /\ UNCHANGED <<candidates, tokenIndex, keyReserved, entryInFlight>>
    BY <1>13 DEF retainOwnedExecution, ReclaimJob, ReleasedJob, marketVars, bookVars, entryVars
  <2>2. retained' \in [StrikePairs -> Nat] /\ retained'[k] > 0
        /\ \A x \in StrikePairs : retained[x] > 0 => retained'[x] > 0
    BY <1>0, <2>1
  <2>3. QueueIsOneFills'  BY <2>1, <2>2 DEF QueueIsOneFills, ReclaimJob, ReleasedJob
  <2>4. ReservationHasHolder'
    <3>. SUFFICES ASSUME NEW x \in keyReserved PROVE x \in entryInFlight \/ retained'[x] > 0
      BY <2>1 DEF ReservationHasHolder
    <3>1. x \in entryInFlight \/ retained[x] > 0  BY <1>0 DEF ReservationHasHolder
    <3>2. x # k => retained'[x] = retained[x]  BY <1>0, <2>1
    <3>. QED  BY <2>2, <3>1, <3>2
  <2>. QED  BY <1>0, <2>1, <2>2, <2>3, <2>4, IndexFrame DEF ScannerInv
<1>14. ASSUME NEW k \in StrikePairs, drainOwnedExecutions(k) PROVE ScannerInv'
  <2>1. /\ retained' = [retained EXCEPT ![k] = @ - 1] /\ keyReserved' = keyReserved \ {k}
        /\ micro = <<>> /\ retained[k] > 0
        /\ UNCHANGED <<candidates, tokenIndex, entryInFlight, micro>>
    BY <1>14 DEF drainOwnedExecutions, marketVars, entryVars
  <2>2. retained' \in [StrikePairs -> Nat]  BY <1>0, <2>1
  <2>3. QueueIsOneFills'  BY <2>1 DEF QueueIsOneFills
  <2>4. ReservationHasHolder'
    <3>. SUFFICES ASSUME NEW x \in keyReserved \ {k} PROVE x \in entryInFlight \/ retained'[x] > 0
      BY <2>1 DEF ReservationHasHolder
    <3>1. x \in entryInFlight \/ retained[x] > 0  BY <1>0 DEF ReservationHasHolder
    <3>2. retained'[x] = retained[x]  BY <1>0, <2>1
    <3>. QED  BY <3>1, <3>2
  <2>. QED  BY <1>0, <2>1, <2>2, <2>3, <2>4, IndexFrame DEF ScannerInv
<1>15. ASSUME NEW k \in StrikePairs, PositionCloses(k) PROVE ScannerInv'
  BY <1>15, ScannerFrame DEF PositionCloses, marketVars, entryVars
<1>16. CASE UNCHANGED scanVars
  BY <1>16, ScannerFrame DEF scanVars, marketVars, bookVars, entryVars, fillVars
<1>. QED
  BY <1>1, <1>2, <1>3, <1>4, <1>5, <1>6, <1>7, <1>8, <1>9, <1>10, <1>11, <1>12, <1>13, <1>14, <1>15,
     <1>16 DEF ScannerNext

(* No path out of an entry (refusal, failure, duplicate, a fill that could not be stored and *)
(* the microtasks of its retention, adoption, close) leaves a strike pair reserved with      *)
(* nobody to release it, and after any window changes the index of tokens holds exactly the  *)
(* candidates (scanner.ts, positions.ts).                                                    *)
THEOREM ScannerStaysConsistent == ScannerSpec => []ScannerIsConsistent
<1>1. ScannerInv => ScannerIsConsistent  BY DEF ScannerInv, ScannerIsConsistent
<1>. QED  BY <1>1, ScannerStarts, ScannerKept, PTL DEF ScannerSpec
=============================================================================
