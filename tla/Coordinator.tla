----------------------------- MODULE Coordinator -----------------------------
(***************************************************************************)
(* executionCoordinator.ts: how an entry or an exit is admitted, how the   *)
(* claim on its underlying outlives it, and what is kept when its outcome  *)
(* is uncertain.  With oneActiveBoxPerUnderlying set, an entry first takes *)
(* a claim on its underlying (holder "pipeline"), then all its contracts;  *)
(* a Box that was established passes the claim on to holder "trade", and   *)
(* registered residual legs add holder "residual".                         *)
(*                                                                         *)
(* An acquisition takes effect in the step that delivers its answer (the   *)
(* time between the two is the subject of Reservations); a release takes   *)
(* effect later, since the code has forgotten the lease by then.  A lease  *)
(* is renewed for as long as its process tracks it, and may lapse after.   *)
(***************************************************************************)
EXTENDS Integers, FiniteSets

CONSTANTS
    Procs,          \* backend processes
    Entries,        \* candidates, each executed at most once
    ProcOf,         \* ProcOf[e]: the process that found e
    UnderlyingOf,   \* UnderlyingOf[e]
    ContractsOf,    \* ContractsOf[e]: the option contracts of its legs
    Live,           \* executionMode = "live"
    MaxPerUnderlying, \* maxConcurrentPerUnderlying
    MaxFaults       \* bound on failed durable calls and crashes together

Underlyings == {UnderlyingOf[e] : e \in Entries}
Contracts == UNION {ContractsOf[e] : e \in Entries}
Keys == Underlyings \cup Contracts

(* The keys of contracts and of underlyings have prefixes of their own. *)
ASSUME CoordinatorAssumption ==
    /\ ProcOf \in [Entries -> Procs]
    /\ Underlyings \cap Contracts = {}
    /\ MaxFaults \in Nat

Holders == {"pipeline", "trade", "residual"} \X Entries
NoOwner == <<"none">>
Owners == {<<"entry", e>> : e \in Entries} \cup {<<"exit", e>> : e \in Entries}
            \cup {<<"underlying", h, n>> : h \in Holders, n \in 0..MaxFaults}
NoClaim == [owner |-> NoOwner, holders |-> {}]

VARIABLES
    step,       \* step[e]: where the entry is
    exit,       \* exit[e]: where the exit of its Box is
    exposure,   \* exposure[e]: what the broker account holds because of e
    booked,     \* entries whose Box or residual legs are in the engine's memory
    lock,       \* lock[k]: the owner of key k in the durable tier
    mem,        \* mem[p][k]: its owner in the in-process tier of p
    claims,     \* claims[p][u]: positionClaims
    holds,      \* owners kept after an uncertain outcome
    releasing,  \* owners whose release has not reached the store
    lapsed,     \* underlyings whose claim expired while something depended on it
    life,       \* life[p]: number of restarts of p
    faults      \* failed durable calls and crashes so far

coordinatorVars == <<step, exit, exposure, booked, lock, mem, claims, holds, releasing, lapsed, life, faults>>

Steps == {"idle", "counting", "holding", "acquiring", "waiting", "running", "settlingHold",
          "settling", "returned", "done", "refused"}
(* A claimed execution stays in `active' until it settles. *)
ActiveSteps == {"acquiring", "waiting", "running", "settlingHold", "settling"}
Exposures == {"none", "working", "open", "residual", "orphan", "flat"}
Exposed == {"working", "open", "residual", "orphan"}

Active(p) == {e \in Entries : ProcOf[e] = p /\ (step[e] \in ActiveSteps \/ exit[e] = "running")}
UnderlyingOwner(e, h) == <<"underlying", h, life[ProcOf[e]]>>
Pipeline(e) == <<"pipeline", e>>
Trade(e) == <<"trade", e>>
ResidualHold(e) == <<"residual", e>>

CoordinatorInit ==
    /\ step = [e \in Entries |-> "idle"]
    /\ exit = [e \in Entries |-> "none"]
    /\ exposure = [e \in Entries |-> "none"]
    /\ booked = {}
    /\ lock = [k \in Keys |-> NoOwner]
    /\ mem = [p \in Procs |-> [k \in Keys |-> NoOwner]]
    /\ claims = [p \in Procs |-> [u \in Underlyings |-> NoClaim]]
    /\ holds = {} /\ releasing = {} /\ lapsed = {}
    /\ life = [p \in Procs |-> 0]
    /\ faults = 0

-----------------------------------------------------------------------------
(* The two reservation tiers behind acquire and release. *)

FreeLocally(p, ks) == \A k \in ks : mem[p][k] = NoOwner
Free(p, ks) == FreeLocally(p, ks) /\ \A k \in ks : lock[k] = NoOwner

TakeLocally(p, ks, o) == mem' = [mem EXCEPT ![p] = [k \in Keys |-> IF k \in ks THEN o ELSE @[k]]]
Take(p, ks, o) == /\ TakeLocally(p, ks, o)
                  /\ lock' = [k \in Keys |-> IF k \in ks THEN o ELSE lock[k]]

(* A durable call that fails. *)
Outage == /\ faults < MaxFaults
          /\ faults' = faults + 1

(* releaseLease, when it reaches the stores. *)
ReleaseLands(o) ==
    /\ o \in releasing
    /\ releasing' = releasing \ {o}
    /\ lock' = [k \in Keys |-> IF lock[k] = o THEN NoOwner ELSE lock[k]]
    /\ mem' = [p \in Procs |-> [k \in Keys |-> IF mem[p][k] = o THEN NoOwner ELSE mem[p][k]]]
    /\ UNCHANGED <<step, exit, exposure, booked, claims, holds, lapsed, life, faults>>

-----------------------------------------------------------------------------
(* Claims on underlyings. *)

Claimed(p, u) == claims[p][u] # NoClaim

SetClaim(p, u, c) == claims' = [claims EXCEPT ![p][u] = c]

(* holdUnderlying with an existing claim, for a holder that may share it. *)
JoinClaim(p, u, h) == SetClaim(p, u, [claims[p][u] EXCEPT !.holders = @ \cup {h}])

(* dropUnderlyingHolder: the last holder releases the lease. *)
DropHolder(p, u, h) ==
    LET left == claims[p][u].holders \ {h} IN
    IF ~Claimed(p, u) THEN UNCHANGED <<claims, releasing>>
    ELSE IF left # {} THEN SetClaim(p, u, [claims[p][u] EXCEPT !.holders = left]) /\ UNCHANGED releasing
    ELSE SetClaim(p, u, NoClaim) /\ releasing' = releasing \cup {claims[p][u].owner}

-----------------------------------------------------------------------------
(* coordinateEntry. *)

(* activeUnderlyings: Boxes and residual legs the engine of p knows of. *)
ActiveUnderlyings(p) ==
    {UnderlyingOf[e] : e \in {x \in booked : ProcOf[x] = p /\ exposure[x] \in Exposed}}

(* The duplicate guard and the session gate, up to the await of the        *)
(* attempt's count.  A process that owns orders it cannot attribute is in  *)
(* recovery and enters nothing.                                            *)
Begin(e) ==
    /\ step[e] = "idle"
    /\ \A x \in Entries : ProcOf[x] = ProcOf[e] => exposure[x] # "orphan"
    /\ step' = [step EXCEPT ![e] = "counting"]
    /\ UNCHANGED <<exit, exposure, booked, lock, mem, claims, holds, releasing, lapsed, life, faults>>

(* The attempt was counted, or refused; then Layer 1a. *)
Counted(e) ==
    /\ step[e] = "counting"
    /\ \E counted \in BOOLEAN :
          step' = [step EXCEPT ![e] =
                     IF counted /\ UnderlyingOf[e] \notin ActiveUnderlyings(ProcOf[e])
                     THEN "holding" ELSE "refused"]
    /\ UNCHANGED <<exit, exposure, booked, lock, mem, claims, holds, releasing, lapsed, life, faults>>

(* Mutant: an existing claim is joined by a second pipeline. *)
HoldPipelineShared(e) ==
    /\ step[e] = "holding"
    /\ JoinClaim(ProcOf[e], UnderlyingOf[e], Pipeline(e))
    /\ step' = [step EXCEPT ![e] = "acquiring"]
    /\ UNCHANGED <<exit, exposure, booked, lock, mem, holds, releasing, lapsed, life, faults>>

(* Layer 1b: holdUnderlying, exclusive, for the pipeline. *)
HoldPipeline(e) ==
    LET p == ProcOf[e]
        u == UnderlyingOf[e]
        o == UnderlyingOwner(e, Pipeline(e))
    IN
    /\ step[e] = "holding"
    /\ ~Claimed(p, u) /\ Free(p, {u})
    /\ Take(p, {u}, o)
    /\ SetClaim(p, u, [owner |-> o, holders |-> {Pipeline(e)}])
    (* The budget of the underlying is checked after the claim was taken. *)
    /\ step' = [step EXCEPT ![e] =
                  IF Cardinality({x \in Active(p) : UnderlyingOf[x] = u}) >= MaxPerUnderlying
                  THEN "refused" ELSE "acquiring"]
    /\ UNCHANGED <<exit, exposure, booked, holds, releasing, lapsed, life, faults>>

HoldRefused(e) ==
    /\ step[e] = "holding"
    /\ \/ (Claimed(ProcOf[e], UnderlyingOf[e]) \/ ~Free(ProcOf[e], {UnderlyingOf[e]})) /\ UNCHANGED faults
       \/ Outage
    /\ step' = [step EXCEPT ![e] = "refused"]
    /\ UNCHANGED <<exit, exposure, booked, lock, mem, claims, holds, releasing, lapsed, life>>

(* abandonAndReleaseHold. *)
Abandon(e) ==
    /\ step' = [step EXCEPT ![e] = "refused"]
    /\ DropHolder(ProcOf[e], UnderlyingOf[e], Pipeline(e))

(* The contracts were free: revalidation and verification after a wait may *)
(* still refuse, which releases them.                                      *)
AcquireContracts(e) ==
    LET p == ProcOf[e] IN
    /\ step[e] \in {"acquiring", "waiting"}
    /\ Free(p, ContractsOf[e])
    /\ Take(p, ContractsOf[e], <<"entry", e>>)
    /\ step' = [step EXCEPT ![e] = "running"]
    /\ exposure' = [exposure EXCEPT ![e] = "working"]
    /\ UNCHANGED <<exit, booked, claims, holds, releasing, lapsed, life, faults>>

WaitForContracts(e) ==
    /\ step[e] = "acquiring"
    /\ ~Free(ProcOf[e], ContractsOf[e])
    /\ step' = [step EXCEPT ![e] = "waiting"]
    /\ UNCHANGED <<exit, exposure, booked, lock, mem, claims, holds, releasing, lapsed, life, faults>>

(* The wait ran out, or its revalidation or verification failed. *)
GiveUpWaiting(e) ==
    /\ step[e] = "waiting"
    /\ Abandon(e)
    /\ UNCHANGED <<exit, exposure, booked, lock, mem, holds, lapsed, life, faults>>

(* handleUnavailable: a live entry fails closed, a simulated one goes on   *)
(* with the in-process tier alone.                                         *)
DurableUnavailable(e) ==
    LET p == ProcOf[e] IN
    /\ step[e] \in {"acquiring", "waiting"}
    /\ Outage
    /\ IF Live \/ ~FreeLocally(p, ContractsOf[e])
       THEN Abandon(e) /\ UNCHANGED <<mem, exposure>>
       ELSE /\ TakeLocally(p, ContractsOf[e], <<"entry", e>>)
            /\ step' = [step EXCEPT ![e] = "running"]
            /\ exposure' = [exposure EXCEPT ![e] = "working"]
            /\ UNCHANGED <<claims, releasing>>
    /\ UNCHANGED <<exit, booked, lock, holds, lapsed, life>>

-----------------------------------------------------------------------------
(* simulateLeggingEntry after the inner gateway. *)

(* The inner gateway answers: established, nothing held, or residual legs. *)
EntryReturns(e) ==
    /\ step[e] = "running"
    /\ \E x \in {"open", "none", "residual"} : exposure' = [exposure EXCEPT ![e] = x]
    /\ step' = [step EXCEPT ![e] = "settlingHold"]
    /\ UNCHANGED <<exit, booked, lock, mem, claims, holds, releasing, lapsed, life, faults>>

(* settleUnderlyingHold.  The trade holder is added before the pipeline's  *)
(* is dropped; a simulated Box has no trade id, and adds none.             *)
SettleHold(e) ==
    LET p == ProcOf[e]
        u == UnderlyingOf[e]
        kept == [claims[p][u] EXCEPT !.holders = (@ \cup {Trade(e)}) \ {Pipeline(e)}]
    IN
    /\ step[e] = "settlingHold"
    /\ CASE exposure[e] = "residual" -> UNCHANGED <<claims, releasing>>
         [] exposure[e] = "open" /\ Live /\ Claimed(p, u) -> SetClaim(p, u, kept) /\ UNCHANGED releasing
         [] OTHER -> DropHolder(p, u, Pipeline(e))
    /\ step' = [step EXCEPT ![e] = "settling"]
    /\ UNCHANGED <<exit, exposure, booked, lock, mem, holds, lapsed, life, faults>>

(* settle, with uncertaintyOf: residual legs keep the contracts. *)
Settle(e) ==
    LET o == <<"entry", e>> IN
    /\ step[e] = "settling"
    /\ step' = [step EXCEPT ![e] = "returned"]
    /\ IF exposure[e] = "residual" THEN holds' = holds \cup {o} /\ UNCHANGED releasing
                                   ELSE releasing' = releasing \cup {o} /\ UNCHANGED holds
    /\ UNCHANGED <<exit, exposure, booked, lock, mem, claims, lapsed, life, faults>>

(* The inner gateway threw: holdOnUncertainty; the attempt's legs are      *)
(* found by reconciliation.                                                *)
EntryThrows(e) ==
    /\ step[e] = "running"
    /\ step' = [step EXCEPT ![e] = "done"]
    /\ exposure' = [exposure EXCEPT ![e] = "orphan"]
    /\ holds' = holds \cup {<<"entry", e>>}
    /\ UNCHANGED <<exit, booked, lock, mem, claims, releasing, lapsed, life, faults>>

(* The engine adds the Box to its positions, or registers the residual     *)
(* legs, which claim the underlying for themselves.                        *)
Book(e) ==
    LET p == ProcOf[e] IN
    /\ step[e] = "returned"
    /\ step' = [step EXCEPT ![e] = "done"]
    /\ booked' = IF exposure[e] = "none" THEN booked ELSE booked \cup {e}
    /\ IF exposure[e] = "residual" /\ Claimed(p, UnderlyingOf[e])
       THEN JoinClaim(p, UnderlyingOf[e], ResidualHold(e))
       ELSE UNCHANGED claims
    /\ UNCHANGED <<exit, exposure, lock, mem, holds, releasing, lapsed, life, faults>>

-----------------------------------------------------------------------------
(* simulateLeggingExit and what the engine does with its result. *)

(* acquireForExit: with the durable tier out, the in-process tier is       *)
(* enough; a conflict defers the exit to a later evaluation.               *)
ExitBegins(e) ==
    LET p == ProcOf[e]
        o == <<"exit", e>>
    IN
    /\ e \in booked /\ exposure[e] = "open" /\ exit[e] = "none" /\ o \notin releasing
    /\ \/ Free(p, ContractsOf[e]) /\ Take(p, ContractsOf[e], o) /\ UNCHANGED faults
       \/ Outage /\ FreeLocally(p, ContractsOf[e]) /\ TakeLocally(p, ContractsOf[e], o) /\ UNCHANGED lock
    /\ exit' = [exit EXCEPT ![e] = "running"]
    /\ UNCHANGED <<step, exposure, booked, claims, holds, releasing, lapsed, life>>

(* The exit filled: settle releases the contracts, and the engine closes   *)
(* the trade and drops its claim.                                          *)
ExitFills(e) ==
    LET p == ProcOf[e]
        u == UnderlyingOf[e]
        left == claims[p][u].holders \ {Trade(e)}
        last == Claimed(p, u) /\ left = {}
    IN
    /\ exit[e] = "running"
    /\ exit' = [exit EXCEPT ![e] = "done"]
    /\ exposure' = [exposure EXCEPT ![e] = "flat"]
    /\ booked' = booked \ {e}
    /\ releasing' = releasing \cup {<<"exit", e>>} \cup (IF last THEN {claims[p][u].owner} ELSE {})
    /\ IF ~Claimed(p, u) THEN UNCHANGED claims
       ELSE SetClaim(p, u, IF last THEN NoClaim ELSE [claims[p][u] EXCEPT !.holders = left])
    /\ UNCHANGED <<step, lock, mem, holds, lapsed, life, faults>>

(* The exit closed nothing, or left some legs: the contracts are released  *)
(* or kept, and the Box stays.                                             *)
ExitFails(e) ==
    LET o == <<"exit", e>> IN
    /\ exit[e] = "running"
    /\ exit' = [exit EXCEPT ![e] = "none"]
    /\ \/ releasing' = releasing \cup {o} /\ UNCHANGED holds
       \/ holds' = holds \cup {o} /\ UNCHANGED releasing
    /\ UNCHANGED <<step, exposure, booked, lock, mem, claims, lapsed, life, faults>>

(* Residual legs are flattened: registerResidual with nothing left. *)
ResidualResolved(e) ==
    /\ exposure[e] = "residual" /\ e \in booked
    /\ exposure' = [exposure EXCEPT ![e] = "flat"]
    /\ booked' = booked \ {e}
    /\ DropHolder(ProcOf[e], UnderlyingOf[e], ResidualHold(e))
    /\ UNCHANGED <<step, exit, lock, mem, holds, lapsed, life, faults>>

(* The operator resolves orders that no attempt accounts for. *)
OrphanResolved(e) ==
    /\ exposure[e] = "orphan"
    /\ exposure' = [exposure EXCEPT ![e] = "none"]
    /\ UNCHANGED <<step, exit, booked, lock, mem, claims, holds, releasing, lapsed, life, faults>>

-----------------------------------------------------------------------------
(* The heartbeat and what it stops renewing. *)

(* renewTick abandons a hold after reservationUncertainHoldMaxMs. *)
HoldAbandoned(o) ==
    /\ o \in holds
    /\ holds' = holds \ {o}
    /\ UNCHANGED <<step, exit, exposure, booked, lock, mem, claims, releasing, lapsed, life, faults>>

(* Owners whose leases some heartbeat renews. *)
Renewed(o) ==
    \/ o \in holds
    \/ \E e \in Entries : o = <<"entry", e>> /\ step[e] \in ActiveSteps
    \/ \E e \in Entries : o = <<"exit", e>> /\ exit[e] = "running"
    \/ \E p \in Procs, u \in Underlyings : claims[p][u].owner = o

(* A lease nobody renews runs out, in either tier. *)
Lapse(k) ==
    LET o == lock[k] IN
    /\ o # NoOwner /\ o \notin releasing /\ ~Renewed(o)
    /\ lock' = [lock EXCEPT ![k] = NoOwner]
    /\ lapsed' = IF \E e \in Entries : UnderlyingOf[e] = k /\ exposure[e] \in Exposed
                 THEN lapsed \cup {k} ELSE lapsed
    /\ UNCHANGED <<step, exit, exposure, booked, mem, claims, holds, releasing, life, faults>>

LapseLocally(p, k) ==
    LET o == mem[p][k] IN
    /\ o # NoOwner /\ o \notin releasing /\ ~Renewed(o)
    /\ mem' = [mem EXCEPT ![p][k] = NoOwner]
    /\ UNCHANGED <<step, exit, exposure, booked, lock, claims, holds, releasing, lapsed, life, faults>>

-----------------------------------------------------------------------------
(* A process dies and boots: its memory is gone, open trades are adopted,  *)
(* and legs that were working belong to no attempt.                        *)
Crash(p) ==
    LET mine == {e \in Entries : ProcOf[e] = p}
        owned == {<<"entry", e>> : e \in mine} \cup {<<"exit", e>> : e \in mine}
                   \cup {claims[p][u].owner : u \in Underlyings}
    IN
    /\ faults < MaxFaults
    /\ faults' = faults + 1
    /\ life' = [life EXCEPT ![p] = @ + 1]
    /\ step' = [e \in Entries |-> IF e \in mine /\ step[e] # "idle" THEN "done" ELSE step[e]]
    /\ exit' = [e \in Entries |-> IF e \in mine /\ exit[e] = "running" THEN "none" ELSE exit[e]]
    /\ exposure' = [e \in Entries |->
                      IF e \in mine /\ exposure[e] \in {"working", "open"} /\ e \notin booked
                      THEN "orphan" ELSE exposure[e]]
    /\ mem' = [mem EXCEPT ![p] = [k \in Keys |-> NoOwner]]
    /\ claims' = [claims EXCEPT ![p] = [u \in Underlyings |-> NoClaim]]
    /\ holds' = holds \ owned
    /\ releasing' = {o \in releasing : \E k \in Keys, q \in Procs \ {p} : mem[q][k] = o}
    /\ booked' = booked \cup {e \in mine : exposure[e] = "residual"}
    /\ UNCHANGED <<lock, lapsed>>

(* reclaimUnderlyingsForOpenExposure, for one Box or residual. *)
Reclaim(e) ==
    LET p == ProcOf[e]
        u == UnderlyingOf[e]
        h == IF exposure[e] = "residual" THEN ResidualHold(e) ELSE Trade(e)
        o == UnderlyingOwner(e, h)
    IN
    /\ life[p] > 0 /\ e \in booked /\ exposure[e] \in {"open", "residual"}
    /\ h \notin claims[p][u].holders
    /\ \/ Claimed(p, u) /\ JoinClaim(p, u, h) /\ UNCHANGED <<lock, mem>>
       \/ ~Claimed(p, u) /\ Free(p, {u}) /\ Take(p, {u}, o) /\ SetClaim(p, u, [owner |-> o, holders |-> {h}])
    /\ UNCHANGED <<step, exit, exposure, booked, holds, releasing, lapsed, life, faults>>

EntryAction(e) ==
    \/ Begin(e) \/ Counted(e) \/ HoldPipeline(e) \/ HoldRefused(e)
    \/ AcquireContracts(e) \/ WaitForContracts(e) \/ GiveUpWaiting(e) \/ DurableUnavailable(e)
    \/ EntryReturns(e) \/ SettleHold(e) \/ Settle(e) \/ EntryThrows(e) \/ Book(e)

ExitAction(e) ==
    \/ ExitBegins(e) \/ ExitFills(e) \/ ExitFails(e)
    \/ ResidualResolved(e) \/ OrphanResolved(e) \/ Reclaim(e)

CoordinatorNext ==
    \/ \E e \in Entries : EntryAction(e) \/ ExitAction(e)
    \/ \E o \in releasing : ReleaseLands(o)
    \/ \E o \in holds : HoldAbandoned(o)
    \/ \E k \in Keys : Lapse(k) \/ \E p \in Procs : LapseLocally(p, k)
    \/ \E p \in Procs : Crash(p)

CoordinatorSpec == CoordinatorInit /\ [][CoordinatorNext]_coordinatorVars

-----------------------------------------------------------------------------
(* A second Box on an underlying.  With oneActiveBoxPerUnderlying, two      *)
(* candidates of one underlying are never exposed together, in one process  *)
(* or in two, whatever their contracts: only a claim that lapsed while its  *)
(* Box was open (its process crashed, or was restarted before it could      *)
(* claim again) lets a second process in.                                   *)
SecondBoxNeedsLapse ==
    \A e, f \in Entries :
        /\ e # f /\ UnderlyingOf[e] = UnderlyingOf[f]
        /\ exposure[e] \in Exposed /\ exposure[f] \in Exposed
        => UnderlyingOf[e] \in lapsed

(* "it cannot be retained after the Box is flat (the last holder leaving    *)
(* releases it)": no holder of a claim stands for a Box that was closed or  *)
(* for residual legs that were flattened.                                   *)
NoClaimForFlat ==
    \A p \in Procs, u \in Underlyings : \A h \in claims[p][u].holders : exposure[h[2]] # "flat"
=============================================================================
