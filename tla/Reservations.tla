----------------------------- MODULE Reservations -----------------------------
(***************************************************************************)
(* Leases on option contracts shared by several backend processes: the     *)
(* durable tier (reservations/durable.ts over pgStore.ts) and the way the  *)
(* execution coordinator uses it.  An execution acquires all its contracts *)
(* in one insert, a heartbeat renews the lease, a synchronous guard stops  *)
(* further legs ahead of its expiry, and a challenger reclaims a lease     *)
(* that expired.  A database call is a step of its own between the instant *)
(* whose time it carries and the continuation that uses its answer.        *)
(*                                                                         *)
(* now is the authority's clock.  A process reads it through a measured    *)
(* offset, which a background synchronisation may replace between any two  *)
(* reads, so every conversion has an error of its own, at most MaxSkew.    *)
(* An instant the program reads no more is set back to 0.                  *)
(***************************************************************************)
EXTENDS Integers, FiniteSets

CONSTANTS
    Owners,     \* executions, each with an owner id of its own
    Keys,       \* contracts
    Wants,      \* Wants[o]: the contracts of execution o
    Processes,  \* backend processes
    Process,    \* Process[o]: the process that runs o
    MaxSpare,   \* MAX_SPARE_FENCES
    TTL,        \* instrumentLockTtlMs
    Grace,      \* reservationClockSkewGraceMs
    Margin,     \* reservationOwnershipMarginMs
    MaxSkew,    \* bound on the error of a measured offset
    MaxSubmit,  \* worst-case time from the guard to the broker's answer
    MaxTime     \* bound on the clock

ASSUME OwnersAssumption ==
    /\ Wants \in [Owners -> SUBSET Keys]
    /\ Process \in [Owners -> Processes]
ASSUME TimesAssumption ==
    /\ MaxSpare \in Nat /\ TTL \in Nat /\ Grace \in Nat /\ Margin \in Nat
    /\ MaxSkew \in Nat /\ MaxSubmit \in Nat /\ MaxTime \in Nat
(* "This must exceed worst-case submit latency": and, with the grace, the   *)
(* four clock errors between the lease a guard read and a reclaim of it.    *)
ASSUME MarginAssumption == MaxSubmit + 4 * MaxSkew <= Margin + Grace

VARIABLES
    now,        \* the authority's clock
    row,        \* row[o]: the reservation stored for o
    counter,    \* the shared fence sequence
    spare,      \* spare[p]: spareFences of process p
    st,         \* st[o]: where the execution is
    at,         \* at[o]: authNow of the acquisition
    fence,      \* fence[o]: the token of its attempt
    lease,      \* lease[o]: the expiry it was told, on its own clock
    lost,       \* lost[o]: ownershipLost
    postAt,     \* postAt[o]: when its POST began
    beat,       \* beat[o]: where the heartbeat's renewal of o is
    beatAt,     \* beatAt[o]: authNow of that renewal
    beatOf      \* beatOf[o]: whether it renews an active execution or a hold

store == <<row, counter>>
exec == <<st, at, fence, lease, lost, postAt>>
heart == <<beat, beatAt, beatOf>>
vars == <<now, store, spare, exec, heart>>

NoRow == [held |-> FALSE, expires |-> 0, fence |-> 0]
Acquiring == {"idle", "fencing", "inserting", "reclaiming", "reinserting"}
Active == {"running", "posting"}
Stages == Acquiring \cup Active \cup {"releasing", "holding", "done"}
Beats == {"idle", "asked", "ok", "gone", "unknown"}
Skews == (-MaxSkew)..MaxSkew

(* Types of the state. *)
TypeOK ==
    /\ now \in Nat
    /\ row \in [Owners -> [held : BOOLEAN, expires : Int, fence : Nat]]
    /\ counter \in Nat
    /\ spare \in [Processes -> SUBSET (1..counter)]
    /\ st \in [Owners -> Stages]
    /\ at \in [Owners -> Int]
    /\ fence \in [Owners -> Nat]
    /\ lease \in [Owners -> Int]
    /\ lost \in [Owners -> BOOLEAN]
    /\ postAt \in [Owners -> Nat]
    /\ beat \in [Owners -> Beats]
    /\ beatAt \in [Owners -> Int]
    /\ beatOf \in [Owners -> {"exec", "hold"}]

Init ==
    /\ now = 0
    /\ row = [o \in Owners |-> NoRow]
    /\ counter = 0
    /\ spare = [p \in Processes |-> {}]
    /\ st = [o \in Owners |-> "idle"]
    /\ at = [o \in Owners |-> 0]
    /\ fence = [o \in Owners |-> 0]
    /\ lease = [o \in Owners |-> 0]
    /\ lost = [o \in Owners |-> FALSE]
    /\ postAt = [o \in Owners |-> 0]
    /\ beat = [o \in Owners |-> "idle"]
    /\ beatAt = [o \in Owners |-> 0]
    /\ beatOf = [o \in Owners |-> "exec"]

-----------------------------------------------------------------------------
Overlap(o, p) == Wants[o] \cap Wants[p] # {}

(* The primary key on the contract: rows that keep o's insert out. *)
Conflicting(o) == {p \in Owners \ {o} : row[p].held /\ Overlap(o, p)}

(* Mutant: a lease is expired once its renewal is due. *)
ReclaimableByRenewal(p, authNow) == row[p].held /\ row[p].expires - TTL <= authNow

(* deleteExpired: a challenger waits out the grace. *)
Reclaimable(p, authNow) == row[p].held /\ row[p].expires <= authNow - Grace

Without(expired) == [p \in Owners |-> IF p \in expired THEN NoRow ELSE row[p]]

Goto(o, stage) == st' = [st EXCEPT ![o] = stage]

-----------------------------------------------------------------------------
(* tryAcquireAll. *)

Acquire(o) ==
    /\ st[o] = "idle"
    /\ Goto(o, "fencing")
    /\ \E e \in Skews : at' = [at EXCEPT ![o] = now + e]
    /\ UNCHANGED <<now, store, spare, fence, lease, lost, postAt, heart>>

SpareFence(o) ==
    /\ st[o] = "fencing"
    /\ \E f \in spare[Process[o]] :
        /\ fence' = [fence EXCEPT ![o] = f]
        /\ spare' = [spare EXCEPT ![Process[o]] = @ \ {f}]
    /\ Goto(o, "inserting")
    /\ UNCHANGED <<now, store, at, lease, lost, postAt, heart>>

(* Mutant: the counter is read and not advanced. *)
NextFenceUnstored(o) ==
    /\ st[o] = "fencing" /\ spare[Process[o]] = {}
    /\ fence' = [fence EXCEPT ![o] = counter + 1]
    /\ Goto(o, "inserting")
    /\ UNCHANGED <<now, store, spare, at, lease, lost, postAt, heart>>

NextFence(o) ==
    /\ st[o] = "fencing" /\ spare[Process[o]] = {}
    /\ counter' = counter + 1
    /\ fence' = [fence EXCEPT ![o] = counter + 1]
    /\ Goto(o, "inserting")
    /\ UNCHANGED <<now, row, spare, at, lease, lost, postAt, heart>>

Document(o) == [held |-> TRUE, expires |-> at[o] + TTL, fence |-> fence[o]]

(* insert, the first or the one after a reclaim, succeeds. *)
Insert(o) ==
    /\ st[o] \in {"inserting", "reinserting"}
    /\ Conflicting(o) = {}
    /\ row' = [row EXCEPT ![o] = Document(o)]
    /\ \E e \in Skews : lease' = [lease EXCEPT ![o] = at[o] + TTL - e]
    /\ at' = [at EXCEPT ![o] = 0]
    /\ Goto(o, "running")
    /\ UNCHANGED <<now, counter, spare, fence, lost, postAt, heart>>

InsertConflicts(o) ==
    /\ st[o] = "inserting"
    /\ Conflicting(o) # {}
    /\ Goto(o, "reclaiming")
    /\ UNCHANGED <<now, store, spare, at, fence, lease, lost, postAt, heart>>

Expired(o) == {p \in Conflicting(o) : Reclaimable(p, at[o])}

Reclaim(o) ==
    /\ st[o] = "reclaiming"
    /\ Expired(o) # {}
    /\ row' = Without(Expired(o))
    /\ Goto(o, "reinserting")
    /\ UNCHANGED <<now, counter, spare, at, fence, lease, lost, postAt, heart>>

Pooled(pool, f) == IF Cardinality(pool) >= MaxSpare THEN pool ELSE pool \cup {f}

(* Conflict: recycleFence, and waitForKeys may ask again. *)
GiveUp(o) ==
    /\ \/ st[o] = "reclaiming" /\ Expired(o) = {}
       \/ st[o] = "reinserting" /\ Conflicting(o) # {}
    /\ spare' = [spare EXCEPT ![Process[o]] = Pooled(@, fence[o])]
    /\ at' = [at EXCEPT ![o] = 0]
    /\ Goto(o, "idle")
    /\ UNCHANGED <<now, store, fence, lease, lost, postAt, heart>>

(* Mutant: an unanswered insert gives its token back. *)
AcquireFailsRecycling(o) ==
    /\ st[o] \in {"inserting", "reinserting"}
    /\ Conflicting(o) = {}
    /\ row' = [row EXCEPT ![o] = Document(o)]
    /\ spare' = [spare EXCEPT ![Process[o]] = Pooled(@, fence[o])]
    /\ at' = [at EXCEPT ![o] = 0]
    /\ Goto(o, "done")
    /\ UNCHANGED <<now, counter, fence, lease, lost, postAt, heart>>

(* A call throws, an insert before or after its commit: unavailable ends the *)
(* wait, and the token is not reused.                                        *)
AcquireFails(o) ==
    /\ st[o] \in Acquiring \ {"idle"}
    /\ \/ UNCHANGED row
       \/ /\ st[o] \in {"inserting", "reinserting"}
          /\ Conflicting(o) = {}
          /\ row' = [row EXCEPT ![o] = Document(o)]
    /\ at' = [at EXCEPT ![o] = 0]
    /\ Goto(o, "done")
    /\ UNCHANGED <<now, counter, spare, fence, lease, lost, postAt, heart>>

-----------------------------------------------------------------------------
(* The execution. *)

(* Mutant: the guard passes until the lease expires. *)
StillOwnedToExpiry(o) == ~lost[o] /\ now < lease[o]

(* ownershipGuard, asked before each leg. *)
StillOwned(o) == ~lost[o] /\ now < lease[o] - Margin

Post(o) ==
    /\ st[o] = "running"
    /\ StillOwned(o)
    /\ postAt' = [postAt EXCEPT ![o] = now]
    /\ Goto(o, "posting")
    /\ UNCHANGED <<now, store, spare, at, fence, lease, lost, heart>>

PostEnds(o) ==
    /\ st[o] = "posting"
    /\ postAt' = [postAt EXCEPT ![o] = 0]
    /\ Goto(o, "running")
    /\ UNCHANGED <<now, store, spare, at, fence, lease, lost, heart>>

(* settle, clean: abandoned first, then released by owner and fence. *)
Settle(o) ==
    /\ st[o] = "running"
    /\ lease' = [lease EXCEPT ![o] = 0]
    /\ Goto(o, "releasing")
    /\ UNCHANGED <<now, store, spare, at, fence, lost, postAt, heart>>

Release(o) ==
    /\ st[o] = "releasing"
    /\ row' = IF row[o].fence = fence[o] THEN [row EXCEPT ![o] = NoRow] ELSE row
    /\ Goto(o, "done")
    /\ UNCHANGED <<now, counter, spare, at, fence, lease, lost, postAt, heart>>

(* settle, uncertain: retain keeps renewing the lease unless it was lost. *)
Retain(o) ==
    /\ st[o] = "running"
    /\ lease' = [lease EXCEPT ![o] = 0]
    /\ Goto(o, IF lost[o] THEN "done" ELSE "holding")
    /\ UNCHANGED <<now, store, spare, at, fence, lost, postAt, heart>>

(* The delete fails, a hold has been renewed for long enough, or the process *)
(* died: the lease lapses by its TTL.                                        *)
LeaveToExpire(o) ==
    /\ st[o] \in {"running", "releasing", "holding"}
    /\ lease' = [lease EXCEPT ![o] = 0]
    /\ Goto(o, "done")
    /\ UNCHANGED <<now, store, spare, at, fence, lost, postAt, heart>>

-----------------------------------------------------------------------------
(* renewTick. *)

BeatStart(o) ==
    /\ beat[o] = "idle"
    /\ \/ st[o] \in Active /\ ~lost[o] /\ beatOf' = [beatOf EXCEPT ![o] = "exec"]
       \/ st[o] = "holding" /\ beatOf' = [beatOf EXCEPT ![o] = "hold"]
    /\ beat' = [beat EXCEPT ![o] = "asked"]
    /\ \E e \in Skews : beatAt' = [beatAt EXCEPT ![o] = now + e]
    /\ UNCHANGED <<now, store, spare, exec>>

RenewedRow(o) == [row EXCEPT ![o].expires = beatAt[o] + TTL]

(* renewOwned: pinned to the owner, the fence and a lease that has not expired. *)
Renewable(o) == row[o].held /\ row[o].fence = fence[o] /\ row[o].expires > beatAt[o]

RenewAtStore(o) ==
    /\ beat[o] = "asked"
    /\ row' = IF Renewable(o) THEN RenewedRow(o) ELSE row
    /\ beat' = [beat EXCEPT ![o] = IF Renewable(o) THEN "ok" ELSE "gone"]
    /\ UNCHANGED <<now, counter, spare, exec, beatAt, beatOf>>

(* The call throws, before or after its commit. *)
RenewUnavailable(o) ==
    /\ beat[o] = "asked"
    /\ \/ UNCHANGED row
       \/ Renewable(o) /\ row' = RenewedRow(o)
    /\ beat' = [beat EXCEPT ![o] = "unknown"]
    /\ UNCHANGED <<now, counter, spare, exec, beatAt, beatOf>>

BeatOk(o) ==
    /\ beat[o] = "ok"
    /\ beat' = [beat EXCEPT ![o] = "idle"]
    /\ beatAt' = [beatAt EXCEPT ![o] = 0]
    /\ IF st[o] \in Active
          THEN \E e \in Skews : lease' = [lease EXCEPT ![o] = beatAt[o] + TTL - e]
          ELSE UNCHANGED lease
    /\ UNCHANGED <<now, store, spare, st, at, fence, lost, postAt, beatOf>>

(* An active execution stops, whatever failed (invariantViolation is raised). *)
(* A hold survives an outage and ends with its lease.                         *)
BeatFailed(o) ==
    /\ beat[o] \in {"gone", "unknown"}
    /\ beat' = [beat EXCEPT ![o] = "idle"]
    /\ beatAt' = [beatAt EXCEPT ![o] = 0]
    /\ \/ /\ beatOf[o] = "exec"
          /\ lost' = [lost EXCEPT ![o] = TRUE]
          /\ UNCHANGED st
       \/ /\ beatOf[o] = "hold"
          /\ IF beat[o] = "gone" THEN Goto(o, "done") ELSE UNCHANGED st
          /\ UNCHANGED lost
    /\ UNCHANGED <<now, store, spare, at, fence, lease, postAt, beatOf>>

-----------------------------------------------------------------------------
(* reapExpired, in any process. *)
Reap ==
    \E e \in Skews :
        LET expired == {p \in Owners : Reclaimable(p, now + e)}
        IN /\ expired # {}
           /\ row' = Without(expired)
           /\ UNCHANGED <<now, counter, spare, exec, heart>>

(* Time passes; no POST outlives MaxSubmit. *)
Tick ==
    /\ now < MaxTime
    /\ \A o \in Owners : st[o] = "posting" => now < postAt[o] + MaxSubmit
    /\ now' = now + 1
    /\ UNCHANGED <<store, spare, exec, heart>>

TryAcquire(o) ==
    \/ Acquire(o) \/ SpareFence(o) \/ NextFence(o) \/ Insert(o) \/ InsertConflicts(o)
    \/ Reclaim(o) \/ GiveUp(o) \/ AcquireFails(o)
Run(o) ==
    Post(o) \/ PostEnds(o) \/ Settle(o) \/ Release(o) \/ Retain(o) \/ LeaveToExpire(o)
Heartbeat(o) ==
    BeatStart(o) \/ RenewAtStore(o) \/ RenewUnavailable(o) \/ BeatOk(o) \/ BeatFailed(o)

Next == Tick \/ Reap \/ \E o \in Owners : TryAcquire(o) \/ Run(o) \/ Heartbeat(o)

Spec == Init /\ [][Next]_vars

-----------------------------------------------------------------------------
(* Two executions that share a contract never have orders working at the     *)
(* broker at the same time, whatever stalls, expires, is renewed or is       *)
(* reclaimed: ownershipGuard's margin and deleteExpired's grace outlast a    *)
(* POST and the error of every clock between them.                           *)
NoTwoOwners ==
    \A o, p \in Owners : o # p /\ Overlap(o, p) => ~(st[o] = "posting" /\ st[p] = "posting")

(* A token is issued to one lease at most: no two stored leases carry the    *)
(* same one, and a pooled token was never issued (recycleFence), also when   *)
(* an insert committed and its answer was lost.                              *)
FenceIsUnique ==
    \A o, p \in Owners : row[o].held =>
        /\ row[p].held /\ row[o].fence = row[p].fence => o = p
        /\ row[o].fence \notin spare[Process[p]]

(* An execution that may still open legs is not in the way of a challenger   *)
(* that could already have taken its contracts: as long as the guard passes, *)
(* its row is in the store under its own fence (ownershipGuard, renewTick).  *)
GuardImpliesRow ==
    \A o \in Owners : st[o] = "running" /\ StillOwned(o) => row[o].held /\ row[o].fence = fence[o]
=============================================================================
