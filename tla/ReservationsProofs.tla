-------------------------- MODULE ReservationsProofs --------------------------
(***************************************************************************)
(* Proofs about the contract reservations: the durable tier and the orders *)
(* it guards, for any number of executions, contracts and processes and    *)
(* any times that satisfy the module's assumptions; and the chain of the   *)
(* tier in memory and the durable one.                                     *)
(***************************************************************************)
EXTENDS Reservations, LeaseChain, TLAPS

(* The token an attempt carries was drawn from the sequence (NextFence,       *)
(* recycleFence): what makes the type of the pool inductive.                  *)
FenceIssued ==
    \A o \in Owners : st[o] \in Acquiring \ {"idle", "fencing"} => fence[o] \in 1..counter

TypeInv == TypeOK /\ FenceIssued

(* The clock errors are integers of absolute value at most MaxSkew. *)
LEMMA SkewsAreBounded == \A e \in Skews : e \in Int /\ e <= MaxSkew /\ -MaxSkew <= e
BY TimesAssumption, SMT DEF Skews

(* Dropping rows keeps the table a table (deleteExpired). *)
LEMMA WithoutTypes ==
    ASSUME TypeOK, NEW expired
    PROVE  Without(expired) \in [Owners -> [held : BOOLEAN, expires : Int, fence : Nat]]
BY SMT DEF TypeOK, Without, NoRow

(* What an insert stores is a row (tryAcquireAll). *)
LEMMA DocumentTypes ==
    ASSUME TypeOK, NEW o \in Owners
    PROVE  Document(o) \in [held : BOOLEAN, expires : Int, fence : Nat]
BY TimesAssumption, SMT DEF TypeOK, Document

(* A renewal changes one expiry (renewOwned). *)
LEMMA RenewedTypes ==
    ASSUME TypeOK, NEW o \in Owners
    PROVE  RenewedRow(o) \in [Owners -> [held : BOOLEAN, expires : Int, fence : Nat]]
BY TimesAssumption, SMT DEF TypeOK, RenewedRow

(* The initial state is well typed. *)
LEMMA TypeInit == Init => TypeInv
BY OwnersAssumption, SMT DEF Init, TypeInv, TypeOK, FenceIssued, NoRow, Acquiring, Active, Stages, Beats

(* Every step keeps the state well typed. *)
LEMMA TypeStep == TypeInv /\ [Next]_vars => TypeInv'
<1> SUFFICES ASSUME TypeInv, [Next]_vars PROVE TypeInv'
    OBVIOUS
<1> USE DEF TypeInv, FenceIssued, Acquiring, Active, Stages, Beats, Goto
<1>1. CASE UNCHANGED vars
    BY <1>1, SMT DEF TypeOK, vars, store, exec, heart
<1>2. CASE Tick
    BY <1>2, SMT DEF TypeOK, Tick, store, exec, heart
<1>3. CASE Reap
    <2>1. PICK e \in Skews : row' = Without({p \in Owners : Reclaimable(p, now + e)})
        BY <1>3 DEF Reap
    <2>2. UNCHANGED <<now, counter, spare, exec, heart>>
        BY <1>3 DEF Reap
    <2> QED
        BY <2>1, <2>2, WithoutTypes, SMT DEF TypeOK, exec, heart
<1>4. ASSUME NEW o \in Owners, TryAcquire(o) PROVE TypeInv'
    <2> USE DEF TypeOK
    <2>1. CASE Acquire(o)
        BY <2>1, SkewsAreBounded, SMT DEF Acquire, store, heart
    <2>2. CASE SpareFence(o)
        <3>1. PICK f \in spare[Process[o]] :
                    /\ fence' = [fence EXCEPT ![o] = f]
                    /\ spare' = [spare EXCEPT ![Process[o]] = @ \ {f}]
            BY <2>2 DEF SpareFence
        <3>2. Process[o] \in Processes /\ f \in 1..counter
            BY OwnersAssumption
        <3>3. spare' \in [Processes -> SUBSET (1..counter)]
            BY <3>1, <3>2
        <3> QED
            BY <2>2, <3>1, <3>2, <3>3, SMT DEF SpareFence, store, heart
    <2>3. CASE NextFence(o)
        BY <2>3, SMT DEF NextFence, heart
    <2>4. CASE Insert(o)
        BY <2>4, DocumentTypes, SkewsAreBounded, TimesAssumption, SMT DEF Insert, heart
    <2>5. CASE InsertConflicts(o)
        BY <2>5, SMT DEF InsertConflicts, store, heart
    <2>6. CASE Reclaim(o)
        BY <2>6, WithoutTypes, SMT DEF Reclaim, heart
    <2>7. CASE GiveUp(o)
        <3>1. Process[o] \in Processes /\ fence[o] \in 1..counter
            BY <2>7, OwnersAssumption DEF GiveUp
        <3>2. Pooled(spare[Process[o]], fence[o]) \in SUBSET (1..counter)
            BY <3>1 DEF Pooled
        <3>3. spare' \in [Processes -> SUBSET (1..counter)]
            BY <2>7, <3>1, <3>2 DEF GiveUp
        <3> QED
            BY <2>7, <3>3, SMT DEF GiveUp, store, heart
    <2>8. CASE AcquireFails(o)
        <3>0. Document(o) \in [held : BOOLEAN, expires : Int, fence : Nat]
            BY DocumentTypes
        <3>1. row' \in [Owners -> [held : BOOLEAN, expires : Int, fence : Nat]]
            BY <2>8, <3>0 DEF AcquireFails
        <3>2. st' \in [Owners -> Stages] /\ at' \in [Owners -> Int]
            BY <2>8 DEF AcquireFails
        <3>3. UNCHANGED <<now, counter, spare, fence, lease, lost, postAt, heart>>
            BY <2>8 DEF AcquireFails
        <3>4. \A p \in Owners : st'[p] = st[p] \/ st'[p] = "done"
            BY <2>8 DEF AcquireFails
        <3> QED
            BY <3>1, <3>2, <3>3, <3>4, SMT DEF heart
    <2> QED
        BY <1>4, <2>1, <2>2, <2>3, <2>4, <2>5, <2>6, <2>7, <2>8 DEF TryAcquire
<1>5. ASSUME NEW o \in Owners, Run(o) PROVE TypeInv'
    <2> USE DEF TypeOK
    <2>1. CASE Post(o)
        BY <2>1, SMT DEF Post, store, heart
    <2>2. CASE PostEnds(o)
        BY <2>2, SMT DEF PostEnds, store, heart
    <2>3. CASE Settle(o)
        BY <2>3, SMT DEF Settle, store, heart
    <2>4. CASE Release(o)
        BY <2>4, SMT DEF Release, NoRow, heart
    <2>5. CASE Retain(o)
        BY <2>5, SMT DEF Retain, store, heart
    <2>6. CASE LeaveToExpire(o)
        BY <2>6, SMT DEF LeaveToExpire, store, heart
    <2> QED
        BY <1>5, <2>1, <2>2, <2>3, <2>4, <2>5, <2>6 DEF Run
<1>6. ASSUME NEW o \in Owners, Heartbeat(o) PROVE TypeInv'
    <2> USE DEF TypeOK
    <2>1. CASE BeatStart(o)
        <3>1. beat' \in [Owners -> Beats] /\ beatOf' \in [Owners -> {"exec", "hold"}]
            BY <2>1 DEF BeatStart
        <3>2. beatAt' \in [Owners -> Int]
            BY <2>1, SkewsAreBounded DEF BeatStart
        <3>3. UNCHANGED <<now, store, spare, exec>>
            BY <2>1 DEF BeatStart
        <3> QED
            BY <3>1, <3>2, <3>3, SMT DEF store, exec
    <2>2. CASE RenewAtStore(o)
        BY <2>2, RenewedTypes, SMT DEF RenewAtStore, exec
    <2>3. CASE RenewUnavailable(o)
        BY <2>3, RenewedTypes, SMT DEF RenewUnavailable, exec
    <2>4. CASE BeatOk(o)
        <3>1. lease' \in [Owners -> Int]
            BY <2>4, SkewsAreBounded, TimesAssumption DEF BeatOk
        <3>2. beat' \in [Owners -> Beats] /\ beatAt' \in [Owners -> Int]
            BY <2>4 DEF BeatOk
        <3> QED
            BY <2>4, <3>1, <3>2, SMT DEF BeatOk, store
    <2>5. CASE BeatFailed(o)
        <3>1. beat' \in [Owners -> Beats] /\ beatAt' \in [Owners -> Int]
            BY <2>5 DEF BeatFailed
        <3>2. st' \in [Owners -> Stages] /\ lost' \in [Owners -> BOOLEAN]
            BY <2>5 DEF BeatFailed
        <3>3. UNCHANGED <<now, store, spare, at, fence, lease, postAt, beatOf>>
            BY <2>5 DEF BeatFailed
        <3>4. \A p \in Owners : st'[p] = st[p] \/ st'[p] = "done"
            BY <2>5 DEF BeatFailed
        <3> QED
            BY <3>1, <3>2, <3>3, <3>4, SMT DEF store
    <2> QED
        BY <1>6, <2>1, <2>2, <2>3, <2>4, <2>5 DEF Heartbeat
<1> QED
    BY <1>1, <1>2, <1>3, <1>4, <1>5, <1>6 DEF Next

(* Every reachable state of the reservation protocol is well typed. *)
THEOREM TypeCorrect == Spec => []TypeOK
<1>1. Init => TypeInv
    BY TypeInit
<1>2. TypeInv /\ [Next]_vars => TypeInv'
    BY TypeStep
<1>3. TypeInv => TypeOK
    BY DEF TypeInv
<1> QED
    BY <1>1, <1>2, <1>3, PTL DEF Spec

-----------------------------------------------------------------------------
(* Mutual exclusion. *)

(* A row is dropped by others only when its lease expired a grace ago. *)
Dropped(expires) == expires <= now + MaxSkew - Grace

(* Where an execution stands against the store.  While it is active its row   *)
(* covers the lease it was told, up to three clock errors (the two conversions *)
(* of that lease and the one of the renewal that replaced it), or the lease is *)
(* long past; a POST under way is covered the same way by the guard it passed. *)
LeaseSafe(o) ==
    /\ st[o] \in Acquiring => beat[o] = "idle" /\ at[o] <= now + MaxSkew
    /\ beat[o] \in {"asked", "ok"} => beatAt[o] <= now + MaxSkew
    /\ st[o] \in Active =>
        /\ row[o].held => row[o].fence = fence[o]
        /\ \/ row[o].held /\ lease[o] <= row[o].expires + 3 * MaxSkew
           \/ Dropped(lease[o] - 3 * MaxSkew)
        /\ lease[o] <= now + TTL + 2 * MaxSkew
        /\ beat[o] = "asked" => lease[o] <= beatAt[o] + TTL + 3 * MaxSkew
        /\ beat[o] = "ok" => \/ row[o].held /\ row[o].expires = beatAt[o] + TTL
                             \/ Dropped(beatAt[o] + TTL)
    /\ st[o] = "posting" =>
        /\ postAt[o] <= now /\ now <= postAt[o] + MaxSubmit
        /\ \/ row[o].held /\ postAt[o] + Margin < row[o].expires + 3 * MaxSkew
           \/ Dropped(postAt[o] + Margin + 1 - 3 * MaxSkew)
        /\ postAt[o] + Margin < now + TTL + 2 * MaxSkew
        /\ beat[o] = "asked" => postAt[o] + Margin < beatAt[o] + TTL + 3 * MaxSkew

(* The primary key: two stored leases share no contract. *)
RowsExclusive ==
    \A o, p \in Owners : o # p /\ row[o].held /\ row[p].held => ~Overlap(o, p)

LeaseInv == TypeInv /\ RowsExclusive /\ \A o \in Owners : LeaseSafe(o)

(* What the others and the clock may do to an execution keeps it safe: its row *)
(* stays, or is dropped a grace after it expired.                              *)
LEMMA OthersAreHarmless ==
    ASSUME TypeOK, TypeOK', NEW o \in Owners, LeaseSafe(o),
           st'[o] = st[o], at'[o] = at[o], fence'[o] = fence[o], lease'[o] = lease[o],
           postAt'[o] = postAt[o], beat'[o] = beat[o], beatAt'[o] = beatAt[o],
           now <= now', st[o] = "posting" => now' <= postAt[o] + MaxSubmit,
           row'[o] = row[o] \/ (~row'[o].held /\ Dropped(row[o].expires))
    PROVE  LeaseSafe(o)'
<1> USE TimesAssumption
<1>1. /\ now \in Nat /\ now' \in Nat
      /\ row[o].expires \in Int /\ row[o].held \in BOOLEAN /\ row'[o].held \in BOOLEAN
      /\ at[o] \in Int /\ lease[o] \in Int /\ postAt[o] \in Nat /\ beatAt[o] \in Int
    BY DEF TypeOK
<1>2. CASE row'[o] = row[o]
    BY <1>1, <1>2, SMT DEF LeaseSafe, Dropped
<1>3. CASE ~row'[o].held /\ Dropped(row[o].expires)
    BY <1>1, <1>3, SMT DEF LeaseSafe, Dropped
<1> QED
    BY <1>2, <1>3

(* A row that Without drops was reclaimable. *)
LEMMA WithoutDrops ==
    ASSUME TypeOK, NEW e \in Int, e <= now + MaxSkew, NEW expired,
           \A p \in expired : Reclaimable(p, e), NEW o \in Owners
    PROVE  \/ Without(expired)[o] = row[o]
           \/ ~Without(expired)[o].held /\ Dropped(row[o].expires)
<1> USE TimesAssumption
<1>1. CASE o \in expired
    BY <1>1, SMT DEF Without, NoRow, Reclaimable, Dropped, TypeOK
<1>2. CASE o \notin expired
    BY <1>2 DEF Without
<1> QED
    BY <1>1, <1>2

(* No contract is held in the initial state. *)
LEMMA LeaseInit == Init => LeaseInv
<1> SUFFICES ASSUME Init PROVE LeaseInv
    OBVIOUS
<1>1. TypeInv
    BY TypeInit
<1>2. RowsExclusive
    BY DEF Init, RowsExclusive, NoRow
<1>3. ASSUME NEW o \in Owners PROVE LeaseSafe(o)
    BY TimesAssumption, SMT DEF Init, LeaseSafe, Acquiring, Active
<1> QED
    BY <1>1, <1>2, <1>3 DEF LeaseInv

(* Rows that are only renewed or dropped stay apart. *)
LEMMA NoNewRow ==
    ASSUME RowsExclusive, \A o \in Owners : row'[o].held => row[o].held
    PROVE  RowsExclusive'
BY DEF RowsExclusive, Overlap

(* An insert that met no conflicting key keeps rows apart. *)
LEMMA NewRow ==
    ASSUME TypeOK, RowsExclusive, NEW o \in Owners, Conflicting(o) = {},
           row' = [row EXCEPT ![o] = Document(o)]
    PROVE  RowsExclusive'
<1> SUFFICES ASSUME NEW p \in Owners, NEW q \in Owners, p # q, row'[p].held, row'[q].held
             PROVE  ~Overlap(p, q)
    BY DEF RowsExclusive, Overlap
<1>1. \A x \in Owners : x # o => row'[x] = row[x]
    BY DEF TypeOK
<1>2. CASE p # o /\ q # o
    BY <1>1, <1>2 DEF RowsExclusive
<1>3. CASE p = o
    BY <1>1, <1>3 DEF Conflicting, Overlap
<1>4. CASE q = o
    BY <1>1, <1>4 DEF Conflicting, Overlap
<1> QED
    BY <1>2, <1>3, <1>4

(* The acquisition of one execution keeps every execution safe. *)
LEMMA AcquireStep ==
    ASSUME LeaseInv, TypeOK', NEW o \in Owners, TryAcquire(o)
    PROVE  RowsExclusive' /\ \A p \in Owners : LeaseSafe(p)'
<1> USE TimesAssumption
<1>0. TypeOK /\ RowsExclusive /\ LeaseSafe(o) /\ \A p \in Owners : LeaseSafe(p)
    BY DEF LeaseInv, TypeInv
<1>1. /\ now' = now /\ now \in Nat /\ beat' = beat /\ beatAt' = beatAt /\ postAt' = postAt
      /\ at[o] \in Int /\ lease[o] \in Int
    BY <1>0 DEF TryAcquire, Acquire, SpareFence, NextFence, Insert, InsertConflicts, Reclaim,
                GiveUp, AcquireFails, heart, TypeOK
<1>2. /\ st[o] \in Acquiring /\ beat[o] = "idle" /\ at[o] <= now + MaxSkew
    BY <1>0 DEF TryAcquire, Acquire, SpareFence, NextFence, Insert, InsertConflicts, Reclaim,
                GiveUp, AcquireFails, LeaseSafe, Acquiring
<1>3. \A p \in Owners : p # o => /\ st'[p] = st[p] /\ at'[p] = at[p]
                                 /\ fence'[p] = fence[p] /\ lease'[p] = lease[p]
    BY <1>0 DEF TryAcquire, Acquire, SpareFence, NextFence, Insert, InsertConflicts, Reclaim,
                GiveUp, AcquireFails, Goto, TypeOK
<1> DEFINE Undisturbed(p) == row'[p] = row[p] \/ (~row'[p].held /\ Dropped(row[p].expires))
<1>4. \A p \in Owners : p # o /\ Undisturbed(p) => LeaseSafe(p)'
    <2> SUFFICES ASSUME NEW p \in Owners, p # o, Undisturbed(p) PROVE LeaseSafe(p)'
        OBVIOUS
    <2>1. LeaseSafe(p)
        BY <1>0
    <2>2. st[p] = "posting" => now' <= postAt[p] + MaxSubmit
        BY <1>1, <2>1 DEF LeaseSafe
    <2>3. now <= now'
        BY <1>1
    <2> QED
        BY <1>0, <1>1, <1>3, <2>1, <2>2, <2>3, OthersAreHarmless
<1>5. CASE Insert(o)
    <2>1. row' = [row EXCEPT ![o] = Document(o)] /\ Conflicting(o) = {}
        BY <1>5 DEF Insert
    <2>2. PICK e \in Skews : lease' = [lease EXCEPT ![o] = at[o] + TTL - e]
        BY <1>5 DEF Insert
    <2>3. st'[o] = "running" /\ fence'[o] = fence[o] /\ lease'[o] = at[o] + TTL - e
        BY <1>0, <1>5, <2>2 DEF Insert, Goto, TypeOK
    <2>4. row'[o] = Document(o) /\ \A p \in Owners : p # o => row'[p] = row[p]
        BY <1>0, <2>1 DEF TypeOK
    <2>5. LeaseSafe(o)'
        <3>1. e \in Int /\ e <= MaxSkew /\ -MaxSkew <= e
            BY SkewsAreBounded
        <3>2. row'[o].held /\ row'[o].expires = at[o] + TTL /\ row'[o].fence = fence'[o]
            BY <2>3, <2>4 DEF Document
        <3>3. beat'[o] = "idle" /\ now' = now
            BY <1>1, <1>2
        <3> QED
            BY <1>1, <1>2, <2>3, <3>1, <3>2, <3>3, SMT DEF LeaseSafe, Acquiring, Active
    <2>6. RowsExclusive'
        BY <1>0, <2>1, NewRow
    <2> QED
        BY <1>4, <2>4, <2>5, <2>6
<1>6. CASE AcquireFails(o)
    <2>1. st'[o] = "done"
        BY <1>0, <1>6 DEF AcquireFails, Goto, TypeOK
    <2>2. LeaseSafe(o)'
        BY <1>1, <1>2, <2>1 DEF LeaseSafe, Acquiring, Active
    <2>3. CASE row' = row
        BY <1>0, <1>4, <2>2, <2>3, NoNewRow
    <2>4. CASE row' = [row EXCEPT ![o] = Document(o)] /\ Conflicting(o) = {}
        <3>1. RowsExclusive'
            BY <1>0, <2>4, NewRow
        <3>2. \A p \in Owners : p # o => row'[p] = row[p]
            BY <1>0, <2>4 DEF TypeOK
        <3> QED
            BY <1>4, <2>2, <3>1, <3>2
    <2> QED
        BY <1>6, <2>3, <2>4 DEF AcquireFails
<1>7. CASE Reclaim(o)
    <2>1. row' = Without(Expired(o)) /\ \A p \in Expired(o) : Reclaimable(p, at[o])
        BY <1>7 DEF Reclaim, Expired
    <2>2. \A p \in Owners : row'[p] = row[p] \/ (~row'[p].held /\ Dropped(row[p].expires))
        BY <1>0, <1>1, <1>2, <2>1, WithoutDrops
    <2>3. st'[o] = "reinserting" /\ at'[o] = at[o]
        BY <1>0, <1>7 DEF Reclaim, Goto, TypeOK
    <2>4. LeaseSafe(o)'
        BY <1>1, <1>2, <2>3 DEF LeaseSafe, Acquiring, Active
    <2>5. RowsExclusive'
        BY <1>0, <2>2, NoNewRow
    <2> QED
        BY <1>4, <2>2, <2>4, <2>5
<1>8. CASE Acquire(o) \/ SpareFence(o) \/ NextFence(o) \/ InsertConflicts(o) \/ GiveUp(o)
    <2>1. row' = row
        BY <1>8 DEF Acquire, SpareFence, NextFence, InsertConflicts, GiveUp, store
    <2>2. st'[o] \in {"idle", "fencing", "inserting", "reclaiming"}
        BY <1>0, <1>8 DEF Acquire, SpareFence, NextFence, InsertConflicts, GiveUp, Goto, TypeOK
    <2>3. CASE Acquire(o)
        <3>1. PICK e \in Skews : at' = [at EXCEPT ![o] = now + e]
            BY <2>3 DEF Acquire
        <3> QED
            BY <1>0, <1>1, <1>2, <1>4, <2>1, <2>2, <3>1, SkewsAreBounded, NoNewRow
               DEF LeaseSafe, Acquiring, Active, TypeOK
    <2>4. CASE ~Acquire(o)
        <3>1. at'[o] = at[o] \/ at'[o] = 0
            BY <1>0, <1>8, <2>4 DEF SpareFence, NextFence, InsertConflicts, GiveUp, TypeOK
        <3>2. LeaseSafe(o)'
            BY <1>1, <1>2, <2>2, <3>1, SMT DEF LeaseSafe, Acquiring, Active
        <3> QED
            BY <1>0, <1>4, <2>1, <3>2, NoNewRow
    <2> QED
        BY <2>3, <2>4
<1> QED
    BY <1>5, <1>6, <1>7, <1>8 DEF TryAcquire

(* A step of one running execution keeps every execution safe. *)
LEMMA RunStep ==
    ASSUME LeaseInv, TypeOK', NEW o \in Owners, Run(o)
    PROVE  RowsExclusive' /\ \A p \in Owners : LeaseSafe(p)'
<1> USE TimesAssumption
<1>0. TypeOK /\ RowsExclusive /\ LeaseSafe(o) /\ \A p \in Owners : LeaseSafe(p)
    BY DEF LeaseInv, TypeInv
<1>1. /\ now' = now /\ now \in Nat /\ beat' = beat /\ beatAt' = beatAt /\ at' = at /\ fence' = fence
      /\ lease[o] \in Int /\ row[o].expires \in Int /\ beatAt[o] \in Int
      /\ now <= now' /\ beat'[o] = beat[o]
    BY <1>0 DEF Run, Post, PostEnds, Settle, Release, Retain, LeaveToExpire, heart, TypeOK
<1>2. \A p \in Owners : p # o => /\ st'[p] = st[p] /\ lease'[p] = lease[p] /\ postAt'[p] = postAt[p]
                                 /\ row'[p] = row[p]
    BY <1>0 DEF Run, Post, PostEnds, Settle, Release, Retain, LeaveToExpire, Goto, store, TypeOK
<1>3. \A p \in Owners : row'[p].held => row[p].held
    <2>1. row' = row \/ row' = [row EXCEPT ![o] = NoRow]
        BY DEF Run, Post, PostEnds, Settle, Release, Retain, LeaveToExpire, store
    <2>2. \A p \in Owners : row'[p] = row[p] \/ row'[p] = NoRow
        BY <1>0, <2>1 DEF TypeOK
    <2>3. NoRow.held = FALSE
        BY DEF NoRow
    <2> QED
        BY <2>2, <2>3
<1>4. RowsExclusive'
    BY <1>0, <1>3, NoNewRow
<1>5. ASSUME NEW p \in Owners, p # o PROVE LeaseSafe(p)'
    <2>1. LeaseSafe(p) /\ row'[p] = row[p]
        BY <1>0, <1>2, <1>5
    <2>2. st[p] = "posting" => now' <= postAt[p] + MaxSubmit
        BY <1>1, <2>1 DEF LeaseSafe
    <2> QED
        BY <1>0, <1>1, <1>2, <1>5, <2>1, <2>2, OthersAreHarmless
<1>6. LeaseSafe(o)'
    <2>1. CASE Post(o)
        <3>1. /\ st[o] = "running" /\ st'[o] = "posting" /\ row' = row /\ lease' = lease
              /\ postAt'[o] = now /\ now < lease[o] - Margin
            BY <1>0, <2>1 DEF Post, StillOwned, Goto, store, TypeOK
        <3> QED
            BY <1>0, <1>1, <3>1, SMT DEF LeaseSafe, Dropped, Acquiring, Active
    <2>2. CASE PostEnds(o)
        <3>1. st[o] = "posting" /\ st'[o] = "running" /\ row' = row /\ lease' = lease
            BY <1>0, <2>2 DEF PostEnds, Goto, store, TypeOK
        <3> QED
            BY <1>0, <1>1, <3>1, SMT DEF LeaseSafe, Dropped, Acquiring, Active
    <2>3. CASE Settle(o) \/ Release(o) \/ Retain(o) \/ LeaveToExpire(o)
        <3>1. st'[o] \in {"releasing", "holding", "done"}
            BY <1>0, <2>3 DEF Settle, Release, Retain, LeaveToExpire, Goto, TypeOK
        <3> QED
            BY <1>0, <1>1, <3>1 DEF LeaseSafe, Acquiring, Active
    <2> QED
        BY <2>1, <2>2, <2>3 DEF Run
<1> QED
    BY <1>4, <1>5, <1>6

(* A step of one renewal keeps every execution safe. *)
LEMMA HeartbeatStep ==
    ASSUME LeaseInv, TypeOK', NEW o \in Owners, Heartbeat(o)
    PROVE  RowsExclusive' /\ \A p \in Owners : LeaseSafe(p)'
<1> USE TimesAssumption
<1>0. TypeOK /\ RowsExclusive /\ LeaseSafe(o) /\ \A p \in Owners : LeaseSafe(p)
    BY DEF LeaseInv, TypeInv
<1>1. /\ now' = now /\ now \in Nat /\ at' = at /\ fence' = fence /\ postAt' = postAt
      /\ lease[o] \in Int /\ row[o].expires \in Int /\ beatAt[o] \in Int /\ postAt[o] \in Nat
      /\ now <= now'
    BY <1>0 DEF Heartbeat, BeatStart, RenewAtStore, RenewUnavailable, BeatOk, BeatFailed, exec, TypeOK
<1>2. \A p \in Owners : p # o => /\ st'[p] = st[p] /\ lease'[p] = lease[p] /\ beat'[p] = beat[p]
                                 /\ beatAt'[p] = beatAt[p] /\ row'[p] = row[p]
    BY <1>0 DEF Heartbeat, BeatStart, RenewAtStore, RenewUnavailable, BeatOk, BeatFailed,
                RenewedRow, Goto, exec, store, TypeOK
<1>3. \A p \in Owners : row'[p].held => row[p].held
    BY <1>0 DEF Heartbeat, BeatStart, RenewAtStore, RenewUnavailable, BeatOk, BeatFailed,
                RenewedRow, store, TypeOK
<1>4. RowsExclusive'
    BY <1>0, <1>3, NoNewRow
<1>5. ASSUME NEW p \in Owners, p # o PROVE LeaseSafe(p)'
    <2>1. LeaseSafe(p) /\ row'[p] = row[p]
        BY <1>0, <1>2, <1>5
    <2>2. st[p] = "posting" => now' <= postAt[p] + MaxSubmit
        BY <1>1, <2>1 DEF LeaseSafe
    <2> QED
        BY <1>0, <1>1, <1>2, <1>5, <2>1, <2>2, OthersAreHarmless
<1>6. LeaseSafe(o)'
    <2>1. CASE BeatStart(o)
        <3>1. PICK e \in Skews : beatAt' = [beatAt EXCEPT ![o] = now + e]
            BY <2>1 DEF BeatStart
        <3>2. e \in Int /\ e <= MaxSkew /\ -MaxSkew <= e
            BY SkewsAreBounded
        <3>3. /\ beat'[o] = "asked" /\ beatAt'[o] = now + e /\ st'[o] = st[o] /\ st[o] \notin Acquiring
              /\ row' = row /\ lease' = lease
            BY <1>0, <2>1, <3>1 DEF BeatStart, Acquiring, Active, exec, store, TypeOK
        <3> QED
            BY <1>0, <1>1, <3>2, <3>3, SMT DEF LeaseSafe, Dropped, Acquiring, Active
    <2>2. CASE RenewAtStore(o) \/ RenewUnavailable(o)
        <3>1. /\ beat[o] = "asked" /\ st' = st /\ lease' = lease /\ beatAt' = beatAt
            BY <2>2 DEF RenewAtStore, RenewUnavailable, exec
        <3>2. CASE row' = row /\ beat'[o] \in {"gone", "unknown"}
            BY <1>0, <1>1, <3>1, <3>2, SMT DEF LeaseSafe, Dropped, Acquiring, Active
        <3>3. CASE row' = RenewedRow(o) /\ row[o].held /\ beat'[o] \in {"ok", "unknown"}
            <4>1. row'[o].held /\ row'[o].expires = beatAt[o] + TTL /\ row'[o].fence = row[o].fence
                BY <1>0, <3>3 DEF RenewedRow, TypeOK
            <4> QED
                BY <1>0, <1>1, <3>1, <3>3, <4>1, SMT DEF LeaseSafe, Dropped, Acquiring, Active
        <3> QED
            BY <1>0, <2>2, <3>2, <3>3 DEF RenewAtStore, RenewUnavailable, Renewable, TypeOK
    <2>3. CASE BeatOk(o)
        <3>1. /\ beat[o] = "ok" /\ beat'[o] = "idle" /\ st' = st /\ row' = row
            BY <1>0, <2>3 DEF BeatOk, store, TypeOK
        <3>2. CASE st[o] \in Active
            <4>1. PICK e \in Skews : lease' = [lease EXCEPT ![o] = beatAt[o] + TTL - e]
                BY <2>3, <3>2 DEF BeatOk
            <4>2. e \in Int /\ e <= MaxSkew /\ -MaxSkew <= e
                BY SkewsAreBounded
            <4>3. lease'[o] = beatAt[o] + TTL - e
                BY <1>0, <4>1 DEF TypeOK
            <4> QED
                BY <1>0, <1>1, <3>1, <3>2, <4>2, <4>3, SMT DEF LeaseSafe, Dropped, Acquiring, Active
        <3>3. CASE st[o] \notin Active
            BY <1>0, <1>1, <3>1, <3>3, SMT DEF LeaseSafe, Acquiring, Active
        <3> QED
            BY <3>2, <3>3
    <2>4. CASE BeatFailed(o)
        <3>1. /\ beat[o] # "idle" /\ beat'[o] = "idle" /\ row' = row /\ lease' = lease
              /\ st'[o] = st[o] \/ st'[o] = "done"
            BY <1>0, <2>4 DEF BeatFailed, Goto, store, TypeOK
        <3> QED
            BY <1>0, <1>1, <3>1, SMT DEF LeaseSafe, Dropped, Acquiring, Active
    <2> QED
        BY <2>1, <2>2, <2>3, <2>4 DEF Heartbeat
<1> QED
    BY <1>4, <1>5, <1>6

(* The reaper and the clock keep every execution safe. *)
LEMMA EnvironmentStep ==
    ASSUME LeaseInv, TypeOK', Reap \/ Tick \/ UNCHANGED vars
    PROVE  RowsExclusive' /\ \A p \in Owners : LeaseSafe(p)'
<1> USE TimesAssumption
<1>0. TypeOK /\ RowsExclusive /\ \A p \in Owners : LeaseSafe(p)
    BY DEF LeaseInv, TypeInv
<1>1. UNCHANGED <<exec, heart>> /\ now \in Nat /\ now <= now'
    <2>1. UNCHANGED <<exec, heart>> /\ (now' = now \/ now' = now + 1)
        BY DEF Reap, Tick, vars
    <2> QED
        BY <1>0, <2>1 DEF TypeOK
<1>2. \A p \in Owners : st[p] = "posting" => now' <= postAt[p] + MaxSubmit
    <2>1. CASE Tick
        BY <1>0, <2>1, SMT DEF Tick, TypeOK
    <2>2. CASE now' = now
        BY <1>0, <2>2 DEF LeaseSafe
    <2> QED
        BY <2>1, <2>2 DEF Reap, vars
<1>3. \A p \in Owners : row'[p] = row[p] \/ (~row'[p].held /\ Dropped(row[p].expires))
    <2>1. CASE Reap
        <3>1. PICK e \in Skews : row' = Without({p \in Owners : Reclaimable(p, now + e)})
            BY <2>1 DEF Reap
        <3>2. now + e \in Int /\ now + e <= now + MaxSkew
            BY <1>1, SkewsAreBounded
        <3> QED
            BY <1>0, <3>1, <3>2, WithoutDrops
    <2>2. CASE row' = row
        BY <2>2
    <2> QED
        BY <2>1, <2>2 DEF Tick, vars, store
<1>4. RowsExclusive'
    BY <1>0, <1>3, NoNewRow
<1>5. ASSUME NEW p \in Owners PROVE LeaseSafe(p)'
    BY <1>0, <1>1, <1>2, <1>3, <1>5, OthersAreHarmless DEF exec, heart
<1> QED
    BY <1>4, <1>5

(* LeaseInv is inductive. *)
LEMMA LeaseStep == LeaseInv /\ [Next]_vars => LeaseInv'
<1> SUFFICES ASSUME LeaseInv, [Next]_vars PROVE LeaseInv'
    OBVIOUS
<1>1. TypeInv'
    BY TypeStep DEF LeaseInv
<1>2. TypeOK'
    BY <1>1 DEF TypeInv
<1>3. RowsExclusive' /\ \A p \in Owners : LeaseSafe(p)'
    <2>1. CASE Reap \/ Tick \/ UNCHANGED vars
        BY <1>2, <2>1, EnvironmentStep
    <2>2. ASSUME NEW o \in Owners, TryAcquire(o) \/ Run(o) \/ Heartbeat(o)
          PROVE  RowsExclusive' /\ \A p \in Owners : LeaseSafe(p)'
        BY <1>2, <2>2, AcquireStep, RunStep, HeartbeatStep
    <2> QED
        BY <2>1, <2>2 DEF Next
<1> QED
    BY <1>1, <1>3 DEF LeaseInv

(* The margin and the grace outlast a POST: an execution whose POST is under  *)
(* way, or whose guard still passes, has its row in the store.                *)
LEMMA GuardedRowIsThere ==
    ASSUME LeaseInv, NEW o \in Owners,
           st[o] = "posting" \/ (st[o] = "running" /\ StillOwned(o))
    PROVE  row[o].held /\ row[o].fence = fence[o]
<1>1. /\ LeaseSafe(o) /\ now \in Nat /\ lease[o] \in Int /\ postAt[o] \in Nat
      /\ row[o].expires \in Int /\ row[o].held \in BOOLEAN
    BY DEF LeaseInv, TypeInv, TypeOK
<1> QED
    BY <1>1, TimesAssumption, MarginAssumption, SMT DEF LeaseSafe, Dropped, StillOwned, Active

(* No two executions that share a contract have orders at the broker at the   *)
(* same time, for any number of executions and any times within the margin    *)
(* (ownershipGuard, deleteExpired, renewOwned).                               *)
THEOREM MutualExclusion == Spec => []NoTwoOwners
<1>1. LeaseInv => NoTwoOwners
    <2> SUFFICES ASSUME LeaseInv, NEW o \in Owners, NEW p \in Owners, o # p, Overlap(o, p),
                        st[o] = "posting", st[p] = "posting"
                 PROVE  FALSE
        BY DEF NoTwoOwners
    <2>1. row[o].held /\ row[p].held
        BY GuardedRowIsThere
    <2> QED
        BY <2>1 DEF LeaseInv, RowsExclusive
<1> QED
    BY <1>1, LeaseInit, LeaseStep, PTL DEF Spec

(* As long as ownershipGuard passes, the execution's row is in the store      *)
(* under its own fence, so no challenger can have taken its contracts.        *)
THEOREM GuardIsSound == Spec => []GuardImpliesRow
<1>1. LeaseInv => GuardImpliesRow
    BY GuardedRowIsThere DEF GuardImpliesRow
<1> QED
    BY <1>1, LeaseInit, LeaseStep, PTL DEF Spec

-----------------------------------------------------------------------------
(* Fencing tokens. *)

(* The stages between drawing a token and issuing or returning it. *)
Carrying == {"inserting", "reclaiming", "reinserting"}

(* A token is in one place: with one attempt, in one pool, or in one row. *)
CarriedApart ==
    \A o, p \in Owners : o # p /\ st[o] \in Carrying /\ st[p] \in Carrying => fence[o] # fence[p]
CarriedNotPooled ==
    \A o \in Owners, q \in Processes : st[o] \in Carrying => fence[o] \notin spare[q]
CarriedNotStored ==
    \A o, p \in Owners : st[o] \in Carrying /\ row[p].held => row[p].fence # fence[o]
PoolsApart ==
    \A q, r \in Processes : q # r => spare[q] \cap spare[r] = {}
StoredApart ==
    \A o, p \in Owners : row[o].held /\ row[p].held /\ row[o].fence = row[p].fence => o = p
StoredNotPooled ==
    \A o \in Owners, q \in Processes : row[o].held => row[o].fence \notin spare[q]
StoredWasIssued ==
    \A o \in Owners : row[o].held => row[o].fence \in 1..counter

TokenInv ==
    /\ CarriedApart /\ CarriedNotPooled /\ CarriedNotStored
    /\ PoolsApart /\ StoredApart /\ StoredNotPooled /\ StoredWasIssued

(* A step that draws, issues and returns no token keeps every token in its place. *)
LEMMA TokensStay ==
    ASSUME TokenInv, UNCHANGED <<spare, counter>>,
           \A o \in Owners : st'[o] \in Carrying => st[o] \in Carrying /\ fence'[o] = fence[o],
           \A o \in Owners : row'[o].held => row[o].held /\ row'[o].fence = row[o].fence
    PROVE  TokenInv'
<1>1. CarriedApart' /\ CarriedNotPooled' /\ CarriedNotStored'
    BY DEF TokenInv, CarriedApart, CarriedNotPooled, CarriedNotStored
<1>2. PoolsApart' /\ StoredApart' /\ StoredNotPooled' /\ StoredWasIssued'
    BY DEF TokenInv, PoolsApart, StoredApart, StoredNotPooled, StoredWasIssued
<1> QED
    BY <1>1, <1>2 DEF TokenInv

(* The row an insert stores takes the attempt's token with it. *)
LEMMA TokenIsStored ==
    ASSUME TypeInv, TokenInv, NEW o \in Owners, st[o] \in Carrying,
           row' = [row EXCEPT ![o] = Document(o)], UNCHANGED <<spare, counter, fence>>,
           st'[o] \notin Carrying, \A p \in Owners : p # o => st'[p] = st[p]
    PROVE  TokenInv'
<1>1. /\ \A p \in Owners : p # o => row'[p] = row[p]
      /\ row'[o].fence = fence[o] /\ fence[o] \in 1..counter
    BY DEF TypeInv, TypeOK, Document, FenceIssued, Carrying, Acquiring
<1>2. \A p \in Owners : st'[p] \in Carrying => p # o /\ st[p] \in Carrying
    OBVIOUS
<1>3. CarriedApart' /\ CarriedNotPooled' /\ PoolsApart'
    BY <1>2 DEF TokenInv, CarriedApart, CarriedNotPooled, PoolsApart
<1>4. CarriedNotStored'
    BY <1>1, <1>2 DEF TokenInv, CarriedApart, CarriedNotStored
<1>5. StoredApart'
    BY <1>1 DEF TokenInv, StoredApart, CarriedNotStored
<1>6. StoredNotPooled' /\ StoredWasIssued'
    BY <1>1 DEF TokenInv, StoredNotPooled, StoredWasIssued, CarriedNotPooled
<1> QED
    BY <1>3, <1>4, <1>5, <1>6 DEF TokenInv

(* Dropping rows issues nothing (deleteExpired). *)
LEMMA WithoutTokens ==
    ASSUME NEW expired, row' = Without(expired), NEW o \in Owners, row'[o].held
    PROVE  row[o].held /\ row'[o].fence = row[o].fence
BY DEF Without, NoRow

(* No token exists before the first is drawn. *)
LEMMA TokenInit == Init => TokenInv
BY DEF Init, TokenInv, CarriedApart, CarriedNotPooled, CarriedNotStored, PoolsApart, StoredApart,
       StoredNotPooled, StoredWasIssued, Carrying, NoRow

(* An acquisition draws a token, issues it with its row or returns it to its pool. *)
LEMMA TokenAcquire ==
    ASSUME TypeInv, TokenInv, NEW o \in Owners, TryAcquire(o)
    PROVE  TokenInv'
<1>0. /\ st \in [Owners -> Stages] /\ fence \in [Owners -> Nat] /\ counter \in Nat
      /\ spare \in [Processes -> SUBSET (1..counter)] /\ Process[o] \in Processes
    BY OwnersAssumption DEF TypeInv, TypeOK
<1>1. CASE Acquire(o) \/ InsertConflicts(o)
    <2>1. UNCHANGED <<spare, counter, fence, row>>
        BY <1>1 DEF Acquire, InsertConflicts, store
    <2>2. \A p \in Owners : st'[p] \in Carrying => st[p] \in Carrying
        BY <1>0, <1>1 DEF Acquire, InsertConflicts, Goto, Carrying
    <2> QED
        BY <2>1, <2>2, TokensStay
<1>2. CASE SpareFence(o)
    <2>1. PICK f \in spare[Process[o]] :
                /\ fence' = [fence EXCEPT ![o] = f]
                /\ spare' = [spare EXCEPT ![Process[o]] = @ \ {f}]
        BY <1>2 DEF SpareFence
    <2>2. UNCHANGED <<row, counter>> /\ st' = [st EXCEPT ![o] = "inserting"]
        BY <1>2 DEF SpareFence, store, Goto
    <2>3. /\ fence'[o] = f /\ \A p \in Owners : p # o => fence'[p] = fence[p] /\ st'[p] = st[p]
        BY <1>0, <2>1, <2>2
    <2>4. /\ \A q \in Processes : spare'[q] \subseteq spare[q] /\ f \notin spare'[q]
        BY <1>0, <2>1 DEF TokenInv, PoolsApart
    <2>5. \A p \in Owners : /\ row[p].held => row[p].fence # f
                            /\ p # o /\ st[p] \in Carrying => fence[p] # f
        BY <1>0, <2>1 DEF TokenInv, StoredNotPooled, CarriedNotPooled
    <2>6. CarriedApart' /\ CarriedNotStored'
        <3>1. ASSUME NEW p \in Owners, NEW q \in Owners, p # q, st'[p] \in Carrying, st'[q] \in Carrying
              PROVE  fence'[p] # fence'[q]
            BY <2>3, <2>5, <3>1 DEF TokenInv, CarriedApart
        <3>2. ASSUME NEW p \in Owners, NEW q \in Owners, st'[p] \in Carrying, row[q].held
              PROVE  row[q].fence # fence'[p]
            BY <2>3, <2>5, <3>2 DEF TokenInv, CarriedNotStored
        <3> QED
            BY <2>2, <3>1, <3>2 DEF CarriedApart, CarriedNotStored
    <2>7. CarriedNotPooled'
        <3> SUFFICES ASSUME NEW p \in Owners, NEW q \in Processes, st'[p] \in Carrying
                     PROVE  fence'[p] \notin spare'[q]
            BY DEF CarriedNotPooled
        <3>1. CASE p = o
            BY <2>3, <2>4, <3>1
        <3>2. CASE p # o
            BY <2>3, <2>4, <3>2 DEF TokenInv, CarriedNotPooled
        <3> QED
            BY <3>1, <3>2
    <2>8. PoolsApart' /\ StoredNotPooled'
        BY <2>2, <2>4 DEF TokenInv, PoolsApart, StoredNotPooled
    <2>9. StoredApart' /\ StoredWasIssued'
        BY <2>2 DEF TokenInv, StoredApart, StoredWasIssued
    <2> QED
        BY <2>6, <2>7, <2>8, <2>9 DEF TokenInv
<1>3. CASE NextFence(o)
    <2>1. /\ fence' = [fence EXCEPT ![o] = counter + 1] /\ st' = [st EXCEPT ![o] = "inserting"]
          /\ counter' = counter + 1 /\ UNCHANGED <<row, spare>>
        BY <1>3 DEF NextFence, Goto
    <2>2. /\ fence'[o] = counter + 1
          /\ \A p \in Owners : p # o => fence'[p] = fence[p] /\ st'[p] = st[p]
        BY <1>0, <2>1
    <2>3. /\ \A q \in Processes : counter + 1 \notin spare[q]
          /\ \A p \in Owners : row[p].held => row[p].fence # counter + 1
          /\ \A p \in Owners : st[p] \in Carrying => fence[p] # counter + 1
        <3>1. counter + 1 \notin 1..counter
            BY <1>0
        <3>2. \A p \in Owners : st[p] \in Carrying => fence[p] \in 1..counter
            BY DEF TypeInv, FenceIssued, Carrying, Acquiring
        <3> QED
            BY <1>0, <3>1, <3>2, Zenon DEF TokenInv, StoredWasIssued
    <2>4. CarriedApart' /\ CarriedNotStored'
        BY <2>1, <2>2, <2>3 DEF TokenInv, CarriedApart, CarriedNotStored
    <2>5. CarriedNotPooled'
        <3> SUFFICES ASSUME NEW p \in Owners, NEW q \in Processes, st'[p] \in Carrying
                     PROVE  fence'[p] \notin spare'[q]
            BY DEF CarriedNotPooled
        <3>1. CASE p = o
            BY <2>1, <2>2, <2>3, <3>1
        <3>2. CASE p # o
            BY <2>1, <2>2, <3>2 DEF TokenInv, CarriedNotPooled
        <3> QED
            BY <3>1, <3>2
    <2>6. PoolsApart' /\ StoredNotPooled' /\ StoredApart'
        BY <2>1 DEF TokenInv, PoolsApart, StoredNotPooled, StoredApart
    <2>7. StoredWasIssued'
        BY <1>0, <2>1, SMT DEF TokenInv, StoredWasIssued
    <2> QED
        BY <2>4, <2>5, <2>6, <2>7 DEF TokenInv
<1>4. CASE Insert(o)
    <2>1. /\ row' = [row EXCEPT ![o] = Document(o)] /\ UNCHANGED <<spare, counter, fence>>
          /\ st[o] \in Carrying /\ st' = [st EXCEPT ![o] = "running"]
        BY <1>4 DEF Insert, Goto, Carrying
    <2>2. st'[o] \notin Carrying /\ \A p \in Owners : p # o => st'[p] = st[p]
        BY <1>0, <2>1 DEF Carrying
    <2> QED
        BY <2>1, <2>2, TokenIsStored
<1>5. CASE Reclaim(o)
    <2>1. /\ row' = Without(Expired(o)) /\ UNCHANGED <<spare, counter, fence>>
          /\ \A p \in Owners : st'[p] \in Carrying => st[p] \in Carrying
        BY <1>0, <1>5 DEF Reclaim, Goto, Carrying
    <2>2. \A p \in Owners : row'[p].held => row[p].held /\ row'[p].fence = row[p].fence
        BY <2>1, WithoutTokens
    <2> QED
        BY <2>1, <2>2, TokensStay
<1>6. CASE GiveUp(o)
    <2>1. /\ st[o] \in Carrying /\ st' = [st EXCEPT ![o] = "idle"]
          /\ spare' = [spare EXCEPT ![Process[o]] = Pooled(@, fence[o])]
          /\ UNCHANGED <<row, counter, fence>>
        BY <1>6 DEF GiveUp, Goto, Carrying, store
    <2>2. /\ \A p \in Owners : st'[p] \in Carrying => p # o /\ st[p] \in Carrying
        BY <1>0, <2>1 DEF Carrying
    <2>3. \A q \in Processes : spare'[q] \subseteq
            IF q = Process[o] THEN spare[q] \cup {fence[o]} ELSE spare[q]
        BY <1>0, <2>1 DEF Pooled
    <2>4. \A q \in Processes : fence[o] \notin spare[q]
        BY <2>1 DEF TokenInv, CarriedNotPooled
    <2>5. CarriedApart' /\ CarriedNotStored' /\ StoredApart' /\ StoredWasIssued'
        BY <2>1, <2>2 DEF TokenInv, CarriedApart, CarriedNotStored, StoredApart, StoredWasIssued
    <2>6. CarriedNotPooled'
        <3> SUFFICES ASSUME NEW p \in Owners, NEW q \in Processes, st'[p] \in Carrying
                     PROVE  fence[p] \notin spare'[q]
            BY <2>1 DEF CarriedNotPooled
        <3>1. fence[p] # fence[o] /\ fence[p] \notin spare[q]
            BY <2>1, <2>2 DEF TokenInv, CarriedApart, CarriedNotPooled
        <3> QED
            BY <2>3, <3>1
    <2>7. PoolsApart'
        <3> SUFFICES ASSUME NEW q \in Processes, NEW r \in Processes, q # r, NEW f \in spare'[q],
                            f \in spare'[r]
                     PROVE  FALSE
            BY DEF PoolsApart
        <3>1. spare[q] \cap spare[r] = {}
            BY DEF TokenInv, PoolsApart
        <3> QED
            BY <2>3, <2>4, <3>1
    <2>8. StoredNotPooled'
        <3> SUFFICES ASSUME NEW p \in Owners, NEW q \in Processes, row[p].held
                     PROVE  row[p].fence \notin spare'[q]
            BY <2>1 DEF StoredNotPooled
        <3>1. row[p].fence # fence[o] /\ row[p].fence \notin spare[q]
            BY <2>1 DEF TokenInv, CarriedNotStored, StoredNotPooled
        <3> QED
            BY <2>3, <3>1
    <2> QED
        BY <2>5, <2>6, <2>7, <2>8 DEF TokenInv
<1>7. CASE AcquireFails(o)
    <2>1. /\ UNCHANGED <<spare, counter, fence>> /\ st' = [st EXCEPT ![o] = "done"]
          /\ \/ UNCHANGED row
             \/ st[o] \in Carrying /\ row' = [row EXCEPT ![o] = Document(o)]
        BY <1>7 DEF AcquireFails, Goto, Carrying
    <2>2. st'[o] \notin Carrying /\ \A p \in Owners : p # o => st'[p] = st[p]
        BY <1>0, <2>1 DEF Carrying
    <2>3. CASE UNCHANGED row
        BY <2>1, <2>2, <2>3, TokensStay
    <2>4. CASE st[o] \in Carrying /\ row' = [row EXCEPT ![o] = Document(o)]
        BY <2>1, <2>2, <2>4, TokenIsStored
    <2> QED
        BY <2>1, <2>3, <2>4
<1> QED
    BY <1>1, <1>2, <1>3, <1>4, <1>5, <1>6, <1>7 DEF TryAcquire

(* Every step keeps each token in one place. *)
LEMMA TokenStep == TypeInv /\ TokenInv /\ [Next]_vars => TokenInv'
<1> SUFFICES ASSUME TypeInv, TokenInv, [Next]_vars PROVE TokenInv'
    OBVIOUS
<1>0. st \in [Owners -> Stages] /\ row \in [Owners -> [held : BOOLEAN, expires : Int, fence : Nat]]
    BY DEF TypeInv, TypeOK
<1>1. CASE UNCHANGED vars \/ Tick
    <2>1. UNCHANGED <<spare, counter, st, fence, row>>
        BY <1>1 DEF Tick, vars, store, exec
    <2> QED
        BY <2>1, TokensStay
<1>2. CASE Reap
    <2>1. PICK e \in Skews : row' = Without({p \in Owners : Reclaimable(p, now + e)})
        BY <1>2 DEF Reap
    <2>2. \A p \in Owners : row'[p].held => row[p].held /\ row'[p].fence = row[p].fence
        BY <2>1, WithoutTokens
    <2>3. UNCHANGED <<spare, counter, st, fence>>
        BY <1>2 DEF Reap, exec
    <2> QED
        BY <2>2, <2>3, TokensStay
<1>3. ASSUME NEW o \in Owners, Run(o) PROVE TokenInv'
    <2>1. UNCHANGED <<spare, counter, fence>>
        BY <1>3 DEF Run, Post, PostEnds, Settle, Release, Retain, LeaveToExpire, store
    <2>2. \A p \in Owners : st'[p] \in Carrying => st[p] \in Carrying
        BY <1>0, <1>3 DEF Run, Post, PostEnds, Settle, Release, Retain, LeaveToExpire, Goto, Carrying
    <2>3. \A p \in Owners : row'[p].held => row[p].held /\ row'[p].fence = row[p].fence
        <3>1. row' = row \/ row' = [row EXCEPT ![o] = NoRow]
            BY <1>3 DEF Run, Post, PostEnds, Settle, Release, Retain, LeaveToExpire, store
        <3> QED
            BY <1>0, <3>1 DEF NoRow
    <2> QED
        BY <2>1, <2>2, <2>3, TokensStay
<1>4. ASSUME NEW o \in Owners, Heartbeat(o) PROVE TokenInv'
    <2>1. UNCHANGED <<spare, counter, fence>>
        BY <1>4 DEF Heartbeat, BeatStart, RenewAtStore, RenewUnavailable, BeatOk, BeatFailed, store, exec
    <2>2. \A p \in Owners : st'[p] \in Carrying => st[p] \in Carrying
        BY <1>0, <1>4 DEF Heartbeat, BeatStart, RenewAtStore, RenewUnavailable, BeatOk, BeatFailed, exec,
                          Goto, Carrying
    <2>3. \A p \in Owners : row'[p].held => row[p].held /\ row'[p].fence = row[p].fence
        <3>1. row' = row \/ row' = RenewedRow(o)
            BY <1>4 DEF Heartbeat, BeatStart, RenewAtStore, RenewUnavailable, BeatOk, BeatFailed, store
        <3>2. \A p \in Owners : RenewedRow(o)[p].held = row[p].held
                                 /\ RenewedRow(o)[p].fence = row[p].fence
            BY <1>0, Zenon DEF RenewedRow
        <3> QED
            BY <3>1, <3>2
    <2> QED
        BY <2>1, <2>2, <2>3, TokensStay
<1> QED
    BY <1>1, <1>2, <1>3, <1>4, TokenAcquire DEF Next

(* A fencing token is issued to one lease at most, whoever acquires, loses, reclaims or     *)
(* gives up when, and also when an insert commits and its answer is lost: a token that      *)
(* might have been stored never returns to a pool (recycleFence, nextFence).                *)
THEOREM TokensAreUnique == Spec => []FenceIsUnique
<1>1. TypeInv /\ TokenInv => FenceIsUnique
    BY OwnersAssumption DEF TokenInv, StoredApart, StoredNotPooled, FenceIsUnique
<1> QED
    BY <1>1, TypeInit, TypeStep, TokenInit, TokenStep, PTL DEF Spec

-----------------------------------------------------------------------------
(* The two tiers chained (chained.ts, inProcess.ts, durable.ts). *)

Leases == [owner : ChainOwners \cup {"none"}, expiresAt : Nat, fence : Nat]

ChainShape ==
    /\ instant \in Nat \ {0}
    /\ localEntry \in [Homes -> [ChainKeys -> Leases]] /\ fenceSeq \in [Homes -> Nat]
    /\ leaseRow \in [ChainOwners -> Leases] /\ rowSeq \in Nat
    /\ fences \in [ChainOwners -> [local : Nat, durable : Nat]]
    /\ holder \in [ChainOwners -> Holders] /\ quoted \in [ChainOwners -> Nat]
    /\ seen \in [ChainOwners -> BOOLEAN] /\ renewal \in [ChainOwners -> {"none", "ok", "lost"}]
    /\ lostLease \in [ChainOwners -> BOOLEAN] /\ broken \in [ChainOwners -> BOOLEAN]
    /\ \A o \in ChainOwners : home[o] \in Homes

(* No contract is leased twice in the store. *)
RowsApart ==
    \A x, y \in ChainOwners :
        x # y /\ Current(leaseRow[x]) /\ Current(leaseRow[y]) => ChainWants[x] \cap ChainWants[y] = {}

(* What an owner has in the memory of its process: only contracts it wants, only while it  *)
(* runs, and under the fence it recorded.                                                  *)
LocalAgrees(o) ==
    \A k \in ChainKeys : Local(o, k).owner = o =>
        /\ k \in ChainWants[o]
        /\ fences[o].local \in {0, Local(o, k).fence}
        /\ holder[o] \in {"insert", "held", "verify", "local", "delete", "drop"}
        /\ holder[o] = "local" => quoted[o] = Local(o, k).fence

(* What it has in the store. *)
RowAgrees(o) ==
    /\ fences[o].durable \in {0, quoted[o]}
    /\ fences[o].durable \in {0, leaseRow[o].fence} \/ ~Current(leaseRow[o])
    /\ holder[o] \in {"unavailable", "local"} => broken[o] /\ fences[o] = NoFence
    /\ holder[o] \notin {"held", "verify", "delete"} => broken[o] \/ ~Current(leaseRow[o])

(* The inductive invariant of the chain. *)
ChainInv == ChainShape /\ RowsApart /\ \A o \in ChainOwners : LocalAgrees(o) /\ RowAgrees(o)

(* The shapes of the entries and rows the steps read. *)
LEMMA EntryTypes ==
    ASSUME ChainShape, NEW o \in ChainOwners
    PROVE  /\ home[o] \in Homes /\ ChainWants[o] \subseteq ChainKeys
           /\ \A k \in ChainKeys : Local(o, k) \in Leases
           /\ leaseRow[o] \in Leases /\ NoEntry \in Leases /\ NoEntry.owner # o
           /\ ~Current(NoEntry) /\ NoFence \in [local : Nat, durable : Nat]
<1>1. home[o] \in Homes /\ ChainWants[o] \subseteq ChainKeys  BY DEF ChainShape, ChainKeys
<1>2. \A k \in ChainKeys : Local(o, k) \in Leases  BY <1>1 DEF ChainShape, Local
<1>3. NoEntry \in Leases /\ NoEntry.owner # o /\ NoEntry.expiresAt = 0
  BY ChainAssumption DEF Leases, NoEntry
<1>4. ~Current(NoEntry)  BY <1>3 DEF Current, ChainShape
<1>. QED  BY <1>1, <1>2, <1>3, <1>4 DEF ChainShape, NoFence

(* Writing an owner's entries writes the contracts it wants, in its own process. *)
LEMMA SetWrites ==
    ASSUME ChainShape, UNCHANGED home, NEW a \in ChainOwners, NEW e \in Leases, SetEntries(a, e)
    PROVE  /\ localEntry' \in [Homes -> [ChainKeys -> Leases]]
           /\ \A o \in ChainOwners : \A k \in ChainKeys :
                 Local(o, k)' = IF home[o] = home[a] /\ k \in ChainWants[a] THEN e ELSE Local(o, k)
<1>1. home[a] \in Homes  BY EntryTypes
<1>2. localEntry \in [Homes -> [ChainKeys -> Leases]]  BY DEF ChainShape
<1>3. PICK table : table = [k \in ChainKeys |-> IF k \in ChainWants[a] THEN e ELSE localEntry[home[a]][k]]
  OBVIOUS
<1>4. table \in [ChainKeys -> Leases]  BY <1>1, <1>2, <1>3
<1>5. localEntry' = [localEntry EXCEPT ![home[a]] = table]  BY <1>3, Zenon DEF SetEntries
<1>6. localEntry' \in [Homes -> [ChainKeys -> Leases]]  BY <1>1, <1>2, <1>4, <1>5
<1>7. ASSUME NEW o \in ChainOwners, NEW k \in ChainKeys
      PROVE  Local(o, k)' = IF home[o] = home[a] /\ k \in ChainWants[a] THEN e ELSE Local(o, k)
  <2>1. home[o] \in Homes /\ home' = home  BY EntryTypes
  <2>2. localEntry'[home[o]] = IF home[o] = home[a] THEN table ELSE localEntry[home[o]]
    BY <1>1, <1>2, <1>5, <2>1
  <2>. QED  BY <1>3, <2>1, <2>2 DEF Local
<1>. QED  BY <1>6, <1>7

(* Releasing an owner's entries clears those it holds, in its own process. *)
LEMMA ReleaseWrites ==
    ASSUME ChainShape, UNCHANGED home, NEW a \in ChainOwners, releaseLocal(a, 0)
    PROVE  /\ localEntry' \in [Homes -> [ChainKeys -> Leases]]
           /\ \A o \in ChainOwners : \A k \in ChainKeys :
                 Local(o, k)' = IF home[o] = home[a] /\ k \in ChainWants[a] /\ Local(o, k).owner = a
                                  THEN NoEntry ELSE Local(o, k)
<1>1. home[a] \in Homes /\ NoEntry \in Leases  BY EntryTypes
<1>2. localEntry \in [Homes -> [ChainKeys -> Leases]]  BY DEF ChainShape
<1>3. PICK table : table = [k \in ChainKeys |->
          IF k \in ChainWants[a] /\ localEntry[home[a]][k].owner = a THEN NoEntry ELSE localEntry[home[a]][k]]
  OBVIOUS
<1>4. table \in [ChainKeys -> Leases]  BY <1>1, <1>2, <1>3
<1>5. localEntry' = [localEntry EXCEPT ![home[a]] = table]  BY <1>3, Zenon DEF releaseLocal
<1>6. localEntry' \in [Homes -> [ChainKeys -> Leases]]  BY <1>1, <1>2, <1>4, <1>5
<1>7. ASSUME NEW o \in ChainOwners, NEW k \in ChainKeys
      PROVE  Local(o, k)' = IF home[o] = home[a] /\ k \in ChainWants[a] /\ Local(o, k).owner = a
                              THEN NoEntry ELSE Local(o, k)
  <2>1. home[o] \in Homes /\ home' = home  BY EntryTypes
  <2>2. localEntry'[home[o]] = IF home[o] = home[a] THEN table ELSE localEntry[home[o]]
    BY <1>1, <1>2, <1>5, <2>1
  <2>. QED  BY <1>3, <2>1, <2>2 DEF Local
<1>. QED  BY <1>6, <1>7

(* What a step of one owner leaves the others. *)
Alone(a) ==
    /\ instant' = instant /\ home' = home
    /\ \A o \in ChainOwners \ {a} :
         /\ holder'[o] = holder[o] /\ fences'[o] = fences[o] /\ quoted'[o] = quoted[o] /\ broken'[o] = broken[o]
         /\ \A k \in ChainKeys : Local(o, k)'.owner = o => Local(o, k)' = Local(o, k)
         /\ leaseRow'[o] = leaseRow[o] \/ ~Current(leaseRow[o])'

(* The others keep what they have in both tiers. *)
LEMMA OthersKeep ==
    ASSUME ChainInv, NEW a \in ChainOwners, Alone(a), NEW o \in ChainOwners, o # a
    PROVE  LocalAgrees(o)' /\ RowAgrees(o)'
<1>1. LocalAgrees(o)'  BY DEF ChainInv, Alone, LocalAgrees
<1>2. RowAgrees(o)'
  <2>1. /\ holder'[o] = holder[o] /\ fences'[o] = fences[o] /\ quoted'[o] = quoted[o] /\ broken'[o] = broken[o]
        /\ leaseRow'[o] = leaseRow[o] \/ ~Current(leaseRow[o])'
        /\ instant' = instant
    BY DEF Alone
  <2>. QED  BY <2>1 DEF ChainInv, RowAgrees, Current
<1>. QED  BY <1>1, <1>2

(* A step of one owner that leaves the store alone. *)
LEMMA RowsStay ==
    ASSUME ChainInv, UNCHANGED <<instant, leaseRow>> PROVE RowsApart'
BY DEF ChainInv, RowsApart, Current

(* A step of one owner keeps the invariant when it keeps what the owner has. *)
LEMMA OwnStep ==
    ASSUME ChainInv, NEW a \in ChainOwners, Alone(a), ChainShape', RowsApart', LocalAgrees(a)', RowAgrees(a)'
    PROVE  ChainInv'
BY OthersKeep DEF ChainInv

(* An acquisition takes the contracts in memory, or waits with none. *)
LEMMA AcquireStartsKeeps == ASSUME ChainInv, NEW a \in ChainOwners, AcquireStarts(a) PROVE ChainInv'
<1>0. ChainShape /\ LocalAgrees(a) /\ RowAgrees(a)  BY DEF ChainInv
<1>1. /\ holder[a] \in {"idle", "waiting"} /\ home[a] \in Homes
      /\ UNCHANGED <<home, instant, leaseRow, rowSeq, quoted, seen, renewal, lostLease, broken>>
  BY <1>0, EntryTypes DEF AcquireStarts, TierWorks
<1>2. \A k \in ChainKeys : Local(a, k).owner # a  BY <1>0, <1>1 DEF LocalAgrees
<1>3. broken[a] \/ ~Current(leaseRow[a])  BY <1>0, <1>1 DEF RowAgrees
<1>4. RowsApart'  BY <1>1, RowsStay
<1>5. CASE localConflict(a)
  <2>1. Moves(a, "waiting") /\ Forget(a) /\ UNCHANGED <<localEntry, fenceSeq>>  BY <1>5 DEF AcquireStarts
  <2>2. holder'[a] = "waiting" /\ fences'[a] = NoFence  BY <1>0, <2>1 DEF Moves, Forget, ChainShape
  <2>3. ChainShape'
    BY <1>0, <1>1, <2>1, EntryTypes DEF ChainShape, Moves, Forget, Holders
  <2>4. Alone(a)  BY <1>0, <1>1, <2>1 DEF Alone, Local, Moves, Forget, ChainShape
  <2>5. LocalAgrees(a)'  BY <1>1, <1>2, <2>1 DEF LocalAgrees, Local
  <2>6. RowAgrees(a)'  BY <1>1, <1>3, <2>2 DEF RowAgrees, NoFence, Current
  <2>. QED  BY <1>4, <2>3, <2>4, <2>5, <2>6, OwnStep
<1>6. CASE ~localConflict(a)
  <2>1. PICK issued : issued = fenceSeq[home[a]] + 1  OBVIOUS
  <2>2. issued \in Nat  BY <1>0, <1>1, <2>1 DEF ChainShape
  <2>3. PICK e : e = [owner |-> a, expiresAt |-> instant + ChainTtl, fence |-> issued]  OBVIOUS
  <2>4. e \in Leases /\ e.owner = a /\ e.fence = issued
    BY <1>0, <2>2, <2>3, ChainAssumption DEF Leases, ChainShape
  <2>5. PICK f : f = [local |-> issued, durable |-> 0]  OBVIOUS
  <2>6. f \in [local : Nat, durable : Nat] /\ f.local = issued /\ f.durable = 0  BY <2>2, <2>5
  <2>7. /\ Moves(a, "insert") /\ fenceSeq' = [fenceSeq EXCEPT ![home[a]] = issued]
        /\ fences' = [fences EXCEPT ![a] = f] /\ SetEntries(a, e)
    BY <1>6, <2>1, <2>3, <2>5, Zenon DEF AcquireStarts
  <2>8. holder'[a] = "insert" /\ fences'[a] = f  BY <1>0, <2>7 DEF Moves, ChainShape
  <2>9. /\ localEntry' \in [Homes -> [ChainKeys -> Leases]]
        /\ \A o \in ChainOwners : \A k \in ChainKeys :
              Local(o, k)' = IF home[o] = home[a] /\ k \in ChainWants[a] THEN e ELSE Local(o, k)
    BY <1>0, <1>1, <2>4, <2>7, SetWrites
  <2>10. ChainShape'
    BY <1>0, <1>1, <2>2, <2>6, <2>7, <2>9 DEF ChainShape, Moves, Holders
  <2>11. Alone(a)  BY <1>0, <1>1, <2>4, <2>7, <2>9 DEF Alone, Moves, ChainShape
  <2>12. LocalAgrees(a)'  BY <1>2, <2>4, <2>6, <2>8, <2>9 DEF LocalAgrees
  <2>13. RowAgrees(a)'  BY <1>1, <1>3, <2>6, <2>8 DEF RowAgrees, Current
  <2>. QED  BY <1>4, <2>10, <2>11, <2>12, <2>13, OwnStep
<1>. QED  BY <1>5, <1>6

(* The rows an insert writes: its own, and none that shares a contract with it. *)
LEMMA InsertWrites ==
    ASSUME ChainInv, NEW a \in ChainOwners, UNCHANGED instant, ~rowConflict(a), InsertRow(a)
    PROVE  /\ leaseRow' \in [ChainOwners -> Leases] /\ leaseRow'[a].fence = rowSeq + 1
           /\ \A o \in ChainOwners \ {a} : leaseRow'[o] = leaseRow[o] \/ ~Current(leaseRow[o])'
           /\ RowsApart'
<1>0. ChainShape /\ instant \in Nat  BY DEF ChainInv, ChainShape
<1>1. PICK e : e = [owner |-> a, expiresAt |-> instant + ChainTtl, fence |-> rowSeq + 1]  OBVIOUS
<1>2. e \in Leases /\ e.fence = rowSeq + 1  BY <1>0, <1>1, ChainAssumption DEF Leases, ChainShape
<1>3. leaseRow' = [x \in ChainOwners |-> IF x = a THEN e
                     ELSE IF ChainWants[x] \cap ChainWants[a] # {} THEN NoEntry ELSE leaseRow[x]]
  BY <1>1, Zenon DEF InsertRow
<1>4. NoEntry \in Leases /\ ~Current(NoEntry)  BY <1>0, EntryTypes
<1>5. leaseRow' \in [ChainOwners -> Leases] /\ leaseRow'[a] = e  BY <1>0, <1>2, <1>3, <1>4 DEF ChainShape
<1>6. \A o \in ChainOwners \ {a} :
         /\ leaseRow'[o] = leaseRow[o] \/ ~Current(leaseRow[o])'
         /\ Current(leaseRow[o])' => Current(leaseRow[o]) /\ ChainWants[o] \cap ChainWants[a] = {}
  <2>1. TAKE o \in ChainOwners \ {a}
  <2>2. CASE ChainWants[o] \cap ChainWants[a] # {}
    <3>1. leaseRow'[o] = NoEntry  BY <1>3, <2>2
    <3>. QED  BY <1>4, <3>1 DEF Current
  <2>3. CASE ChainWants[o] \cap ChainWants[a] = {}
    <3>1. leaseRow'[o] = leaseRow[o]  BY <1>3, <2>3
    <3>. QED  BY <2>3, <3>1 DEF Current
  <2>. QED  BY <2>2, <2>3
<1>7. RowsApart'
  <2>. SUFFICES ASSUME NEW x \in ChainOwners, NEW y \in ChainOwners, x # y,
                       Current(leaseRow[x])', Current(leaseRow[y])'
                PROVE  ChainWants[x] \cap ChainWants[y] = {}
    BY DEF RowsApart
  <2>1. CASE x # a /\ y # a
    <3>1. Current(leaseRow[x]) /\ Current(leaseRow[y])  BY <1>6, <2>1
    <3>. QED  BY <3>1 DEF ChainInv, RowsApart
  <2>2. CASE x = a  BY <1>6, <2>2
  <2>3. CASE y = a  BY <1>6, <2>3
  <2>. QED  BY <2>1, <2>2, <2>3
<1>. QED  BY <1>2, <1>5, <1>6, <1>7

(* The insert grants a new row, or the one an earlier attempt of the owner left behind. *)
LEMMA InsertLandsKeeps == ASSUME ChainInv, NEW a \in ChainOwners, InsertLands(a) PROVE ChainInv'
<1>0. ChainShape /\ LocalAgrees(a) /\ RowAgrees(a)  BY DEF ChainInv
<1>1. /\ holder[a] = "insert" /\ ~rowConflict(a) /\ rowSeq' = rowSeq + 1
      /\ UNCHANGED <<home, instant, localEntry, fenceSeq, seen, renewal, lostLease, acquires, broken>>
  BY DEF InsertLands, TierWorks
<1>2. PICK g \in Nat :
        /\ Grant(a, g) /\ leaseRow' \in [ChainOwners -> Leases] /\ g = leaseRow'[a].fence
        /\ \A o \in ChainOwners \ {a} : leaseRow'[o] = leaseRow[o] \/ ~Current(leaseRow[o])'
        /\ RowsApart'
  <2>1. CASE Current(leaseRow[a])
    <3>1. Grant(a, leaseRow[a].fence) /\ UNCHANGED leaseRow  BY <2>1 DEF InsertLands
    <3>2. leaseRow[a].fence \in Nat  BY <1>0, EntryTypes DEF Leases
    <3>3. RowsApart'  BY <1>1, <3>1, RowsStay
    <3>. QED  BY <1>0, <3>1, <3>2, <3>3 DEF ChainShape
  <2>2. CASE ~Current(leaseRow[a])
    <3>1. Grant(a, rowSeq + 1) /\ InsertRow(a)  BY <2>2 DEF InsertLands
    <3>2. rowSeq + 1 \in Nat  BY <1>0 DEF ChainShape
    <3>. QED  BY <1>1, <3>1, <3>2, InsertWrites
  <2>. QED  BY <2>1, <2>2
<1>3. fences[a] \in [local : Nat, durable : Nat]  BY <1>0 DEF ChainShape
<1>4. PICK f : f = [fences[a] EXCEPT !.durable = g]  OBVIOUS
<1>5. f \in [local : Nat, durable : Nat] /\ f.durable = g /\ f.local = fences[a].local
  BY <1>3, <1>4, Zenon
<1>6. fences' = [fences EXCEPT ![a] = f] /\ quoted' = [quoted EXCEPT ![a] = g] /\ Moves(a, "held")
  BY <1>2, <1>4, Zenon DEF Grant
<1>7. holder'[a] = "held" /\ fences'[a] = f /\ quoted'[a] = g  BY <1>0, <1>6 DEF ChainShape, Moves
<1>8. ChainShape'
  BY <1>0, <1>1, <1>2, <1>5, <1>6 DEF ChainShape, Moves, Holders
<1>9. Alone(a)  BY <1>0, <1>1, <1>2, <1>6 DEF Alone, Local, Moves, ChainShape
<1>10. LocalAgrees(a)'  BY <1>0, <1>1, <1>5, <1>7 DEF LocalAgrees, Local
<1>11. RowAgrees(a)'  BY <1>0, <1>1, <1>2, <1>5, <1>7 DEF RowAgrees
<1>. QED  BY <1>2, <1>8, <1>9, <1>10, <1>11, OwnStep

(* An owner that gives back what it has in memory and forgets its fences. *)
LEMMA RolledBack ==
    ASSUME ChainInv, NEW a \in ChainOwners, UNCHANGED <<home, instant>>, releaseLocal(a, 0), Forget(a),
           \A o \in ChainOwners \ {a} :
             /\ holder'[o] = holder[o] /\ quoted'[o] = quoted[o] /\ broken'[o] = broken[o]
             /\ leaseRow'[o] = leaseRow[o] \/ ~Current(leaseRow[o])'
    PROVE  /\ localEntry' \in [Homes -> [ChainKeys -> Leases]]
           /\ fences' \in [ChainOwners -> [local : Nat, durable : Nat]] /\ fences'[a] = NoFence
           /\ Alone(a) /\ LocalAgrees(a)'
<1>0. ChainShape /\ LocalAgrees(a)  BY DEF ChainInv
<1>1. NoEntry.owner # a /\ NoFence \in [local : Nat, durable : Nat]  BY <1>0, EntryTypes
<1>2. /\ localEntry' \in [Homes -> [ChainKeys -> Leases]]
      /\ \A o \in ChainOwners : \A k \in ChainKeys :
            Local(o, k)' = IF home[o] = home[a] /\ k \in ChainWants[a] /\ Local(o, k).owner = a
                             THEN NoEntry ELSE Local(o, k)
  BY <1>0, ReleaseWrites
<1>3. \A o \in ChainOwners : NoEntry.owner # o  BY <1>0, EntryTypes
<1>4. fences' = [fences EXCEPT ![a] = NoFence]  BY DEF Forget
<1>5. Alone(a)  BY <1>0, <1>2, <1>3, <1>4 DEF Alone, ChainShape
<1>6. \A k \in ChainKeys : Local(a, k)'.owner # a  BY <1>0, <1>1, <1>2 DEF LocalAgrees
<1>7. LocalAgrees(a)'  BY <1>6 DEF LocalAgrees
<1>. QED  BY <1>0, <1>1, <1>2, <1>4, <1>5, <1>7 DEF ChainShape

(* The store refuses the contracts: what the first tier granted is rolled back. *)
LEMMA InsertRefusedKeeps == ASSUME ChainInv, NEW a \in ChainOwners, InsertRefused(a) PROVE ChainInv'
<1>0. ChainShape /\ LocalAgrees(a) /\ RowAgrees(a) /\ RowsApart  BY DEF ChainInv
<1>1. /\ holder[a] = "insert" /\ rowConflict(a) /\ Moves(a, "waiting") /\ releaseLocal(a, 0) /\ Forget(a)
      /\ UNCHANGED <<home, instant, fenceSeq, leaseRow, rowSeq, quoted, seen, renewal, lostLease, broken>>
  BY DEF InsertRefused, TierWorks, rollback
<1>2. holder' \in [ChainOwners -> Holders] /\ holder'[a] = "waiting"
      /\ \A o \in ChainOwners \ {a} : holder'[o] = holder[o]
  BY <1>0, <1>1 DEF ChainShape, Moves, Holders
<1>3. /\ localEntry' \in [Homes -> [ChainKeys -> Leases]]
      /\ fences' \in [ChainOwners -> [local : Nat, durable : Nat]] /\ fences'[a] = NoFence
      /\ Alone(a) /\ LocalAgrees(a)'
  BY <1>1, <1>2, RolledBack
<1>4. ChainShape'  BY <1>0, <1>1, <1>2, <1>3 DEF ChainShape
<1>5. RowsApart'  BY <1>1, RowsStay
<1>6. broken[a] \/ ~Current(leaseRow[a])  BY <1>0, <1>1 DEF RowAgrees
<1>7. RowAgrees(a)'  BY <1>1, <1>2, <1>3, <1>6 DEF RowAgrees, NoFence, Current
<1>. QED  BY <1>3, <1>4, <1>5, <1>7, OwnStep

(* The insert is lost; the row may have been written. *)
LEMMA InsertThrowsKeeps == ASSUME ChainInv, NEW a \in ChainOwners, InsertThrows(a) PROVE ChainInv'
<1>0. ChainShape /\ LocalAgrees(a) /\ RowAgrees(a) /\ RowsApart  BY DEF ChainInv
<1>1. /\ holder[a] = "insert" /\ TierThrows(a) /\ Moves(a, "unavailable") /\ releaseLocal(a, 0) /\ Forget(a)
      /\ UNCHANGED <<home, instant, fenceSeq, quoted, seen, renewal, lostLease>>
  BY DEF InsertThrows, rollback
<1>2. /\ leaseRow' \in [ChainOwners -> Leases] /\ rowSeq' \in Nat
      /\ \A o \in ChainOwners \ {a} : leaseRow'[o] = leaseRow[o] \/ ~Current(leaseRow[o])'
      /\ RowsApart'
  <2>1. CASE UNCHANGED <<leaseRow, rowSeq>>
    <3>1. RowsApart'  BY <1>1, <2>1, RowsStay
    <3>. QED  BY <1>0, <2>1, <3>1 DEF ChainShape
  <2>2. CASE ~rowConflict(a) /\ InsertRow(a) /\ rowSeq' = rowSeq + 1
    <3>1. rowSeq' \in Nat  BY <1>0, <2>2 DEF ChainShape
    <3>. QED  BY <1>1, <2>2, <3>1, InsertWrites
  <2>. QED  BY <2>1, <2>2 DEF InsertThrows
<1>3. /\ holder' \in [ChainOwners -> Holders] /\ holder'[a] = "unavailable"
      /\ broken' \in [ChainOwners -> BOOLEAN] /\ broken'[a]
      /\ \A o \in ChainOwners \ {a} : holder'[o] = holder[o] /\ broken'[o] = broken[o]
  BY <1>0, <1>1 DEF ChainShape, Moves, Holders, TierThrows
<1>4. /\ localEntry' \in [Homes -> [ChainKeys -> Leases]]
      /\ fences' \in [ChainOwners -> [local : Nat, durable : Nat]] /\ fences'[a] = NoFence
      /\ Alone(a) /\ LocalAgrees(a)'
  BY <1>1, <1>2, <1>3, RolledBack
<1>5. ChainShape'  BY <1>0, <1>1, <1>2, <1>3, <1>4 DEF ChainShape
<1>6. RowAgrees(a)'  BY <1>1, <1>3, <1>4 DEF RowAgrees, NoFence
<1>. QED  BY <1>2, <1>4, <1>5, <1>6, OwnStep

(* A step of one owner that moves only its own bookkeeping. *)
LEMMA OwnMove ==
    ASSUME ChainInv, NEW a \in ChainOwners, NEW to \in Holders, Moves(a, to),
           UNCHANGED <<home, instant, localEntry, leaseRow, fences, quoted, broken>>
    PROVE  /\ holder' \in [ChainOwners -> Holders] /\ holder'[a] = to /\ Alone(a) /\ RowsApart'
           /\ (\A k \in ChainKeys : Local(a, k).owner = a =>
                 /\ to \in {"insert", "held", "verify", "local", "delete", "drop"}
                 /\ to = "local" => quoted[a] = Local(a, k).fence) => LocalAgrees(a)'
           /\ /\ to \in {"unavailable", "local"} => broken[a] /\ fences[a] = NoFence
              /\ to \notin {"held", "verify", "delete"} => broken[a] \/ ~Current(leaseRow[a])
              => RowAgrees(a)'
<1>0. ChainShape /\ LocalAgrees(a) /\ RowAgrees(a)  BY DEF ChainInv
<1>1. holder' \in [ChainOwners -> Holders] /\ holder'[a] = to
      /\ \A o \in ChainOwners \ {a} : holder'[o] = holder[o]
  BY <1>0 DEF ChainShape, Moves
<1>2. Alone(a)  BY <1>1 DEF Alone, Local
<1>3. RowsApart'  BY RowsStay
<1>4. \A k \in ChainKeys : Local(a, k)' = Local(a, k)  BY DEF Local
<1>5. Current(leaseRow[a])' <=> Current(leaseRow[a])  BY DEF Current
<1>6. (\A k \in ChainKeys : Local(a, k).owner = a =>
         /\ to \in {"insert", "held", "verify", "local", "delete", "drop"}
         /\ to = "local" => quoted[a] = Local(a, k).fence) => LocalAgrees(a)'
  BY <1>0, <1>1, <1>4 DEF LocalAgrees
<1>7. /\ to \in {"unavailable", "local"} => broken[a] /\ fences[a] = NoFence
      /\ to \notin {"held", "verify", "delete"} => broken[a] \/ ~Current(leaseRow[a])
      => RowAgrees(a)'
  BY <1>0, <1>1, <1>5 DEF RowAgrees
<1>. QED  BY <1>1, <1>2, <1>3, <1>6, <1>7

(* Moves that leave both tiers alone: a refusal, a give-up, the start of a verification or *)
(* of a release, whose answers are read before the next await.                             *)
LEMMA OwnerMovesKeep ==
    ASSUME ChainInv, NEW a \in ChainOwners,
           FailsClosed(a) \/ GivesUp(a) \/ VerifyStarts(a) \/ VerifyLands(a) \/ ReleaseStarts(a)
    PROVE  ChainInv'
<1>0. ChainShape /\ LocalAgrees(a) /\ RowAgrees(a)  BY DEF ChainInv
<1>1. /\ UNCHANGED <<home, instant, localEntry, fenceSeq, leaseRow, rowSeq, fences, quoted, broken, renewal>>
      /\ seen' \in [ChainOwners -> BOOLEAN] /\ lostLease' \in [ChainOwners -> BOOLEAN]
  <2>1. ownsLocally(a, retarget(a, "local")) \in BOOLEAN  BY DEF ownsLocally
  <2>2. ownsRow(a, retarget(a, "durable")) \in BOOLEAN  BY DEF ownsRow, Current
  <2>3. seen \in [ChainOwners -> BOOLEAN] /\ lostLease \in [ChainOwners -> BOOLEAN]
    BY <1>0 DEF ChainShape
  <2>4. seen' \in [ChainOwners -> BOOLEAN] /\ lostLease' \in [ChainOwners -> BOOLEAN]
    BY <2>1, <2>2, <2>3, Zenon DEF FailsClosed, GivesUp, VerifyStarts, VerifyLands, ReleaseStarts
  <2>. QED  BY <2>4 DEF FailsClosed, GivesUp, VerifyStarts, VerifyLands, ReleaseStarts, TierWorks
<1>2. ~authorityFenceMismatch(a)  BY <1>0 DEF RowAgrees, authorityFenceMismatch
<1>3. PICK to \in Holders :
        /\ Moves(a, to)
        /\ \/ holder[a] \in {"unavailable", "waiting"} /\ to = "done"
           \/ holder[a] \in {"held", "verify", "local"} /\ to \in {"held", "verify", "delete"}
  BY <1>2 DEF FailsClosed, GivesUp, VerifyStarts, VerifyLands, ReleaseStarts, Holders
<1>4. \A k \in ChainKeys : Local(a, k).owner = a => to # "done"  BY <1>0, <1>3 DEF LocalAgrees
<1>5. to = "done" => broken[a] \/ ~Current(leaseRow[a])  BY <1>0, <1>3 DEF RowAgrees
<1>6. holder' \in [ChainOwners -> Holders] /\ Alone(a) /\ RowsApart' /\ LocalAgrees(a)' /\ RowAgrees(a)'
  BY <1>1, <1>3, <1>4, <1>5, OwnMove
<1>7. ChainShape'  BY <1>0, <1>1, <1>6 DEF ChainShape
<1>. QED  BY <1>6, <1>7, OwnStep

(* An owner's new entries in memory: its own, under the fence it recorded. *)
LEMMA OwnEntries ==
    ASSUME ChainInv, NEW a \in ChainOwners, NEW e \in Leases, e.owner = a, SetEntries(a, e),
           UNCHANGED <<home, instant, leaseRow, fences, broken>>,
           \A o \in ChainOwners \ {a} : holder'[o] = holder[o] /\ quoted'[o] = quoted[o],
           holder'[a] \in {"insert", "held", "verify", "local", "delete", "drop"},
           \A k \in ChainKeys : k \in ChainWants[a] =>
              fences[a].local \in {0, e.fence} /\ (holder'[a] = "local" => quoted'[a] = e.fence)
    PROVE  /\ localEntry' \in [Homes -> [ChainKeys -> Leases]]
           /\ Alone(a) /\ RowsApart' /\ LocalAgrees(a)'
<1>0. ChainShape /\ LocalAgrees(a)  BY DEF ChainInv
<1>1. /\ localEntry' \in [Homes -> [ChainKeys -> Leases]]
      /\ \A o \in ChainOwners : \A k \in ChainKeys :
            Local(o, k)' = IF home[o] = home[a] /\ k \in ChainWants[a] THEN e ELSE Local(o, k)
  BY <1>0, SetWrites
<1>2. Alone(a)  BY <1>1 DEF Alone
<1>3. RowsApart'  BY RowsStay
<1>4. ASSUME NEW k \in ChainKeys, Local(a, k)'.owner = a
      PROVE  /\ k \in ChainWants[a]
             /\ fences'[a].local \in {0, Local(a, k)'.fence}
             /\ holder'[a] = "local" => quoted'[a] = Local(a, k)'.fence
  <2>1. CASE k \in ChainWants[a]
    <3>1. Local(a, k)' = e  BY <1>1, <2>1
    <3>. QED  BY <2>1, <3>1
  <2>2. CASE k \notin ChainWants[a]
    <3>1. Local(a, k)' = Local(a, k)  BY <1>1, <2>2
    <3>. QED  BY <1>0, <1>4, <2>2, <3>1 DEF LocalAgrees
  <2>. QED  BY <2>1, <2>2
<1>5. LocalAgrees(a)'  BY <1>4 DEF LocalAgrees
<1>. QED  BY <1>1, <1>2, <1>3, <1>5

(* A paper entry falls back to a lease of its own process, or waits. *)
LEMMA FallsBackKeeps == ASSUME ChainInv, NEW a \in ChainOwners, FallsBack(a) PROVE ChainInv'
<1>0. ChainShape /\ LocalAgrees(a) /\ RowAgrees(a)  BY DEF ChainInv
<1>1. /\ holder[a] = "unavailable"
      /\ UNCHANGED <<home, instant, leaseRow, rowSeq, fences, seen, renewal, lostLease, broken>>
  BY DEF FallsBack, TierWorks
<1>2. broken[a] /\ fences[a] = NoFence /\ \A k \in ChainKeys : Local(a, k).owner # a
  BY <1>0, <1>1 DEF LocalAgrees, RowAgrees
<1>3. CASE localConflict(a)
  <2>1. Moves(a, "waiting") /\ UNCHANGED <<localEntry, fenceSeq, quoted>>  BY <1>3 DEF FallsBack
  <2>2. "waiting" \in Holders  BY DEF Holders
  <2>3. holder' \in [ChainOwners -> Holders] /\ Alone(a) /\ RowsApart' /\ LocalAgrees(a)' /\ RowAgrees(a)'
    BY <1>1, <1>2, <2>1, <2>2, OwnMove
  <2>4. ChainShape'  BY <1>0, <1>1, <2>1, <2>3 DEF ChainShape
  <2>. QED  BY <2>3, <2>4, OwnStep
<1>4. CASE ~localConflict(a)
  <2>0. home[a] \in Homes  BY <1>0, EntryTypes
  <2>1. PICK issued : issued = fenceSeq[home[a]] + 1  OBVIOUS
  <2>2. issued \in Nat  BY <1>0, <2>0, <2>1 DEF ChainShape
  <2>3. PICK e : e = [owner |-> a, expiresAt |-> instant + ChainTtl, fence |-> issued]  OBVIOUS
  <2>4. e \in Leases /\ e.owner = a /\ e.fence = issued
    BY <1>0, <2>2, <2>3, ChainAssumption DEF Leases, ChainShape
  <2>5. /\ Moves(a, "local") /\ fenceSeq' = [fenceSeq EXCEPT ![home[a]] = issued]
        /\ quoted' = [quoted EXCEPT ![a] = issued] /\ SetEntries(a, e)
    BY <1>4, <2>1, <2>3, Zenon DEF FallsBack
  <2>6. /\ holder' \in [ChainOwners -> Holders] /\ holder'[a] = "local"
        /\ quoted' \in [ChainOwners -> Nat] /\ quoted'[a] = issued
        /\ \A o \in ChainOwners \ {a} : holder'[o] = holder[o] /\ quoted'[o] = quoted[o]
    BY <1>0, <2>2, <2>5 DEF ChainShape, Moves, Holders
  <2>7. fences[a].local = 0 /\ fences[a].durable = 0  BY <1>2 DEF NoFence
  <2>8. /\ localEntry' \in [Homes -> [ChainKeys -> Leases]]
        /\ Alone(a) /\ RowsApart' /\ LocalAgrees(a)'
    BY <1>1, <2>4, <2>5, <2>6, <2>7, OwnEntries
  <2>9. ChainShape'  BY <1>0, <1>1, <2>0, <2>2, <2>5, <2>6, <2>8 DEF ChainShape
  <2>10. RowAgrees(a)'  BY <1>1, <1>2, <2>6, <2>7 DEF RowAgrees
  <2>. QED  BY <2>8, <2>9, <2>10, OwnStep
<1>. QED  BY <1>3, <1>4

(* A lease of the process alone is renewed there, or found lost. *)
LEMMA RenewLocallyKeeps == ASSUME ChainInv, NEW a \in ChainOwners, RenewLocally(a) PROVE ChainInv'
<1>0. ChainShape /\ LocalAgrees(a) /\ RowAgrees(a)  BY DEF ChainInv
<1>1. /\ holder[a] = "local"
      /\ UNCHANGED <<home, instant, fenceSeq, leaseRow, rowSeq, fences, holder, quoted, seen, renewal, broken>>
  BY DEF RenewLocally, TierWorks
<1>2. broken[a] /\ fences[a] = NoFence  BY <1>0, <1>1 DEF RowAgrees
<1>3. RowAgrees(a)'  BY <1>0, <1>1 DEF RowAgrees, Current
<1>4. CASE UNCHANGED localEntry /\ lostLease' = [lostLease EXCEPT ![a] = TRUE]
  <2>1. Alone(a) /\ LocalAgrees(a)'  BY <1>0, <1>1, <1>4 DEF Alone, Local, LocalAgrees
  <2>2. ChainShape'  BY <1>0, <1>1, <1>4 DEF ChainShape
  <2>. QED  BY <1>1, <1>3, <2>1, <2>2, RowsStay, OwnStep
<1>5. CASE UNCHANGED lostLease
           /\ SetEntries(a, [owner |-> a, expiresAt |-> instant + ChainTtl, fence |-> quoted[a]])
  <2>1. PICK e : e = [owner |-> a, expiresAt |-> instant + ChainTtl, fence |-> quoted[a]]  OBVIOUS
  <2>2. e \in Leases /\ e.owner = a /\ e.fence = quoted[a]
    BY <1>0, <2>1, ChainAssumption DEF Leases, ChainShape
  <2>3. SetEntries(a, e)  BY <1>5, <2>1, Zenon
  <2>4. fences[a].local = 0  BY <1>2 DEF NoFence
  <2>5. /\ localEntry' \in [Homes -> [ChainKeys -> Leases]]
        /\ Alone(a) /\ RowsApart' /\ LocalAgrees(a)'
    BY <1>1, <2>2, <2>3, <2>4, OwnEntries
  <2>6. ChainShape'  BY <1>0, <1>1, <1>5, <2>5 DEF ChainShape
  <2>. QED  BY <1>3, <2>5, <2>6, OwnStep
<1>. QED  BY <1>4, <1>5 DEF RenewLocally

(* The heartbeat renews in memory: whatever it writes, it writes what the owner held. *)
LEMMA RenewStartsKeeps == ASSUME ChainInv, NEW a \in ChainOwners, RenewStarts(a) PROVE ChainInv'
<1>0. ChainShape /\ LocalAgrees(a) /\ RowAgrees(a)  BY DEF ChainInv
<1>1. /\ holder[a] \in {"held", "verify"}
      /\ UNCHANGED <<home, instant, fenceSeq, leaseRow, rowSeq, fences, holder, quoted, seen, lostLease, broken>>
      /\ renewal' \in [ChainOwners -> {"none", "ok", "lost"}]
  BY <1>0 DEF RenewStarts, TierWorks, ChainShape
<1>2. RowAgrees(a)'  BY <1>0, <1>1 DEF RowAgrees, Current
<1>3. CASE UNCHANGED localEntry
  <2>1. Alone(a) /\ LocalAgrees(a)'  BY <1>0, <1>1, <1>3 DEF Alone, Local, LocalAgrees
  <2>2. ChainShape'  BY <1>0, <1>1, <1>3 DEF ChainShape
  <2>. QED  BY <1>1, <1>2, <2>1, <2>2, RowsStay, OwnStep
<1>4. ASSUME localEntry' # localEntry PROVE ChainInv'
  <2>1. PICK any : any = CHOOSE k \in ChainWants[a] : TRUE  OBVIOUS
  <2>2. /\ ownsLocally(a, fences[a].local)
        /\ SetEntries(a, [Local(a, any) EXCEPT !.expiresAt = instant + ChainTtl])
    BY <1>4, <2>1, Zenon DEF RenewStarts, retarget
  <2>3. CASE ChainWants[a] = {}
    <3>1. localEntry' = localEntry
      <4>1. home[a] \in Homes  BY <1>0, EntryTypes
      <4>2. localEntry[home[a]] = [j \in ChainKeys |-> localEntry[home[a]][j]]
        BY <1>0, <4>1 DEF ChainShape
      <4>3. localEntry' = [localEntry EXCEPT ![home[a]] = [j \in ChainKeys |-> localEntry[home[a]][j]]]
        BY <2>2, <2>3, Zenon DEF SetEntries
      <4>. QED  BY <1>0, <4>1, <4>2, <4>3, Zenon DEF ChainShape
    <3>. QED  BY <1>4, <3>1
  <2>4. CASE ChainWants[a] # {}
    <3>1. any \in ChainWants[a] /\ any \in ChainKeys  BY <1>0, <2>1, <2>4, EntryTypes
    <3>2. Local(a, any).owner = a /\ Local(a, any) \in Leases  BY <1>0, <2>2, <3>1, EntryTypes DEF ownsLocally
    <3>3. PICK e : e = [Local(a, any) EXCEPT !.expiresAt = instant + ChainTtl]  OBVIOUS
    <3>4. instant + ChainTtl \in Nat  BY <1>0, ChainAssumption DEF ChainShape
    <3>5. e \in Leases /\ e.owner = a /\ e.fence = Local(a, any).fence  BY <3>2, <3>3, <3>4, Zenon DEF Leases
    <3>6. fences[a].local \in {0, e.fence}  BY <1>0, <3>1, <3>2, <3>5 DEF LocalAgrees
    <3>7. SetEntries(a, e)  BY <2>2, <3>3, Zenon
    <3>8. /\ localEntry' \in [Homes -> [ChainKeys -> Leases]]
          /\ Alone(a) /\ RowsApart' /\ LocalAgrees(a)'
      BY <1>1, <3>5, <3>6, <3>7, OwnEntries
    <3>9. ChainShape'  BY <1>0, <1>1, <3>8 DEF ChainShape
    <3>. QED  BY <1>2, <3>8, <3>9, OwnStep
  <2>. QED  BY <2>3, <2>4
<1>. QED  BY <1>3, <1>4

(* The heartbeat reaches the store: it extends what is current, and forgets what is lost. *)
LEMMA RenewLandsKeeps == ASSUME ChainInv, NEW a \in ChainOwners, RenewLands(a) PROVE ChainInv'
<1>0. ChainShape /\ LocalAgrees(a) /\ RowAgrees(a) /\ RowsApart  BY DEF ChainInv
<1>1. /\ UNCHANGED <<home, instant, localEntry, fenceSeq, rowSeq, holder, quoted, seen, acquires, broken>>
      /\ renewal' = [renewal EXCEPT ![a] = "none"]
  BY DEF RenewLands, TierWorks
<1>2. PICK gone \in BOOLEAN : /\ lostLease' = [lostLease EXCEPT ![a] = @ \/ gone]
                              /\ IF gone THEN Forget(a) ELSE UNCHANGED fences
  <2>1. ownsRow(a, retarget(a, "durable")) \in BOOLEAN  BY DEF ownsRow, Current
  <2>. QED  BY <2>1, Zenon DEF RenewLands
<1>3. /\ fences' \in [ChainOwners -> [local : Nat, durable : Nat]]
      /\ fences'[a] \in {fences[a], NoFence}
      /\ \A o \in ChainOwners \ {a} : fences'[o] = fences[o]
  <2>1. NoFence \in [local : Nat, durable : Nat]  BY DEF NoFence
  <2>. QED  BY <1>0, <1>2, <2>1 DEF ChainShape, Forget
<1>4. /\ leaseRow' \in [ChainOwners -> Leases] /\ leaseRow'[a].fence = leaseRow[a].fence
      /\ Current(leaseRow[a])' => Current(leaseRow[a])
      /\ \A o \in ChainOwners \ {a} : leaseRow'[o] = leaseRow[o]
  <2>1. CASE leaseRow' = leaseRow  BY <1>0, <1>1, <2>1 DEF ChainShape, Current
  <2>2. CASE ownsRow(a, retarget(a, "durable")) /\ leaseRow' = [leaseRow EXCEPT ![a].expiresAt = instant + ChainTtl]
    <3>1. instant + ChainTtl \in Nat /\ leaseRow[a] \in Leases  BY <1>0, ChainAssumption DEF ChainShape
    <3>2. PICK r : r = [leaseRow[a] EXCEPT !.expiresAt = instant + ChainTtl]  OBVIOUS
    <3>3. r \in Leases /\ r.fence = leaseRow[a].fence  BY <3>1, <3>2, Zenon DEF Leases
    <3>4. leaseRow' = [leaseRow EXCEPT ![a] = r]  BY <2>2, <3>2, Zenon
    <3>5. Current(leaseRow[a])  BY <2>2 DEF ownsRow
    <3>. QED  BY <1>0, <3>3, <3>4, <3>5 DEF ChainShape
  <2>. QED  BY <2>1, <2>2, Zenon DEF RenewLands
<1>5. lostLease' \in [ChainOwners -> BOOLEAN] /\ renewal' \in [ChainOwners -> {"none", "ok", "lost"}]
  <2>1. lostLease \in [ChainOwners -> BOOLEAN] /\ renewal \in [ChainOwners -> {"none", "ok", "lost"}]
    BY <1>0 DEF ChainShape
  <2>2. lostLease' \in [ChainOwners -> BOOLEAN]  BY <1>2, <2>1, Zenon
  <2>. QED  BY <1>1, <2>1, <2>2
<1>6. ChainShape'  BY <1>0, <1>1, <1>3, <1>4, <1>5 DEF ChainShape
<1>7. Alone(a)  BY <1>1, <1>3, <1>4 DEF Alone, Local
<1>8. RowsApart'
  <2>1. \A o \in ChainOwners : Current(leaseRow[o])' => Current(leaseRow[o])  BY <1>1, <1>4 DEF Current
  <2>. QED  BY <1>0, <2>1 DEF RowsApart
<1>9. LocalAgrees(a)'  BY <1>0, <1>1, <1>3 DEF LocalAgrees, Local, NoFence
<1>10. RowAgrees(a)'
  <2>1. fences'[a].durable \in {0, fences[a].durable}  BY <1>3 DEF NoFence
  <2>2. fences[a] = NoFence => fences'[a] = NoFence  BY <1>3
  <2>. QED  BY <1>0, <1>1, <1>4, <2>1, <2>2 DEF RowAgrees
<1>. QED  BY <1>6, <1>7, <1>8, <1>9, <1>10, OwnStep

(* The heartbeat's call to the store is lost: unavailable is not lost. *)
LEMMA RenewThrowsKeeps == ASSUME ChainInv, NEW a \in ChainOwners, RenewThrows(a) PROVE ChainInv'
<1>0. ChainShape /\ LocalAgrees(a) /\ RowAgrees(a)  BY DEF ChainInv
<1>1. /\ UNCHANGED <<home, instant, localEntry, fenceSeq, leaseRow, rowSeq, fences, holder, quoted, seen, lostLease>>
      /\ renewal' = [renewal EXCEPT ![a] = "none"] /\ broken' = [broken EXCEPT ![a] = TRUE]
  BY DEF RenewThrows, TierThrows
<1>2. ChainShape'  BY <1>0, <1>1 DEF ChainShape
<1>3. broken'[a] /\ \A o \in ChainOwners \ {a} : broken'[o] = broken[o]  BY <1>0, <1>1 DEF ChainShape
<1>4. Alone(a)  BY <1>1, <1>3 DEF Alone, Local
<1>5. LocalAgrees(a)'  BY <1>0, <1>1 DEF LocalAgrees, Local
<1>6. RowAgrees(a)'  BY <1>0, <1>1, <1>3 DEF RowAgrees, Current
<1>. QED  BY <1>1, <1>2, <1>4, <1>5, <1>6, RowsStay, OwnStep

(* The release deletes the row of the lease it holds, or loses the call. *)
LEMMA RowDeletedKeeps == ASSUME ChainInv, NEW a \in ChainOwners, RowDeleted(a) PROVE ChainInv'
<1>0. ChainShape /\ LocalAgrees(a) /\ RowAgrees(a) /\ RowsApart  BY DEF ChainInv
<1>1. /\ holder[a] = "delete" /\ Moves(a, "drop")
      /\ UNCHANGED <<home, instant, localEntry, fenceSeq, rowSeq, fences, quoted, seen, renewal, lostLease>>
  BY DEF RowDeleted
<1>2. holder' \in [ChainOwners -> Holders] /\ holder'[a] = "drop"
      /\ \A o \in ChainOwners \ {a} : holder'[o] = holder[o]
  BY <1>0, <1>1 DEF ChainShape, Moves, Holders
<1>3. NoEntry \in Leases /\ ~Current(NoEntry)  BY <1>0, EntryTypes
<1>4. /\ leaseRow' \in [ChainOwners -> Leases] /\ broken' \in [ChainOwners -> BOOLEAN]
      /\ leaseRow'[a] = NoEntry \/ leaseRow'[a] = leaseRow[a]
      /\ \A o \in ChainOwners \ {a} : leaseRow'[o] = leaseRow[o] /\ broken'[o] = broken[o]
      /\ broken[a] => broken'[a]
      /\ broken'[a] \/ leaseRow'[a] = NoEntry \/ fences[a].durable \notin {0, leaseRow[a].fence}
  <2>1. CASE TierWorks /\ leaseRow' = IF fences[a].durable \in {0, leaseRow[a].fence}
                                        THEN [leaseRow EXCEPT ![a] = NoEntry] ELSE leaseRow
    BY <1>0, <1>3, <2>1 DEF ChainShape, TierWorks
  <2>2. CASE TierThrows(a) /\ UNCHANGED leaseRow  BY <1>0, <2>2 DEF ChainShape, TierThrows
  <2>3. retarget(a, "durable") = fences[a].durable  BY DEF retarget
  <2>. QED  BY <2>1, <2>2, <2>3, Zenon DEF RowDeleted
<1>5. ChainShape'  BY <1>0, <1>1, <1>2, <1>4 DEF ChainShape
<1>6. Alone(a)  BY <1>1, <1>2, <1>4 DEF Alone, Local
<1>7. RowsApart'
  <2>1. \A o \in ChainOwners : Current(leaseRow[o])' => Current(leaseRow[o])
    BY <1>1, <1>3, <1>4 DEF Current
  <2>. QED  BY <1>0, <2>1 DEF RowsApart
<1>8. LocalAgrees(a)'  BY <1>0, <1>1, <1>2 DEF LocalAgrees, Local
<1>9. RowAgrees(a)'
  <2>1. leaseRow'[a] = leaseRow[a] => (Current(leaseRow[a])' <=> Current(leaseRow[a]))  BY <1>1 DEF Current
  <2>2. leaseRow'[a] = NoEntry => ~Current(leaseRow[a])'  BY <1>1, <1>3 DEF Current
  <2>3. broken'[a] \/ ~Current(leaseRow[a])'  BY <1>0, <1>4, <2>1, <2>2 DEF RowAgrees
  <2>. QED  BY <1>0, <1>1, <1>2, <1>4, <2>1, <2>2, <2>3 DEF RowAgrees
<1>. QED  BY <1>5, <1>6, <1>7, <1>8, <1>9, OwnStep

(* The release ends in memory, by owner alone. *)
LEMMA ReleaseEndsKeeps == ASSUME ChainInv, NEW a \in ChainOwners, ReleaseEnds(a) PROVE ChainInv'
<1>0. ChainShape /\ LocalAgrees(a) /\ RowAgrees(a)  BY DEF ChainInv
<1>1. /\ holder[a] = "drop" /\ Moves(a, "done") /\ releaseLocal(a, 0) /\ Forget(a)
      /\ quoted' = [quoted EXCEPT ![a] = 0] /\ lostLease' = [lostLease EXCEPT ![a] = FALSE]
      /\ UNCHANGED <<home, instant, fenceSeq, leaseRow, rowSeq, seen, renewal, broken>>
  BY DEF ReleaseEnds, TierWorks
<1>2. /\ holder' \in [ChainOwners -> Holders] /\ holder'[a] = "done"
      /\ quoted' \in [ChainOwners -> Nat] /\ lostLease' \in [ChainOwners -> BOOLEAN]
      /\ \A o \in ChainOwners \ {a} : holder'[o] = holder[o] /\ quoted'[o] = quoted[o]
  BY <1>0, <1>1 DEF ChainShape, Moves, Holders
<1>3. /\ localEntry' \in [Homes -> [ChainKeys -> Leases]]
      /\ fences' \in [ChainOwners -> [local : Nat, durable : Nat]] /\ fences'[a] = NoFence
      /\ Alone(a) /\ LocalAgrees(a)'
  BY <1>1, <1>2, RolledBack
<1>4. ChainShape'  BY <1>0, <1>1, <1>2, <1>3 DEF ChainShape
<1>5. broken[a] \/ ~Current(leaseRow[a])  BY <1>0, <1>1 DEF RowAgrees
<1>6. RowAgrees(a)'  BY <1>1, <1>2, <1>3, <1>5 DEF RowAgrees, NoFence, Current
<1>. QED  BY <1>1, <1>3, <1>4, <1>6, RowsStay, OwnStep

(* A sweep drops what has expired in one process. *)
LEMMA SweepKeeps == ASSUME ChainInv, NEW p \in Homes, sweep(p) PROVE ChainInv'
<1>0. ChainShape  BY DEF ChainInv
<1>1. /\ localEntry' = [localEntry EXCEPT ![p] = [k \in ChainKeys |-> IF Current(@[k]) THEN @[k] ELSE NoEntry]]
      /\ UNCHANGED <<home, instant, fenceSeq, leaseRow, rowSeq, fences, holder, quoted, seen, renewal, lostLease, broken>>
  BY DEF sweep
<1>2. NoEntry \in Leases  BY ChainAssumption DEF NoEntry, Leases
<1>3. PICK table : table = [k \in ChainKeys |-> IF Current(localEntry[p][k]) THEN localEntry[p][k] ELSE NoEntry]
  OBVIOUS
<1>4. table \in [ChainKeys -> Leases]  BY <1>0, <1>2, <1>3 DEF ChainShape
<1>5. localEntry' = [localEntry EXCEPT ![p] = table]  BY <1>1, <1>3, Zenon
<1>6. ChainShape'  BY <1>0, <1>1, <1>4, <1>5 DEF ChainShape
<1>7. RowsApart'  BY <1>1, RowsStay
<1>8. ASSUME NEW o \in ChainOwners PROVE LocalAgrees(o)' /\ RowAgrees(o)'
  <2>1. NoEntry.owner # o /\ home[o] \in Homes  BY <1>0, EntryTypes
  <2>2. \A k \in ChainKeys : Local(o, k)'.owner = o => Local(o, k)' = Local(o, k)
    BY <1>0, <1>1, <1>3, <1>5, <2>1 DEF Local, ChainShape
  <2>3. LocalAgrees(o) /\ RowAgrees(o)  BY DEF ChainInv
  <2>4. LocalAgrees(o)'  BY <1>1, <2>2, <2>3 DEF LocalAgrees
  <2>5. RowAgrees(o)'  BY <1>1, <2>3 DEF RowAgrees, Current
  <2>. QED  BY <2>4, <2>5
<1>. QED  BY <1>6, <1>7, <1>8 DEF ChainInv

(* Time only lets leases lapse. *)
LEMMA InstantKeeps == ASSUME ChainInv, InstantPasses PROVE ChainInv'
<1>0. ChainShape  BY DEF ChainInv
<1>1. /\ instant' = instant + 1
      /\ UNCHANGED <<home, localEntry, fenceSeq, leaseRow, rowSeq, fences, holder, quoted, seen, renewal, lostLease, broken>>
  BY DEF InstantPasses
<1>2. ChainShape'  BY <1>0, <1>1 DEF ChainShape
<1>3. \A o \in ChainOwners : Current(leaseRow[o])' => Current(leaseRow[o])
  <2>1. TAKE o \in ChainOwners
  <2>2. leaseRow[o] \in Leases /\ instant \in Nat  BY <1>0 DEF ChainShape
  <2>3. leaseRow[o].expiresAt \in Nat  BY <2>2 DEF Leases
  <2>. QED  BY <1>1, <2>2, <2>3 DEF Current
<1>4. RowsApart'  BY <1>3 DEF ChainInv, RowsApart
<1>5. ASSUME NEW o \in ChainOwners PROVE LocalAgrees(o)' /\ RowAgrees(o)'
  <2>1. LocalAgrees(o) /\ RowAgrees(o)  BY DEF ChainInv
  <2>2. LocalAgrees(o)'  BY <1>1, <2>1 DEF LocalAgrees, Local
  <2>3. RowAgrees(o)'  BY <1>1, <1>3, <2>1 DEF RowAgrees
  <2>. QED  BY <2>2, <2>3
<1>. QED  BY <1>2, <1>4, <1>5 DEF ChainInv

(* Nobody holds anything at first. *)
LEMMA ChainStarts == ChainInit => ChainInv
<1>. SUFFICES ASSUME ChainInit PROVE ChainInv  OBVIOUS
<1>1. /\ NoEntry \in Leases /\ NoEntry.owner = "none" /\ NoEntry.expiresAt = 0
      /\ NoFence \in [local : Nat, durable : Nat] /\ NoFence.local = 0 /\ NoFence.durable = 0
  BY DEF NoEntry, Leases, NoFence
<1>2. \A o \in ChainOwners : home[o] \in Homes
  <2>1. TAKE o \in ChainOwners
  <2>2. home \in ChainHomes  BY DEF ChainInit
  <2>3. home[o] \in {home[x] : x \in ChainOwners}  BY Zenon
  <2>. QED  BY <2>2, <2>3, Zenon DEF Homes
<1>3. ChainShape  BY <1>1, <1>2 DEF ChainShape, ChainInit, Holders
<1>4. \A o \in ChainOwners : ~Current(leaseRow[o])
  <2>1. TAKE o \in ChainOwners
  <2>2. leaseRow[o] = NoEntry /\ instant = 1  BY DEF ChainInit
  <2>. QED  BY <1>1, <2>2 DEF Current
<1>5. RowsApart  BY <1>4 DEF RowsApart
<1>6. ASSUME NEW o \in ChainOwners PROVE LocalAgrees(o) /\ RowAgrees(o)
  <2>1. \A k \in ChainKeys : Local(o, k).owner # o  BY <1>1, <1>2, ChainAssumption DEF ChainInit, Local
  <2>2. LocalAgrees(o)  BY <2>1 DEF LocalAgrees
  <2>3. holder[o] = "idle" /\ fences[o] = NoFence  BY DEF ChainInit
  <2>4. RowAgrees(o)  BY <1>1, <1>4, <2>3 DEF RowAgrees
  <2>. QED  BY <2>2, <2>4
<1>. QED  BY <1>3, <1>5, <1>6 DEF ChainInv

(* Every step of an owner, a sweep or the clock keeps the invariant. *)
LEMMA ChainStep == ChainInv /\ [ChainNext]_chainVars => ChainInv'
<1>. SUFFICES ASSUME ChainInv, [ChainNext]_chainVars PROVE ChainInv'  OBVIOUS
<1>1. CASE UNCHANGED chainVars
  <2>1. UNCHANGED <<home, instant, localEntry, fenceSeq, leaseRow, rowSeq, fences, holder, quoted, seen,
                    renewal, lostLease, broken>>
    BY <1>1 DEF chainVars
  <2>2. ChainShape' /\ RowsApart'  BY <2>1, RowsStay DEF ChainInv, ChainShape
  <2>3. \A o \in ChainOwners : LocalAgrees(o)' /\ RowAgrees(o)'
    BY <2>1 DEF ChainInv, LocalAgrees, RowAgrees, Local, Current
  <2>. QED  BY <2>2, <2>3 DEF ChainInv
<1>2. ASSUME NEW o \in ChainOwners,
             \/ AcquireStarts(o) \/ InsertLands(o) \/ InsertRefused(o) \/ InsertThrows(o) \/ GivesUp(o)
             \/ FailsClosed(o) \/ FallsBack(o) \/ RenewLocally(o)
             \/ RenewStarts(o) \/ RenewLands(o) \/ RenewThrows(o)
             \/ VerifyStarts(o) \/ VerifyLands(o)
             \/ ReleaseStarts(o) \/ RowDeleted(o) \/ ReleaseEnds(o)
      PROVE  ChainInv'
  BY <1>2, AcquireStartsKeeps, InsertLandsKeeps, InsertRefusedKeeps, InsertThrowsKeeps, FallsBackKeeps,
     OwnerMovesKeep, RenewLocallyKeeps, RenewStartsKeeps, RenewLandsKeeps, RenewThrowsKeeps,
     RowDeletedKeeps, ReleaseEndsKeeps
<1>. QED  BY <1>1, <1>2, SweepKeeps, InstantKeeps DEF ChainNext

(* What an owner is told it lost, it had really lost in a tier. *)
LEMMA LossHadACause ==
    ASSUME ChainInv, ChainNext, NEW o \in ChainOwners
    PROVE  /\ \/ renewal[o] = "none" /\ renewal'[o] = "lost"
              \/ holder[o] = "held" /\ holder'[o] = "verify" /\ ~seen'[o]
              => ~ownsLocally(o, 0)
           /\ (lostLease'[o] /\ ~lostLease[o]) =>
                  \/ renewal[o] = "lost" \/ ~Current(leaseRow[o])
                  \/ holder[o] = "verify" /\ ~seen[o]
                  \/ holder[o] = "local" /\ ~ownsLocally(o, 0)
<1>0. ChainShape /\ LocalAgrees(o) /\ RowAgrees(o)  BY DEF ChainInv
<1>1. ownsLocally(o, 0) => ownsLocally(o, retarget(o, "local"))
  BY <1>0, EntryTypes DEF ownsLocally, LocalAgrees, retarget
<1>2. holder[o] = "local" /\ ownsLocally(o, 0) => ownsLocally(o, quoted[o])
  BY <1>0, EntryTypes DEF ownsLocally, LocalAgrees
<1>3. Current(leaseRow[o]) => ownsRow(o, retarget(o, "durable"))
  BY <1>0 DEF ownsRow, RowAgrees, retarget
<1>4. renewal[o] = "none" /\ renewal'[o] = "lost" => ~ownsLocally(o, 0)
  <2>. SUFFICES ASSUME renewal[o] = "none", renewal'[o] = "lost" PROVE ~ownsLocally(o, 0)  OBVIOUS
  <2>1. PICK x \in ChainOwners : RenewStarts(x) \/ RenewLands(x) \/ RenewThrows(x)
    BY Zenon DEF ChainNext, AcquireStarts, InsertLands, InsertRefused, InsertThrows, GivesUp, FailsClosed,
       FallsBack, RenewLocally, VerifyStarts, VerifyLands, ReleaseStarts, RowDeleted, ReleaseEnds, sweep,
       InstantPasses
  <2>2. RenewStarts(o) /\ ~ownsLocally(o, retarget(o, "local"))
    BY <1>0, <2>1 DEF RenewStarts, RenewLands, RenewThrows, ChainShape
  <2>. QED  BY <1>1, <2>2
<1>5. holder[o] = "held" /\ holder'[o] = "verify" /\ ~seen'[o] => ~ownsLocally(o, 0)
  <2>. SUFFICES ASSUME holder[o] = "held", holder'[o] = "verify", ~seen'[o] PROVE ~ownsLocally(o, 0)
    OBVIOUS
  <2>1. PICK x \in ChainOwners : \E to : Moves(x, to) /\ (to = "verify" => VerifyStarts(x))
    <3>1. holder' # holder  OBVIOUS
    <3>2. PICK x \in ChainOwners :
             \/ AcquireStarts(x) \/ InsertLands(x) \/ InsertRefused(x) \/ InsertThrows(x) \/ GivesUp(x)
             \/ FailsClosed(x) \/ FallsBack(x) \/ VerifyStarts(x) \/ VerifyLands(x)
             \/ ReleaseStarts(x) \/ RowDeleted(x) \/ ReleaseEnds(x)
      BY <3>1, Zenon DEF ChainNext, RenewLocally, RenewStarts, RenewLands, RenewThrows, sweep, InstantPasses
    <3>. QED
      BY <3>2 DEF AcquireStarts, InsertLands, Grant, InsertRefused, InsertThrows, GivesUp, FailsClosed,
         FallsBack, VerifyStarts, VerifyLands, ReleaseStarts, RowDeleted, ReleaseEnds
  <2>2. VerifyStarts(o)  BY <1>0, <2>1 DEF Moves, ChainShape
  <2>3. ~ownsLocally(o, retarget(o, "local"))  BY <1>0, <2>2 DEF VerifyStarts, ChainShape
  <2>. QED  BY <1>1, <2>3
<1>6. ASSUME lostLease'[o], ~lostLease[o]
      PROVE  \/ renewal[o] = "lost" \/ ~Current(leaseRow[o])
             \/ holder[o] = "verify" /\ ~seen[o]
             \/ holder[o] = "local" /\ ~ownsLocally(o, 0)
  <2>1. lostLease' # lostLease  BY <1>6
  <2>2. PICK x \in ChainOwners : RenewLocally(x) \/ RenewLands(x) \/ VerifyLands(x) \/ ReleaseEnds(x)
    BY <2>1, Zenon DEF ChainNext, AcquireStarts, InsertLands, InsertRefused, InsertThrows, GivesUp, FailsClosed,
       FallsBack, RenewStarts, RenewThrows, VerifyStarts, ReleaseStarts, RowDeleted, sweep, InstantPasses
  <2>3. lostLease \in [ChainOwners -> BOOLEAN]  BY <1>0 DEF ChainShape
  <2>4. CASE RenewLocally(x)
    <3>1. x = o /\ ~ownsLocally(o, quoted[o]) /\ holder[o] = "local"
      BY <1>6, <2>3, <2>4, Zenon DEF RenewLocally
    <3>. QED  BY <1>2, <3>1
  <2>5. CASE RenewLands(x)
    <3>1. x = o /\ (renewal[o] = "lost" \/ ~ownsRow(o, retarget(o, "durable")))
      BY <1>6, <2>3, <2>5, Zenon DEF RenewLands
    <3>. QED  BY <1>3, <3>1
  <2>6. CASE VerifyLands(x)
    <3>1. x = o /\ holder[o] = "verify" /\ (~seen[o] \/ ~ownsRow(o, retarget(o, "durable")))
      BY <1>6, <2>3, <2>6, Zenon DEF VerifyLands
    <3>. QED  BY <1>3, <3>1
  <2>7. CASE ReleaseEnds(x)  BY <1>6, <2>3, <2>7, Zenon DEF ReleaseEnds
  <2>. QED  BY <2>2, <2>4, <2>5, <2>6, <2>7
<1>. QED  BY <1>4, <1>5, <1>6

(* Nothing is left behind in one of the two tiers and no lease is called lost that both    *)
(* still hold, whatever heartbeats, releases and lost calls interleave.                    *)
THEOREM ChainStaysSound == ChainSpec => ChainIsSound
<1>1. ChainInv => NothingStranded
  BY DEF ChainInv, LocalAgrees, RowAgrees, NothingStranded
<1>2. ChainInv /\ [ChainNext]_chainVars =>
        [\A o \in ChainOwners :
        /\ \/ renewal[o] = "none" /\ renewal'[o] = "lost"
           \/ holder[o] = "held" /\ holder'[o] = "verify" /\ ~seen'[o]
           => ~ownsLocally(o, 0)
        /\ (lostLease'[o] /\ ~lostLease[o]) =>
               \/ renewal[o] = "lost" \/ ~Current(leaseRow[o])
               \/ holder[o] = "verify" /\ ~seen[o]
               \/ holder[o] = "local" /\ ~ownsLocally(o, 0)]_chainVars
  BY LossHadACause
<1>. QED  BY <1>1, <1>2, ChainStarts, ChainStep, PTL DEF ChainSpec, ChainIsSound, LossIsReal
=============================================================================
