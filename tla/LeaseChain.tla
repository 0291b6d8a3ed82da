----------------------------- MODULE LeaseChain -----------------------------
(***************************************************************************)
(* The two reservation tiers of one lease: the map in the process's own    *)
(* memory and the durable store other processes share, chained so that a   *)
(* lease is granted, renewed and verified by both or not at all.  A tier   *)
(* in memory answers at once; every call of the durable tier is awaited,   *)
(* so that the heartbeat of a lease runs between any two steps of its      *)
(* owner.  Each tier numbers its leases by a counter of its own.           *)
(***************************************************************************)
EXTENDS Naturals

CONSTANTS ChainOwners,     \* executions, each with an owner id of its own
          ChainHomes,      \* where the owners may run: functions from owners to processes
          ChainWants,      \* ChainWants[o]: the contracts o reserves
          ChainTtl,        \* lease time
          LastInstant,     \* bound on the clock
          MaxAcquires,     \* bound: acquisitions of one owner
          MaxTierFaults    \* bound: calls of the durable tier that throw

Homes == UNION {{h[o] : o \in ChainOwners} : h \in ChainHomes}
ChainKeys == UNION {ChainWants[o] : o \in ChainOwners}

ASSUME ChainAssumption ==
    /\ "none" \notin ChainOwners
    /\ ChainTtl \in Nat \ {0} /\ LastInstant \in Nat
    /\ MaxAcquires \in Nat /\ MaxTierFaults \in Nat

VARIABLES home,         \* home[o]: the process o runs in
          instant,
          localEntry,   \* localEntry[p][k]: InProcessInstrumentReservations.entries of p
          fenceSeq,     \* fenceSeq[p]: its counter
          leaseRow,     \* leaseRow[o]: o's row in the durable store
          rowSeq,       \* the store's counter
          fences,       \* fences[o]: what each tier issued to o, 0 when not recorded
          holder,       \* holder[o]: where o's own call is
          quoted,       \* quoted[o]: the fence o was told
          seen,         \* seen[o]: what the local tier answered to o's verify
          renewal,      \* renewal[o]: the local tier's answer to the beat in flight
          lostLease,    \* lostLease[o]: a renewal or a verify of o answered lost
          acquires, tierFaults,
          broken        \* broken[o]: a store call of o threw

chainVars == <<home, instant, localEntry, fenceSeq, leaseRow, rowSeq, fences, holder, quoted, seen,
               renewal, lostLease, acquires, tierFaults, broken>>

NoEntry == [owner |-> "none", expiresAt |-> 0, fence |-> 0]
Holders == {"idle", "insert", "waiting", "held", "verify", "unavailable", "local", "delete", "drop", "done"}
NoFence == [local |-> 0, durable |-> 0]

ChainInit ==
    /\ home \in ChainHomes /\ instant = 1
    /\ localEntry = [p \in Homes |-> [k \in ChainKeys |-> NoEntry]] /\ fenceSeq = [p \in Homes |-> 0]
    /\ leaseRow = [o \in ChainOwners |-> NoEntry] /\ rowSeq = 0
    /\ fences = [o \in ChainOwners |-> NoFence]
    /\ holder = [o \in ChainOwners |-> "idle"] /\ quoted = [o \in ChainOwners |-> 0]
    /\ seen = [o \in ChainOwners |-> FALSE] /\ renewal = [o \in ChainOwners |-> "none"]
    /\ lostLease = [o \in ChainOwners |-> FALSE]
    /\ acquires = [o \in ChainOwners |-> 0] /\ tierFaults = 0
    /\ broken = [o \in ChainOwners |-> FALSE]

Current(e) == e.expiresAt > instant
Local(o, k) == localEntry[home[o]][k]

TierWorks == UNCHANGED <<tierFaults, broken>>
TierThrows(o) == /\ tierFaults < MaxTierFaults /\ tierFaults' = tierFaults + 1
                 /\ broken' = [broken EXCEPT ![o] = TRUE]

-----------------------------------------------------------------------------
(* The tier in memory. *)
localConflict(o) == \E k \in ChainWants[o] : Current(Local(o, k)) /\ Local(o, k).owner # o

SetEntries(o, entry) ==
    localEntry' = [localEntry EXCEPT ![home[o]] =
                      [k \in ChainKeys |-> IF k \in ChainWants[o] THEN entry ELSE @[k]]]

\* release: only the owner's entries, and with a fence only those of that lease.
releaseLocal(o, fence) ==
    localEntry' = [localEntry EXCEPT ![home[o]] =
        [k \in ChainKeys |->
            IF k \in ChainWants[o] /\ @[k].owner = o /\ fence \in {0, @[k].fence}
              THEN NoEntry ELSE @[k]]]

\* renew and verify ask the same of every key.
ownsLocally(o, fence) ==
    \A k \in ChainWants[o] : LET e == Local(o, k) IN
        e.owner = o /\ Current(e) /\ fence \in {0, e.fence}

(* ownerOfSync and sweep drop what has expired. *)
sweep(p) ==
    /\ \E k \in ChainKeys : localEntry[p][k].owner # "none" /\ ~Current(localEntry[p][k])
    /\ localEntry' = [localEntry EXCEPT ![p] =
                         [k \in ChainKeys |-> IF Current(@[k]) THEN @[k] ELSE NoEntry]]
    /\ UNCHANGED <<home, instant, fenceSeq, leaseRow, rowSeq, fences, holder, quoted, seen, renewal,
                   lostLease, acquires, tierFaults, broken>>

-----------------------------------------------------------------------------
(* The durable tier: one row per lease, no two current rows share a key. *)
rowConflict(o) ==
    \E x \in ChainOwners \ {o} :
        Current(leaseRow[x]) /\ ChainWants[x] \cap ChainWants[o] # {}

\* An expired row of a challenger's keys is reclaimed with the insert.
InsertRow(o) ==
    leaseRow' = [x \in ChainOwners |->
        IF x = o THEN [owner |-> o, expiresAt |-> instant + ChainTtl, fence |-> rowSeq + 1]
        ELSE IF ChainWants[x] \cap ChainWants[o] # {} THEN NoEntry ELSE leaseRow[x]]

ownsRow(o, fence) == Current(leaseRow[o]) /\ fence \in {0, leaseRow[o].fence}

-----------------------------------------------------------------------------
(* Mutated form: every tier is given the fence the chain reported. *)
QuotedFence(o, tier) == quoted[o]

\* fenceFor, retarget: a tier is given back the fence it issued itself.
retarget(o, tier) == fences[o][tier]

authorityFenceMismatch(o) == fences[o].durable # 0 /\ fences[o].durable # quoted[o]

(* Mutated form: the rejected attempt keeps what the first tier granted. *)
KeepTaken(o) == UNCHANGED localEntry

rollback(o) == releaseLocal(o, 0)

Forget(o) == fences' = [fences EXCEPT ![o] = NoFence]
Moves(o, to) == holder' = [holder EXCEPT ![o] = to]

(* tryAcquireAll: the local tier answers, the durable insert is awaited.    *)
(* Nothing reads fences[o] while an acquisition runs: it holds `issued`.    *)
AcquireStarts(o) ==
    /\ holder[o] \in {"idle", "waiting"} /\ acquires[o] < MaxAcquires
    /\ acquires' = [acquires EXCEPT ![o] = @ + 1]
    /\ IF localConflict(o)
         THEN Moves(o, "waiting") /\ Forget(o) /\ UNCHANGED <<localEntry, fenceSeq>>
         ELSE LET fence == fenceSeq[home[o]] + 1 IN
              /\ Moves(o, "insert") /\ fenceSeq' = [fenceSeq EXCEPT ![home[o]] = fence]
              /\ fences' = [fences EXCEPT ![o] = [local |-> fence, durable |-> 0]]
              /\ SetEntries(o, [owner |-> o, expiresAt |-> instant + ChainTtl, fence |-> fence])
    /\ TierWorks /\ UNCHANGED <<home, instant, leaseRow, rowSeq, quoted, seen, renewal, lostLease>>

Grant(o, fence) ==
    /\ fences' = [fences EXCEPT ![o].durable = fence]
    /\ quoted' = [quoted EXCEPT ![o] = fence] /\ Moves(o, "held")

(* Granted: by an insert, or by the row an earlier attempt of o left behind. *)
InsertLands(o) ==
    /\ holder[o] = "insert" /\ ~rowConflict(o) /\ TierWorks
    /\ IF Current(leaseRow[o])
         THEN Grant(o, leaseRow[o].fence) /\ UNCHANGED leaseRow
         ELSE Grant(o, rowSeq + 1) /\ InsertRow(o)
    /\ rowSeq' = rowSeq + 1
    /\ UNCHANGED <<home, instant, localEntry, fenceSeq, seen, renewal, lostLease, acquires>>

InsertRefused(o) ==
    /\ holder[o] = "insert" /\ rowConflict(o)
    /\ rollback(o) /\ Forget(o) /\ Moves(o, "waiting") /\ TierWorks
    /\ UNCHANGED <<home, instant, fenceSeq, leaseRow, rowSeq, quoted, seen, renewal, lostLease, acquires>>

\* The store may have written before the call was lost.
InsertThrows(o) ==
    /\ holder[o] = "insert" /\ TierThrows(o)
    /\ \/ UNCHANGED <<leaseRow, rowSeq>>
       \/ ~rowConflict(o) /\ ~Current(leaseRow[o]) /\ InsertRow(o) /\ rowSeq' = rowSeq + 1
    /\ rollback(o) /\ Forget(o) /\ Moves(o, "unavailable")
    /\ UNCHANGED <<home, instant, fenceSeq, quoted, seen, renewal, lostLease, acquires>>

(* handleUnavailable: a live entry is refused, a paper one takes a lease of *)
(* the local tier alone.                                                    *)
FailsClosed(o) ==
    /\ holder[o] = "unavailable" /\ Moves(o, "done") /\ TierWorks
    /\ UNCHANGED <<home, instant, localEntry, fenceSeq, leaseRow, rowSeq, fences, quoted, seen,
                   renewal, lostLease, acquires>>

FallsBack(o) ==
    /\ holder[o] = "unavailable" /\ TierWorks
    /\ IF localConflict(o)
         THEN Moves(o, "waiting") /\ UNCHANGED <<localEntry, fenceSeq, quoted>>
         ELSE LET fence == fenceSeq[home[o]] + 1 IN
              /\ Moves(o, "local") /\ fenceSeq' = [fenceSeq EXCEPT ![home[o]] = fence]
              /\ quoted' = [quoted EXCEPT ![o] = fence]
              /\ SetEntries(o, [owner |-> o, expiresAt |-> instant + ChainTtl, fence |-> fence])
    /\ UNCHANGED <<home, instant, leaseRow, rowSeq, fences, seen, renewal, lostLease, acquires>>

\* renewLease: a lease of the local tier is renewed there.
RenewLocally(o) ==
    /\ holder[o] = "local" /\ ~lostLease[o] /\ TierWorks
    /\ IF ownsLocally(o, quoted[o])
         THEN /\ UNCHANGED lostLease
              /\ SetEntries(o, [owner |-> o, expiresAt |-> instant + ChainTtl, fence |-> quoted[o]])
         ELSE lostLease' = [lostLease EXCEPT ![o] = TRUE] /\ UNCHANGED localEntry
    /\ UNCHANGED <<home, instant, fenceSeq, leaseRow, rowSeq, fences, holder, quoted, seen, renewal, acquires>>

\* The caller stops waiting: timeout, or the entry is no longer wanted.
GivesUp(o) ==
    /\ holder[o] = "waiting" /\ Moves(o, "done") /\ TierWorks
    /\ UNCHANGED <<home, instant, localEntry, fenceSeq, leaseRow, rowSeq, fences, quoted, seen, renewal,
                   lostLease, acquires>>

-----------------------------------------------------------------------------
(* renew, from the heartbeat: local first, then the durable tier whatever   *)
(* the local one answered.                                                  *)
RenewStarts(o) ==
    /\ holder[o] \in {"held", "verify"} /\ renewal[o] = "none" /\ ~lostLease[o] /\ ~broken[o]
    /\ ~authorityFenceMismatch(o)
    /\ IF ownsLocally(o, retarget(o, "local"))
         THEN /\ renewal' = [renewal EXCEPT ![o] = "ok"]
              /\ SetEntries(o, [Local(o, CHOOSE k \in ChainWants[o] : TRUE)
                                   EXCEPT !.expiresAt = instant + ChainTtl])
         ELSE renewal' = [renewal EXCEPT ![o] = "lost"] /\ UNCHANGED localEntry
    /\ TierWorks
    /\ UNCHANGED <<home, instant, fenceSeq, leaseRow, rowSeq, fences, holder, quoted, seen, lostLease, acquires>>

RenewLands(o) ==
    /\ renewal[o] # "none" /\ renewal' = [renewal EXCEPT ![o] = "none"]
    /\ LET kept == ownsRow(o, retarget(o, "durable"))
           lost == renewal[o] = "lost" \/ ~kept
       IN /\ leaseRow' = IF kept THEN [leaseRow EXCEPT ![o].expiresAt = instant + ChainTtl] ELSE leaseRow
          /\ lostLease' = [lostLease EXCEPT ![o] = @ \/ lost]
          /\ IF lost THEN Forget(o) ELSE UNCHANGED fences
    /\ TierWorks
    /\ UNCHANGED <<home, instant, localEntry, fenceSeq, rowSeq, holder, quoted, seen, acquires>>

\* unavailable is not lost: the bookkeeping stays.
RenewThrows(o) ==
    /\ renewal[o] # "none" /\ renewal' = [renewal EXCEPT ![o] = "none"]
    /\ TierThrows(o)
    /\ UNCHANGED <<home, instant, localEntry, fenceSeq, leaseRow, rowSeq, fences, holder, quoted, seen,
                   lostLease, acquires>>

(* verify, before a submission. *)
VerifyStarts(o) ==
    /\ holder[o] = "held" /\ ~lostLease[o] /\ ~authorityFenceMismatch(o)
    /\ seen' = [seen EXCEPT ![o] = ownsLocally(o, retarget(o, "local"))]
    /\ Moves(o, "verify") /\ TierWorks
    /\ UNCHANGED <<home, instant, localEntry, fenceSeq, leaseRow, rowSeq, fences, quoted, renewal,
                   lostLease, acquires>>

VerifyLands(o) ==
    /\ holder[o] = "verify" /\ Moves(o, "held") /\ TierWorks
    /\ lostLease' = [lostLease EXCEPT
                        ![o] = @ \/ ~seen[o] \/ ~ownsRow(o, retarget(o, "durable"))]
    /\ seen' = [seen EXCEPT ![o] = FALSE]
    /\ UNCHANGED <<home, instant, localEntry, fenceSeq, leaseRow, rowSeq, fences, quoted, renewal, acquires>>

-----------------------------------------------------------------------------
(* releaseLease: the chain, durable tier first, a stale lease releasing     *)
(* nothing, and then the local tier once more by owner alone.               *)
(* What the owner knew of the lease is not read again.                      *)
ReleaseStarts(o) ==
    /\ holder[o] \in {"held", "local"} /\ TierWorks
    /\ Moves(o, IF authorityFenceMismatch(o) THEN "drop" ELSE "delete")
    /\ UNCHANGED <<home, instant, localEntry, fenceSeq, leaseRow, rowSeq, fences, quoted, seen, renewal,
                   lostLease, acquires>>

RowDeleted(o) ==
    /\ holder[o] = "delete" /\ Moves(o, "drop")
    /\ \/ TierWorks /\ leaseRow' = IF retarget(o, "durable") \in {0, leaseRow[o].fence}
                                     THEN [leaseRow EXCEPT ![o] = NoEntry] ELSE leaseRow
       \/ TierThrows(o) /\ UNCHANGED leaseRow
    /\ UNCHANGED <<home, instant, localEntry, fenceSeq, rowSeq, fences, quoted, seen, renewal, lostLease,
                   acquires>>

ReleaseEnds(o) ==
    /\ holder[o] = "drop" /\ Moves(o, "done") /\ TierWorks
    /\ releaseLocal(o, 0) /\ Forget(o)
    /\ quoted' = [quoted EXCEPT ![o] = 0] /\ lostLease' = [lostLease EXCEPT ![o] = FALSE]
    /\ UNCHANGED <<home, instant, fenceSeq, leaseRow, rowSeq, seen, renewal, acquires>>

InstantPasses ==
    /\ instant < LastInstant /\ instant' = instant + 1
    /\ UNCHANGED <<home, localEntry, fenceSeq, leaseRow, rowSeq, fences, holder, quoted, seen, renewal,
                   lostLease, acquires, tierFaults, broken>>

ChainNext ==
    \/ \E o \in ChainOwners :
          \/ AcquireStarts(o) \/ InsertLands(o) \/ InsertRefused(o) \/ InsertThrows(o) \/ GivesUp(o)
          \/ FailsClosed(o) \/ FallsBack(o) \/ RenewLocally(o)
          \/ RenewStarts(o) \/ RenewLands(o) \/ RenewThrows(o)
          \/ VerifyStarts(o) \/ VerifyLands(o)
          \/ ReleaseStarts(o) \/ RowDeleted(o) \/ ReleaseEnds(o)
    \/ \E p \in Homes : sweep(p)
    \/ InstantPasses

ChainSpec == ChainInit /\ [][ChainNext]_chainVars

-----------------------------------------------------------------------------
(***************************************************************************)
(* An owner that was refused, gave up or has released its lease holds no   *)
(* contract in the memory of its process, and none in the store unless a   *)
(* call to the store was lost (rollback, release), whatever its heartbeat  *)
(* did meanwhile.                                                          *)
(***************************************************************************)
NothingStranded ==
    \A o \in ChainOwners : holder[o] \in {"waiting", "done"} =>
        /\ \A k \in ChainKeys : Local(o, k).owner # o
        /\ leaseRow[o] = NoEntry \/ broken[o] \/ ~Current(leaseRow[o])

(***************************************************************************)
(* A renewal or a verification is answered "lost" only when the lease had  *)
(* lapsed or been released in a tier: the fences of the two counters are   *)
(* never taken for each other (retarget), which would abort a healthy      *)
(* execution between two legs.                                             *)
(***************************************************************************)
LossIsReal ==
    [][\A o \in ChainOwners :
        /\ \/ renewal[o] = "none" /\ renewal'[o] = "lost"
           \/ holder[o] = "held" /\ holder'[o] = "verify" /\ ~seen'[o]
           => ~ownsLocally(o, 0)
        /\ (lostLease'[o] /\ ~lostLease[o]) =>
               \/ renewal[o] = "lost" \/ ~Current(leaseRow[o])
               \/ holder[o] = "verify" /\ ~seen[o]
               \/ holder[o] = "local" /\ ~ownsLocally(o, 0)]_chainVars

(***************************************************************************)
(* The two tiers agree on who holds what: nothing is left behind in one of *)
(* them, and no lease is called lost that both still hold (chained.ts).    *)
(***************************************************************************)
ChainIsSound == []NothingStranded /\ LossIsReal
=============================================================================
