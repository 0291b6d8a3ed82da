------------------------------- MODULE Scanner -------------------------------
(***************************************************************************)
(* The scanner (scanner.ts): the candidates of an underlying and the index *)
(* of their tokens, the evaluation of each candidate a tick touches, and   *)
(* the entry it may start, from the reservation of the strike pair in the  *)
(* position book (positions.ts) to the position, the failure, or the fill  *)
(* that is retained because it could not be stored (engine.ts).            *)
(*                                                                         *)
(* JavaScript runs one callback at a time and drains the queue of          *)
(* microtasks before the next one; `micro' is that queue, first in first   *)
(* out, and every other action waits until it is empty.                    *)
(***************************************************************************)
EXTENDS Naturals, Sequences, FiniteSets

CONSTANTS StrikePairs,          \* the strike pairs
          Tokens,        \* the option tokens
          legsOf,        \* strike pair -> the tokens of its legs
          MaxPipelines,  \* the simulator's cap on active pipelines
          MaxFills,      \* bound: the fills of one strike pair
          MaxStoreLosses \* bound: the failed inserts

ASSUME ScannerAssumption ==
  /\ legsOf \in [StrikePairs -> SUBSET Tokens]
  /\ {MaxPipelines, MaxFills, MaxStoreLosses} \subseteq Nat

VARIABLES
  candidates,   \* the strike pairs that are candidates now
  tokenIndex,   \* token -> the strike pairs it belongs to
  quoteOf,      \* token -> what is known of its book
  gates,        \* which of discovering, marketOpen and feedHealthy are false
  opportunity,  \* strike pair -> its published status
  keyReserved,  \* the position book's reserved strike pairs
  byKey,        \* the strike pairs with a position in the book
  entryInFlight, \* the scanner's entries in progress
  entryStage,   \* strike pair -> the stage of its entry
  openRows,     \* the strike pairs with an open row (unique index)
  retained,     \* pendingPersists: strike pair -> its retained fills
  exposureOf,   \* strike pair -> the filled boxes not yet flat
  fillCount,    \* strike pair -> its fills so far
  storeLosses,  \* the failed inserts so far
  micro         \* the queue of microtasks

bookVars == <<keyReserved, byKey>>
entryVars == <<entryInFlight, entryStage>>
fillVars == <<openRows, retained, exposureOf, fillCount, storeLosses>>
marketVars == <<candidates, tokenIndex, quoteOf, gates>>
scanVars == <<marketVars, opportunity, bookVars, entryVars, fillVars, micro>>

Gates == {"stopped", "market_closed", "feed_unhealthy"}
Quotes == {"none", "stale", "empty", "thin", "ok"}
EntryStages == {"none", "admitting", "working", "filled"}
Statuses == {"NONE", "OPEN", "OPENED", "INDICATIVE", "REJECTED", "WATCHING", "ELIGIBLE"}
Edges == {"below", "gross", "net"}

ScannerTypeOK ==
  /\ candidates \subseteq StrikePairs
  /\ tokenIndex \in [Tokens -> SUBSET StrikePairs]
  /\ quoteOf \in [Tokens -> Quotes]
  /\ gates \subseteq Gates
  /\ opportunity \in [StrikePairs -> Statuses]
  /\ keyReserved \subseteq StrikePairs /\ byKey \subseteq StrikePairs
  /\ entryInFlight \subseteq StrikePairs /\ entryStage \in [StrikePairs -> EntryStages]
  /\ openRows \subseteq StrikePairs
  /\ {retained, exposureOf, fillCount} \subseteq [StrikePairs -> 0..MaxFills]
  /\ storeLosses \in 0..MaxStoreLosses
  /\ micro \in Seq([job : {"reclaim", "released"}, key : StrikePairs])

ScannerInit ==
  /\ candidates = {} /\ tokenIndex = [t \in Tokens |-> {}]
  /\ quoteOf = [t \in Tokens |-> "none"]
  /\ gates = {"stopped"}
  /\ opportunity = [k \in StrikePairs |-> "NONE"]
  /\ keyReserved = {} /\ byKey = {}
  /\ entryInFlight = {} /\ entryStage = [k \in StrikePairs |-> "none"]
  /\ openRows = {}
  /\ retained = [k \in StrikePairs |-> 0]
  /\ exposureOf = [k \in StrikePairs |-> 0] /\ fillCount = [k \in StrikePairs |-> 0]
  /\ storeLosses = 0
  /\ micro = <<>>

-----------------------------------------------------------------------------
(***************************************************************************)
(* Candidates, quotes and gates.                                           *)
(***************************************************************************)

\* Mutated form: a window change adds its candidates to the index and leaves
\* the old ones in it.
KeepOldIndex(next) ==
  /\ micro = <<>> /\ next # candidates
  /\ candidates' = next
  /\ opportunity' = [k \in StrikePairs |-> IF k \in candidates THEN "NONE" ELSE opportunity[k]]
  /\ tokenIndex' = [t \in Tokens |-> tokenIndex[t] \cup {k \in next : t \in legsOf[k]}]
  /\ UNCHANGED <<quoteOf, gates, bookVars, entryVars, fillVars, micro>>

\* The old candidates leave the map and the index, then the next ones join.
setCandidatesForUnderlying(next) ==
  /\ micro = <<>> /\ next # candidates
  /\ candidates' = next
  /\ opportunity' = [k \in StrikePairs |-> IF k \in candidates THEN "NONE" ELSE opportunity[k]]
  /\ tokenIndex' = [t \in Tokens |->
                      (tokenIndex[t] \ {k \in candidates : t \in legsOf[k]})
                        \cup {k \in next : t \in legsOf[k]}]
  /\ UNCHANGED <<quoteOf, gates, bookVars, entryVars, fillVars, micro>>

\* setDiscovering, setMarketOpen and setFeedHealthy.
setGate(g) ==
  /\ micro = <<>>
  /\ gates' = IF g \in gates THEN gates \ {g} ELSE gates \cup {g}
  /\ UNCHANGED <<candidates, tokenIndex, quoteOf, opportunity, bookVars, entryVars, fillVars, micro>>

-----------------------------------------------------------------------------
(***************************************************************************)
(* Evaluation.                                                             *)
(***************************************************************************)

\* The first reason, in the code's order, that a box cannot be traded.
firstRejectReason(q, k) ==
  LET Some(s) == \E t \in legsOf[k] : q[t] = s
  IN  CASE Some("none")  -> "no_quote"
        [] Some("stale") -> "stale_quote"
        [] Some("empty") -> "missing_price"
        [] Some("thin")  -> "insufficient_qty"
        [] OTHER         -> "none"

\* The gross edge is known when every leg has a price, stale and thin ones too.
priced(q, k) == \A t \in legsOf[k] : q[t] \notin {"none", "empty"}

tradable(q, k) == firstRejectReason(q, k) = "none"

\* The entry decision: an edge under the prefilter or under the required net
\* profit does not qualify; "net" stands for the edges above both.
qualifies(edge) == edge = "net"
passesGrossPrefilter(edge) == edge # "below"

\* The published status; `previous' is kept only for a box just opened.
publish(q, k, edge) ==
  IF k \in byKey THEN "OPEN"
  ELSE IF opportunity[k] = "OPENED" THEN "OPENED"
  ELSE IF ~tradable(q, k)
       THEN IF priced(q, k) /\ passesGrossPrefilter(edge) THEN "REJECTED" ELSE "WATCHING"
  ELSE IF qualifies(edge) THEN "ELIGIBLE" ELSE "WATCHING"

hasCapacity == Cardinality({k \in StrikePairs : entryStage[k] = "working"}) < MaxPipelines

\* An entry starts: the strike pair is reserved before anything is awaited.
mayEnter(q, k, edge) ==
  /\ gates = {} /\ k \notin byKey
  /\ tradable(q, k) /\ passesGrossPrefilter(edge)
  /\ k \notin entryInFlight /\ hasCapacity
  /\ qualifies(edge)

\* BoxPositionBook.reserve.
isTaken(k) == k \in byKey \cup keyReserved
attemptEntry(k) == ~isTaken(k)

\* A tick: the candidates its token belongs to are evaluated, published, and
\* entered where they qualify.
onTokensUpdated(t, q) ==
  /\ micro = <<>>
  /\ quoteOf' = [quoteOf EXCEPT ![t] = q]
  /\ LET touched == tokenIndex[t] \cap candidates
     IN  \E edge \in [touched -> Edges] :
           LET begun == {k \in touched : mayEnter(quoteOf', k, edge[k]) /\ attemptEntry(k)
                                         /\ fillCount[k] < MaxFills}
           IN  /\ keyReserved' = keyReserved \cup begun
               /\ entryInFlight' = entryInFlight \cup begun
               /\ entryStage' = [k \in StrikePairs |-> IF k \in begun THEN "admitting" ELSE entryStage[k]]
               /\ opportunity' = [k \in StrikePairs |-> IF k \in touched
                                                 THEN publish(quoteOf', k, edge[k])
                                                 ELSE opportunity[k]]
  /\ UNCHANGED <<candidates, tokenIndex, gates, byKey, fillVars, micro>>

\* After hours every candidate is published from its last close, tradable or not.
publishIndicative ==
  /\ micro = <<>> /\ "market_closed" \in gates
  /\ opportunity' = [k \in StrikePairs |-> IF k \notin candidates THEN opportunity[k]
                                    ELSE IF k \in byKey THEN "OPEN"
                                    ELSE IF opportunity[k] = "OPENED" THEN "OPENED"
                                    ELSE "INDICATIVE"]
  /\ UNCHANGED <<marketVars, bookVars, entryVars, fillVars, micro>>

clearOpportunities ==
  /\ micro = <<>> /\ "market_closed" \in gates
  /\ opportunity' = [k \in StrikePairs |-> "NONE"]
  /\ UNCHANGED <<marketVars, bookVars, entryVars, fillVars, micro>>

-----------------------------------------------------------------------------
(***************************************************************************)
(* One entry.                                                              *)
(***************************************************************************)

stillWanted(k) == gates = {} /\ k \notin byKey

\* The coordinator has admitted the entry and the pipeline is active.
ExecutionStarts(k) ==
  /\ micro = <<>> /\ entryStage[k] = "admitting" /\ stillWanted(k)
  /\ entryStage' = [entryStage EXCEPT ![k] = "working"]
  /\ UNCHANGED <<marketVars, opportunity, bookVars, entryInFlight, fillVars, micro>>

Ended(k) ==
  /\ entryStage' = [entryStage EXCEPT ![k] = "none"]
  /\ entryInFlight' = entryInFlight \ {k}

\* Mutated form: an attempt that fails before its pipeline is active keeps the
\* strike pair.
FailureKeepsKey(k) ==
  /\ micro = <<>> /\ entryStage[k] \in {"admitting", "working"}
  /\ Ended(k)
  /\ keyReserved' = IF entryStage[k] = "working" THEN keyReserved \ {k} ELSE keyReserved
  /\ UNCHANGED <<marketVars, opportunity, byKey, fillVars, micro>>

\* The attempt fails, is refused, or throws: the strike pair is released, and
\* what was filled has been unwound or is a residual of the engine's.
recordExecutionFailure(k) ==
  /\ micro = <<>> /\ entryStage[k] \in {"admitting", "working"}
  /\ Ended(k)
  /\ keyReserved' = keyReserved \ {k}
  /\ UNCHANGED <<marketVars, opportunity, byKey, fillVars, micro>>

\* Four fills, and the final qualification holds.
ExecutionFills(k) ==
  /\ micro = <<>> /\ entryStage[k] = "working" /\ fillCount[k] < MaxFills
  /\ entryStage' = [entryStage EXCEPT ![k] = "filled"]
  /\ exposureOf' = [exposureOf EXCEPT ![k] = @ + 1]
  /\ fillCount' = [fillCount EXCEPT ![k] = @ + 1]
  /\ UNCHANGED <<marketVars, opportunity, bookVars, entryInFlight, openRows, retained,
                 storeLosses, micro>>

\* The row is inserted: the position is added, which ends the reservation.
openPaperTrade(k) ==
  /\ micro = <<>> /\ entryStage[k] = "filled" /\ k \notin openRows
  /\ openRows' = openRows \cup {k}
  /\ byKey' = byKey \cup {k}
  /\ keyReserved' = keyReserved \ {k}
  /\ opportunity' = [opportunity EXCEPT ![k] = "OPENED"]
  /\ Ended(k)
  /\ UNCHANGED <<marketVars, retained, exposureOf, fillCount, storeLosses, micro>>

\* The insert finds the strike pair open already: no position, and release.
DuplicateInsert(k) ==
  /\ micro = <<>> /\ entryStage[k] = "filled" /\ k \in openRows
  /\ keyReserved' = keyReserved \ {k}
  /\ Ended(k)
  /\ UNCHANGED <<marketVars, opportunity, byKey, fillVars, micro>>

\* Every attempt to insert failed: the fill is retained and a microtask is
\* queued to claim the strike pair again; then the function returns, and the
\* continuation of its caller, finalizeOpen, is queued behind it.
retainOwnedExecution(k) ==
  /\ micro = <<>> /\ entryStage[k] = "filled" /\ storeLosses < MaxStoreLosses
  /\ storeLosses' = storeLosses + 1
  /\ retained' = [retained EXCEPT ![k] = @ + 1]
  /\ micro' = <<[job |-> "reclaim", key |-> k], [job |-> "released", key |-> k]>>
  /\ UNCHANGED <<marketVars, opportunity, bookVars, entryVars, openRows, exposureOf, fillCount>>

\* reserve does nothing when the strike pair is taken.
ReclaimRuns ==
  /\ micro # <<>> /\ Head(micro).job = "reclaim"
  /\ keyReserved' = IF isTaken(Head(micro).key) THEN keyReserved
                    ELSE keyReserved \cup {Head(micro).key}
  /\ micro' = Tail(micro)
  /\ UNCHANGED <<marketVars, opportunity, byKey, entryVars, fillVars>>

\* finalizeOpen after a null: release, and the entry ends.
finalizeOpen ==
  /\ micro # <<>> /\ Head(micro).job = "released"
  /\ keyReserved' = keyReserved \ {Head(micro).key}
  /\ Ended(Head(micro).key)
  /\ micro' = Tail(micro)
  /\ UNCHANGED <<marketVars, opportunity, byKey, fillVars>>

\* The retry of a retained fill: adopted, or dropped as a duplicate with its
\* reservation released.
drainOwnedExecutions(k) ==
  /\ micro = <<>> /\ retained[k] > 0
  /\ retained' = [retained EXCEPT ![k] = @ - 1]
  /\ keyReserved' = keyReserved \ {k}
  /\ openRows' = openRows \cup {k}
  /\ byKey' = IF k \in openRows THEN byKey ELSE byKey \cup {k}
  /\ UNCHANGED <<marketVars, opportunity, entryVars, exposureOf, fillCount, storeLosses, micro>>

\* The box is closed: its row and its position go together.
PositionCloses(k) ==
  /\ micro = <<>> /\ k \in byKey /\ k \in openRows
  /\ openRows' = openRows \ {k}
  /\ byKey' = byKey \ {k}
  /\ keyReserved' = keyReserved \ {k}
  /\ exposureOf' = [exposureOf EXCEPT ![k] = @ - 1]
  /\ UNCHANGED <<marketVars, opportunity, entryVars, retained, fillCount, storeLosses, micro>>

ScannerNext ==
  \/ \E next \in SUBSET StrikePairs : setCandidatesForUnderlying(next)
  \/ \E g \in Gates : setGate(g)
  \/ \E t \in Tokens, q \in Quotes : onTokensUpdated(t, q)
  \/ publishIndicative \/ clearOpportunities
  \/ ReclaimRuns \/ finalizeOpen
  \/ \E k \in StrikePairs :
       \/ ExecutionStarts(k) \/ recordExecutionFailure(k) \/ ExecutionFills(k)
       \/ openPaperTrade(k) \/ DuplicateInsert(k) \/ retainOwnedExecution(k)
       \/ drainOwnedExecutions(k) \/ PositionCloses(k)

ScannerSpec == ScannerInit /\ [][ScannerNext]_scanVars

-----------------------------------------------------------------------------

\* A reserved strike pair is one that an entry in progress or a retained fill
\* holds: no path out of an entry (refusal, failure, exception, duplicate,
\* retained fill, adoption) leaves a reservation behind, which would keep the
\* pair from ever being entered again (positions.ts reserve and release).
ReservationHasHolder ==
  \A k \in keyReserved : k \in entryInFlight \/ retained[k] > 0

\* After any number of window changes the index holds exactly the candidates of
\* each token, so that a tick evaluates every candidate it prices and no other
\* (scanner.ts setCandidatesForUnderlying).
IndexIsExact ==
  \A t \in Tokens : tokenIndex[t] = {k \in candidates : t \in legsOf[k]}

\* What the scanner keeps beside its candidates agrees with them: no key is reserved
\* without a holder, and no tick misses a candidate (scanner.ts, positions.ts).
ScannerIsConsistent == ReservationHasHolder /\ IndexIsExact

\* Every filled box is on record: it is being stored, has an open row, or is
\* retained ("The exposure is REAL, so it must never be forgotten",
\* engine.ts retainOwnedExecution).
NoFillForgotten ==
  \A k \in StrikePairs :
    exposureOf[k] = retained[k] + (IF k \in openRows THEN 1 ELSE 0)
                    + (IF entryStage[k] = "filled" /\ micro = <<>> THEN 1 ELSE 0)
=============================================================================
