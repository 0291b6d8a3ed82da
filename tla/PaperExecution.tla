--------------------------- MODULE PaperExecution ---------------------------
(***************************************************************************)
(* Paper execution: BoxExecutionSimulator (executionSimulator.ts) running  *)
(* pipelines of simulated orders through LegExecutor (legExecutor.ts) over *)
(* the one quote store, with the shared PaperLiquidityLedger               *)
(* (liquidityLedger.ts) under the live-parity profile.  Arrivals, timeouts *)
(* and cancel confirmations come when they come.  A book's quantity is what*)
(* it displays, the same on both sides; for an order whose limit it passes,*)
(* or whose deadline has gone by, it holds nothing.  The ledger's 4096     *)
(* series are never exceeded.                                              *)
(***************************************************************************)
EXTENDS Naturals, FiniteSets, FiniteSetsExt, SequencesExt

CONSTANTS
  PaperRuns,        \* pipelines
  PaperRoles,       \* legs; the same role is the same contract everywhere
  PaperLegsOf,      \* run -> the legs of its Box
  PaperLot,
  PaperProfiles,    \* "touch", "standard", "sequential" or "parity"
  MaxBooks,         \* bound: books published
  MaxPaperExits     \* bound: exits and flattens per pipeline

ASSUME PaperAssumption ==
  /\ PaperLot \in Nat \ {0} /\ MaxBooks \in Nat /\ MaxPaperExits \in Nat
  /\ PaperProfiles \subseteq {"touch", "standard", "sequential", "parity"}
  /\ IsFiniteSet(PaperRoles) /\ PaperLegsOf \in [PaperRuns -> (SUBSET PaperRoles) \ {{}}]

VARIABLES
  profile,
  paperBook,   \* role -> [version, displayed]: the quantity an order may take of either side
  reserved,    \* role -> side -> [version, quantity] of the latest version reserved
  subscribers, \* the runs listening for books, in subscription order
  stage,       \* run -> "idle", "entry", "unwind", "open", "exit", "residual", "flatten", "over"
  paperLegs,   \* run -> role -> the leg of the current LegExecutor.run
  aborting,    \* run -> has this LegExecutor.run seen an abort reason
  exposure,    \* run -> role -> quantity simulated as bought or sold and not closed since
  recorded,    \* run -> role -> quantity the pipeline's result reports as still held
  exits,       \* run -> exits and flattens so far
  sold         \* role -> side -> quantity all fills took from the current book

paperVars == <<profile, paperBook, reserved, subscribers, stage, paperLegs, aborting, exposure,
               recorded, exits, sold>>

Sides == {"BUY", "SELL"}
NoLeg == [status |-> "NONE", side |-> "BUY", quantity |-> 0, filled |-> 0]
Flat == [r \in PaperRoles |-> 0]
OneLot(p) == [r \in PaperRoles |-> IF r \in PaperLegsOf[p] THEN PaperLot ELSE 0]

PaperInit ==
  /\ profile \in PaperProfiles
  /\ paperBook = [r \in PaperRoles |-> [version |-> 0, displayed |-> 0]]
  /\ reserved = [r \in PaperRoles |-> [s \in Sides |-> [version |-> 0, quantity |-> 0]]]
  /\ subscribers = <<>>
  /\ stage = [p \in PaperRuns |-> "idle"]
  /\ paperLegs = [p \in PaperRuns |-> [r \in PaperRoles |-> NoLeg]]
  /\ aborting = [p \in PaperRuns |-> FALSE]
  /\ exposure = [p \in PaperRuns |-> Flat] /\ recorded = [p \in PaperRuns |-> Flat]
  /\ exits = [p \in PaperRuns |-> 0]
  /\ sold = [r \in PaperRoles |-> [s \in Sides |-> 0]]

AtExchange == {"PENDING", "PARTIALLY_FILLED", "CANCEL_REQUESTED"}
LegDone == {"NONE", "FILLED", "TIMED_OUT", "CANCELLED", "FAILED"}
Outstanding(leg) == leg.quantity - leg.filled
cancelRace == profile = "parity"

-----------------------------------------------------------------------------
(* PaperLiquidityLedger: a reservation counts only for its book version.   *)

reservedAt(r, s, version) ==
  IF reserved[r][s].version = version THEN reserved[r][s].quantity ELSE 0

\* A plausible defect: the fill is not booked against the level.
ReserveNothing(r, s, version, quantity) == reserved

\* reserve: a newer version forgets what was taken of the older one.
reserve(r, s, version, quantity) ==
  [reserved EXCEPT ![r][s] = [version |-> version, quantity |-> reservedAt(r, s, version) + quantity]]

\* walkDepth under this profile's lookup.
walkDepth(r, s, remaining) ==
  LET already == IF profile = "parity" THEN reservedAt(r, s, paperBook[r].version) ELSE 0
      displayed == paperBook[r].displayed
  IN Min({remaining, IF displayed > already THEN displayed - already ELSE 0})

-----------------------------------------------------------------------------
(* LegExecutor: one order.                                                  *)

WithFill(leg, quantity) ==
  [leg EXCEPT !.filled = leg.filled + quantity,
              !.status = CASE leg.filled + quantity = leg.quantity -> "FILLED"
                           [] quantity > 0 /\ leg.status # "CANCEL_REQUESTED" -> "PARTIALLY_FILLED"
                           [] OTHER -> leg.status]

\* The exposure a fill makes: an entry's adds to it, any other closes it.
Exposed(p, r, quantity) ==
  [exposure EXCEPT ![p][r] = IF stage[p] = "entry" THEN @ + quantity ELSE @ - quantity]

\* abandon, and the end of an order at the exchange that is cancelled.
Abandoned(leg) == [leg EXCEPT !.status = IF leg.filled > 0 THEN "CANCELLED" ELSE "FAILED"]

\* requestCancel: an order not yet at the exchange dies at once; one that is there stays
\* live until the cancel is confirmed, where the profile models that.  "arrived": its
\* arrival time has passed, whether or not the loop has seen it.
requestCancel(leg, arrived) ==
  CASE leg.status \in LegDone \cup {"CANCEL_REQUESTED"} -> leg
    [] leg.status = "CREATED" \/ (leg.status = "IN_FLIGHT" /\ ~arrived) -> Abandoned(leg)
    [] OTHER -> IF cancelRace THEN [leg EXCEPT !.status = "CANCEL_REQUESTED"]
                ELSE Abandoned(leg)

\* expire: the timeout of an order at the exchange.
expire(leg) ==
  IF cancelRace THEN [leg EXCEPT !.status = "CANCEL_REQUESTED"]
  ELSE [leg EXCEPT !.status = "TIMED_OUT"]

\* cancelRemaining: sequential mode submits nothing after a leg that failed.
cancelRemaining(legs) ==
  [r \in PaperRoles |-> IF profile = "sequential" /\ legs[r].status = "CREATED"
                        THEN [legs[r] EXCEPT !.status = "FAILED"] ELSE legs[r]]

\* submitNext: sequential mode submits the next leg once one has filled.
submitNext(legs) ==
  LET created == {r \in PaperRoles : legs[r].status = "CREATED"}
  IN IF profile = "sequential" /\ created # {}
     THEN [legs EXCEPT ![CHOOSE r \in created : TRUE].status = "IN_FLIGHT"]
     ELSE legs

-----------------------------------------------------------------------------
(* LegExecutor.run                                                          *)

\* The start of a run: every leg is submitted, or only the first in sequential mode.
RunLegs(side, quantities) ==
  LET wanted == {r \in PaperRoles : quantities[r] > 0}
      first == CHOOSE r \in wanted : TRUE
  IN [r \in PaperRoles |->
        IF r \notin wanted THEN NoLeg
        ELSE [status |-> IF profile # "sequential" \/ r = first THEN "IN_FLIGHT" ELSE "CREATED",
              side |-> side, quantity |-> quantities[r], filled |-> 0]]

\* A run has one subscription at most.
Position(p) == CHOOSE i \in DOMAIN subscribers : subscribers[i] = p

Unsubscribed(p) ==
  IF p \in Range(subscribers) THEN RemoveAt(subscribers, Position(p)) ELSE subscribers

StartRun(p, to, side, quantities) ==
  /\ stage' = [stage EXCEPT ![p] = to]
  /\ paperLegs' = [paperLegs EXCEPT ![p] = RunLegs(side, quantities)]
  /\ aborting' = [aborting EXCEPT ![p] = FALSE]
  /\ subscribers' = Append(Unsubscribed(p), p)

\* The quote subscription: each listening run, in order, fills its order for the contract
\* if it is live at the exchange; the book and the ledger are one for all of them.  "within":
\* the runs at the exchange whose order the book is in time and priced for.
QuoteFill(p, r, book, within, taken) ==
  LET leg == paperLegs[p][r]
      left == IF profile = "parity" THEN book.displayed - taken[leg.side] ELSE book.displayed
  IN IF p \in within THEN Min({Outstanding(leg), left}) ELSE 0

Taking(p, r, book, within, taken) ==
  [taken EXCEPT ![paperLegs[p][r].side] = @ + QuoteFill(p, r, book, within, taken)]

\* What the first i listeners took of each side.
Takings(r, book, within) ==
  LET taken[i \in 0..Len(subscribers)] ==
        IF i = 0 THEN [s \in Sides |-> 0]
        ELSE Taking(subscribers[i], r, book, within, taken[i - 1])
  IN taken

BooksPublished == MapThenSumSet(LAMBDA c : paperBook[c].version, PaperRoles)

PublishBook(r) ==
  \E displayed \in 0..PaperLot,
     within \in SUBSET {p \in Range(subscribers) : paperLegs[p][r].status \in AtExchange} :
    LET book == [version |-> paperBook[r].version + 1, displayed |-> displayed]
        taken == Takings(r, book, within)
        fill == [p \in within |-> QuoteFill(p, r, book, within, taken[Position(p) - 1])]
        all == taken[Len(subscribers)]
    IN /\ BooksPublished < MaxBooks
       /\ paperBook' = [paperBook EXCEPT ![r] = book]
       /\ paperLegs' = [p \in PaperRuns |->
            IF p \in within THEN [paperLegs[p] EXCEPT ![r] = WithFill(@, fill[p])] ELSE paperLegs[p]]
       /\ exposure' = [p \in PaperRuns |->
            IF p \in within THEN Exposed(p, r, fill[p])[p] ELSE exposure[p]]
       /\ sold' = [sold EXCEPT ![r] = all]
       /\ reserved' = [reserved EXCEPT ![r] = [s \in Sides |->
                         IF profile = "parity" /\ all[s] > 0
                         THEN [version |-> book.version, quantity |-> all[s]] ELSE @[s]]]
       /\ UNCHANGED <<profile, subscribers, stage, aborting, recorded, exits>>

\* The loop sees an arrival: arriveAtExchange and the first attempt to fill, from the book
\* as it is unless that is stale by now; an arrival seen after its timeout expires instead.
LegArrives(p, r) ==
  LET leg == [paperLegs[p][r] EXCEPT !.status = "PENDING"]
  IN /\ paperLegs[p][r].status = "IN_FLIGHT"
     /\ \/ \E quantity \in {0, walkDepth(r, leg.side, Outstanding(leg))} :
             LET filled == WithFill(leg, quantity)
                 legs == [paperLegs[p] EXCEPT ![r] = filled]
             IN /\ paperLegs' = [paperLegs EXCEPT ![p] =
                                   IF filled.status = "FILLED" THEN submitNext(legs) ELSE legs]
                /\ exposure' = Exposed(p, r, quantity)
                /\ sold' = [sold EXCEPT ![r][leg.side] = @ + quantity]
                /\ reserved' = IF profile = "parity" /\ quantity > 0
                               THEN reserve(r, leg.side, paperBook[r].version, quantity)
                               ELSE reserved
        \/ /\ paperLegs' = [paperLegs EXCEPT ![p] =
                              cancelRemaining([paperLegs[p] EXCEPT ![r] = expire(leg)])]
           /\ UNCHANGED <<exposure, sold, reserved>>
     /\ UNCHANGED <<profile, paperBook, subscribers, stage, aborting, recorded, exits>>

\* The loop sees a timeout.
LegExpires(p, r) ==
  /\ paperLegs[p][r].status \in {"PENDING", "PARTIALLY_FILLED"}
  /\ LET legs == [paperLegs[p] EXCEPT ![r] = expire(paperLegs[p][r])]
     IN paperLegs' = [paperLegs EXCEPT ![p] =
                        IF legs[r].status \in LegDone THEN cancelRemaining(legs) ELSE legs]
  /\ UNCHANGED <<profile, paperBook, reserved, subscribers, stage, aborting, exposure, recorded, exits, sold>>

\* confirmCancel: by then the order may have filled in part.
confirmCancel(p, r) ==
  /\ paperLegs[p][r].status = "CANCEL_REQUESTED"
  /\ paperLegs' = [paperLegs EXCEPT ![p] =
       cancelRemaining([paperLegs[p] EXCEPT ![r] =
         IF aborting[p] THEN Abandoned(paperLegs[p][r])
         ELSE [paperLegs[p][r] EXCEPT !.status = "TIMED_OUT"]])]
  /\ UNCHANGED <<profile, paperBook, reserved, subscribers, stage, aborting, exposure, recorded, exits, sold>>

\* leggingAbortReason turns up: the market closes, the feed goes unhealthy, or an entry is
\* no longer wanted.
RunAborts(p) ==
  /\ stage[p] \in {"entry", "unwind", "exit", "flatten"} /\ ~aborting[p]
  /\ aborting' = [aborting EXCEPT ![p] = TRUE]
  /\ \E arrived \in SUBSET PaperLegsOf[p] :
       paperLegs' = [paperLegs EXCEPT ![p] =
                       [r \in PaperRoles |-> requestCancel(paperLegs[p][r], r \in arrived)]]
  /\ UNCHANGED <<profile, paperBook, reserved, subscribers, stage, exposure, recorded, exits, sold>>

\* nextBoundary is null.  A leg filled by the quote subscription releases no next leg, so
\* in sequential mode the legs behind it are still CREATED and the end of the run fails them.
Resolved(p) == \A r \in PaperRoles : paperLegs[p][r].status \in LegDone \cup {"CREATED"}
Fills(p) == [r \in PaperRoles |-> paperLegs[p][r].filled]
Remain(p) == [r \in PaperRoles |-> Outstanding(paperLegs[p][r])]

Unsubscribe(p) == subscribers' = Unsubscribed(p)

-----------------------------------------------------------------------------
(* BoxExecutionSimulator                                                    *)

\* simulateLeggingEntry: four orders of one lot each.
LeggingEntryStarts(p) ==
  /\ stage[p] = "idle" /\ profile # "touch"
  /\ StartRun(p, "entry", "BUY", OneLot(p))
  /\ UNCHANGED <<profile, paperBook, reserved, exposure, recorded, exits, sold>>

filledCount(p) == Cardinality({r \in PaperRoles : paperLegs[p][r].status = "FILLED"})

\* Every leg filled and the executed economics qualify: the Box opens.
LeggingEntryOpens(p) ==
  /\ stage[p] = "entry" /\ Resolved(p) /\ filledCount(p) = Cardinality(PaperLegsOf[p])
  /\ stage' = [stage EXCEPT ![p] = "open"]
  /\ recorded' = [recorded EXCEPT ![p] = Fills(p)]
  /\ Unsubscribe(p)
  /\ UNCHANGED <<profile, paperBook, reserved, paperLegs, aborting, exposure, exits, sold>>

\* No leg filled completely: refused, with an empty residual.
LeggingEntryRefused(p) ==
  /\ stage[p] = "entry" /\ Resolved(p) /\ filledCount(p) = 0
  /\ stage' = [stage EXCEPT ![p] = "over"]
  /\ Unsubscribe(p)
  /\ UNCHANGED <<profile, paperBook, reserved, paperLegs, aborting, exposure, recorded, exits, sold>>

\* emergencyUnwind: some legs filled, or all did and the economics no longer qualify.
emergencyUnwind(p) ==
  /\ stage[p] = "entry" /\ Resolved(p) /\ filledCount(p) > 0
  /\ StartRun(p, "unwind", "SELL", Fills(p))
  /\ UNCHANGED <<profile, paperBook, reserved, exposure, recorded, exits, sold>>

\* What an unwind, a flatten or an exit leaves is reported as residual exposure.
ClosingEnds(p) ==
  /\ stage[p] \in {"unwind", "exit", "flatten"} /\ Resolved(p)
  /\ recorded' = [recorded EXCEPT ![p] = Remain(p)]
  /\ stage' = [stage EXCEPT ![p] = CASE Remain(p) = Flat -> "over"
                                     [] stage[p] = "exit" -> "open"
                                     [] OTHER -> "residual"]
  /\ Unsubscribe(p)
  /\ UNCHANGED <<profile, paperBook, reserved, paperLegs, aborting, exposure, exits, sold>>

\* simulateLeggingExit of an open position: exactly the outstanding quantities.
LeggingExitStarts(p) ==
  /\ stage[p] = "open" /\ profile # "touch" /\ exits[p] < MaxPaperExits
  /\ StartRun(p, "exit", "SELL", recorded[p])
  /\ exits' = [exits EXCEPT ![p] = @ + 1]
  /\ UNCHANGED <<profile, paperBook, reserved, exposure, recorded, sold>>

\* flattenResidual of what an unwind left.
flattenResidual(p) ==
  /\ stage[p] = "residual" /\ exits[p] < MaxPaperExits
  /\ StartRun(p, "flatten", "SELL", recorded[p])
  /\ exits' = [exits EXCEPT ![p] = @ + 1]
  /\ UNCHANGED <<profile, paperBook, reserved, exposure, recorded, sold>>

\* simulateEntry and simulateExit: after the simulated delay every leg takes one lot from
\* the book of that moment, or none does.  The ledger is not asked.
Executable(p) ==
  \A r \in PaperLegsOf[p] : paperBook[r].version > 0 /\ paperBook[r].displayed >= PaperLot

simulateEntry(p) ==
  /\ stage[p] = "idle" /\ profile = "touch"
  /\ \/ /\ Executable(p)
        /\ stage' = [stage EXCEPT ![p] = "open"]
        /\ exposure' = [exposure EXCEPT ![p] = OneLot(p)]
        /\ recorded' = [recorded EXCEPT ![p] = OneLot(p)]
     \/ stage' = [stage EXCEPT ![p] = "over"] /\ UNCHANGED <<exposure, recorded>>
  /\ UNCHANGED <<profile, paperBook, reserved, subscribers, paperLegs, aborting, exits, sold>>

simulateExit(p) ==
  /\ stage[p] = "open" /\ profile = "touch" /\ exits[p] < MaxPaperExits
  /\ exits' = [exits EXCEPT ![p] = @ + 1]
  /\ \/ /\ Executable(p)
        /\ stage' = [stage EXCEPT ![p] = "over"]
        /\ exposure' = [exposure EXCEPT ![p] = Flat] /\ recorded' = [recorded EXCEPT ![p] = Flat]
     \/ UNCHANGED <<stage, exposure, recorded>>
  /\ UNCHANGED <<profile, paperBook, reserved, subscribers, paperLegs, aborting, sold>>

-----------------------------------------------------------------------------

PaperNext ==
  \/ \E r \in PaperRoles : PublishBook(r)
  \/ \E p \in PaperRuns, r \in PaperRoles :
       \/ LegArrives(p, r)
       \/ LegExpires(p, r)
       \/ confirmCancel(p, r)
  \/ \E p \in PaperRuns :
       \/ LeggingEntryStarts(p)
       \/ LeggingEntryOpens(p)
       \/ LeggingEntryRefused(p)
       \/ emergencyUnwind(p)
       \/ ClosingEnds(p)
       \/ LeggingExitStarts(p)
       \/ flattenResidual(p)
       \/ simulateEntry(p)
       \/ simulateExit(p)
       \/ RunAborts(p)

PaperSpec == PaperInit /\ [][PaperNext]_paperVars

PaperTypeOK ==
  /\ profile \in PaperProfiles
  /\ \A r \in PaperRoles : paperBook[r] \in [version : 0..MaxBooks, displayed : 0..PaperLot]
  /\ \A p \in PaperRuns :
       /\ stage[p] \in {"idle", "entry", "unwind", "open", "exit", "residual", "flatten", "over"}
       /\ exposure[p] \in [PaperRoles -> 0..PaperLot] /\ recorded[p] \in [PaperRoles -> 0..PaperLot]
       /\ exits[p] \in 0..MaxPaperExits /\ aborting[p] \in BOOLEAN
       /\ \A r \in PaperRoles : paperLegs[p][r].filled <= paperLegs[p][r].quantity

\* Under the live-parity profile the fills of all pipelines together never take more from one
\* published book than it displays: an order that arrives late, one filled from the quote
\* subscription and one whose cancel is still in flight share what is there
\* (liquidityLedger.ts, walkDepth).
DisplayedSoldOnce ==
  profile = "parity" => \A r \in PaperRoles, s \in Sides : sold[r][s] <= paperBook[r].displayed

\* Between runs, what a pipeline's result reports as held is what its simulated fills left:
\* no fill of an order that was cancelled, timed out or raced its cancellation is lost on the
\* way to the position or to the residual exposure.
PaperExposureIsRecorded ==
  \A p \in PaperRuns : stage[p] \in {"open", "residual", "over"} => recorded[p] = exposure[p]
=============================================================================
