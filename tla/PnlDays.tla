------------------------------ MODULE PnlDays -------------------------------
(***************************************************************************)
(* The durable P&L of one day (repository.ts): a row per trade, a summary  *)
(* row and a day state with the proof of its exact content, written by the *)
(* archiver (pnlArchive.ts) and by the cleanup of a deleted trade, one at a*)
(* time, and repaired beside them by reconcileBoxDailyPnlOrphans.  Every   *)
(* statement commits by itself; an actor is the list of the statements it  *)
(* still has to make.  A row is the number of the pass that wrote it; a    *)
(* content hash is the rows themselves.  The cache is the disabled stub.   *)
(***************************************************************************)
EXTENDS Naturals, Sequences, FiniteSets

CONSTANTS
  PnlTrades,      \* trades of the day, with TradeOrder their ids in order
  TradeOrder,
  MaxPasses,      \* bound: archive and verify passes
  MaxPnlFaults    \* bound: failing statements and crashes

ASSUME PnlAssumption ==
  /\ MaxPasses \in Nat /\ MaxPnlFaults \in Nat
  /\ TradeOrder \in Seq(PnlTrades) /\ PnlTrades = {TradeOrder[i] : i \in DOMAIN TradeOrder}

VARIABLES
  pnlSource,    \* trades whose box_trades row exists
  fence,        \* trade -> its row of box_pnl_deletions: "none", "pending" or "complete"
  pnlRows,      \* trade -> its row of the day, 0 when there is none
  summaryOf,    \* <<rows the stored summary was computed from>>, or <<>>
  dayState,     \* the row of box_pnl_day_states; proof is <<rows>> or <<>>
  archiver,     \* the work holding runLifecycle's turn
  repair,       \* reconcileBoxDailyPnlOrphans
  deletedIds,   \* deletedTradeIds: deletions waiting for, or having, their turn
  passes, pnlFaults

pnlVars == <<pnlSource, fence, pnlRows, summaryOf, dayState, archiver, repair, deletedIds, passes, pnlFaults>>

EmptyDay == [t \in PnlTrades |-> 0]
Resting == [todo |-> <<>>, catch |-> <<>>, docs |-> EmptyDay, seen |-> EmptyDay, count |-> 0, prior |-> <<>>]

PnlInit ==
  /\ pnlSource = PnlTrades
  /\ fence = [t \in PnlTrades |-> "none"]
  /\ pnlRows = EmptyDay /\ summaryOf = <<>>
  /\ dayState = [complete |-> FALSE, reproof |-> FALSE, proof |-> <<>>]
  /\ archiver = Resting /\ repair = Resting
  /\ deletedIds = {} /\ passes = 0 /\ pnlFaults = 0

-----------------------------------------------------------------------------
(* Reads                                                                    *)

isArchivedPnlRowInvalid(t) == t \notin pnlSource \/ fence[t] = "complete"
Archived == {t \in PnlTrades : pnlRows[t] # 0}
\* scanDurablePnlDay leaves the invalid rows out, and names them.
scanDurablePnlDay == [t \in PnlTrades |-> IF isArchivedPnlRowInvalid(t) THEN 0 ELSE pnlRows[t]]
AllValid == \A t \in Archived : ~isArchivedPnlRowInvalid(t)
RowCount(rows) == Cardinality({t \in PnlTrades : rows[t] # 0})
boxPnlSummaryMatchesRows == summaryOf = <<pnlRows>>

ReproveWhenFlagged == dayState.reproof

shouldReproveBoxPnlDay == dayState.complete \/ dayState.reproof

\* A reader serves the stored day: its proof and its summary are those of the rows.
Served == dayState.complete /\ dayState.proof = <<pnlRows>> /\ boxPnlSummaryMatchesRows

-----------------------------------------------------------------------------
(* Programs: <<statement, trade>> in order; "none" stands for no trade.     *)

Do(op) == <<op, "none">>

\* Every change of the day is between two invalidations.
runBoxPnlDayMutation(change) == <<Do("invalidate"), change, Do("invalidate")>>

rewriteBoxDailyPnlSummary ==
  <<Do("scan")>> \o runBoxPnlDayMutation(Do("summary")) \o <<Do("rescan")>>

\* deleteBoxDailyPnlForTrade: the fence, then every day with a row of the trade.
deleteBoxDailyPnlForTrade(t) == <<<<"prepare", t>>, <<"clean", t>>, <<"fenceComplete", t>>>>

\* runBoxPnlDayProofRepair, from the last exact proof.
runBoxPnlDayProofRepair ==
  <<Do("loadValid")>> \o rewriteBoxDailyPnlSummary \o <<Do("before"), Do("republish"), Do("after")>>

\* markBoxDailyPnlComplete with runBoxPnlDayProofCommit.
markBoxDailyPnlComplete ==
  <<Do("certify")>> \o rewriteBoxDailyPnlSummary \o <<Do("match"), Do("publish"), Do("match")>>

ForEach(op) == [i \in DOMAIN TradeOrder |-> <<op, TradeOrder[i]>>]

\* archiveDay, and verifyDay which first deletes the rows the day should not have.
archiveDay == <<Do("invalidate")>> \o ForEach("upsert") \o <<Do("upsertSummary")>> \o markBoxDailyPnlComplete
verifyDay == <<Do("invalidate")>> \o ForEach("extra") \o ForEach("upsert") \o <<Do("upsertSummary")>>
             \o markBoxDailyPnlComplete

ReconcilePendingOnly == ForEach("pending") \o <<Do("repairDay")>>

\* reconcileBoxDailyPnlOrphans: pending fences, orphaned rows, then the day's proof.
reconcileBoxDailyPnlOrphans == ForEach("pending") \o ForEach("orphan") \o <<Do("repairDay")>>

-----------------------------------------------------------------------------
(* One statement of an actor.                                               *)

Proceed(a) == [a EXCEPT !.todo = Tail(a.todo)]
With(a, more) == [a EXCEPT !.todo = more \o Tail(a.todo)]
Throw(a) == [a EXCEPT !.todo = a.catch, !.catch = <<>>]
\* The rest of the program runs after a failure too: runIndependentBoxPnlRepairs.
Guarded(a, more, handler) ==
  [a EXCEPT !.todo = more \o Tail(a.todo), !.catch = handler \o Tail(a.todo)]

Invalidated == [dayState EXCEPT !.complete = FALSE, !.reproof = TRUE]
Complete(rows) == [complete |-> TRUE, reproof |-> FALSE, proof |-> <<rows>>]

\* Reads that decide how the actor goes on, and change nothing durable.
Decide(op, t, a) ==
  CASE op = "upsert" ->
         IF t \in deletedIds \/ a.docs[t] = 0 \/ isArchivedPnlRowInvalid(t) THEN Proceed(a)
         ELSE With(a, runBoxPnlDayMutation(<<"write", t>>) \o <<<<"allowed", t>>>>)
    [] op = "allowed" ->
         IF isArchivedPnlRowInvalid(t)
         THEN With(a, runBoxPnlDayMutation(<<"remove", t>>) \o rewriteBoxDailyPnlSummary)
         ELSE Proceed(a)
    [] op = "upsertSummary" ->
         IF \E d \in deletedIds : a.docs[d] # 0 THEN Proceed(a) ELSE With(a, rewriteBoxDailyPnlSummary)
    [] op = "extra" ->
         IF pnlRows[t] # 0 /\ a.docs[t] = 0 THEN With(a, runBoxPnlDayMutation(<<"remove", t>>)) ELSE Proceed(a)
    [] op = "scan" ->
         IF AllValid THEN [Proceed(a) EXCEPT !.seen = scanDurablePnlDay] ELSE Throw(a)
    [] op = "rescan" ->
         IF AllValid /\ scanDurablePnlDay = a.seen THEN Proceed(a) ELSE With(a, rewriteBoxDailyPnlSummary)
    [] op = "certify" ->
         IF \E d \in PnlTrades : a.docs[d] # 0 /\ isArchivedPnlRowInvalid(d)
         THEN [a EXCEPT !.todo = <<Do("invalidate")>>, !.catch = <<>>]
         ELSE [Proceed(a) EXCEPT !.catch = <<Do("invalidate")>>]
    [] op = "match" ->
         IF AllValid /\ boxPnlSummaryMatchesRows /\ pnlRows = a.docs THEN Proceed(a) ELSE Throw(a)
    [] op = "clean" ->
         IF pnlRows[t] = 0 THEN Proceed(a)
         ELSE LET after == IF shouldReproveBoxPnlDay THEN <<Do("reprove")>> ELSE rewriteBoxDailyPnlSummary
              IN [With(a, runBoxPnlDayMutation(<<"remove", t>>) \o after \o <<<<"clean", t>>>>)
                    EXCEPT !.count = RowCount(scanDurablePnlDay)]
    [] op = "reprove" ->
         IF dayState.proof = <<>> THEN Throw([a EXCEPT !.catch = <<Do("invalidate")>> \o a.catch])
         ELSE [With(a, runBoxPnlDayProofRepair)
                 EXCEPT !.prior = dayState.proof, !.catch = <<Do("retryIfProof")>> \o a.catch]
    [] op = "loadValid" -> IF AllValid /\ RowCount(pnlRows) = a.count THEN Proceed(a) ELSE Throw(a)
    [] op = "before" ->
         IF AllValid /\ RowCount(pnlRows) = a.count /\ boxPnlSummaryMatchesRows
         THEN [Proceed(a) EXCEPT !.seen = pnlRows] ELSE Throw(a)
    [] op = "after" ->
         IF AllValid /\ boxPnlSummaryMatchesRows /\ pnlRows = a.seen
         THEN [Proceed(a) EXCEPT !.catch = Tail(a.catch)] ELSE Throw(a)
    [] op = "pending" ->
         IF fence[t] # "pending" THEN Proceed(a)
         ELSE IF t \in pnlSource THEN With(a, <<<<"cancel", t>>>>)
         ELSE Guarded(a, deleteBoxDailyPnlForTrade(t), <<<<"fencePending", t>>>>)
    [] op = "orphan" ->
         IF pnlRows[t] # 0 /\ isArchivedPnlRowInvalid(t)
         THEN Guarded(a, deleteBoxDailyPnlForTrade(t), <<<<"fencePending", t>>>>) ELSE Proceed(a)
    [] op \in {"repairDay", "repairCleaned"} ->
         IF dayState.proof = <<>> \/ ~shouldReproveBoxPnlDay THEN Proceed(a)
         ELSE IF ~AllValid
         THEN IF op = "repairCleaned" THEN Throw(a)
              ELSE With(a, deleteBoxDailyPnlForTrade(CHOOSE d \in Archived : isArchivedPnlRowInvalid(d))
                           \o <<Do("repairCleaned")>>)
         ELSE IF Served /\ ~dayState.reproof THEN Proceed(a)
         ELSE [With(a, <<Do("reprove")>>) EXCEPT !.count = RowCount(dayState.proof[1])]
    [] OTHER -> Proceed(a)

Reads == {"upsert", "allowed", "upsertSummary", "extra", "scan", "rescan", "certify", "match", "clean",
          "reprove", "loadValid", "before", "after", "pending", "orphan", "repairDay", "repairCleaned"}

\* What the actor does next; republish is a compare-and-set on the last exact proof.
Stale(op, a) == op = "republish" /\ dayState.proof # a.prior
After(op, t, a) ==
  CASE Stale(op, a) -> Throw(a)
    [] op = "republish" /\ ~Stale(op, a) -> [Proceed(a) EXCEPT !.prior = <<a.seen>>]
    [] op \in Reads -> Decide(op, t, a)
    [] OTHER -> Proceed(a)

\* What the statement commits.
Commits(op, t, a) ==
  /\ dayState' = CASE op = "invalidate" -> Invalidated
                   [] op = "retryIfProof" /\ dayState.proof = a.prior -> Invalidated
                   [] op = "publish" -> Complete(a.docs)
                   [] op = "republish" /\ ~Stale(op, a) -> Complete(a.seen)
                   [] OTHER -> dayState
  /\ pnlRows' = CASE op = "write" -> [pnlRows EXCEPT ![t] = a.docs[t]]
                  [] op = "remove" -> [pnlRows EXCEPT ![t] = 0]
                  [] OTHER -> pnlRows
  /\ summaryOf' = IF op = "summary" THEN <<a.seen>> ELSE summaryOf
  /\ fence' = CASE op = "prepare" /\ fence[t] = "none" -> [fence EXCEPT ![t] = "pending"]
                [] op = "cancel" /\ fence[t] = "pending" -> [fence EXCEPT ![t] = "none"]
                [] op = "fenceComplete" -> [fence EXCEPT ![t] = "complete"]
                [] op = "fencePending" /\ fence[t] # "none" -> [fence EXCEPT ![t] = "pending"]
                [] OTHER -> fence

-----------------------------------------------------------------------------
(* Actors                                                                   *)

Tidy(a) == IF a.todo = <<>> THEN Resting ELSE a
Runs(a) == Commits(Head(a.todo)[1], Head(a.todo)[2], a)
Then(a) == Tidy(After(Head(a.todo)[1], Head(a.todo)[2], a))

ArchiverStep ==
  /\ archiver.todo # <<>>
  /\ Runs(archiver) /\ archiver' = Then(archiver)
  /\ UNCHANGED <<pnlSource, repair, deletedIds, passes, pnlFaults>>

RepairStep ==
  /\ repair.todo # <<>>
  /\ Runs(repair) /\ repair' = Then(repair)
  /\ UNCHANGED <<pnlSource, archiver, deletedIds, passes, pnlFaults>>

\* tick and runReconcilePass: one pass at a time, over the trades read at its start.
PassStarts ==
  /\ archiver = Resting /\ passes < MaxPasses
  /\ passes' = passes + 1
  /\ \E program \in {archiveDay, verifyDay} :
       archiver' = [Resting EXCEPT !.todo = program,
                                   !.docs = [t \in PnlTrades |-> IF t \in pnlSource \ deletedIds THEN passes + 1 ELSE 0]]
  /\ UNCHANGED <<pnlSource, fence, pnlRows, summaryOf, dayState, repair, deletedIds, pnlFaults>>

\* deleteTrade: the fence is prepared, and the tombstone set, before the source row goes.
prepareBoxPnlDeletion(t) ==
  /\ t \in pnlSource /\ t \notin deletedIds /\ fence[t] = "none"
  /\ fence' = [fence EXCEPT ![t] = "pending"] /\ deletedIds' = deletedIds \cup {t}
  /\ UNCHANGED <<pnlSource, pnlRows, summaryOf, dayState, archiver, repair, passes, pnlFaults>>

deleteBoxTrade(t) ==
  /\ t \in deletedIds \cap pnlSource
  /\ pnlSource' = pnlSource \ {t}
  /\ UNCHANGED <<fence, pnlRows, summaryOf, dayState, archiver, repair, deletedIds, passes, pnlFaults>>

\* The delete failed: the fence is withdrawn and the trade stays.
cancelBoxPnlDeletion(t) ==
  /\ t \in deletedIds \cap pnlSource /\ pnlFaults < MaxPnlFaults
  /\ pnlFaults' = pnlFaults + 1 /\ deletedIds' = deletedIds \ {t}
  /\ fence' = IF fence[t] = "pending" THEN [fence EXCEPT ![t] = "none"] ELSE fence
  /\ UNCHANGED <<pnlSource, pnlRows, summaryOf, dayState, archiver, repair, passes>>

\* withTradeDeletion: the cleanup, when it has its turn.
CleanupStarts(t) ==
  /\ t \in deletedIds \ pnlSource /\ archiver = Resting
  /\ archiver' = [Resting EXCEPT !.todo = deleteBoxDailyPnlForTrade(t), !.catch = <<<<"fencePending", t>>>>]
  /\ deletedIds' = deletedIds \ {t}
  /\ UNCHANGED <<pnlSource, fence, pnlRows, summaryOf, dayState, repair, passes, pnlFaults>>

\* The timer of runReconcilePass, beside the turn.
RepairStarts ==
  /\ repair = Resting
  /\ repair' = [Resting EXCEPT !.todo = reconcileBoxDailyPnlOrphans]
  /\ UNCHANGED <<pnlSource, fence, pnlRows, summaryOf, dayState, archiver, deletedIds, passes, pnlFaults>>

\* A failed change is followed by its second invalidation.
Fails(a) ==
  Tidy(Throw(IF Head(a.todo)[1] \in {"write", "remove", "summary"}
             THEN [a EXCEPT !.catch = <<Do("invalidate")>> \o a.catch] ELSE a))

StatementFails ==
  /\ pnlFaults < MaxPnlFaults /\ pnlFaults' = pnlFaults + 1
  /\ \/ /\ archiver # Resting /\ archiver' = Fails(archiver) /\ UNCHANGED repair
     \/ /\ repair # Resting /\ repair' = Fails(repair) /\ UNCHANGED archiver
  /\ UNCHANGED <<pnlSource, fence, pnlRows, summaryOf, dayState, deletedIds, passes>>

PnlCrash ==
  /\ pnlFaults < MaxPnlFaults /\ pnlFaults' = pnlFaults + 1
  /\ archiver' = Resting /\ repair' = Resting /\ deletedIds' = {}
  /\ UNCHANGED <<pnlSource, fence, pnlRows, summaryOf, dayState, passes>>

PnlNext ==
  \/ ArchiverStep \/ RepairStep \/ PassStarts \/ RepairStarts \/ StatementFails \/ PnlCrash
  \/ \E t \in PnlTrades :
       prepareBoxPnlDeletion(t) \/ deleteBoxTrade(t) \/ cancelBoxPnlDeletion(t) \/ CleanupStarts(t)

PnlSpec == PnlInit /\ [][PnlNext]_pnlVars
           /\ WF_pnlVars(ArchiverStep) /\ WF_pnlVars(RepairStep) /\ WF_pnlVars(RepairStarts)
           /\ \A t \in PnlTrades : WF_pnlVars(CleanupStarts(t)) /\ WF_pnlVars(deleteBoxTrade(t))

-----------------------------------------------------------------------------
(* Properties                                                               *)

PnlTypeOK ==
  /\ pnlSource \subseteq PnlTrades /\ deletedIds \subseteq PnlTrades
  /\ fence \in [PnlTrades -> {"none", "pending", "complete"}]
  /\ pnlRows \in [PnlTrades -> 0..MaxPasses]
  /\ dayState.complete \in BOOLEAN /\ dayState.reproof \in BOOLEAN

\* A crash or a failed invalidation may leave a day marked complete with a proof that is not
\* that of its rows; the repair that follows corrects the mark or the proof, for good
\* (reconcileBoxDailyPnlOrphans, repairBoxPnlDayV2).
CompleteDayBecomesExact == <>[](dayState.complete => Served)

\* The rows of a deleted trade disappear, whatever fails on the way (reconcileBoxDailyPnlOrphans).
DeletedRowsVanish == <>[](\A t \in PnlTrades \ pnlSource : pnlRows[t] = 0)

\* The archive converges on the trades that exist, whatever fails or crashes on the way: a
\* day is served as complete only with its own rows, and a deleted trade leaves none.
ArchiveConverges == CompleteDayBecomesExact /\ DeletedRowsVanish
=============================================================================
