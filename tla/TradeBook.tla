------------------------------ MODULE TradeBook ------------------------------
(***************************************************************************)
(* One Box in live mode, from its filled entry to its durable close: the   *)
(* row of box_trades, the BoxOpenPosition objects made for it, the exits   *)
(* BoxPositionMonitor runs on them and the three kinds of retry that carry *)
(* an outcome the store has not confirmed (engine.pendingPersists,         *)
(* pendingPartialPersists, pendingFinalPersists).  Every call of the store *)
(* is sent in one step and answered in a later one; a failed call may have *)
(* taken effect.                                                           *)
(*                                                                         *)
(* The four roles differ only in their direction, so Roles may be smaller. *)
(* Prices, charges and exit rules decide whether an exit starts: StartExit *)
(* leaves that open.  Fills come from the broker under the permission of   *)
(* the order manager, which never reduces more than the journal attributes *)
(* to the account (FillAttribution).                                       *)
(***************************************************************************)
EXTENDS Integers, Sequences

CONSTANTS
    Roles,          \* BOX_LEG_ROLES
    Lot,            \* lot_size, the quantity of every role
    MaxExits,       \* bound on exits started
    MaxObjects,     \* bound on BoxOpenPosition objects made for the trade
    MaxStoreFaults, \* bound on failed store calls and crashes
    MaxReconciles,  \* bound on reconciliation reports
    ReconcilesDuringExit \* whether one may be read between an exit's fills and its accounting

ASSUME LotAssumption == Lot \in Nat \ {0}
ASSUME BookBoundsAssumption == {MaxExits, MaxObjects, MaxStoreFaults, MaxReconciles} \subseteq Nat
ASSUME ReconcileAssumption == ReconcilesDuringExit \in BOOLEAN

Remaining == [Roles -> 0..Lot]
Nothing == [r \in Roles |-> 0]
fullLotByRole == [r \in Roles |-> Lot]

VARIABLES
    account,        \* account[r]: what the broker account still holds of the Box
    working,        \* working[r]: exit quantity whose outcome nobody knows
    tradeRow,       \* the row of box_trades
    objects,        \* the BoxOpenPosition objects, oldest first
    current,        \* the one the position book holds, 0 for none
    insertion,      \* openPaperTrade and pendingPersists
    drains,         \* drainOwnedExecutions passes that await their insert
    closing,        \* the exit in flight, at most one (closingIds)
    partialDue,     \* pendingPartialPersists
    finalDue,       \* pendingFinalPersists
    retrying,       \* the retry the monitor's cycle awaits
    report,         \* the quantities of a reconciliation report not applied yet
    exitCount, reconciles, storeFaults

bookVars == <<account, working, tradeRow, objects, current, insertion, drains, closing,
              partialDue, finalDue, retrying, report, exitCount, reconciles, storeFaults>>

PositionStates == {"BOX", "PARTIALLY_EXITED", "RECOVERY", "FLAT"}
Projections == [remaining : Remaining, state : PositionStates]
NoProjection == [remaining |-> Nothing, state |-> "none"]
NoExit == [stage |-> "idle", object |-> 0, verdict |-> "none", fills |-> Nothing, projected |-> NoProjection]
NoReport == [r \in Roles |-> -1]
NoRetry == [kind |-> "none", object |-> 0, projected |-> NoProjection]

BookTypeOK ==
    /\ account \in Remaining /\ working \in Remaining
    /\ tradeRow \in [status : {"absent", "open", "closed"}, remaining : Remaining, state : PositionStates]
    /\ objects \in Seq(Projections) /\ Len(objects) <= MaxObjects
    /\ current \in 0..Len(objects)
    /\ insertion \in {"inserting", "retained", "done", "down"}
    /\ drains \in 0..2
    /\ closing.stage \in {"idle", "executing", "persisting"}
    /\ closing.object \in 0..Len(objects)
    /\ {partialDue, finalDue, closing.projected, retrying.projected} \subseteq Projections \cup {NoProjection}
    /\ retrying.kind \in {"none", "partial", "final"}
    /\ report \in Remaining \cup {NoReport}

-----------------------------------------------------------------------------
(* positions.ts *)

isBoxPositionFlat(rem) == \A r \in Roles : rem[r] = 0

(* A role that is whole and alone, or all of them equally: a smaller Box.  *)
deriveBoxPositionState(rem, state) ==
    IF isBoxPositionFlat(rem) THEN "FLAT"
    ELSE IF state = "RECOVERY" THEN "RECOVERY"
    ELSE IF \A r, s \in Roles : rem[r] = rem[s] THEN "BOX"
    ELSE "PARTIALLY_EXITED"

outstandingRoles(rem) == {r \in Roles : rem[r] > 0}

Minus(a, b) == [r \in Roles |-> IF a[r] > b[r] THEN a[r] - b[r] ELSE 0]

Pos == objects[current]

SetObject(n, p) == objects' = [objects EXCEPT ![n] = p]

(* The store answers: the call took effect or not, and the caller is told  *)
(* that it did only if it did.                                             *)
StoreAnswers(landed, told) ==
    /\ told => landed
    /\ ~told => storeFaults < MaxStoreFaults
    /\ storeFaults' = storeFaults + IF told THEN 0 ELSE 1

BookInit ==
    /\ account = fullLotByRole /\ working = Nothing
    /\ tradeRow = [status |-> "absent", remaining |-> Nothing, state |-> "BOX"]
    /\ objects = <<>> /\ current = 0
    /\ insertion = "inserting" /\ drains = 0
    /\ closing = NoExit /\ partialDue = NoProjection /\ finalDue = NoProjection /\ retrying = NoRetry
    /\ report = NoReport /\ exitCount = 0 /\ reconciles = 0 /\ storeFaults = 0

-----------------------------------------------------------------------------
(* The entry becomes a row and a position. *)

NewRow == [status |-> "open", remaining |-> fullLotByRole, state |-> "BOX"]

(* insertBoxTrade with the preallocated identity: the row is inserted, or  *)
(* the existing one is returned, whatever became of it since.              *)
insertBoxTrade == IF tradeRow.status = "absent" THEN NewRow ELSE tradeRow

(* adoptDoc: BoxPositionBook.add replaces the object held under the id. *)
adoptDoc(row) ==
    /\ Len(objects) < MaxObjects
    /\ objects' = Append(objects, [remaining |-> row.remaining,
                                   state |-> deriveBoxPositionState(row.remaining, row.state)])
    /\ current' = Len(objects) + 1

(* openPaperTrade: insertWithRetry, then the position, or                  *)
(* retainOwnedExecution once its attempts are used up.                     *)
openPaperTrade ==
    /\ insertion = "inserting"
    /\ \E landed, told \in BOOLEAN :
          /\ StoreAnswers(landed, told)
          /\ tradeRow' = IF landed THEN insertBoxTrade ELSE tradeRow
          /\ IF told THEN adoptDoc(insertBoxTrade) /\ insertion' = "done"
             ELSE insertion' = "retained" /\ UNCHANGED <<objects, current>>
    /\ UNCHANGED <<account, working, drains, closing, partialDue, finalDue, retrying, exitCount, reconciles, report>>

(* The interval fires whether or not an earlier pass still awaits. *)
DrainStarts ==
    /\ insertion = "retained" /\ drains < 2
    /\ drains' = drains + 1
    /\ UNCHANGED <<account, working, tradeRow, objects, current, insertion, closing, partialDue, finalDue,
                   retrying, exitCount, reconciles, storeFaults, report>>

(* Every pass ends with `pendingPersists = still'. *)
drainOwnedExecutions ==
    /\ drains > 0
    /\ drains' = drains - 1
    /\ \E landed, told \in BOOLEAN :
          /\ StoreAnswers(landed, told)
          /\ tradeRow' = IF landed THEN insertBoxTrade ELSE tradeRow
          /\ IF told THEN adoptDoc(insertBoxTrade) /\ insertion' = "done"
             ELSE insertion' = "retained" /\ UNCHANGED <<objects, current>>
    /\ UNCHANGED <<account, working, closing, partialDue, finalDue, retrying, exitCount, reconciles, report>>

-----------------------------------------------------------------------------
(* Exits. *)

ExitRuns(pos) ==
    /\ closing.stage = "idle" /\ exitCount < MaxExits
    /\ exitCount' = exitCount + 1
    /\ closing' = [NoExit EXCEPT !.stage = "executing", !.object = current]
    /\ SetObject(current, pos)
    /\ UNCHANGED <<account, working, tradeRow, current, insertion, drains, partialDue, finalDue, retrying,
                   reconciles, storeFaults, report>>

(* evaluatePosition and runExit. *)
AutomaticExit ==
    /\ current # 0 /\ partialDue = NoProjection /\ finalDue = NoProjection
    /\ Pos.state \in {"BOX", "PARTIALLY_EXITED"}
    /\ ExitRuns(Pos)

(* closeManually: it looks at the state alone. *)
closeManually ==
    /\ current # 0 /\ Pos.state # "RECOVERY"
    /\ ExitRuns(Pos)

(* flattenAttributedBoxExposure lifts RECOVERY and closes; the manager     *)
(* allows it once the account is reconciled.                               *)
flattenAttributedBoxExposure ==
    /\ current # 0 /\ working = Nothing
    /\ Pos.state = "RECOVERY"
    /\ ExitRuns([Pos EXCEPT !.state = deriveBoxPositionState(Pos.remaining, "none")])

(* simulateLeggingExit: every role the object calls outstanding is ordered *)
(* for that quantity; the account gives what it has.  A verdict is         *)
(* confirmed or uncertain (part of the quantity may fill later).           *)
ExitExecutes ==
    /\ closing.stage = "executing"
    /\ LET rem == objects[closing.object].remaining
           free(r) == account[r] - working[r]
           room == [r \in Roles |-> IF rem[r] < free(r) THEN rem[r] ELSE free(r)] IN
       \E fills \in Remaining :
          /\ \A r \in Roles : fills[r] <= room[r]
          /\ account' = Minus(account, fills)
          /\ \/ /\ closing' = [closing EXCEPT !.stage = "persisting", !.verdict = "confirmed", !.fills = fills]
                /\ UNCHANGED working
             \/ /\ closing' = [closing EXCEPT !.stage = "persisting", !.verdict = "uncertain", !.fills = fills]
                /\ working' = [r \in Roles |-> working[r] + (room[r] - fills[r])]
    /\ UNCHANGED <<tradeRow, objects, current, insertion, drains, partialDue, finalDue, retrying, exitCount,
                   reconciles, storeFaults, report>>

(* An order of an uncertain exit fills, or ends. *)
LateFill(r) ==
    /\ working[r] > 0
    /\ working' = [working EXCEPT ![r] = @ - 1]
    /\ \E filled \in {0, 1} : account' = [account EXCEPT ![r] = @ - filled]
    /\ UNCHANGED <<tradeRow, objects, current, insertion, drains, closing, partialDue, finalDue, retrying,
                   exitCount, reconciles, storeFaults, report>>

(* Mutant: the quantity asked for is taken as filled. *)
DecrementedInFull(pos, fills) == Nothing

(* The quantities applyLeggingExitResult leaves on the roles. *)
Decremented(pos, fills) == Minus(pos.remaining, fills)

(* The projection applyLeggingExitResult writes: RECOVERY with quantities  *)
(* untouched when the outcome is uncertain or a fill exceeds what the      *)
(* object has, the decremented quantities otherwise.                       *)
Projected(pos, verdict, fills) ==
    IF verdict = "uncertain" \/ \E r \in Roles : fills[r] > pos.remaining[r]
    THEN [remaining |-> pos.remaining, state |-> "RECOVERY"]
    ELSE [remaining |-> Decremented(pos, fills), state |-> deriveBoxPositionState(Decremented(pos, fills), pos.state)]

Invalid(pos, verdict, fills) == verdict = "confirmed" /\ \E r \in Roles : fills[r] > pos.remaining[r]

(* The write is sent: closePaperTrade for a flat projection,               *)
(* persistPartialExit otherwise; nothing is written when nothing closed.   *)
ExitReturns ==
    /\ closing.stage = "persisting" /\ closing.projected = NoProjection
    /\ LET pos == objects[closing.object]
           p == Projected(pos, closing.verdict, closing.fills) IN
       IF closing.verdict = "confirmed" /\ closing.fills = Nothing
       THEN closing' = NoExit
       ELSE closing' = [closing EXCEPT !.projected = p]
    /\ UNCHANGED <<account, working, tradeRow, objects, current, insertion, drains, partialDue, finalDue,
                   retrying, exitCount, reconciles, storeFaults, report>>

(* closeBoxTrade: only an open row; a closed one with the same key answers *)
(* as if it had just been closed.                                          *)
closeBoxTrade(landed) ==
    tradeRow' = IF landed /\ tradeRow.status = "open"
                THEN [status |-> "closed", remaining |-> Nothing, state |-> "FLAT"] ELSE tradeRow

applyBoxPartialExit(landed, p) ==
    tradeRow' = IF landed /\ tradeRow.status = "open"
                THEN [status |-> "open", remaining |-> p.remaining, state |-> p.state] ELSE tradeRow

(* The final close: the position leaves the book, or the close is kept for *)
(* retry and the object is quarantined with its old quantities.            *)
CloseAnswered ==
    /\ closing.projected # NoProjection /\ closing.projected.state = "FLAT"
    /\ \E landed, told \in BOOLEAN :
          /\ StoreAnswers(landed, told)
          /\ closeBoxTrade(landed)
          /\ IF told
             THEN /\ SetObject(closing.object, closing.projected)
                  /\ current' = 0
                  /\ UNCHANGED finalDue
             ELSE /\ SetObject(closing.object, [objects[closing.object] EXCEPT !.state = "RECOVERY"])
                  /\ finalDue' = closing.projected
                  /\ UNCHANGED current
    /\ closing' = NoExit
    /\ UNCHANGED <<account, working, insertion, drains, partialDue, retrying, exitCount, reconciles, report>>

(* A partial or quarantined exit.  An uncertain one whose write fails      *)
(* leaves the object as it was.                                            *)
PartialAnswered ==
    /\ closing.projected # NoProjection /\ closing.projected.state # "FLAT"
    /\ \E landed, told \in BOOLEAN :
          /\ StoreAnswers(landed, told)
          /\ applyBoxPartialExit(landed, closing.projected)
          /\ IF told /\ tradeRow.status = "open"
             THEN SetObject(closing.object, closing.projected) /\ UNCHANGED partialDue
             ELSE /\ partialDue' = closing.projected
                  /\ SetObject(closing.object,
                       IF closing.verdict = "uncertain" THEN objects[closing.object]
                       ELSE [objects[closing.object] EXCEPT !.state = "RECOVERY"])
    /\ closing' = NoExit
    /\ UNCHANGED <<account, working, current, insertion, drains, finalDue, retrying, exitCount, reconciles, report>>

-----------------------------------------------------------------------------
(* The monitor's cycle retries what the store has not confirmed. *)

RetryStarts ==
    /\ retrying.kind = "none"
    /\ IF current = 0 THEN (partialDue # NoProjection \/ finalDue # NoProjection) /\ partialDue' = NoProjection /\ finalDue' = NoProjection
                           /\ UNCHANGED retrying
       ELSE /\ \/ finalDue # NoProjection /\ retrying' = [kind |-> "final", object |-> current, projected |-> finalDue]
               \/ /\ finalDue = NoProjection /\ partialDue # NoProjection
                  /\ retrying' = [kind |-> "partial", object |-> current, projected |-> partialDue]
            /\ UNCHANGED <<partialDue, finalDue>>
    /\ UNCHANGED <<account, working, tradeRow, objects, current, insertion, drains, closing, exitCount,
                   reconciles, storeFaults, report>>

(* Mutant: a close that fails again is given up. *)
RetryFinalForgets ==
    /\ retrying.kind = "final"
    /\ \E landed, told \in BOOLEAN :
          /\ StoreAnswers(landed, told)
          /\ closeBoxTrade(landed)
          /\ IF told THEN current' = 0 ELSE UNCHANGED current
    /\ finalDue' = NoProjection /\ retrying' = NoRetry
    /\ UNCHANGED <<account, working, objects, insertion, drains, closing, partialDue, exitCount, reconciles, report>>

(* pendingFinalPersists keeps the close until the store confirms it. *)
retryPendingFinalPersists ==
    /\ retrying.kind = "final"
    /\ \E landed, told \in BOOLEAN :
          /\ StoreAnswers(landed, told)
          /\ closeBoxTrade(landed)
          /\ IF told THEN current' = 0 /\ finalDue' = NoProjection ELSE UNCHANGED <<current, finalDue>>
    /\ retrying' = NoRetry
    /\ UNCHANGED <<account, working, objects, insertion, drains, closing, partialDue, exitCount, reconciles, report>>

(* The pending projection overwrites the object's quantities and state. *)
retryPendingPartialPersists ==
    /\ retrying.kind = "partial"
    /\ \E landed, told \in BOOLEAN :
          /\ StoreAnswers(landed, told)
          /\ applyBoxPartialExit(landed, retrying.projected)
          /\ IF told /\ tradeRow.status = "open"
             THEN SetObject(retrying.object, retrying.projected) /\ partialDue' = NoProjection
             ELSE UNCHANGED <<objects, partialDue>>
    /\ retrying' = NoRetry
    /\ UNCHANGED <<account, working, current, insertion, drains, closing, finalDue, exitCount, reconciles, report>>

-----------------------------------------------------------------------------
(* Reconciliation and restart. *)

(* Fills of the exit in flight are in the journal and not in its object.   *)
Unaccounted == closing.stage = "persisting" /\ closing.projected = NoProjection

(* A reconciliation pass reads the journal: a fill of an exit in flight is *)
(* in it, a fill nobody knows of yet is not.                               *)
ReconcileReads ==
    /\ report = NoReport /\ reconciles < MaxReconciles /\ insertion # "down"
    /\ ReconcilesDuringExit \/ ~Unaccounted
    /\ reconciles' = reconciles + 1
    /\ report' = account
    /\ UNCHANGED <<account, working, tradeRow, objects, current, insertion, drains, closing, partialDue,
                   finalDue, retrying, exitCount, storeFaults>>

(* markReconciliationRecovery ends the pass: quantities of its report that *)
(* differ are written to an open row and, once the store has confirmed     *)
(* them, replace the object's, exit in flight or not.  A trade with an     *)
(* uncertain order is then quarantined, which its row may miss.            *)
markReconciliationRecovery ==
    /\ report # NoReport
    /\ report' = NoReport
    /\ IF current = 0 THEN UNCHANGED <<objects, tradeRow, storeFaults>>
       ELSE \E landed, told \in BOOLEAN :
          /\ StoreAnswers(landed, told)
          /\ LET changed == report # Pos.remaining
                 exact == IF ~changed THEN Pos
                          ELSE [remaining |-> report,
                                state |-> IF isBoxPositionFlat(report) THEN "RECOVERY"
                                          ELSE deriveBoxPositionState(report, Pos.state)]
                 accepted == changed => told /\ tradeRow.status = "open"
                 final == IF accepted /\ working # Nothing THEN "RECOVERY" ELSE exact.state IN
             /\ IF accepted THEN SetObject(current, [exact EXCEPT !.state = final]) ELSE UNCHANGED objects
             /\ \E state \in {exact.state, final} :
                  tradeRow' = IF landed /\ tradeRow.status = "open" /\ (changed \/ working # Nothing)
                              THEN [status |-> "open", state |-> state,
                                    remaining |-> IF changed THEN report ELSE tradeRow.remaining]
                              ELSE tradeRow
    /\ UNCHANGED <<account, working, current, insertion, drains, closing, partialDue, finalDue, retrying,
                   exitCount, reconciles>>

(* The process dies: everything but the row, the journal and the account   *)
(* is gone.  An entry without a row is crash recovery's (ResidualLedger).  *)
BookCrash ==
    /\ storeFaults < MaxStoreFaults /\ insertion # "down"
    /\ storeFaults' = storeFaults + 1
    /\ insertion' = "down" /\ drains' = 0 /\ current' = 0
    /\ closing' = NoExit /\ partialDue' = NoProjection /\ finalDue' = NoProjection /\ retrying' = NoRetry /\ report' = NoReport
    /\ working' = IF closing.stage = "executing"
                  THEN [r \in Roles |-> account[r]] ELSE working
    /\ UNCHANGED <<account, tradeRow, objects, exitCount, reconciles>>

(* boot: adoptOpenPositions. *)
adoptOpenPositions ==
    /\ insertion = "down" /\ tradeRow.status = "open"
    /\ adoptDoc(tradeRow)
    /\ insertion' = "done"
    /\ UNCHANGED <<account, working, tradeRow, drains, closing, partialDue, finalDue, retrying, exitCount,
                   reconciles, storeFaults, report>>

RetryStep == RetryStarts \/ retryPendingFinalPersists \/ retryPendingPartialPersists

BookNext ==
    \/ openPaperTrade \/ DrainStarts \/ drainOwnedExecutions
    \/ AutomaticExit \/ closeManually \/ flattenAttributedBoxExposure
    \/ ExitExecutes \/ ExitReturns \/ CloseAnswered \/ PartialAnswered
    \/ RetryStep
    \/ (\E r \in Roles : LateFill(r))
    \/ ReconcileReads \/ markReconciliationRecovery
    \/ BookCrash \/ adoptOpenPositions

(* The monitor's interval keeps firing, and a store call is answered. *)
BookSpec == BookInit /\ [][BookNext]_bookVars /\ WF_bookVars(RetryStep)

(* A trade is closed only when the account holds nothing of it: a partial  *)
(* exit is never marked flat, over lost answers, retries, reconciliation   *)
(* in the middle of an exit and restarts (positionMonitor.ts:680-685).     *)
ClosedOnlyWhenFlat == tradeRow.status = "closed" => account = Nothing

(* The row and the object in the book never claim less than the account    *)
(* holds, so that no exposure is left without an exit to close it.         *)
NoExposureForgotten ==
    /\ tradeRow.status = "open" => \A r \in Roles : tradeRow.remaining[r] >= account[r]
    /\ current # 0 => \A r \in Roles : Pos.remaining[r] >= account[r]

(* Neither the row nor the object in the book ever claims less than the    *)
(* account holds, up to and including the close (applyLeggingExitResult,   *)
(* closePaperTrade, retryPendingFinalPersists).                            *)
BookCoversAccount == ClosedOnlyWhenFlat /\ NoExposureForgotten

(* A close that waits for the store is dropped only when the row is        *)
(* closed, or with the process: a retry that fails, a report, a drain or   *)
(* another exit leaves it (pendingFinalPersists).                          *)
PendingCloseIsKept ==
    [][finalDue # NoProjection /\ finalDue' = NoProjection
         => tradeRow'.status = "closed" \/ insertion' = "down"]_bookVars

(* An exit whose fills are all confirmed ends in a durable close, however  *)
(* often its write fails, unless the process dies (positionMonitor.ts:386, *)
(* "Quarantine and retry persistence only").                               *)
CloseBecomesDurable ==
    /\ PendingCloseIsKept
    /\ finalDue # NoProjection ~> (tradeRow.status = "closed" \/ insertion = "down")
=============================================================================
