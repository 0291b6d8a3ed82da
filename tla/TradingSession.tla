---------------------------- MODULE TradingSession ----------------------------
(***************************************************************************)
(* The budget of a trading session (tradingSession.ts) and the record that *)
(* keeps it (tradingSessionStore.ts): entries are started while attempts   *)
(* and cycles remain, a Box that opened consumes a cycle, one that became  *)
(* flat completes it.  commit changes the record in memory, saves all of   *)
(* it, and undoes the change when the save fails, except that consumption  *)
(* is kept and closes entry.  A save of the pool may be overtaken by a     *)
(* later one, and a crash may come before or after it landed.              *)
(***************************************************************************)
EXTENDS Integers, FiniteSets

CONSTANTS
    Boxes,              \* candidates, each entered at most once
    MaxCompletedTrades, \* BOX_SESSION_MAX_COMPLETED_TRADES, 0 for no limit
    MaxEntryAttempts,   \* BOX_SESSION_MAX_ENTRY_ATTEMPTS, 0 for no limit
    MaxArms,            \* bound on operator arms
    MaxSaves,           \* bound on saves in flight: connections of the pool
    MaxSessionFaults    \* bound on failed calls and crashes together

ASSUME SessionAssumption == MaxCompletedTrades \in Nat /\ MaxEntryAttempts \in Nat

VARIABLES
    record,         \* the manager's record
    stored,         \* the row of box_trading_session
    loaded,         \* the row was read by this process
    writeFailed,    \* a consumption could not be saved
    saves,          \* saves in flight
    boxes,          \* boxes[b]: where candidate b is
    lifeOpened,     \* Boxes this process opened since it booted
    started,        \* attempts that started since the last arm
    overlapped,     \* two saves were in flight together
    sessionFaults   \* failed calls and crashes so far

sessionVars == <<record, stored, loaded, writeFailed, saves, boxes, lifeOpened, started, overlapped, sessionFaults>>

IdleSessionRecord == [armed |-> FALSE, established |-> {}, completed |-> {}, attempts |-> 0,
                      aborted |-> 0, arms |-> 0]

SessionInit ==
    /\ record = IdleSessionRecord /\ stored = IdleSessionRecord
    /\ loaded = FALSE /\ writeFailed = FALSE
    /\ saves = {}
    /\ boxes = [b \in Boxes |-> "idle"]
    /\ lifeOpened = {} /\ started = {}
    /\ overlapped = FALSE
    /\ sessionFaults = 0

-----------------------------------------------------------------------------
(* The pure part. *)

IsBudgetExhausted(r) == MaxCompletedTrades > 0 /\ Cardinality(r.established) >= MaxCompletedTrades

(* Mutant: one attempt too many. *)
AttemptBudgetOverrun(r) == MaxEntryAttempts > 0 /\ r.attempts > MaxEntryAttempts

IsAttemptBudgetExhausted(r) == MaxEntryAttempts > 0 /\ r.attempts >= MaxEntryAttempts

EvaluateSessionEntry(r) == r.armed /\ ~IsBudgetExhausted(r) /\ ~IsAttemptBudgetExhausted(r)
InFlightCycles(r) == r.established \ r.completed
OpenBoxes == {b \in Boxes : boxes[b] = "open"}
CanArm(r) == OpenBoxes = {} /\ InFlightCycles(r) = {}
ArmSession(r) == [IdleSessionRecord EXCEPT !.armed = TRUE, !.arms = r.arms + 1]
DisarmSession(r) == [r EXCEPT !.armed = FALSE]
RecordEstablishedBox(r, b) == [r EXCEPT !.established = @ \cup {b}]
RecordCompletedBox(r, b) == [r EXCEPT !.completed = IF b \in r.established THEN @ \cup {b} ELSE @]
RecordAbortedAttempt(r) == [r EXCEPT !.aborted = @ + 1]
RecordEntryAttemptStarted(r) == [r EXCEPT !.attempts = @ + 1]
ReconcileCompletions(r, flat) == [r EXCEPT !.completed = @ \cup (flat \cap r.established)]

-----------------------------------------------------------------------------
(* commit: what names the continuation, rollback whether a failed save     *)
(* puts the previous record back.                                          *)
Commit(next, what, rollback) ==
    /\ Cardinality(saves) < MaxSaves
    /\ record' = next
    /\ saves' = saves \cup {[rec |-> next, previous |-> record, what |-> what, rollback |-> rollback]}
    /\ overlapped' = (overlapped \/ saves # {})

(* The save lands; an attempt that is counted starts to trade. *)
SaveLands(s) ==
    /\ s \in saves
    /\ stored' = s.rec
    /\ saves' = saves \ {s}
    /\ writeFailed' = FALSE
    /\ IF s.what[1] = "attempt"
       THEN boxes' = [boxes EXCEPT ![s.what[2]] = "trading"] /\ started' = started \cup {s.what[2]}
       ELSE UNCHANGED <<boxes, started>>
    /\ UNCHANGED <<record, loaded, lifeOpened, overlapped, sessionFaults>>

(* The save fails; an attempt that was not counted does not start. *)
SaveFails(s) ==
    /\ s \in saves /\ sessionFaults < MaxSessionFaults
    /\ sessionFaults' = sessionFaults + 1
    /\ saves' = saves \ {s}
    /\ IF s.rollback THEN record' = s.previous /\ UNCHANGED writeFailed
                     ELSE writeFailed' = TRUE /\ UNCHANGED record
    /\ boxes' = IF s.what[1] = "attempt" THEN [boxes EXCEPT ![s.what[2]] = "refused"] ELSE boxes
    /\ UNCHANGED <<stored, loaded, lifeOpened, started, overlapped>>

-----------------------------------------------------------------------------
(* initialise: the row is read, and cycles that became flat while the      *)
(* process was down are completed.                                         *)
Initialise ==
    LET flat == {b \in InFlightCycles(stored) : boxes[b] = "flat"} IN
    /\ ~loaded
    /\ loaded' = TRUE
    /\ IF flat = {} THEN record' = stored /\ UNCHANGED <<saves, overlapped>>
       ELSE /\ record' = ReconcileCompletions(stored, flat)
            /\ saves' = {[rec |-> ReconcileCompletions(stored, flat), previous |-> stored,
                          what |-> <<"completed">>, rollback |-> TRUE]}
            /\ overlapped' = (overlapped \/ saves # {})
    /\ UNCHANGED <<stored, writeFailed, boxes, lifeOpened, started, sessionFaults>>

Arm ==
    /\ loaded /\ CanArm(record) /\ record.arms < MaxArms
    /\ Commit(ArmSession(record), <<"arm">>, TRUE)
    /\ started' = {}
    /\ UNCHANGED <<stored, loaded, writeFailed, boxes, lifeOpened, sessionFaults>>

Disarm ==
    /\ loaded /\ record.armed
    /\ Commit(DisarmSession(record), <<"disarm">>, TRUE)
    /\ UNCHANGED <<stored, loaded, writeFailed, boxes, lifeOpened, started, sessionFaults>>

(* evaluateEntry and, in the same turn, recordAttemptStarted. *)
StartAttempt(b) ==
    /\ boxes[b] = "idle"
    /\ loaded /\ ~writeFailed /\ EvaluateSessionEntry(record)
    /\ boxes' = [boxes EXCEPT ![b] = "counting"]
    /\ Commit(RecordEntryAttemptStarted(record), <<"attempt", b>>, TRUE)
    /\ UNCHANGED <<stored, loaded, writeFailed, lifeOpened, started, sessionFaults>>

(* openPaperTrade: the trade row exists, then recordEstablished. *)
BoxOpens(b) ==
    /\ boxes[b] = "trading"
    /\ boxes' = [boxes EXCEPT ![b] = "open"]
    /\ IF loaded /\ record.armed
       THEN Commit(RecordEstablishedBox(record, b), <<"established">>, FALSE) /\ lifeOpened' = lifeOpened \cup {b}
       ELSE UNCHANGED <<record, saves, overlapped, lifeOpened>>
    /\ UNCHANGED <<stored, loaded, writeFailed, started, sessionFaults>>

(* The attempt ended with no position: recordAborted. *)
AttemptAborts(b) ==
    /\ boxes[b] = "trading"
    /\ boxes' = [boxes EXCEPT ![b] = "aborted"]
    /\ IF loaded /\ record.armed THEN Commit(RecordAbortedAttempt(record), <<"aborted">>, TRUE)
                                 ELSE UNCHANGED <<record, saves, overlapped>>
    /\ UNCHANGED <<stored, loaded, writeFailed, lifeOpened, started, sessionFaults>>

(* closePaperTrade: recordCompleted, if the Box belongs to this session. *)
BoxCloses(b) ==
    /\ boxes[b] = "open"
    /\ boxes' = [boxes EXCEPT ![b] = "flat"]
    /\ IF loaded /\ b \in InFlightCycles(record)
       THEN Commit(RecordCompletedBox(record, b), <<"completed">>, TRUE)
       ELSE UNCHANGED <<record, saves, overlapped>>
    /\ UNCHANGED <<stored, loaded, writeFailed, lifeOpened, started, sessionFaults>>

(* retryPendingWrite, on the reconciliation timer. *)
RetryPendingWrite ==
    /\ writeFailed /\ \A s \in saves : s.what # <<"retry">>
    /\ Commit(record, <<"retry">>, FALSE)
    /\ UNCHANGED <<stored, loaded, writeFailed, boxes, lifeOpened, started, sessionFaults>>

(* The process dies; each save in flight may still have landed, the last   *)
(* of them being what the next process reads.                              *)
SessionCrash ==
    /\ sessionFaults < MaxSessionFaults
    /\ sessionFaults' = sessionFaults + 1
    /\ stored' \in {stored} \cup {s.rec : s \in saves}
    /\ record' = IdleSessionRecord
    /\ loaded' = FALSE /\ writeFailed' = FALSE
    /\ saves' = {} /\ lifeOpened' = {}
    /\ boxes' = [b \in Boxes |-> IF boxes[b] \in {"counting", "trading"} THEN "aborted" ELSE boxes[b]]
    /\ UNCHANGED <<started, overlapped>>

SessionNext ==
    \/ Initialise \/ Arm \/ Disarm \/ RetryPendingWrite \/ SessionCrash
    \/ \E s \in saves : SaveLands(s) \/ SaveFails(s)
    \/ \E b \in Boxes : StartAttempt(b) \/ BoxOpens(b) \/ AttemptAborts(b) \/ BoxCloses(b)

SessionSpec == SessionInit /\ [][SessionNext]_sessionVars

-----------------------------------------------------------------------------
(* Budget that was spent is not handed back: over failed saves, disarms     *)
(* and restarts, every attempt that began to trade since the last arm is    *)
(* counted, no more of them began than the budget allows, and every Box     *)
(* this process opened is counted.  Only saves that overlap can break it,   *)
(* since each save writes, and each undo restores, the whole record.        *)
NothingHandedBack ==
    ~overlapped /\ loaded =>
        /\ Cardinality(started) <= record.attempts
        /\ MaxEntryAttempts > 0 => Cardinality(started) <= MaxEntryAttempts
        /\ lifeOpened \ {b \in lifeOpened : boxes[b] = "flat"} \subseteq record.established

(* "ESTABLISHED ... This is what gates new entry: `consumed >= max` => no   *)
(* more entries, ever, for this session."                                   *)
CyclesWithinBudget ==
    MaxCompletedTrades > 0 => Cardinality(record.established) <= MaxCompletedTrades
=============================================================================
