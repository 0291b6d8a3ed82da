--------------------------- MODULE BrokerSession ---------------------------
(***************************************************************************)
(* One order in the session of a live broker adapter (kiteBrokerAdapter.ts,*)
(* dhanBrokerAdapter.ts): the submission that posts it, looks it up when   *)
(* the reply is lost, polls it and cancels it at its deadline; a caller's  *)
(* cancelOrder and getOrder beside it; observations of the order stream    *)
(* (applyOrderUpdate); and the transport they share, one call at a time in *)
(* the order of the pacer, behind the order budget (brokerPacing.ts).  A   *)
(* snapshot is a past state of the order at the broker; it is proven when  *)
(* it carries its cumulative quantity.  Time is a bound on polls.          *)
(***************************************************************************)
EXTENDS Naturals, Sequences, FiniteSets

CONSTANTS
  Adapters,        \* subset of {"kite", "dhan"}
  OrderQuantity,   \* quantity of the order
  MaxPolls,        \* polls within the working, and within the cancel deadline
  AccountLimit,    \* order requests of a window, the worker's share
  RecoveryReserve, \* the part of it that placements may not use
  MaxTraffic,      \* bound: budget spent by other orders, and reads and cancels of the caller
  MaxEvents        \* bound: observations delivered by the stream

ASSUME SessionAssumption ==
  /\ Adapters \subseteq {"kite", "dhan"} /\ OrderQuantity \in Nat \ {0}
  /\ {MaxPolls, AccountLimit, RecoveryReserve, MaxTraffic, MaxEvents} \subseteq Nat
  /\ RecoveryReserve <= AccountLimit

VARIABLES
  adapter,     \* the broker of this session
  truth,       \* the order at the broker
  posts,       \* POSTs of the order that left
  snapshot,    \* orders.get(client_order_id)
  stages,      \* actor -> where it waits
  polls,       \* actor -> polls it has made
  answer,      \* what submitOrder returned or threw
  line,        \* the pacer's tail: calls in order, the first may be at the broker
  past,        \* snapshots the stream may still deliver
  spent,       \* requests in the budget's window
  cooldown,    \* a 429 is being waited out
  traffic, delivered

sessionVars == <<adapter, truth, posts, snapshot, stages, polls, answer, line, past, spent, cooldown, traffic, delivered>>

Actors == {"submit", "cancel", "read"}
TerminalStates == {"COMPLETE", "CANCELLED", "REJECTED"}
NoOrder == [status |-> "none", filled |-> 0]
NoSnapshot == [state |-> "absent", filled |-> 0, original |-> FALSE]
NoAnswer == [state |-> "none", filled |-> 0]

SessionInit ==
  /\ adapter \in Adapters
  /\ truth = NoOrder /\ posts = 0 /\ snapshot = NoSnapshot
  /\ stages = [a \in Actors |-> "idle"] /\ polls = [a \in Actors |-> 0]
  /\ answer = NoAnswer /\ line = <<>> /\ past = {}
  /\ spent = 0 /\ cooldown = FALSE /\ traffic = 0 /\ delivered = 0

-----------------------------------------------------------------------------
(* The broker (external), its event stream and the other orders             *)

Changes(order) == truth' = order /\ past' = past \cup {order}
BrokerFills ==
  /\ truth.status = "open"
  /\ \E q \in truth.filled + 1 .. OrderQuantity :
       Changes([status |-> IF q = OrderQuantity THEN "complete" ELSE "open", filled |-> q])
  /\ UNCHANGED <<adapter, posts, snapshot, stages, polls, answer, line, spent, cooldown, traffic, delivered>>

BrokerEnds ==
  /\ truth.status = "open"
  /\ \/ Changes([truth EXCEPT !.status = "cancelled"])
     \/ truth.filled = 0 /\ Changes([truth EXCEPT !.status = "rejected"])
  /\ UNCHANGED <<adapter, posts, snapshot, stages, polls, answer, line, spent, cooldown, traffic, delivered>>

-----------------------------------------------------------------------------
(* Evidence                                                                 *)

kiteState(status, filled) ==
  CASE status = "complete" -> "COMPLETE"
    [] status = "cancelled" -> "CANCELLED"
    [] status = "rejected" -> "REJECTED"
    [] status = "open" /\ filled > 0 /\ filled < OrderQuantity -> "PARTIALLY_FILLED"
    [] OTHER -> "OPEN"

\* A label of Dhan yields to the quantity: TRADED with a part of it is a partial fill.
dhanOrderState(status, filled) ==
  CASE status = "complete" /\ ~(filled > 0 /\ filled < OrderQuantity) -> "COMPLETE"
    [] status = "cancelled" -> "CANCELLED"
    [] status = "rejected" -> "REJECTED"
    [] status \in {"open", "complete"} /\ filled > 0 /\ filled < OrderQuantity -> "PARTIALLY_FILLED"
    [] OTHER -> "OPEN"

StateFrom(status, filled) == IF adapter = "kite" THEN kiteState(status, filled) ELSE dhanOrderState(status, filled)

Larger(a, b) == IF a < b THEN b ELSE a

freezesAccounting(state) == state \in TerminalStates \cup {"PARTIALLY_FILLED"}

\* evaluateExecutionEvidence: a label without its quantity ends nothing, and a quantity is
\* never lower than the one already proven.
Sufficient(seen, proven, prior) == proven \/ ~freezesAccounting(StateFrom(seen.status, prior))
FilledFrom(seen, proven, prior) == IF proven THEN Larger(prior, seen.filled) ELSE prior

\* normalizeKiteOrder and project, against the order the caller knew.
Projected(seen, proven, known) ==
  [state |-> IF Sufficient(seen, proven, known.filled)
             THEN StateFrom(seen.status, FilledFrom(seen, proven, known.filled)) ELSE "RECONCILIATION_REQUIRED",
   filled |-> FilledFrom(seen, proven, known.filled), original |-> FALSE]

TrustsTheLabel(seen, proven) ==
  [state |-> StateFrom(seen.status, FilledFrom(seen, proven, snapshot.filled)),
   filled |-> FilledFrom(seen, proven, snapshot.filled), original |-> FALSE]

\* applyOrderUpdate: an unproven label keeps the state, and an end stays an end.
Observed(seen, proven) ==
  [state |-> IF ~Sufficient(seen, proven, snapshot.filled) THEN snapshot.state
             ELSE LET s == StateFrom(seen.status, FilledFrom(seen, proven, snapshot.filled))
                  IN IF snapshot.state \in TerminalStates /\ s \notin TerminalStates THEN snapshot.state ELSE s,
   filled |-> FilledFrom(seen, proven, snapshot.filled), original |-> FALSE]

applyOrderUpdate ==
  /\ delivered < MaxEvents /\ delivered' = delivered + 1
  /\ snapshot.state # "absent"
  /\ \E seen \in past, proven \in BOOLEAN :
       snapshot' = IF proven /\ seen.filled < snapshot.filled /\ Observed(seen, proven).state = snapshot.state
                   THEN snapshot ELSE Observed(seen, proven)
  /\ UNCHANGED <<adapter, truth, posts, stages, polls, answer, line, past, spent, cooldown, traffic>>

-----------------------------------------------------------------------------
(* The order budget (RateBudgetLedger) and the pacer's line                 *)

placementLimit == AccountLimit - RecoveryReserve
checkPlacement == ~cooldown /\ spent < placementLimit
checkRecovery == ~cooldown /\ spent < AccountLimit

Call(a, op) == [by |-> a, op |-> op, known |-> snapshot, sent |-> FALSE, seen |-> NoOrder, reply |-> "none"]
Queue(a, op) == line' = Append(line, Call(a, op))

WindowPasses ==
  /\ spent > 0 /\ spent' = spent - 1
  /\ UNCHANGED <<adapter, truth, posts, snapshot, stages, polls, answer, line, past, cooldown, traffic, delivered>>

CooldownEnds ==
  /\ cooldown /\ cooldown' = FALSE
  /\ UNCHANGED <<adapter, truth, posts, snapshot, stages, polls, answer, line, past, spent, traffic, delivered>>

OtherOrders ==
  /\ traffic < MaxTraffic /\ traffic' = traffic + 1
  /\ checkPlacement /\ spent' = spent + 1
  /\ UNCHANGED <<adapter, truth, posts, snapshot, stages, polls, answer, line, past, cooldown, delivered>>

\* run: the first call goes to the broker; the placement guard is the last thing before it.
SendPost ==
  /\ line # <<>> /\ ~Head(line).sent /\ Head(line).op = "place"
  /\ \/ /\ ~checkPlacement
        /\ line' = [line EXCEPT ![1].sent = TRUE, ![1].reply = "refused"]
        /\ UNCHANGED <<truth, past, posts, spent>>
     \/ /\ checkPlacement /\ spent' = spent + 1 /\ posts' = posts + 1
        /\ \/ \E status \in {"open", "rejected"} : Changes([status |-> status, filled |-> 0])
           \/ UNCHANGED <<truth, past>>
        /\ \E reply \in {"ok", "claim", "error", "429", "refusal"} :
             /\ reply \in {"ok", "claim"} => truth' # truth
             /\ reply = "claim" => adapter = "dhan"
             /\ reply = "refusal" => truth'.status = "none"
             /\ line' = [line EXCEPT ![1].sent = TRUE, ![1].reply = reply]
  /\ UNCHANGED <<adapter, snapshot, stages, polls, answer, cooldown, traffic, delivered>>

SendCancel ==
  /\ line # <<>> /\ ~Head(line).sent /\ Head(line).op = "cancel"
  /\ \/ truth.status = "open" /\ Changes([truth EXCEPT !.status = "cancelled"])
     \/ UNCHANGED <<truth, past>>
  /\ \E reply \in {"ok", "error", "429"} : line' = [line EXCEPT ![1].sent = TRUE, ![1].reply = reply]
  /\ UNCHANGED <<adapter, posts, snapshot, stages, polls, answer, spent, cooldown, traffic, delivered>>

SendRead ==
  /\ line # <<>> /\ ~Head(line).sent /\ Head(line).op \in {"refresh", "lookup"}
  /\ \E reply \in {"proven", "unproven", "error"} :
       line' = [line EXCEPT ![1].sent = TRUE, ![1].seen = truth, ![1].reply = reply]
  /\ UNCHANGED <<adapter, truth, posts, snapshot, stages, polls, answer, past, spent, cooldown, traffic, delivered>>

-----------------------------------------------------------------------------
(* Submission                                                               *)

To(a, s) == stages' = [stages EXCEPT ![a] = s]
Answers(a, s) ==
  /\ To(a, IF a = "submit" THEN "answered" ELSE "idle")
  /\ answer' = IF a = "submit" THEN [state |-> s.state, filled |-> s.filled] ELSE answer
\* The object that the caller threw with: RECONCILIATION_REQUIRED reaches the session only
\* while the session still holds that object.
Ambiguous == [state |-> "RECONCILIATION_REQUIRED", filled |-> 0]
Quarantined(known) == IF snapshot = known THEN [snapshot EXCEPT !.state = "RECONCILIATION_REQUIRED"] ELSE snapshot
Reply == Head(line)
Returned(a, op) == line # <<>> /\ Reply.sent /\ Reply.by = a /\ Reply.op = op
Pops == line' = Tail(line)
Penalised == cooldown' = (cooldown \/ Reply.reply = "429")

Acknowledged == [state |-> "ACKNOWLEDGED", filled |-> 0, original |-> TRUE]

submitOrder ==
  /\ stages["submit"] = "idle" /\ snapshot.state = "absent"
  /\ checkPlacement
  /\ snapshot' = [state |-> "SUBMITTING", filled |-> 0, original |-> TRUE]
  /\ Queue("submit", "place") /\ To("submit", "posting")
  /\ UNCHANGED <<adapter, truth, posts, polls, answer, past, spent, cooldown, traffic, delivered>>

\* The post ended: nothing left, a typed rejection, an unknown outcome or an order id.
PostReturns ==
  /\ Returned("submit", "place") /\ Penalised
  /\ \/ /\ Reply.reply = "refused" /\ Pops
        /\ snapshot' = NoSnapshot /\ To("submit", "idle") /\ UNCHANGED answer
     \/ /\ Reply.reply = "refusal" /\ Pops
        /\ snapshot' = [snapshot EXCEPT !.state = "REJECTED"] /\ Answers("submit", [state |-> "REJECTED", filled |-> 0])
     \/ /\ Reply.reply \in {"error", "429"}
        /\ line' = Append(Tail(line), Call("submit", "lookup")) /\ To("submit", "looking")
        /\ UNCHANGED <<snapshot, answer>>
     \/ /\ Reply.reply = "ok" /\ Pops
        /\ snapshot' = IF adapter = "dhan" \/ snapshot.original THEN Acknowledged ELSE snapshot
        /\ To("submit", "waiting") /\ UNCHANGED answer
     \/ /\ Reply.reply = "claim"
        /\ line' = Append(Tail(line), Call("submit", "refresh")) /\ To("submit", "verifying")
        /\ UNCHANGED <<snapshot, answer>>
  /\ UNCHANGED <<adapter, truth, posts, polls, past, spent, traffic, delivered>>

\* reconcileByTag and reconcileByCorrelation: the order is adopted when the broker knows it.
LookupReturns ==
  /\ Returned("submit", "lookup") /\ Pops
  /\ IF Reply.reply # "error" /\ Reply.seen.status # "none"
     THEN LET adopted == Projected(Reply.seen, Reply.reply = "proven", Reply.known)
          IN /\ snapshot' = adopted
             /\ IF adopted.state \in TerminalStates THEN Answers("submit", adopted)
                ELSE To("submit", "waiting") /\ UNCHANGED answer
     ELSE /\ snapshot' = IF adapter = "dhan" THEN [Acknowledged EXCEPT !.state = "RECONCILIATION_REQUIRED"]
                         ELSE Quarantined(Reply.known)
          /\ Answers("submit", Ambiguous)
  /\ UNCHANGED <<adapter, truth, posts, polls, past, spent, cooldown, traffic, delivered>>

\* protectiveCancelAndConfirm of the order as the caller holds it, behind the calls in line:
\* at the deadline of the submission, and for cancelOrder.
ProtectiveCancel(a, order, calls) ==
  /\ polls' = [polls EXCEPT ![a] = 0]
  /\ IF checkRecovery
     THEN /\ snapshot' = [order EXCEPT !.state = "CANCEL_REQUESTED"]
          /\ line' = Append(calls, [Call(a, "cancel") EXCEPT !.known = snapshot'])
          /\ spent' = spent + 1 /\ To(a, "cancelling") /\ UNCHANGED answer
     ELSE /\ line' = calls /\ UNCHANGED spent
          /\ IF adapter = "kite"
             THEN /\ snapshot' = [order EXCEPT !.state = "RECONCILIATION_REQUIRED"] /\ Answers(a, Ambiguous)
             ELSE /\ snapshot' = [order EXCEPT !.state = "CANCEL_REQUESTED"]
                  /\ To(a, "confirming") /\ UNCHANGED answer

\* waitForResolution: the interval or an observation ends the wait; an observed end is
\* final, anything else is polled.
WaitEnds(a) ==
  /\ stages[a] = "waiting" \/ (stages[a] = "confirming" /\ polls[a] < MaxPolls)
  /\ IF snapshot.state \in TerminalStates /\ stages[a] = "waiting"
     THEN Answers(a, snapshot) /\ UNCHANGED <<polls, line>>
     ELSE /\ polls' = [polls EXCEPT ![a] = @ + 1] /\ Queue(a, "refresh")
          /\ To(a, IF stages[a] = "waiting" THEN "polling" ELSE "checking") /\ UNCHANGED answer
  /\ UNCHANGED <<adapter, truth, posts, snapshot, past, spent, cooldown, traffic, delivered>>

\* refresh: the reply is merged with the order known when the call was queued.
Refreshed ==
  CASE Reply.reply = "error" -> Reply.known
    [] Reply.reply # "error" /\ Reply.seen.status = "none" -> [Reply.known EXCEPT !.state = "UNKNOWN"]
    [] OTHER -> Projected(Reply.seen, Reply.reply = "proven", Reply.known)
Merged == IF Reply.reply = "error" \/ Reply.seen.status = "none" THEN snapshot ELSE Refreshed

RefreshReturns(a) ==
  /\ Returned(a, "refresh")
  /\ \/ /\ Reply.reply = "error" /\ adapter = "kite" /\ Pops
        /\ snapshot' = Quarantined(Reply.known) /\ Answers(a, Ambiguous) /\ UNCHANGED <<polls, spent>>
     \/ /\ Reply.reply # "error" \/ adapter = "dhan"
        /\ \/ /\ a = "read" \/ Refreshed.state \in TerminalStates
              /\ Pops /\ snapshot' = Merged /\ Answers(a, Refreshed) /\ UNCHANGED <<polls, spent>>
           \/ /\ a # "read" /\ Refreshed.state \notin TerminalStates
              /\ stages[a] \in {"checking", "verifying"} \/ polls[a] < MaxPolls
              /\ stages[a] = "verifying" => Refreshed.state \in {"OPEN", "PARTIALLY_FILLED"}
              /\ Pops /\ snapshot' = Merged /\ To(a, IF stages[a] = "checking" THEN "confirming" ELSE "waiting")
              /\ UNCHANGED <<answer, polls, spent>>
           \/ /\ stages[a] = "verifying" /\ Refreshed.state \notin TerminalStates \cup {"OPEN", "PARTIALLY_FILLED"}
              /\ Pops /\ snapshot' = [Merged EXCEPT !.state = "RECONCILIATION_REQUIRED"] /\ Answers(a, Ambiguous)
              /\ UNCHANGED <<polls, spent>>
           \/ /\ a # "read" /\ Refreshed.state \notin TerminalStates /\ stages[a] = "polling"
              /\ ProtectiveCancel(a, Merged, Tail(line))
  /\ UNCHANGED <<adapter, truth, posts, past, cooldown, traffic, delivered>>

-----------------------------------------------------------------------------
(* Cancellation                                                             *)

cancelOrder ==
  /\ stages["cancel"] = "idle" /\ traffic < MaxTraffic /\ traffic' = traffic + 1
  /\ snapshot.state \notin TerminalStates \cup {"absent", "SUBMITTING"}
  /\ ProtectiveCancel("cancel", snapshot, line)
  /\ UNCHANGED <<adapter, truth, posts, past, cooldown, delivered>>

CancelReturns(a) ==
  /\ Returned(a, "cancel") /\ Pops /\ Penalised
  /\ IF Reply.reply # "ok" /\ adapter = "kite"
     THEN snapshot' = Quarantined(Reply.known) /\ Answers(a, Ambiguous)
     ELSE To(a, "confirming") /\ UNCHANGED <<snapshot, answer>>
  /\ UNCHANGED <<adapter, truth, posts, polls, past, spent, traffic, delivered>>

\* withDeadline: Kite's caller stops waiting and the call stays in the line; a Dhan call
\* that has not left is abandoned.
CancelTimesOut(a) ==
  /\ stages[a] = "cancelling"
  /\ \E i \in DOMAIN line :
       /\ line[i].by = a /\ line[i].op = "cancel"
       /\ IF adapter = "kite"
          THEN /\ line' = [line EXCEPT ![i].by = "nobody"]
               /\ snapshot' = Quarantined(line[i].known) /\ Answers(a, Ambiguous)
          ELSE /\ ~line[i].sent
               /\ line' = SubSeq(line, 1, i - 1) \o SubSeq(line, i + 1, Len(line))
               /\ To(a, "confirming") /\ UNCHANGED <<snapshot, answer>>
  /\ UNCHANGED <<adapter, truth, posts, polls, past, spent, cooldown, traffic, delivered>>

UnclaimedReturns ==
  /\ line # <<>> /\ Reply.sent /\ Reply.by = "nobody" /\ Pops
  /\ UNCHANGED <<adapter, truth, posts, snapshot, stages, polls, answer, past, spent, cooldown, traffic, delivered>>

\* confirmTerminalAfterCancel: no end within the cancel deadline is an uncertain order.
ConfirmationEnds(a) ==
  /\ stages[a] = "confirming" /\ polls[a] = MaxPolls
  /\ snapshot' = [snapshot EXCEPT !.state = "RECONCILIATION_REQUIRED"] /\ Answers(a, Ambiguous)
  /\ UNCHANGED <<adapter, truth, posts, polls, line, past, spent, cooldown, traffic, delivered>>

getOrder ==
  /\ stages["read"] = "idle" /\ traffic < MaxTraffic /\ traffic' = traffic + 1
  /\ snapshot.state \notin {"absent", "SUBMITTING"}
  /\ Queue("read", "refresh") /\ To("read", "polling")
  /\ UNCHANGED <<adapter, truth, posts, snapshot, polls, answer, past, spent, cooldown, delivered>>

-----------------------------------------------------------------------------

Transport == SendPost \/ SendCancel \/ SendRead \/ UnclaimedReturns
SubmitStep ==
  PostReturns \/ LookupReturns
  \/ \E a \in Actors : WaitEnds(a) \/ RefreshReturns(a) \/ CancelReturns(a) \/ ConfirmationEnds(a)

SessionNext ==
  \/ Transport \/ SubmitStep
  \/ BrokerFills \/ BrokerEnds \/ applyOrderUpdate
  \/ WindowPasses \/ CooldownEnds \/ OtherOrders
  \/ submitOrder \/ cancelOrder \/ getOrder
  \/ \E a \in Actors : CancelTimesOut(a)

SessionSpec == SessionInit /\ [][SessionNext]_sessionVars

-----------------------------------------------------------------------------
(* Properties                                                               *)

SessionTypeOK ==
  /\ adapter \in Adapters /\ posts \in Nat /\ spent \in 0..AccountLimit
  /\ truth.filled \in 0..OrderQuantity /\ snapshot.filled \in 0..OrderQuantity
  /\ \A i \in DOMAIN line : i > 1 => ~line[i].sent

\* An order submitOrder reports as ended has ended at the broker, with the fills it reports,
\* whatever the stream delivered late, twice or without a quantity (waitForResolution,
\* applyOrderUpdate).
AnswerIsExact ==
  answer.state \in TerminalStates =>
    /\ truth.status # "open" /\ posts <= 1
    /\ truth.filled = answer.filled

\* A session's cumulative fill is never rewound (applyOrderUpdate: overlapping REST reads
\* "may [not] rewind exposure").
SessionNeverRewinds == [][snapshot'.filled >= snapshot.filled]_sessionVars
=============================================================================
