------------------------------ MODULE MCRecords ------------------------------
(***************************************************************************)
(* What is recorded and must become durable, replicated and verified: the  *)
(* trade book, the outbox, the P&L days and the exit charges, checked      *)
(* together.  They share no variable: `focus' picks the one that moves and *)
(* whose fairness is assumed, and the others stay in an initial state.     *)
(***************************************************************************)
EXTENDS TradeBook, Outbox, PnlDays, ChargeReconciler

VARIABLE focus

OutboxAggregates == <<"trade", "trade", "day">>
PnlTradeOrder == <<"a">>

Focused(component) == focus = component /\ UNCHANGED focus

Init ==
  /\ focus \in {"book", "outbox", "pnl", "charge"}
  /\ BookInit /\ OutboxInit /\ PnlInit
  /\ ChargeInit /\ (focus # "charge" => loggedIn)

BookMoves ==
  /\ Focused("book") /\ BookNext
  /\ UNCHANGED <<outboxVars, pnlVars, chargeVars>>

OutboxMoves ==
  /\ Focused("outbox") /\ OutboxNext
  /\ UNCHANGED <<bookVars, pnlVars, chargeVars>>

PnlMoves ==
  /\ Focused("pnl") /\ PnlNext
  /\ UNCHANGED <<bookVars, outboxVars, chargeVars>>

ChargeMoves ==
  /\ Focused("charge") /\ ChargeNext
  /\ UNCHANGED <<bookVars, outboxVars, pnlVars>>

Next ==
  \/ BookMoves \/ OutboxMoves \/ PnlMoves \/ ChargeMoves

vars == <<bookVars, outboxVars, pnlVars, chargeVars, focus>>

\* The fairness of each component's own specification.
Fairness ==
  /\ WF_bookVars(Focused("book") /\ RetryStep)
  /\ WF_outboxVars(Focused("outbox") /\ ProjectorStep)
  /\ WF_pnlVars(Focused("pnl") /\ ArchiverStep)
  /\ WF_pnlVars(Focused("pnl") /\ RepairStep)
  /\ WF_pnlVars(Focused("pnl") /\ RepairStarts)
  /\ \A t \in PnlTrades : /\ WF_pnlVars(Focused("pnl") /\ CleanupStarts(t))
                          /\ WF_pnlVars(Focused("pnl") /\ deleteBoxTrade(t))
  /\ WF_chargeVars(Focused("charge") /\ ChargeTimePasses)
  /\ \A j \in ChargeJobs : WF_chargeVars(Focused("charge") /\ JobRuns(j))

Spec == Init /\ [][Next]_vars /\ Fairness
=============================================================================
