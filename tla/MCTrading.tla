------------------------------ MODULE MCTrading ------------------------------
(***************************************************************************)
(* The components of the trading path, checked together.  They share no    *)
(* variable, so a behaviour of one says nothing of another and their       *)
(* product would only repeat it: `focus' picks the component that moves,   *)
(* and the others stay in an initial state.                                *)
(***************************************************************************)
EXTENDS Coordinator, TradingSession, ResidualLedger, LiveAttempt, RiskGate, MCScanner,
        BrokerSwitch

VARIABLE focus

CoordinatorProcOf == <<"p", "p", "q">>
CoordinatorUnderlyingOf == <<"U", "U", "U">>
CoordinatorContractsOf == <<{"a", "b"}, {"c"}, {"b", "d"}>>
AttemptPartner == ("k1_ce" :> "k2_ce") @@ ("k2_ce" :> "k1_ce") @@ ("k1_pe" :> "k2_pe") @@ ("k2_pe" :> "k1_pe")

Init ==
  /\ focus \in {"coordinator", "session", "ledger", "attempt", "risk", "scanner", "switch"}
  /\ CoordinatorInit /\ SessionInit /\ LedgerInit /\ LegInit /\ ScannerInit /\ SwitchInit
  /\ RiskInit /\ (focus # "risk" => positions = 0 /\ gate.seed = "healthy")

CoordinatorMoves ==
  /\ focus = "coordinator" /\ CoordinatorNext
  /\ UNCHANGED <<sessionVars, ledgerVars, legVars, riskVars, scanVars, switchVars, focus>>

SessionMoves ==
  /\ focus = "session" /\ SessionNext
  /\ UNCHANGED <<coordinatorVars, ledgerVars, legVars, riskVars, scanVars, switchVars, focus>>

LedgerMoves ==
  /\ focus = "ledger" /\ LedgerNext
  /\ UNCHANGED <<coordinatorVars, sessionVars, legVars, riskVars, scanVars, switchVars, focus>>

AttemptMoves ==
  /\ focus = "attempt" /\ LegNext
  /\ UNCHANGED <<coordinatorVars, sessionVars, ledgerVars, riskVars, scanVars, switchVars, focus>>

RiskMoves ==
  /\ focus = "risk" /\ RiskNext
  /\ UNCHANGED <<coordinatorVars, sessionVars, ledgerVars, legVars, scanVars, switchVars, focus>>

ScannerMoves ==
  /\ focus = "scanner" /\ ScannerNext
  /\ UNCHANGED <<coordinatorVars, sessionVars, ledgerVars, legVars, riskVars, switchVars, focus>>

SwitchMoves ==
  /\ focus = "switch" /\ SwitchNext
  /\ UNCHANGED <<coordinatorVars, sessionVars, ledgerVars, legVars, riskVars, scanVars, focus>>

Next ==
  \/ CoordinatorMoves \/ SessionMoves \/ LedgerMoves \/ AttemptMoves
  \/ RiskMoves \/ ScannerMoves \/ SwitchMoves

vars == <<coordinatorVars, sessionVars, ledgerVars, legVars, riskVars, scanVars, switchVars, focus>>

Spec == Init /\ [][Next]_vars
=============================================================================
