------------------------------ MODULE MCBrokers ------------------------------
(***************************************************************************)
(* The brokers' side of the system (order stream, adapter sessions, market *)
(* data, fill ledgers, paper execution), the reservation chain, the day's  *)
(* figures and the access gate, checked together.  They share no variable: *)
(* `focus' picks the component that moves, and the others stay in an       *)
(* initial state.                                                          *)
(***************************************************************************)
EXTENDS OrderStream, BrokerSession, MarketData, FillLedgers, PaperExecution,
        LeaseChain, DayTally, AccessGate, TLC

VARIABLE focus

PaperLegs == (1 :> {"a", "b"}) @@ (2 :> {"a"})
OneOrTwoProcesses == {[o \in ChainOwners |-> "p"], ("a" :> "p") @@ ("c" :> "q")}
ChainContracts == ("a" :> {"k"}) @@ ("c" :> {"k", "l"})

Init ==
  /\ focus \in {"stream", "adapter", "market", "fills", "paper", "chain", "day", "access"}
  /\ StreamInit /\ MarketInit /\ FillInit /\ AccessInit
  /\ SessionInit /\ (focus # "adapter" => adapter = "kite")
  /\ PaperInit /\ (focus # "paper" => profile = "touch")
  /\ ChainInit /\ (focus # "chain" => \A o \in ChainOwners : home[o] = "p")
  /\ DayInit /\ (focus # "day" => \A t \in EarlierTrades : rows[t].margin)

StreamMoves ==
  /\ focus = "stream" /\ StreamNext
  /\ UNCHANGED <<sessionVars, marketVars, fillVars, paperVars, chainVars, dayVars, accessVars, focus>>

AdapterMoves ==
  /\ focus = "adapter" /\ SessionNext
  /\ UNCHANGED <<streamVars, marketVars, fillVars, paperVars, chainVars, dayVars, accessVars, focus>>

MarketMoves ==
  /\ focus = "market" /\ MarketNext
  /\ UNCHANGED <<streamVars, sessionVars, fillVars, paperVars, chainVars, dayVars, accessVars, focus>>

FillsMoves ==
  /\ focus = "fills" /\ FillNext
  /\ UNCHANGED <<streamVars, sessionVars, marketVars, paperVars, chainVars, dayVars, accessVars, focus>>

PaperMoves ==
  /\ focus = "paper" /\ PaperNext
  /\ UNCHANGED <<streamVars, sessionVars, marketVars, fillVars, chainVars, dayVars, accessVars, focus>>

ChainMoves ==
  /\ focus = "chain" /\ ChainNext
  /\ UNCHANGED <<streamVars, sessionVars, marketVars, fillVars, paperVars, dayVars, accessVars, focus>>

DayMoves ==
  /\ focus = "day" /\ DayNext
  /\ UNCHANGED <<streamVars, sessionVars, marketVars, fillVars, paperVars, chainVars, accessVars, focus>>

AccessMoves ==
  /\ focus = "access" /\ AccessNext
  /\ UNCHANGED <<streamVars, sessionVars, marketVars, fillVars, paperVars, chainVars, dayVars, focus>>

Next ==
  \/ StreamMoves \/ AdapterMoves \/ MarketMoves \/ FillsMoves
  \/ PaperMoves \/ ChainMoves \/ DayMoves \/ AccessMoves

vars == <<streamVars, sessionVars, marketVars, fillVars, paperVars, chainVars, dayVars, accessVars, focus>>

Spec == Init /\ [][Next]_vars
=============================================================================
