------------------------------ MODULE FeedsProofs ------------------------------
(***************************************************************************)
(* Theorems about what the engine is told from outside: an entry is        *)
(* licensed by the books of the live connection, whatever sockets,         *)
(* subscriptions and sessions did meanwhile; the order stream is trusted   *)
(* only after the read that proves it; and what the broker adapter answers *)
(* is what the broker holds, however its calls are queued and answered.    *)
(***************************************************************************)
EXTENDS MarketData, OrderStream, BrokerSession, SequenceTheorems, TLAPS

-----------------------------------------------------------------------------
(* The engine's market data (engine.ts, quotes.ts). *)

USE MarketDataAssumption

Tokens == SUBSET Underlyings
Lanes == [exists : BOOLEAN, up : BOOLEAN, wanted : Tokens]
Books == [warm : Tokens, quotes : [Underlyings -> Nat], healthy : BOOLEAN, raw : BOOLEAN]
RefreshStates == [stage : {"none", "reading", "seeding"}, mustKeep : Tokens]

MarketShape ==
    /\ lane \in Lanes /\ books \in Books /\ connection \in Nat
    /\ counted \in Tokens /\ subscribedOptions \in Tokens
    /\ windows \in Tokens /\ entering \in Tokens /\ opened \in Tokens
    /\ refreshing \in [Refreshes -> RefreshStates]
    /\ marketOpen \in BOOLEAN

(* A book that is held came on the connection of the box lane that is up now. *)
QuotesAreLive ==
    \A u \in Underlyings : books.quotes[u] # 0 => lane.up /\ books.quotes[u] = connection

(* The inductive invariant of the market data. *)
MarketInv == MarketShape /\ QuotesAreLive

(* A new generation holds no book (invalidateFeedGeneration). *)
LEMMA NoBooksAreBooks == NoBooks \in Books /\ \A u \in Underlyings : NoBooks.quotes[u] = 0
<1>1. NoBooks.quotes = [u \in Underlyings |-> 0]  BY DEF NoBooks
<1>2. NoBooks \in Books
  <2>1. [u \in Underlyings |-> 0] \in [Underlyings -> Nat]  OBVIOUS
  <2>2. {} \in Tokens  BY DEF Tokens
  <2>. QED  BY <2>1, <2>2, Zenon DEF NoBooks, Books
<1>. QED  BY <1>1, <1>2

(* After a new generation, on whatever connection, no book is held that is not its own. *)
LEMMA InvalidatedIsLive == ASSUME books' = NoBooks PROVE QuotesAreLive' /\ books' \in Books
BY NoBooksAreBooks DEF QuotesAreLive

(* Dropping books keeps the rest current, as long as the lane stays as it was. *)
LEMMA FewerQuotes ==
    ASSUME QuotesAreLive, \A u \in Underlyings : books'.quotes[u] \in {0, books.quotes[u]},
           lane'.up = lane.up, connection' = connection
    PROVE  QuotesAreLive'
BY DEF QuotesAreLive

(* The refcounts and the lane change with the wants; the lane's socket does not              *)
(* (applySubscriptions).                                                                     *)
LEMMA Subscribed ==
    ASSUME MarketShape, NEW want \in Tokens, applySubscriptions(want)
    PROVE  lane' \in Lanes /\ lane'.up = lane.up /\ counted' \in Tokens /\ subscribedOptions' \in Tokens
<1>1. CASE want \ counted = {} /\ ~lane.exists
  BY <1>1 DEF applySubscriptions, MarketShape
<1>2. CASE ~(want \ counted = {} /\ ~lane.exists)
  <2>1. PICK w : w = (lane.wanted \ (counted \ want)) \cup (want \ counted)  OBVIOUS
  <2>2. lane' = [lane EXCEPT !.exists = TRUE, !.wanted = w]  BY <1>2, <2>1, Zenon DEF applySubscriptions
  <2>3. lane \in Lanes  BY DEF MarketShape
  <2>4. lane.wanted \in Tokens  BY <2>3 DEF Lanes
  <2>5. w \in Tokens  BY <2>1, <2>4 DEF Tokens
  <2>6. lane' \in Lanes /\ lane'.up = lane.up  BY <2>2, <2>3, <2>5, Zenon DEF Lanes
  <2>. QED  BY <2>6 DEF applySubscriptions
<1>. QED  BY <1>1, <1>2

(* The books of dropped tokens are forgotten, and no other is touched (forget). *)
LEMMA Forgotten ==
    ASSUME MarketShape, NEW want \in Tokens, forget(want)
    PROVE  books' \in Books /\ \A u \in Underlyings : books'.quotes[u] \in {0, books.quotes[u]}
<1>1. PICK q : q = [u \in Underlyings |-> IF u \in subscribedOptions \ want THEN 0 ELSE books.quotes[u]]
  OBVIOUS
<1>2. books' = [books EXCEPT !.quotes = q]  BY <1>1, Zenon DEF forget
<1>3. books \in Books  BY DEF MarketShape
<1>4. books.quotes \in [Underlyings -> Nat]  BY <1>3 DEF Books
<1>5. q \in [Underlyings -> Nat] /\ \A u \in Underlyings : q[u] \in {0, books.quotes[u]}  BY <1>1, <1>4
<1>6. books' \in Books /\ books'.quotes = q  BY <1>2, <1>3, <1>5, Zenon DEF Books
<1>. QED  BY <1>5, <1>6

(* The health of the feed may be judged again without touching a book. *)
LEMMA HealthJudged ==
    ASSUME MarketShape, NEW h \in BOOLEAN, NEW r \in BOOLEAN,
           books' = [books EXCEPT !.healthy = h, !.raw = r]
    PROVE  books' \in Books /\ books'.quotes = books.quotes
<1>1. books \in Books  BY DEF MarketShape
<1>. QED  BY <1>1, Zenon DEF Books

(* The process starts with no book and no lane. *)
LEMMA MarketStarts == MarketInit => MarketInv
<1>. SUFFICES ASSUME MarketInit PROVE MarketInv  OBVIOUS
<1>1. NoLane \in Lanes /\ NoRefresh \in RefreshStates  BY DEF NoLane, NoRefresh, Lanes, RefreshStates, Tokens
<1>2. books \in Books /\ \A u \in Underlyings : books.quotes[u] = 0  BY NoBooksAreBooks DEF MarketInit
<1>3. MarketShape  BY <1>1, <1>2 DEF MarketInit, MarketShape, Tokens
<1>. QED  BY <1>2, <1>3 DEF MarketInv, QuotesAreLive

(* The invariant is inductive: one step per action of the engine, the sockets and the clock. *)
LEMMA MarketKept == MarketInv /\ [MarketNext]_marketVars => MarketInv'
<1>. SUFFICES ASSUME MarketInv, [MarketNext]_marketVars PROVE MarketInv'  OBVIOUS
<1>0. /\ MarketShape /\ QuotesAreLive
      /\ lane \in Lanes /\ books \in Books /\ connection \in Nat
      /\ counted \in Tokens /\ subscribedOptions \in Tokens
      /\ windows \in Tokens /\ entering \in Tokens /\ opened \in Tokens
      /\ refreshing \in [Refreshes -> RefreshStates]
      /\ marketOpen \in BOOLEAN
  BY DEF MarketInv, MarketShape
<1>1. CASE start
  <2>1. UNCHANGED <<marketOpen, lane, counted, subscribedOptions, windows, entering, opened, refreshing,
                    connection>>
    BY <1>1 DEF start
  <2>2. books' = NoBooks \/ books' = books  BY <1>1 DEF start, ensureFeed, invalidateFeedGeneration
  <2>3. books' \in Books /\ QuotesAreLive'
    BY <1>0, <2>1, <2>2, InvalidatedIsLive DEF QuotesAreLive
  <2>. QED  BY <1>0, <2>1, <2>3 DEF MarketInv, MarketShape
<1>2. CASE stop
  <2>1. /\ applySubscriptions(opened) /\ forget(opened) /\ windows' = windows \cap opened
        /\ UNCHANGED <<marketOpen, entering, opened, refreshing, connection>>
    BY <1>2 DEF stop
  <2>2. lane' \in Lanes /\ lane'.up = lane.up /\ counted' \in Tokens /\ subscribedOptions' \in Tokens
    BY <1>0, <2>1, Subscribed
  <2>3. books' \in Books /\ QuotesAreLive'
    BY <1>0, <2>1, <2>2, Forgotten, FewerQuotes
  <2>4. windows' \in Tokens  BY <1>0, <2>1 DEF Tokens
  <2>. QED  BY <1>0, <2>1, <2>2, <2>3, <2>4 DEF MarketInv, MarketShape
<1>3. ASSUME NEW r \in Refreshes, refreshUniverse(r) PROVE MarketInv'
  <2>1. UNCHANGED <<marketOpen, lane, counted, subscribedOptions, windows, entering, opened, books, connection>>
    BY <1>3 DEF refreshUniverse
  <2>2. PICK x : x = [refreshing[r] EXCEPT !.stage = "reading"] /\ refreshing' = [refreshing EXCEPT ![r] = x]
    BY <1>3, Zenon DEF refreshUniverse
  <2>3. x \in RefreshStates  BY <1>0, <2>2, Zenon DEF RefreshStates
  <2>4. QuotesAreLive'  BY <1>0, <2>1 DEF QuotesAreLive
  <2>. QED  BY <1>0, <2>1, <2>2, <2>3, <2>4 DEF MarketInv, MarketShape
<1>4. ASSUME NEW r \in Refreshes, seedSpots(r) PROVE MarketInv'
  <2>1. UNCHANGED <<marketOpen, lane, counted, subscribedOptions, windows, entering, opened, books, connection>>
    BY <1>4 DEF seedSpots
  <2>2. refreshing' = [refreshing EXCEPT ![r] = [stage |-> "seeding", mustKeep |-> opened]]
    BY <1>4 DEF seedSpots
  <2>3. [stage |-> "seeding", mustKeep |-> opened] \in RefreshStates  BY <1>0 DEF RefreshStates
  <2>4. QuotesAreLive'  BY <1>0, <2>1 DEF QuotesAreLive
  <2>. QED  BY <1>0, <2>1, <2>2, <2>3, <2>4 DEF MarketInv, MarketShape
<1>5. ASSUME NEW r \in Refreshes, NEW chosen \in SUBSET Underlyings, UniverseBuilt(r, chosen) PROVE MarketInv'
  <2>1. PICK keep : keep = refreshing[r].mustKeep  OBVIOUS
  <2>2. keep \in Tokens  BY <1>0, <2>1 DEF RefreshStates
  <2>3. PICK want : want = StreamedWindows(keep, chosen) \cup opened  OBVIOUS
  <2>4. want \in Tokens  BY <1>0, <2>2, <2>3 DEF StreamedWindows, Tokens
  <2>5. /\ applySubscriptions(want) /\ forget(want)
        /\ refreshing' = [refreshing EXCEPT ![r] = NoRefresh]
        /\ UNCHANGED <<marketOpen, entering, opened, connection>>
    BY <1>5, <2>1, <2>3, Zenon DEF UniverseBuilt
  <2>6. windows' \in Tokens
    <3>1. windows' = keep \cup (IF running \/ ~marketOpen THEN chosen ELSE {})
      BY <1>5, <2>1, Zenon DEF UniverseBuilt
    <3>. QED  BY <2>2, <3>1 DEF Tokens
  <2>7. lane' \in Lanes /\ lane'.up = lane.up /\ counted' \in Tokens /\ subscribedOptions' \in Tokens
    BY <1>0, <2>4, <2>5, Subscribed
  <2>8. books' \in Books /\ QuotesAreLive'
    BY <1>0, <2>4, <2>5, <2>7, Forgotten, FewerQuotes
  <2>9. NoRefresh \in RefreshStates  BY DEF NoRefresh, RefreshStates, Tokens
  <2>. QED  BY <1>0, <2>5, <2>6, <2>7, <2>8, <2>9 DEF MarketInv, MarketShape
<1>6. ASSUME NEW u \in Underlyings, EntryAdmitted(u) \/ openPaperTrade(u) \/ closePaperTrade(u) PROVE MarketInv'
  <2>1. UNCHANGED <<marketOpen, lane, counted, subscribedOptions, windows, books, refreshing, connection>>
    BY <1>6 DEF EntryAdmitted, openPaperTrade, closePaperTrade
  <2>2. entering' \in Tokens /\ opened' \in Tokens
    BY <1>0, <1>6 DEF EntryAdmitted, openPaperTrade, closePaperTrade, Tokens
  <2>3. QuotesAreLive'  BY <1>0, <2>1 DEF QuotesAreLive
  <2>. QED  BY <1>0, <2>1, <2>2, <2>3 DEF MarketInv, MarketShape
<1>7. CASE LaneConnects \/ LaneDrops
  <2>1. /\ books' = NoBooks
        /\ UNCHANGED <<marketOpen, counted, subscribedOptions, windows, entering, opened, refreshing>>
        /\ connection' \in {connection, connection + 1}
        /\ lane' = [lane EXCEPT !.up = TRUE] \/ lane' = [lane EXCEPT !.up = FALSE]
    BY <1>7, Zenon DEF LaneConnects, LaneDrops, onBoxLaneConnection, invalidateFeedGeneration
  <2>2. lane' \in Lanes  BY <1>0, <2>1, Zenon DEF Lanes
  <2>3. connection' \in Nat  BY <1>0, <2>1
  <2>. QED  BY <1>0, <2>1, <2>2, <2>3, InvalidatedIsLive DEF MarketInv, MarketShape
<1>8. CASE HubConnection
  <2>1. UNCHANGED <<marketOpen, lane, counted, subscribedOptions, windows, entering, opened, refreshing,
                    connection>>
    BY <1>8 DEF HubConnection
  <2>2. books' = NoBooks \/ books' = books  BY <1>8 DEF HubConnection, invalidateFeedGeneration
  <2>3. books' \in Books /\ QuotesAreLive'
    BY <1>0, <2>1, <2>2, InvalidatedIsLive DEF QuotesAreLive
  <2>. QED  BY <1>0, <2>1, <2>3 DEF MarketInv, MarketShape
<1>9. CASE HubTicks
  <2>1. UNCHANGED <<marketOpen, lane, counted, subscribedOptions, windows, entering, opened, refreshing,
                    connection>>
    BY <1>9 DEF HubTicks
  <2>2. books' = [books EXCEPT !.raw = TRUE, !.healthy = books.healthy \/ marketOpen]
    BY <1>9, Zenon DEF HubTicks
  <2>3. (books.healthy \/ marketOpen) \in BOOLEAN  OBVIOUS
  <2>4. books' \in Books /\ books'.quotes = books.quotes  BY <1>0, <2>2, <2>3, Zenon DEF Books
  <2>5. QuotesAreLive'  BY <1>0, <2>1, <2>4, FewerQuotes
  <2>. QED  BY <1>0, <2>1, <2>4, <2>5 DEF MarketInv, MarketShape
<1>10. CASE TicksAge
  <2>1. UNCHANGED <<marketOpen, lane, counted, subscribedOptions, windows, entering, opened, refreshing,
                    connection>>
    BY <1>10 DEF TicksAge
  <2>2. books' = books \/ books' = [books EXCEPT !.raw = FALSE]  BY <1>10, Zenon DEF TicksAge
  <2>3. books' \in Books /\ books'.quotes = books.quotes  BY <1>0, <2>2, Zenon DEF Books
  <2>4. QuotesAreLive'  BY <1>0, <2>1, <2>3, FewerQuotes
  <2>. QED  BY <1>0, <2>1, <2>3, <2>4 DEF MarketInv, MarketShape
<1>11. ASSUME NEW u \in Underlyings, NEW usable \in BOOLEAN, onTicks(u, usable) PROVE MarketInv'
  <2>1. /\ lane.up
        /\ UNCHANGED <<marketOpen, lane, counted, subscribedOptions, windows, entering, opened, refreshing,
                       connection>>
    BY <1>11 DEF onTicks
  <2>2. PICK q : q = [books.quotes EXCEPT ![u] = IF usable THEN connection ELSE 0]  OBVIOUS
  <2>3. PICK w : w = IF usable THEN books.warm \cup {u} ELSE books.warm \ {u}  OBVIOUS
  <2>4. PICK h \in BOOLEAN : h = (books.healthy \/ marketOpen)  OBVIOUS
  <2>5. books' = [warm |-> w, quotes |-> q, healthy |-> h, raw |-> TRUE]
    BY <1>11, <2>2, <2>3, <2>4, Zenon DEF onTicks
  <2>6. books.quotes \in [Underlyings -> Nat] /\ books.warm \in Tokens  BY <1>0 DEF Books
  <2>7. q \in [Underlyings -> Nat] /\ w \in Tokens  BY <1>0, <2>2, <2>3, <2>6 DEF Tokens
  <2>8. \A x \in Underlyings : q[x] \in {0, connection, books.quotes[x]}  BY <2>2, <2>6
  <2>9. books' \in Books /\ books'.quotes = q  BY <2>5, <2>7 DEF Books
  <2>10. QuotesAreLive'
    <3>. SUFFICES ASSUME NEW x \in Underlyings, q[x] # 0 PROVE lane.up /\ q[x] = connection
      BY <2>1, <2>9 DEF QuotesAreLive
    <3>1. q[x] = connection \/ (books.quotes[x] # 0 /\ q[x] = books.quotes[x])  BY <2>8
    <3>. QED  BY <1>0, <2>1, <3>1 DEF QuotesAreLive
  <2>. QED  BY <1>0, <2>1, <2>9, <2>10 DEF MarketInv, MarketShape
<1>12. ASSUME NEW open \in BOOLEAN, NEW stalled \in BOOLEAN, startMarketWatch(open, stalled) PROVE MarketInv'
  <2>1. marketOpen' = open /\ UNCHANGED <<entering, opened, refreshing, connection>>
    BY <1>12 DEF startMarketWatch
  <2>2. lane' \in Lanes /\ lane'.up = lane.up /\ counted' \in Tokens /\ subscribedOptions' \in Tokens
        /\ windows' \in Tokens
    <3>1. CASE open /\ ~marketOpen /\ ~running
      <4>1. windows' = windows \cap opened /\ applySubscriptions(opened)
        BY <1>12, <3>1 DEF startMarketWatch
      <4>. QED  BY <1>0, <4>1, Subscribed DEF Tokens
    <3>2. CASE ~(open /\ ~marketOpen /\ ~running)
      <4>1. UNCHANGED <<windows, counted, lane, subscribedOptions>>
        BY <1>12, <3>2 DEF startMarketWatch
      <4>. QED  BY <1>0, <4>1
    <3>. QED  BY <3>1, <3>2
  <2>3. books' \in Books /\ QuotesAreLive'
    <3>1. PICK healthy \in BOOLEAN : healthy = (marketOpen /\ books.raw)  OBVIOUS
    <3>2. CASE books.healthy /\ ~healthy
      <4>1. books' = NoBooks  BY <1>12, <3>1, <3>2, Zenon DEF startMarketWatch, invalidateFeedGeneration
      <4>. QED  BY <4>1, InvalidatedIsLive
    <3>3. CASE ~(books.healthy /\ ~healthy)
      <4>1. PICK q : q = [x \in Underlyings |->
                            IF (open /\ ~marketOpen /\ ~running) /\ x \in subscribedOptions \ opened
                            THEN 0 ELSE books.quotes[x]]
        OBVIOUS
      <4>2. books' = [books EXCEPT !.healthy = healthy, !.quotes = q]
        BY <1>12, <3>1, <3>3, <4>1, Zenon DEF startMarketWatch
      <4>3. books.quotes \in [Underlyings -> Nat]  BY <1>0 DEF Books
      <4>4. q \in [Underlyings -> Nat] /\ \A x \in Underlyings : q[x] \in {0, books.quotes[x]}
        BY <4>1, <4>3
      <4>5. books' \in Books /\ books'.quotes = q  BY <1>0, <4>2, <4>4, Zenon DEF Books
      <4>. QED  BY <1>0, <2>1, <2>2, <4>4, <4>5, FewerQuotes
    <3>. QED  BY <3>2, <3>3
  <2>. QED  BY <1>0, <2>1, <2>2, <2>3 DEF MarketInv, MarketShape
<1>13. CASE onMarketDataSessionLost
  <2>1. /\ UNCHANGED <<marketOpen, counted, subscribedOptions, windows, entering, opened, refreshing, connection>>
        /\ lane' = [lane EXCEPT !.up = FALSE]
    BY <1>13 DEF onMarketDataSessionLost
  <2>2. lane' \in Lanes /\ lane'.up = FALSE  BY <1>0, <2>1, Zenon DEF Lanes
  <2>3. books' \in Books /\ QuotesAreLive'
    <3>1. CASE lane.up
      BY <1>13, <3>1, InvalidatedIsLive DEF onMarketDataSessionLost, invalidateFeedGeneration
    <3>2. CASE ~lane.up
      <4>1. books' = books  BY <1>13, <3>2 DEF onMarketDataSessionLost
      <4>. QED  BY <1>0, <3>2, <4>1 DEF QuotesAreLive
    <3>. QED  BY <3>1, <3>2
  <2>. QED  BY <1>0, <2>1, <2>2, <2>3 DEF MarketInv, MarketShape
<1>14. CASE onBrokerAuthFailure
  <2>1. books' = NoBooks /\ UNCHANGED <<marketOpen, entering, opened, refreshing, connection>>
    BY <1>14 DEF onBrokerAuthFailure, invalidateFeedGeneration
  <2>2. lane' \in Lanes
    <3>1. lane' \in {[exists |-> TRUE, up |-> FALSE, wanted |-> opened \ counted], NoLane}
      BY <1>14 DEF onBrokerAuthFailure
    <3>2. NoLane \in Lanes  BY DEF NoLane, Lanes, Tokens
    <3>3. opened \ counted \in Tokens  BY <1>0 DEF Tokens
    <3>4. [exists |-> TRUE, up |-> FALSE, wanted |-> opened \ counted] \in Lanes  BY <3>3 DEF Lanes
    <3>. QED  BY <3>1, <3>2, <3>4, Zenon
  <2>3. windows' \in Tokens /\ counted' \in Tokens /\ subscribedOptions' \in Tokens
    BY <1>0, <1>14 DEF onBrokerAuthFailure, Tokens
  <2>. QED  BY <1>0, <2>1, <2>2, <2>3, InvalidatedIsLive DEF MarketInv, MarketShape
<1>15. CASE onActiveBrokerReady
  <2>1. /\ books' = NoBooks /\ subscribedOptions' = {}
        /\ UNCHANGED <<marketOpen, lane, counted, windows, entering, opened, refreshing, connection>>
    BY <1>15 DEF onActiveBrokerReady, invalidateFeedGeneration
  <2>. QED  BY <1>0, <2>1, InvalidatedIsLive DEF MarketInv, MarketShape, Tokens
<1>16. CASE UNCHANGED marketVars
  BY <1>0, <1>16 DEF marketVars, MarketInv, MarketShape, QuotesAreLive
<1>. QED
  BY <1>1, <1>2, <1>3, <1>4, <1>5, <1>6, <1>7, <1>8, <1>9, <1>10, <1>11, <1>12, <1>13, <1>14, <1>15,
     <1>16 DEF MarketNext

(* A candidate that is licensed to enter is priced by books that came on the connection of   *)
(* the box lane that is up now, whatever reconnections, refreshes, stops, stalls, expired    *)
(* tokens and closed markets lay between (engine.ts, quotes.ts).                             *)
THEOREM LicensedByLiveBooks == MarketSpec => []EvidenceIsCurrent
<1>1. MarketInv => EvidenceIsCurrent
  BY DEF MarketInv, QuotesAreLive, EvidenceIsCurrent, EligibleEvidence
<1>. QED  BY <1>1, MarketStarts, MarketKept, PTL DEF MarketSpec

-----------------------------------------------------------------------------
(* The order stream: the permission to enter (orderStreamConsumer.ts). *)

(* The machine is established only over an open socket, and ready only when a sweep of this  *)
(* generation, begun and ended in it, found the account synchronized.                        *)
ReadyIsEarned ==
    /\ lifecycle # "DISABLED"
    /\ isEstablished => orderSocket = "open"
    /\ lifecycle = "READY" => streamGen \in synced

-----------------------------------------------------------------------------
(* The order stream: the end of an order (orderUpdateProjection.ts, applyOrderUpdate). *)

Orders == [filled : Nat, label : Labels \cup {"none"}]
Ends == {"COMPLETE", "CANCELLED"}

OrdersShape ==
    /\ orderTruth \in [StreamOrders -> Orders] /\ merged \in [StreamOrders -> Orders]
    /\ fillLedger \in [StreamOrders -> [cumulative : Nat, ids : SUBSET StreamEvent]]
    /\ sent \subseteq StreamEvent

(* An order that works is not full and is watched; what the adapter and the ledger have of   *)
(* it the broker had before, and the end the adapter holds is the broker's.                  *)
BelievedOf(o) ==
    /\ orderTruth[o].label = "OPEN" => orderTruth[o].filled < StreamQuantity /\ o \in workingOrders
    /\ merged[o].label = "none" <=> orderTruth[o].label = "none"
    /\ orderTruth[o].label = "none" => orderTruth[o].filled = 0
    /\ merged[o].filled <= orderTruth[o].filled
    /\ fillLedger[o].cumulative <= orderTruth[o].filled
    /\ merged[o].label \in Ends => merged[o] = orderTruth[o]

(* An event is of a registered order and tells at most what the broker has filled; the event *)
(* of an end is the last state of the order.                                                 *)
PublishedTruly(e) ==
    /\ orderTruth[e.order].label # "none"
    /\ e.filled <= orderTruth[e.order].filled
    /\ e.label \in Ends => e.label = orderTruth[e.order].label /\ e.filled = orderTruth[e.order].filled

OrdersInv ==
    /\ OrdersShape
    /\ \A o \in StreamOrders : BelievedOf(o)
    /\ \A e \in sent : PublishedTruly(e)

(* The inductive invariant of the stream. *)
StreamInv == ReadyIsEarned /\ OrdersInv

USE StreamAssumption

(* What leaves the machine and the sweeps alone leaves the permission alone. *)
LEMMA GateFrame ==
    ASSUME ReadyIsEarned, UNCHANGED <<lifecycle, streamGen, orderSocket>>, synced \subseteq synced'
    PROVE  ReadyIsEarned'
BY DEF ReadyIsEarned, isEstablished

(* What leaves the orders alone leaves what is believed of them alone. *)
LEMMA OrdersFrame == ASSUME OrdersInv, UNCHANGED orderVars PROVE OrdersInv'
BY DEF OrdersInv, OrdersShape, BelievedOf, PublishedTruly, orderVars

(* Two states of an order with the same quantity and label are the same state. *)
LEMMA SameOrder ==
    ASSUME NEW a \in Orders, NEW b \in Orders, a.filled = b.filled, a.label = b.label PROVE a = b
<1>1. a = [filled |-> a.filled, label |-> a.label]  BY Zenon DEF Orders
<1>2. b = [filled |-> b.filled, label |-> b.label]  BY Zenon DEF Orders
<1>. QED  BY <1>1, <1>2, Zenon

(* A sweep of REST reads takes every known order as the broker has it now (RestSnapshots). *)
LEMMA SnapshotsAreTrue ==
    ASSUME OrdersInv, RestSnapshots, UNCHANGED <<orderTruth, sent>> PROVE OrdersInv'
<1>. DEFINE known == {o \in StreamOrders : merged[o].label # "none"}
            done == {o \in known : orderTruth[o].label # "OPEN"}
            Up(o) == IF o \in known /\ orderTruth[o].filled > fillLedger[o].cumulative
                     THEN orderTruth[o].filled ELSE fillLedger[o].cumulative
<1>0. OrdersShape /\ (\A o \in StreamOrders : BelievedOf(o)) /\ \A e \in sent : PublishedTruly(e)
  BY DEF OrdersInv
<1>1. /\ orderTruth \in [StreamOrders -> Orders] /\ merged \in [StreamOrders -> Orders]
      /\ fillLedger \in [StreamOrders -> [cumulative : Nat, ids : SUBSET StreamEvent]]
  BY <1>0 DEF OrdersShape
<1>2. /\ merged' = [o \in StreamOrders |-> IF o \in known THEN orderTruth[o] ELSE merged[o]]
      /\ workingOrders' = workingOrders \ done
      /\ fillLedger' = [o \in StreamOrders |-> [fillLedger[o] EXCEPT !.cumulative = Up(o)]]
  BY Zenon DEF RestSnapshots
<1>3. ASSUME NEW o \in StreamOrders
      PROVE  /\ Up(o) \in Nat /\ Up(o) <= orderTruth[o].filled
             /\ fillLedger'[o].cumulative = Up(o)
             /\ fillLedger'[o] \in [cumulative : Nat, ids : SUBSET StreamEvent]
  <2>1. orderTruth[o].filled \in Nat /\ fillLedger[o].cumulative \in Nat
    BY <1>1 DEF Orders
  <2>2. fillLedger[o].cumulative <= orderTruth[o].filled  BY <1>0 DEF BelievedOf
  <2>3. Up(o) \in Nat /\ Up(o) <= orderTruth[o].filled  BY <2>1, <2>2
  <2>4. fillLedger[o] \in [cumulative : Nat, ids : SUBSET StreamEvent]  BY <1>1
  <2>5. fillLedger'[o] = [fillLedger[o] EXCEPT !.cumulative = Up(o)]  BY <1>2, Zenon
  <2>. HIDE DEF Up
  <2>6. fillLedger'[o].cumulative = Up(o) /\ fillLedger'[o] \in [cumulative : Nat, ids : SUBSET StreamEvent]
    BY <2>3, <2>4, <2>5, Zenon
  <2>. QED  BY <2>3, <2>6
<1>4. fillLedger' \in [StreamOrders -> [cumulative : Nat, ids : SUBSET StreamEvent]]
  <2>1. DOMAIN fillLedger' = StreamOrders /\ fillLedger' = [o \in StreamOrders |-> fillLedger'[o]]
    <3>. HIDE DEF Up
    <3>. QED  BY <1>2, Zenon
  <2>. QED  BY <1>3, <2>1, Zenon
<1>5. merged' \in [StreamOrders -> Orders]  BY <1>1, <1>2
<1>6. OrdersShape'  BY <1>0, <1>4, <1>5 DEF OrdersShape
<1>7. ASSUME NEW o \in StreamOrders PROVE BelievedOf(o)'
  <2>1. BelievedOf(o)  BY <1>0
  <2>2. fillLedger'[o].cumulative <= orderTruth'[o].filled  BY <1>3
  <2>3. merged'[o] = IF merged[o].label # "none" THEN orderTruth[o] ELSE merged[o]  BY <1>2
  <2>4. orderTruth[o].label = "OPEN" /\ o \in workingOrders => o \in workingOrders'  BY <1>2
  <2>5. orderTruth[o].filled \in Nat  BY <1>1 DEF Orders
  <2>. QED  BY <2>1, <2>2, <2>3, <2>4, <2>5 DEF BelievedOf, Ends
<1>8. \A e \in sent' : PublishedTruly(e)'  BY <1>0 DEF PublishedTruly
<1>. QED  BY <1>6, <1>7, <1>8 DEF OrdersInv

(* An intent is registered before its POST, and the adapter knows it from then on. *)
LEMMA RegistrationIsTrue ==
    ASSUME OrdersInv, NEW o \in StreamOrders, registerIntent(o) PROVE OrdersInv'
<1>0. OrdersShape /\ (\A x \in StreamOrders : BelievedOf(x)) /\ \A e \in sent : PublishedTruly(e)
  BY DEF OrdersInv
<1>1. PICK r : r = [filled |-> 0, label |-> "OPEN"]  OBVIOUS
<1>2. PICK e : e = [order |-> o, filled |-> 0, label |-> "OPEN"]  OBVIOUS
<1>3. /\ orderTruth[o].label = "none"
      /\ orderTruth' = [orderTruth EXCEPT ![o] = r] /\ merged' = [merged EXCEPT ![o] = r]
      /\ workingOrders' = workingOrders \cup {o} /\ sent' = sent \cup {e} /\ fillLedger' = fillLedger
  BY <1>1, <1>2, Zenon DEF registerIntent
<1>4. r \in Orders /\ r.filled = 0 /\ r.label = "OPEN"  BY <1>1 DEF Orders, Labels
<1>5. e \in StreamEvent /\ e.order = o /\ e.filled = 0 /\ e.label = "OPEN"
  BY <1>2, StreamAssumption DEF StreamEvent, Labels
<1>6. /\ orderTruth \in [StreamOrders -> Orders] /\ merged \in [StreamOrders -> Orders]
      /\ fillLedger \in [StreamOrders -> [cumulative : Nat, ids : SUBSET StreamEvent]]
      /\ sent \subseteq StreamEvent
  BY <1>0 DEF OrdersShape
<1>7. /\ orderTruth'[o] = r /\ merged'[o] = r
      /\ \A x \in StreamOrders \ {o} : orderTruth'[x] = orderTruth[x] /\ merged'[x] = merged[x]
  BY <1>3, <1>6
<1>8. OrdersShape'  BY <1>3, <1>4, <1>5, <1>6 DEF OrdersShape
<1>9. ASSUME NEW x \in StreamOrders PROVE BelievedOf(x)'
  <2>1. BelievedOf(x) /\ BelievedOf(o)  BY <1>0
  <2>2. CASE x = o
    <3>1. fillLedger[o].cumulative <= orderTruth[o].filled /\ fillLedger[o].cumulative \in Nat
      BY <1>6, <2>1 DEF BelievedOf
    <3>2. orderTruth[o].filled = 0  BY <1>3, <2>1 DEF BelievedOf
    <3>3. fillLedger[o].cumulative <= 0  BY <3>1, <3>2
    <3>. QED  BY <1>3, <1>4, <1>7, <2>2, <3>3, StreamAssumption DEF BelievedOf, Ends
  <2>3. CASE x # o
    BY <1>3, <1>7, <2>1, <2>3 DEF BelievedOf
  <2>. QED  BY <2>2, <2>3
<1>10. ASSUME NEW x \in sent' PROVE PublishedTruly(x)'
  <2>1. CASE x = e
    BY <1>4, <1>5, <1>7, <2>1 DEF PublishedTruly, Ends
  <2>2. CASE x # e
    <3>1. x \in sent /\ PublishedTruly(x)  BY <1>0, <1>3, <2>2
    <3>2. x.order \in StreamOrders  BY <1>6, <3>1 DEF StreamEvent
    <3>3. x.order # o  BY <1>3, <3>1 DEF PublishedTruly
    <3>. QED  BY <1>7, <3>1, <3>2, <3>3 DEF PublishedTruly
  <2>. QED  BY <2>1, <2>2
<1>. QED  BY <1>8, <1>9, <1>10 DEF OrdersInv

(* The broker moves only an order that works, and publishes where it is now. *)
LEMMA BrokerIsTrue ==
    ASSUME OrdersInv, NEW o \in StreamOrders, BrokerMoves(o) PROVE OrdersInv'
<1>0. OrdersShape /\ (\A x \in StreamOrders : BelievedOf(x)) /\ \A e \in sent : PublishedTruly(e)
  BY DEF OrdersInv
<1>6. /\ orderTruth \in [StreamOrders -> Orders] /\ merged \in [StreamOrders -> Orders]
      /\ fillLedger \in [StreamOrders -> [cumulative : Nat, ids : SUBSET StreamEvent]]
      /\ sent \subseteq StreamEvent
  BY <1>0 DEF OrdersShape
<1>1. PICK filled \in orderTruth[o].filled..StreamQuantity, label \in Labels :
         /\ filled = StreamQuantity <=> label = "COMPLETE"
         /\ orderTruth' = [orderTruth EXCEPT ![o] = [filled |-> filled, label |-> label]]
         /\ sent' = sent \cup {[order |-> o, filled |-> filled, label |-> label]}
  BY Zenon DEF BrokerMoves
<1>2. PICK r : r = [filled |-> filled, label |-> label]  OBVIOUS
<1>3. PICK e : e = [order |-> o, filled |-> filled, label |-> label]  OBVIOUS
<1>a. orderTruth[o].filled \in Nat  BY <1>6 DEF Orders
<1>b. filled \in Nat /\ filled <= StreamQuantity /\ orderTruth[o].filled <= filled
  BY <1>a, <1>1
<1>4. r \in Orders /\ r.filled = filled /\ r.label = label  BY <1>2, <1>b DEF Orders
<1>5. e \in StreamEvent /\ e.order = o /\ e.filled = filled /\ e.label = label
  BY <1>3, <1>b DEF StreamEvent
<1>c. orderTruth[o].label = "OPEN" /\ UNCHANGED <<merged, fillLedger, workingOrders>>
  BY DEF BrokerMoves
<1>7. /\ orderTruth' = [orderTruth EXCEPT ![o] = r] /\ sent' = sent \cup {e} /\ orderTruth'[o] = r
      /\ \A x \in StreamOrders \ {o} : orderTruth'[x] = orderTruth[x]
  BY <1>1, <1>2, <1>3, <1>6
<1>8. OrdersShape'  BY <1>4, <1>5, <1>6, <1>7, <1>c DEF OrdersShape
<1>9. ASSUME NEW x \in StreamOrders PROVE BelievedOf(x)'
  <2>1. BelievedOf(x)  BY <1>0
  <2>2. CASE x = o
    <3>1. merged[o].label \notin Ends  BY <1>c, <2>1, <2>2 DEF BelievedOf, Ends
    <3>2. merged[o].filled \in Nat /\ fillLedger[o].cumulative \in Nat
      BY <1>6 DEF Orders
    <3>3. merged[o].filled <= filled /\ fillLedger[o].cumulative <= filled
      BY <1>a, <1>b, <2>1, <2>2, <3>2 DEF BelievedOf
    <3>4. label = "OPEN" => filled < StreamQuantity  BY <1>1, <1>b
    <3>5. label # "none"  BY DEF Labels
    <3>6. o \in workingOrders /\ merged[o].label # "none"  BY <1>c, <2>1, <2>2 DEF BelievedOf
    <3>. QED  BY <1>4, <1>7, <1>c, <2>2, <3>1, <3>3, <3>4, <3>5, <3>6 DEF BelievedOf
  <2>3. CASE x # o
    BY <1>7, <1>c, <2>1, <2>3 DEF BelievedOf
  <2>. QED  BY <2>2, <2>3
<1>10. ASSUME NEW x \in sent' PROVE PublishedTruly(x)'
  <2>0. label # "none"  BY DEF Labels
  <2>1. CASE x = e
    BY <1>4, <1>5, <1>7, <1>b, <2>0, <2>1 DEF PublishedTruly
  <2>2. CASE x # e
    <3>1. x \in sent /\ PublishedTruly(x)  BY <1>0, <1>7, <2>2
    <3>2. x.order \in StreamOrders /\ x.filled \in Nat
      BY <1>6, <3>1 DEF StreamEvent
    <3>3. CASE x.order = o
      <4>1. x.label \notin Ends  BY <1>c, <3>1, <3>3 DEF PublishedTruly, Ends
      <4>2. x.filled <= filled  BY <1>a, <1>b, <3>1, <3>2, <3>3 DEF PublishedTruly
      <4>. QED  BY <1>4, <1>7, <2>0, <3>3, <4>1, <4>2 DEF PublishedTruly
    <3>4. CASE x.order # o
      BY <1>7, <3>1, <3>2, <3>4 DEF PublishedTruly
    <3>. QED  BY <3>3, <3>4
  <2>. QED  BY <2>1, <2>2
<1>. QED  BY <1>8, <1>9, <1>10 DEF OrdersInv

(* What the adapter makes of an event of the broker, in any order and any number of times,   *)
(* is a state the order had, and an end only its end (applyOrderUpdate).                     *)
LEMMA AdapterBelievesTruly ==
    ASSUME OrdersInv, NEW e \in sent, NEW absent \in BOOLEAN,
           NEW a, a = applyToAdapter(e.order, e, absent)
    PROVE  /\ a \in Orders /\ a.label # "none"
           /\ a.filled <= orderTruth[e.order].filled
           /\ a.label # "OPEN" => a = orderTruth[e.order]
<1>. DEFINE o == e.order
            filled == IF ~absent /\ e.filled > merged[o].filled THEN e.filled ELSE merged[o].filled
            label == IF merged[o].label # "OPEN" \/ ~(~absent \/ e.label = "OPEN")
                     THEN merged[o].label ELSE e.label
<1>0. OrdersShape /\ (\A x \in StreamOrders : BelievedOf(x)) /\ PublishedTruly(e)
  BY DEF OrdersInv
<1>1. /\ orderTruth \in [StreamOrders -> Orders] /\ merged \in [StreamOrders -> Orders]
      /\ sent \subseteq StreamEvent
  BY <1>0 DEF OrdersShape
<1>2. o \in StreamOrders /\ e.filled \in Nat /\ e.label \in Labels  BY <1>1 DEF StreamEvent
<1>3. /\ orderTruth[o] \in Orders /\ merged[o] \in Orders
      /\ orderTruth[o].filled \in Nat /\ merged[o].filled \in Nat
      /\ merged[o].label \in Labels \cup {"none"}
  BY <1>1, <1>2 DEF Orders
<1>4. a = [filled |-> filled, label |-> label]  BY Zenon DEF applyToAdapter
<1>5. BelievedOf(o)  BY <1>0, <1>2
<1>6. merged[o].label # "none"  BY <1>0, <1>5 DEF BelievedOf, PublishedTruly
<1>7. filled \in Nat /\ filled <= orderTruth[o].filled
  BY <1>0, <1>2, <1>3, <1>5 DEF BelievedOf, PublishedTruly
<1>8. label \in Labels  BY <1>2, <1>3, <1>6
<1>9. label # "OPEN" => filled = orderTruth[o].filled /\ label = orderTruth[o].label
  <2>. SUFFICES ASSUME label # "OPEN" PROVE filled = orderTruth[o].filled /\ label = orderTruth[o].label
    OBVIOUS
  <2>1. CASE merged[o].label # "OPEN"
    <3>1. merged[o].label \in Ends  BY <1>3, <1>6, <2>1 DEF Ends, Labels
    <3>2. merged[o] = orderTruth[o]  BY <1>5, <3>1 DEF BelievedOf
    <3>3. filled = merged[o].filled
      BY <1>0, <1>2, <1>3, <3>2 DEF PublishedTruly
    <3>. QED  BY <2>1, <3>2, <3>3
  <2>2. CASE merged[o].label = "OPEN"
    <3>1. ~absent /\ e.label # "OPEN" /\ label = e.label  BY <2>2
    <3>2. e.label \in Ends  BY <1>2, <3>1 DEF Ends, Labels
    <3>3. e.label = orderTruth[o].label /\ e.filled = orderTruth[o].filled
      BY <1>0, <3>2 DEF PublishedTruly
    <3>4. merged[o].filled <= e.filled  BY <1>5, <3>3 DEF BelievedOf
    <3>5. filled = e.filled  BY <1>2, <1>3, <3>1, <3>4
    <3>. QED  BY <3>1, <3>3, <3>5
  <2>. QED  BY <2>1, <2>2
<1>. HIDE DEF filled, label
<1>10. a \in Orders /\ a.filled = filled /\ a.label = label  BY <1>4, <1>7, <1>8 DEF Orders
<1>11. a.label # "none"  BY <1>8, <1>10 DEF Labels
<1>12. a.label # "OPEN" => a = orderTruth[o]  BY <1>3, <1>9, <1>10, SameOrder
<1>. QED  BY <1>7, <1>10, <1>11, <1>12

(* An event of the stream, taken at any time after it was published and any number of times, *)
(* leaves ledger, adapter and the watch over working orders true (ingestStreamObservation).  *)
LEMMA ObservationIsTrue ==
    ASSUME OrdersInv, NEW e \in sent, NEW absent \in BOOLEAN, ingestStreamObservation(e, absent)
    PROVE  OrdersInv'
<1>. DEFINE o == e.order
            repeated == ~absent /\ e \in fillLedger[o].ids
            advanced == ~absent /\ ~repeated /\ e.filled > fillLedger[o].cumulative
            statusChanged == e.label # forwarded[o].label
            forwards == absent \/ (~repeated /\ (advanced \/ statusChanged))
            full == ~absent /\ StreamQuantity \in {e.filled, fillLedger[o].cumulative}
<1>0. OrdersShape /\ (\A x \in StreamOrders : BelievedOf(x)) /\ \A x \in sent : PublishedTruly(x)
  BY DEF OrdersInv
<1>1. /\ orderTruth \in [StreamOrders -> Orders] /\ merged \in [StreamOrders -> Orders]
      /\ fillLedger \in [StreamOrders -> [cumulative : Nat, ids : SUBSET StreamEvent]]
      /\ sent \subseteq StreamEvent
  BY <1>0 DEF OrdersShape
<1>2. o \in StreamOrders /\ e.filled \in Nat /\ e.label \in Labels /\ e \in StreamEvent
  BY <1>1 DEF StreamEvent
<1>3. /\ orderTruth[o] \in Orders /\ merged[o] \in Orders
      /\ orderTruth[o].filled \in Nat /\ merged[o].filled \in Nat
      /\ fillLedger[o].cumulative \in Nat /\ fillLedger[o].ids \in SUBSET StreamEvent
  BY <1>1, <1>2 DEF Orders
<1>4. BelievedOf(o) /\ PublishedTruly(e)  BY <1>0, <1>2
<1>5. PICK a : a = applyToAdapter(o, e, absent)  OBVIOUS
<1>6. /\ a \in Orders /\ a.label # "none" /\ a.filled <= orderTruth[o].filled
      /\ a.label # "OPEN" => a = orderTruth[o]
  BY <1>5, AdapterBelievesTruly
<1>7. PICK after : after = IF forwards THEN a ELSE merged[o]  OBVIOUS
<1>8. PICK c : c = IF advanced THEN e.filled ELSE fillLedger[o].cumulative  OBVIOUS
<1>9. PICK i : i = IF absent THEN fillLedger[o].ids ELSE fillLedger[o].ids \cup {e}  OBVIOUS
<1>10. PICK settles \in BOOLEAN : settles = (forwards /\ after.label # "OPEN")  OBVIOUS
<1>11. /\ fillLedger' = [fillLedger EXCEPT ![o] = [cumulative |-> c, ids |-> i]]
       /\ merged' = [merged EXCEPT ![o] = after]
       /\ workingOrders' = IF settles \/ full THEN workingOrders \ {o} ELSE workingOrders
       /\ UNCHANGED <<orderTruth, sent>>
  BY <1>5, <1>7, <1>8, <1>9, <1>10, Zenon DEF ingestStreamObservation
<1>12. c \in Nat /\ c <= orderTruth[o].filled /\ i \in SUBSET StreamEvent
  BY <1>2, <1>3, <1>4, <1>8, <1>9 DEF BelievedOf, PublishedTruly
<1>13. /\ after \in Orders /\ after.label # "none" /\ after.filled <= orderTruth[o].filled
       /\ after.label \in Ends => after = orderTruth[o]
       /\ settles => after = orderTruth[o] /\ after.label # "OPEN"
  BY <1>3, <1>4, <1>6, <1>7, <1>10 DEF BelievedOf, PublishedTruly, Ends
<1>14. full => orderTruth[o].label # "OPEN"
  <2>1. full => StreamQuantity <= orderTruth[o].filled
    BY <1>2, <1>3, <1>4 DEF BelievedOf, PublishedTruly
  <2>2. orderTruth[o].label = "OPEN" => orderTruth[o].filled < StreamQuantity
    BY <1>4 DEF BelievedOf
  <2>. QED  BY <1>3, <2>1, <2>2
<1>. HIDE DEF full, forwards
<1>15. PICK l : l = [cumulative |-> c, ids |-> i]  OBVIOUS
<1>16. l \in [cumulative : Nat, ids : SUBSET StreamEvent] /\ l.cumulative = c  BY <1>12, <1>15
<1>17. fillLedger' = [fillLedger EXCEPT ![o] = l]  BY <1>11, <1>15
<1>18. /\ fillLedger'[o] = l /\ merged'[o] = after
       /\ \A x \in StreamOrders \ {o} : fillLedger'[x] = fillLedger[x] /\ merged'[x] = merged[x]
  BY <1>1, <1>2, <1>11, <1>17
<1>19. OrdersShape'  BY <1>1, <1>2, <1>11, <1>13, <1>16, <1>17 DEF OrdersShape
<1>20. ASSUME NEW x \in StreamOrders PROVE BelievedOf(x)'
  <2>1. BelievedOf(x)  BY <1>0
  <2>2. CASE x = o
    <3>1. orderTruth[o].label = "OPEN" => ~settles /\ ~full  BY <1>13, <1>14
    <3>2. orderTruth[o].label = "OPEN" => o \in workingOrders'
      BY <1>4, <1>11, <3>1 DEF BelievedOf
    <3>3. orderTruth[o].label # "none"  BY <1>4 DEF PublishedTruly
    <3>. QED  BY <1>4, <1>11, <1>12, <1>13, <1>16, <1>18, <2>2, <3>2, <3>3 DEF BelievedOf
  <2>3. CASE x # o
    <3>1. x \in workingOrders => x \in workingOrders'  BY <1>11, <2>3
    <3>. QED  BY <1>11, <1>18, <2>1, <2>3, <3>1 DEF BelievedOf
  <2>. QED  BY <2>2, <2>3
<1>21. \A x \in sent' : PublishedTruly(x)'  BY <1>0, <1>11 DEF PublishedTruly
<1>. QED  BY <1>19, <1>20, <1>21 DEF OrdersInv

(* The process starts without an order and without a connection. *)
LEMMA StreamStarts == StreamInit => StreamInv
<1>. SUFFICES ASSUME StreamInit PROVE StreamInv  OBVIOUS
<1>1. Unregistered \in Orders /\ Unregistered.filled = 0 /\ Unregistered.label = "none"
  BY DEF Unregistered, Orders
<1>2. PICK l : l = [cumulative |-> 0, ids |-> {}]  OBVIOUS
<1>3. l \in [cumulative : Nat, ids : SUBSET StreamEvent] /\ l.cumulative = 0  BY <1>2
<1>4. fillLedger = [o \in StreamOrders |-> l]  BY <1>2 DEF StreamInit
<1>5. OrdersShape  BY <1>1, <1>3, <1>4 DEF StreamInit, OrdersShape
<1>6. \A o \in StreamOrders : BelievedOf(o)
  BY <1>1, <1>3, <1>4 DEF StreamInit, BelievedOf, Ends
<1>7. ReadyIsEarned  BY DEF StreamInit, ReadyIsEarned, isEstablished
<1>. QED  BY <1>5, <1>6, <1>7 DEF StreamInit, StreamInv, OrdersInv

(* The invariant is inductive: one step per action of the socket, the sweeps and the orders. *)
LEMMA StreamKept == StreamInv /\ [StreamNext]_streamVars => StreamInv'
<1>. SUFFICES ASSUME StreamInv, [StreamNext]_streamVars PROVE StreamInv'  OBVIOUS
<1>0. ReadyIsEarned /\ OrdersInv  BY DEF StreamInv
<1>1. CASE OrderSocketConnects
  <2>1. orderSocket = "none" /\ orderSocket' = "connecting"
        /\ UNCHANGED <<streamGen, synced, orderVars>>
        /\ lifecycle' = IF isEstablished THEN lifecycle ELSE "CONNECTING"
    BY <1>1 DEF OrderSocketConnects, StreamConnecting, sweepVars
  <2>2. ReadyIsEarned'  BY <1>0, <2>1 DEF ReadyIsEarned, isEstablished
  <2>. QED  BY <1>0, <2>1, <2>2, OrdersFrame DEF StreamInv
<1>2. CASE OrderSocketOpens
  <2>1. orderSocket' = "open" /\ lifecycle' = "RECONCILING" /\ UNCHANGED orderVars
    BY <1>2 DEF OrderSocketOpens, StreamAuthenticated
  <2>2. ReadyIsEarned'  BY <2>1 DEF ReadyIsEarned, isEstablished
  <2>. QED  BY <1>0, <2>1, <2>2, OrdersFrame DEF StreamInv
<1>3. ASSUME NEW auth \in BOOLEAN, OrderSocketCloses(auth) PROVE StreamInv'
  <2>1. lifecycle' \in {"AUTH_EXPIRED", "DISCONNECTED"} /\ UNCHANGED orderVars
    BY <1>3 DEF OrderSocketCloses, onStreamDisconnected, onStreamSessionLost, machineVars
  <2>2. ReadyIsEarned'  BY <2>1 DEF ReadyIsEarned, isEstablished
  <2>. QED  BY <1>0, <2>1, <2>2, OrdersFrame DEF StreamInv
<1>4. ASSUME NEW g \in sweeps, NEW ok \in BOOLEAN, SweepEnds(g, ok) PROVE StreamInv'
  <2>1. UNCHANGED <<streamGen, orderSocket, orderTruth, sent>>
    BY <1>4 DEF SweepEnds, transportVars
  <2>2. ReadyIsEarned'
    <3>1. CASE ok /\ g = streamGen
      <4>1. /\ lifecycle' = IF isEstablished THEN "READY" ELSE lifecycle
            /\ synced' = synced \cup {streamGen}
        BY <1>4, <3>1 DEF SweepEnds
      <4>. QED  BY <1>0, <2>1, <4>1 DEF ReadyIsEarned, isEstablished
    <3>2. CASE ~(ok /\ g = streamGen)
      <4>1. UNCHANGED <<lifecycle, synced>>  BY <1>4, <3>2 DEF SweepEnds
      <4>. QED  BY <1>0, <2>1, <4>1, GateFrame
    <3>. QED  BY <3>1, <3>2
  <2>3. OrdersInv'
    <3>1. CASE ok  BY <1>0, <1>4, <2>1, <3>1, SnapshotsAreTrue DEF SweepEnds
    <3>2. CASE ~ok
      <4>1. UNCHANGED orderVars  BY <1>4, <2>1, <3>2 DEF SweepEnds, orderVars
      <4>. QED  BY <1>0, <4>1, OrdersFrame
    <3>. QED  BY <3>1, <3>2
  <2>. QED  BY <2>2, <2>3 DEF StreamInv
<1>5. CASE ensureReconciled \/ BackoffEnds \/ IdleBoundPasses
  <2>1. UNCHANGED <<lifecycle, streamGen, orderSocket, synced, orderVars>>
    BY <1>5 DEF ensureReconciled, BackoffEnds, IdleBoundPasses, machineVars, transportVars, sweepVars
  <2>. QED  BY <1>0, <2>1, GateFrame, OrdersFrame DEF StreamInv
<1>6. CASE evaluateIdle
  <2>1. /\ lifecycle \in {"READY", "RECONCILING"} /\ lifecycle' = "DEGRADED"
        /\ UNCHANGED <<streamGen, orderSocket, synced, orderVars>>
    BY <1>6 DEF evaluateIdle, transportVars, sweepVars
  <2>2. ReadyIsEarned'  BY <1>0, <2>1 DEF ReadyIsEarned, isEstablished
  <2>. QED  BY <1>0, <2>1, <2>2, OrdersFrame DEF StreamInv
<1>7. ASSUME NEW o \in StreamOrders, registerIntent(o) \/ BrokerMoves(o) PROVE StreamInv'
  <2>1. UNCHANGED <<lifecycle, streamGen, orderSocket, synced>>
    BY <1>7 DEF registerIntent, BrokerMoves, machineVars, transportVars, sweepVars
  <2>. QED  BY <1>0, <1>7, <2>1, GateFrame, RegistrationIsTrue, BrokerIsTrue DEF StreamInv
<1>8. ASSUME NEW e \in sent, NEW absent \in BOOLEAN, ingestStreamObservation(e, absent) PROVE StreamInv'
  <2>1. UNCHANGED <<lifecycle, streamGen, orderSocket, synced>>
    BY <1>8, Zenon DEF ingestStreamObservation, machineVars, transportVars, sweepVars
  <2>. QED  BY <1>0, <1>8, <2>1, GateFrame, ObservationIsTrue DEF StreamInv
<1>9. CASE RestReconciles
  <2>1. RestSnapshots /\ UNCHANGED <<lifecycle, streamGen, orderSocket, synced, orderTruth, sent>>
    BY <1>9 DEF RestReconciles, machineVars, transportVars, sweepVars
  <2>. QED  BY <1>0, <2>1, GateFrame, SnapshotsAreTrue DEF StreamInv
<1>10. CASE UNCHANGED streamVars
  <2>1. UNCHANGED <<lifecycle, streamGen, orderSocket, synced, orderVars>>
    BY <1>10 DEF streamVars, machineVars, transportVars, sweepVars
  <2>. QED  BY <1>0, <2>1, GateFrame, OrdersFrame DEF StreamInv
<1>. QED
  BY <1>1, <1>2, <1>3, <1>4, <1>5, <1>6, <1>7, <1>8, <1>9, <1>10 DEF StreamNext

(* Entries are permitted only on the connection whose own sweep found the account            *)
(* synchronized; an order the adapter holds for ended has ended with the quantity the broker *)
(* gives it; and an order that works is watched for silence, whatever events were late,      *)
(* repeated, out of order, unreadable or lost (orderStreamConsumer.ts, applyOrderUpdate).    *)
THEOREM StreamStaysProven == StreamSpec => []StreamIsProven
<1>1. StreamInv => StreamIsProven
  <2>. SUFFICES ASSUME StreamInv PROVE StreamIsProven  OBVIOUS
  <2>1. ReadyIsReconciled
    BY DEF StreamInv, ReadyIsEarned, isEstablished, ReadyIsReconciled, orderStreamPermissions
  <2>2. EndsAreProven  BY DEF StreamInv, OrdersInv, BelievedOf, Ends, EndsAreProven
  <2>. QED  BY <2>1, <2>2 DEF StreamIsProven
<1>. QED  BY <1>1, StreamStarts, StreamKept, PTL DEF StreamSpec

-----------------------------------------------------------------------------
(* The adapter's session of one order (kiteBrokerAdapter.ts, dhanBrokerAdapter.ts). *)

Final == {"complete", "cancelled", "rejected"}
BrokerOrders == [status : Final \cup {"none", "open"}, filled : Nat]
SnapshotStates == TerminalStates \cup {"absent", "SUBMITTING", "ACKNOWLEDGED", "OPEN", "PARTIALLY_FILLED",
                                       "CANCEL_REQUESTED", "RECONCILIATION_REQUIRED", "UNKNOWN"}
Snapshots == [state : SnapshotStates, filled : Nat, original : BOOLEAN]
Answered == [state : SnapshotStates \cup {"none"}, filled : Nat]
Calls == [by : Actors \cup {"nobody"}, op : {"place", "cancel", "refresh", "lookup"}, known : Snapshots,
          sent : BOOLEAN, seen : BrokerOrders,
          reply : {"none", "refused", "ok", "claim", "error", "429", "refusal", "proven", "unproven"}]
Waits == {"idle", "posting", "looking", "verifying", "waiting", "polling", "cancelling", "confirming",
          "checking", "answered"}

(* A snapshot or an answer never shows more than the broker filled, and calls the order      *)
(* ended only when it is, at the quantity it ended with.                                     *)
Backed(s) ==
    /\ s.filled <= truth.filled
    /\ s.state \in TerminalStates => truth.status # "open" /\ s.filled = truth.filled

(* A state the order had: it never showed more, and an end is the last state. *)
Was(e) ==
    /\ e.filled <= truth.filled
    /\ e.status \in Final => e = truth

(* A call in the line carries what was backed when it was queued and what was so when it was *)
(* answered; only a post that has left has an outcome, and a refusal left no order.          *)
Grounded(c) ==
    /\ Backed(c.known) /\ Was(c.seen)
    /\ c.op = "place" => /\ posts = 0 <=> (~c.sent \/ c.reply = "refused")
                         /\ c.reply = "refusal" => truth.status = "none"
SoundCalls == {c \in Calls : Grounded(c)}

(* Before the post has left nothing is known of an order, and nothing else is under way. *)
Unposted ==
    /\ truth = NoOrder /\ past = {} /\ answer = NoAnswer
    /\ snapshot.state \in {"absent", "SUBMITTING"}
    /\ stages["submit"] \in {"idle", "posting"} /\ stages["cancel"] = "idle" /\ stages["read"] = "idle"
    /\ Len(line) <= 1 /\ (stages["submit"] = "idle" => line = <<>>)
    /\ \A i \in 1 .. Len(line) : /\ line[i].op = "place" /\ line[i].by = "submit"
                                 /\ line[i].known.state \notin TerminalStates

SessionShape ==
    /\ truth \in BrokerOrders /\ (truth.status = "none" => truth.filled = 0)
    /\ posts \in {0, 1} /\ past \subseteq BrokerOrders
    /\ snapshot \in Snapshots /\ answer \in Answered
    /\ stages \in [Actors -> Waits]

(* The inductive invariant of the session. *)
SessionInv ==
    /\ SessionShape
    /\ Backed(snapshot) /\ Backed(answer)
    /\ line \in Seq(SoundCalls)
    /\ \A e \in past : Was(e)
    /\ posts = 0 => Unposted
    /\ stages["submit"] = "idle" => posts = 0

USE SessionAssumption

(* A label ends an order only when the broker's does (kiteState, dhanOrderState). *)
LEMMA LabelOfState ==
    ASSUME NEW status, NEW filled
    PROVE  /\ StateFrom(status, filled) \in {"COMPLETE", "CANCELLED", "REJECTED", "PARTIALLY_FILLED", "OPEN"}
           /\ StateFrom(status, filled) \in TerminalStates => status \in Final
<1>1. StateFrom(status, filled) = kiteState(status, filled) \/ StateFrom(status, filled) = dhanOrderState(status, filled)
  BY DEF StateFrom
<1>2. /\ kiteState(status, filled) \in {"COMPLETE", "CANCELLED", "REJECTED", "PARTIALLY_FILLED", "OPEN"}
      /\ kiteState(status, filled) \in TerminalStates => status \in Final
  BY DEF kiteState, TerminalStates, Final
<1>3. /\ dhanOrderState(status, filled) \in {"COMPLETE", "CANCELLED", "REJECTED", "PARTIALLY_FILLED", "OPEN"}
      /\ dhanOrderState(status, filled) \in TerminalStates => status \in Final
  BY DEF dhanOrderState, TerminalStates, Final
<1>. QED  BY <1>1, <1>2, <1>3

(* A quantity is the larger of the proven ones, and both were filled. *)
LEMMA QuantityOfEvidence ==
    ASSUME SessionShape, NEW seen \in BrokerOrders, Was(seen), NEW proven \in BOOLEAN,
           NEW prior \in Nat, prior <= truth.filled
    PROVE  /\ FilledFrom(seen, proven, prior) \in Nat
           /\ FilledFrom(seen, proven, prior) <= truth.filled
           /\ prior = truth.filled => FilledFrom(seen, proven, prior) = truth.filled
           /\ proven /\ seen = truth => FilledFrom(seen, proven, prior) = truth.filled
           /\ ~proven => FilledFrom(seen, proven, prior) = prior
<1>1. seen.filled \in Nat /\ truth.filled \in Nat /\ seen.filled <= truth.filled
  BY DEF SessionShape, BrokerOrders, Was
<1>. QED  BY <1>1 DEF FilledFrom, Larger

(* A label that ends the order, read with its quantity, is the end and its quantity. *)
LEMMA EndOfEvidence ==
    ASSUME SessionShape, NEW seen \in BrokerOrders, Was(seen), NEW proven \in BOOLEAN,
           NEW prior \in Nat, prior <= truth.filled, Sufficient(seen, proven, prior),
           StateFrom(seen.status, FilledFrom(seen, proven, prior)) \in TerminalStates
    PROVE  truth.status # "open" /\ FilledFrom(seen, proven, prior) = truth.filled
<1>1. seen.status \in Final  BY LabelOfState
<1>2. seen = truth  BY <1>1 DEF Was
<1>3. proven
  <2>1. ~proven => FilledFrom(seen, proven, prior) = prior  BY QuantityOfEvidence
  <2>. QED  BY <2>1 DEF Sufficient, freezesAccounting
<1>4. FilledFrom(seen, proven, prior) = truth.filled  BY <1>2, <1>3, QuantityOfEvidence
<1>. QED  BY <1>1, <1>2, <1>4 DEF Final

(* A reply merged with the order its caller knew shows no more than the broker filled. *)
LEMMA ProjectionIsBacked ==
    ASSUME SessionShape, NEW seen \in BrokerOrders, Was(seen), NEW proven \in BOOLEAN,
           NEW known \in Snapshots, Backed(known)
    PROVE  Projected(seen, proven, known) \in Snapshots /\ Backed(Projected(seen, proven, known))
<1>. DEFINE f == FilledFrom(seen, proven, known.filled)
            t == StateFrom(seen.status, f)
            st == IF Sufficient(seen, proven, known.filled) THEN t ELSE "RECONCILIATION_REQUIRED"
<1>1. known.filled \in Nat /\ known.filled <= truth.filled  BY DEF Snapshots, Backed
<1>2. f \in Nat /\ f <= truth.filled  BY <1>1, QuantityOfEvidence
<1>3. st \in SnapshotStates  BY LabelOfState DEF SnapshotStates, TerminalStates
<1>4. st \in TerminalStates => truth.status # "open" /\ f = truth.filled
  <2>1. "RECONCILIATION_REQUIRED" \notin TerminalStates  BY DEF TerminalStates
  <2>. QED  BY <1>1, <2>1, EndOfEvidence
<1>5. Projected(seen, proven, known) = [state |-> st, filled |-> f, original |-> FALSE]
  BY Zenon DEF Projected
<1>. HIDE DEF st, f
<1>. QED  BY <1>2, <1>3, <1>4, <1>5 DEF Snapshots, Backed

(* Nor does an observation of the stream, however late it is applied. *)
LEMMA ObservedIsBacked ==
    ASSUME SessionShape, Backed(snapshot), NEW seen \in BrokerOrders, Was(seen), NEW proven \in BOOLEAN
    PROVE  Observed(seen, proven) \in Snapshots /\ Backed(Observed(seen, proven))
<1>. DEFINE f == FilledFrom(seen, proven, snapshot.filled)
            t == StateFrom(seen.status, f)
            ok == Sufficient(seen, proven, snapshot.filled)
            st == IF ~ok THEN snapshot.state
                  ELSE IF snapshot.state \in TerminalStates /\ t \notin TerminalStates THEN snapshot.state ELSE t
<1>1. snapshot.filled \in Nat /\ snapshot.filled <= truth.filled /\ snapshot.state \in SnapshotStates
  BY DEF SessionShape, Snapshots, Backed
<1>2. f \in Nat /\ f <= truth.filled /\ (snapshot.filled = truth.filled => f = truth.filled)
  BY <1>1, QuantityOfEvidence
<1>3. t \in SnapshotStates  BY LabelOfState DEF SnapshotStates, TerminalStates
<1>4. ok /\ t \in TerminalStates => truth.status # "open" /\ f = truth.filled
  BY <1>1, EndOfEvidence
<1>5. Observed(seen, proven) = [state |-> st, filled |-> f, original |-> FALSE]
  BY Zenon DEF Observed
<1>. HIDE DEF f, t, ok
<1>6. st \in SnapshotStates  BY <1>1, <1>3
<1>7. st \in TerminalStates => truth.status # "open" /\ f = truth.filled
  BY <1>2, <1>4 DEF Backed
<1>. HIDE DEF st
<1>. QED  BY <1>2, <1>5, <1>6, <1>7 DEF Snapshots, Backed

(* What leaves an order alone leaves everything known of it backed. *)
LEMMA SoundStays == ASSUME UNCHANGED <<truth, posts>> PROVE SoundCalls' = SoundCalls
BY DEF SoundCalls, Grounded, Backed, Was

(* The order moves at the broker while it is open, and nothing said of it is refuted. *)
LEMMA SoundWhileOpen ==
    ASSUME SessionInv, truth.status = "open", truth' \in BrokerOrders, truth'.filled >= truth.filled,
           posts' = posts
    PROVE  /\ \A c \in SoundCalls : c \in SoundCalls'
           /\ \A s \in Snapshots \cup Answered : Backed(s) => Backed(s)'
           /\ \A e \in BrokerOrders : Was(e) => Was(e)'
           /\ posts # 0
<1>1. truth.filled \in Nat /\ truth'.filled \in Nat  BY DEF SessionInv, SessionShape, BrokerOrders
<1>2. "open" \notin Final  BY DEF Final
<1>3. ASSUME NEW s \in Snapshots \cup Answered, Backed(s) PROVE Backed(s)'
  <2>1. s.filled \in Nat  BY DEF Snapshots, Answered
  <2>. QED  BY <1>1, <1>3, <2>1 DEF Backed
<1>4. ASSUME NEW e \in BrokerOrders, Was(e) PROVE Was(e)'
  <2>1. e.filled \in Nat  BY DEF BrokerOrders
  <2>2. e.status \notin Final  BY <1>2, <1>4 DEF Was
  <2>. QED  BY <1>1, <1>4, <2>1, <2>2 DEF Was
<1>5. ASSUME NEW c \in SoundCalls PROVE c \in SoundCalls'
  <2>1. c \in Calls /\ Grounded(c)  BY DEF SoundCalls
  <2>2. c.known \in Snapshots /\ c.seen \in BrokerOrders  BY <2>1 DEF Calls
  <2>3. Backed(c.known)' /\ Was(c.seen)'  BY <1>3, <1>4, <2>1, <2>2 DEF Grounded
  <2>4. c.op = "place" => c.reply # "refusal"  BY <2>1 DEF Grounded
  <2>5. Grounded(c)'  BY <2>1, <2>3, <2>4 DEF Grounded
  <2>. QED  BY <2>1, <2>5 DEF SoundCalls
<1>6. posts # 0  BY DEF SessionInv, Unposted, NoOrder
<1>. QED  BY <1>3, <1>4, <1>5, <1>6

(* After the post has left, a step keeps the invariant when what it writes is backed. *)
LEMMA BackedStep ==
    ASSUME SessionInv, posts # 0, UNCHANGED <<truth, posts, past>>,
           snapshot' \in Snapshots, Backed(snapshot)', answer' \in Answered, Backed(answer)',
           stages' \in [Actors -> Waits], stages'["submit"] # "idle", line' \in Seq(SoundCalls)
    PROVE  SessionInv'
<1>1. SoundCalls' = SoundCalls  BY SoundStays
<1>2. \A e \in past' : Was(e)'  BY DEF SessionInv, Was
<1>. QED  BY <1>1, <1>2 DEF SessionInv, SessionShape

(* Until the post has left only its own call is in the line, and nobody waits for an answer. *)
LEMMA OnlyThePost ==
    ASSUME SessionInv, posts = 0
    PROVE  /\ \A a \in Actors : stages[a] \in {"idle", "posting"}
           /\ line # <<>> => Head(line).op = "place" /\ Head(line).by = "submit" /\ Len(line) = 1
                             /\ Head(line) = line[1] /\ Tail(line) = <<>>
           /\ \A i \in 1 .. Len(line) : line[i].op = "place"
           /\ past = {} /\ snapshot.state \in {"absent", "SUBMITTING"}
<1>1. Unposted  BY DEF SessionInv
<1>2. line \in Seq(SoundCalls)  BY DEF SessionInv
<1>3. line # <<>> => Head(line) = line[1] /\ Len(line) = 1
  <2>1. Len(line) <= 1  BY <1>1 DEF Unposted
  <2>2. Len(line) \in Nat /\ (line # <<>> => Len(line) # 0 /\ Head(line) = line[1])
    BY <1>2, EmptySeq, HeadTailProperties
  <2>3. line # <<>> => Len(line) = 1
    <3>. SUFFICES ASSUME line # <<>> PROVE Len(line) = 1  OBVIOUS
    <3>1. PICK n : n = Len(line)  OBVIOUS
    <3>2. n \in Nat /\ n # 0 /\ n <= 1  BY <2>1, <2>2, <3>1, Zenon
    <3>3. n = 1  BY <3>2
    <3>. QED  BY <3>1, <3>3
  <2>. QED  BY <2>2, <2>3, Zenon
<1>4. line # <<>> => Tail(line) = <<>>
  <2>. SUFFICES ASSUME line # <<>> PROVE Tail(line) = <<>>  OBVIOUS
  <2>1. Tail(line) \in Seq(SoundCalls) /\ Len(Tail(line)) = 0  BY <1>2, <1>3, HeadTailProperties
  <2>. QED  BY <2>1, EmptySeq
<1>5. \A a \in Actors : stages[a] \in {"idle", "posting"}  BY <1>1 DEF Unposted, Actors
<1>. QED  BY <1>1, <1>3, <1>4, <1>5 DEF Unposted

(* What a call in the line carries. *)
LEMMA CallIsSound ==
    ASSUME SessionInv, NEW c \in SoundCalls
    PROVE  /\ c \in Calls /\ c.known \in Snapshots /\ Backed(c.known) /\ c.seen \in BrokerOrders /\ Was(c.seen)
           /\ c.op = "place" => /\ posts = 0 <=> (~c.sent \/ c.reply = "refused")
                                /\ c.reply = "refusal" => truth.status = "none"
BY DEF SoundCalls, Grounded, Calls

(* The call that is worked on next is sound, and so are the ones behind it. *)
LEMMA HeadIsSound ==
    ASSUME SessionInv, line # <<>>
    PROVE  Head(line) \in SoundCalls /\ Tail(line) \in Seq(SoundCalls)
BY HeadTailProperties DEF SessionInv

(* A call is queued with the order as its caller knows it. *)
LEMMA QueuedIsSound ==
    ASSUME SessionInv, posts # 0, NEW a \in Actors, NEW op \in {"cancel", "refresh", "lookup"}
    PROVE  /\ Call(a, op) \in SoundCalls
           /\ \A s \in Snapshots : Backed(s) => [Call(a, op) EXCEPT !.known = s] \in SoundCalls
<1>1. snapshot \in Snapshots /\ Backed(snapshot) /\ truth.filled \in Nat
  BY DEF SessionInv, SessionShape, BrokerOrders
<1>2. NoOrder \in BrokerOrders /\ Was(NoOrder)  BY <1>1 DEF NoOrder, BrokerOrders, Was, Final
<1>3. ASSUME NEW s \in Snapshots, Backed(s),
             NEW c, c = [by |-> a, op |-> op, known |-> s, sent |-> FALSE, seen |-> NoOrder, reply |-> "none"]
      PROVE  c \in SoundCalls
  <2>1. c \in Calls
    BY <1>2, <1>3 DEF Calls
  <2>2. c.op # "place" /\ c.known = s /\ c.seen = NoOrder  BY <1>3
  <2>3. Grounded(c)  BY <1>2, <1>3, <2>2 DEF Grounded
  <2>. QED  BY <2>1, <2>3 DEF SoundCalls
<1>4. Call(a, op) = [by |-> a, op |-> op, known |-> snapshot, sent |-> FALSE, seen |-> NoOrder, reply |-> "none"]
  BY Zenon DEF Call
<1>5. Call(a, op) \in SoundCalls  BY <1>1, <1>3, <1>4, Zenon
<1>6. ASSUME NEW s \in Snapshots, Backed(s), NEW c, c = [Call(a, op) EXCEPT !.known = s]
      PROVE  c \in SoundCalls
  <2>1. PICK d : d = Call(a, op)  OBVIOUS
  <2>2. d \in Calls /\ d.op = op /\ d.seen = NoOrder  BY <1>4, <1>5, <2>1 DEF SoundCalls
  <2>3. c = [d EXCEPT !.known = s]  BY <1>6, <2>1, Zenon
  <2>4. c \in Calls /\ c.known = s /\ c.op = d.op /\ c.seen = d.seen  BY <2>2, <2>3, Zenon DEF Calls
  <2>5. Grounded(c)  BY <1>2, <1>6, <2>2, <2>4 DEF Grounded
  <2>. QED  BY <2>4, <2>5 DEF SoundCalls
<1>. QED  BY <1>5, <1>6, Zenon

(* An actor moves to its next wait; only a submission that never left becomes idle again. *)
LEMMA WaitMoves ==
    ASSUME SessionInv, posts # 0, NEW a \in Actors, NEW s \in Waits, a = "submit" => s # "idle", To(a, s)
    PROVE  stages' \in [Actors -> Waits] /\ stages'["submit"] # "idle"
<1>1. stages \in [Actors -> Waits] /\ stages["submit"] # "idle"  BY DEF SessionInv, SessionShape
<1>. QED  BY <1>1 DEF To

(* A backed state may be the answer. *)
LEMMA AnswerIsBacked ==
    ASSUME SessionInv, posts # 0, NEW a \in Actors, NEW s, s.state \in SnapshotStates, s.filled \in Nat,
           Backed(s), Answers(a, s), UNCHANGED truth
    PROVE  /\ stages' \in [Actors -> Waits] /\ stages'["submit"] # "idle"
           /\ answer' \in Answered /\ Backed(answer)'
<1>1. stages' \in [Actors -> Waits] /\ stages'["submit"] # "idle"
  <2>1. PICK w : w = IF a = "submit" THEN "answered" ELSE "idle"  OBVIOUS
  <2>2. w \in Waits /\ (a = "submit" => w # "idle")  BY <2>1 DEF Waits
  <2>3. To(a, w)  BY <2>1, Zenon DEF Answers
  <2>. QED  BY <2>2, <2>3, WaitMoves
<1>2. answer' \in Answered /\ Backed(answer)'
  <2>1. CASE a = "submit"
    <3>1. answer' = [state |-> s.state, filled |-> s.filled]  BY <2>1 DEF Answers
    <3>2. answer' \in Answered /\ answer'.state = s.state /\ answer'.filled = s.filled
      BY <3>1 DEF Answered
    <3>. QED  BY <3>2 DEF Backed
  <2>2. CASE a # "submit"
    BY <2>2 DEF Answers, SessionInv, SessionShape, Backed
  <2>. QED  BY <2>1, <2>2
<1>. QED  BY <1>1, <1>2

(* An ambiguous answer claims nothing, so it is backed whatever the broker did. *)
LEMMA AmbiguousIsBacked ==
    ASSUME SessionInv
    PROVE  Ambiguous.state \in SnapshotStates /\ Ambiguous.filled \in Nat /\ Backed(Ambiguous)
<1>1. truth.filled \in Nat  BY DEF SessionInv, SessionShape, BrokerOrders
<1>. QED  BY <1>1 DEF Ambiguous, SnapshotStates, Backed, TerminalStates

(* A snapshot whose state is put in doubt shows no more than before. *)
LEMMA DoubtIsBacked ==
    ASSUME NEW s \in Snapshots, Backed(s), NEW st \in SnapshotStates \ TerminalStates,
           NEW d, d = [s EXCEPT !.state = st]
    PROVE  d \in Snapshots /\ Backed(d)
<1>1. s = [state |-> s.state, filled |-> s.filled, original |-> s.original] /\ s.filled \in Nat /\ s.original \in BOOLEAN
  BY Zenon DEF Snapshots
<1>2. d \in Snapshots /\ d.state = st /\ d.filled = s.filled  BY Zenon DEF Snapshots
<1>. QED  BY <1>2 DEF Backed

(* A quarantined order is known by what was known of it before. *)
LEMMA QuarantineIsBacked ==
    ASSUME SessionInv, NEW known PROVE Quarantined(known) \in Snapshots /\ Backed(Quarantined(known))
<1>1. snapshot \in Snapshots /\ Backed(snapshot)  BY DEF SessionInv, SessionShape
<1>2. "RECONCILIATION_REQUIRED" \in SnapshotStates \ TerminalStates  BY DEF SnapshotStates, TerminalStates
<1>3. PICK d : d = [snapshot EXCEPT !.state = "RECONCILIATION_REQUIRED"]  OBVIOUS
<1>4. d \in Snapshots /\ Backed(d)  BY <1>1, <1>2, <1>3, DoubtIsBacked
<1>5. Quarantined(known) = d \/ Quarantined(known) = snapshot  BY <1>3, Zenon DEF Quarantined
<1>. QED  BY <1>1, <1>4, <1>5

(* What is known of an order that stays where it is stays backed. *)
LEMMA KnownStays ==
    ASSUME SessionInv, UNCHANGED truth, NEW d, d \in Snapshots, Backed(d), snapshot' = d
    PROVE  snapshot' \in Snapshots /\ Backed(snapshot)'
BY DEF Backed

(* What is known of the order stays backed while neither it nor the order moves. *)
LEMMA SnapshotStays ==
    ASSUME SessionInv, UNCHANGED <<truth, snapshot>> PROVE snapshot' \in Snapshots /\ Backed(snapshot)'
BY DEF SessionInv, SessionShape, Backed

(* The answer of the submission stays backed while neither it nor the order moves. *)
LEMMA AnswerStays ==
    ASSUME SessionInv, UNCHANGED <<truth, answer>> PROVE answer' \in Answered /\ Backed(answer)'
BY DEF SessionInv, SessionShape, Backed

(* The waits keep their type in a step that moves none. *)
LEMMA StagesStay ==
    ASSUME SessionInv, posts # 0, UNCHANGED stages
    PROVE  stages' \in [Actors -> Waits] /\ stages'["submit"] # "idle"
BY DEF SessionInv, SessionShape

(* The calls in the line stay sound in a step that leaves the line alone. *)
LEMMA LineStays == ASSUME SessionInv, UNCHANGED line PROVE line' \in Seq(SoundCalls)
BY DEF SessionInv

(* The order at the broker. *)
LEMMA BrokerKeepsSession == ASSUME SessionInv, BrokerFills \/ BrokerEnds PROVE SessionInv'
<1>1. /\ truth \in BrokerOrders /\ truth.filled \in Nat /\ truth.status = "open"
      /\ UNCHANGED <<posts, snapshot, stages, answer, line>>
  BY DEF SessionInv, SessionShape, BrokerOrders, BrokerFills, BrokerEnds
<1>2. truth' \in BrokerOrders /\ truth'.filled >= truth.filled /\ past' = past \cup {truth'} /\ truth'.status # "none"
  <2>1. CASE BrokerFills
    <3>1. PICK q \in truth.filled + 1 .. OrderQuantity :
             Changes([status |-> IF q = OrderQuantity THEN "complete" ELSE "open", filled |-> q])
      BY <2>1, Zenon DEF BrokerFills
    <3>2. PICK w : w = IF q = OrderQuantity THEN "complete" ELSE "open"  OBVIOUS
    <3>3. truth' = [status |-> w, filled |-> q] /\ past' = past \cup {truth'}
      BY <3>1, <3>2, Zenon DEF Changes
    <3>4. q \in Nat /\ q >= truth.filled  BY <1>1
    <3>5. w \in Final \cup {"none", "open"} /\ w # "none"  BY <3>2 DEF Final
    <3>. QED  BY <3>3, <3>4, <3>5 DEF BrokerOrders
  <2>2. CASE BrokerEnds
    <3>1. PICK w \in {"cancelled", "rejected"} : Changes([truth EXCEPT !.status = w])
      BY <2>2, Zenon DEF BrokerEnds
    <3>2. truth' = [truth EXCEPT !.status = w] /\ past' = past \cup {truth'}
      BY <3>1, Zenon DEF Changes
    <3>3. w \in Final \cup {"none", "open"} /\ w # "none"  BY DEF Final
    <3>4. PICK t, u : t = truth /\ u = truth'  OBVIOUS
    <3>5. u \in BrokerOrders /\ u.filled = t.filled /\ u.status = w
      BY <1>1, <3>2, <3>3, <3>4, Zenon DEF BrokerOrders
    <3>. QED  BY <1>1, <3>2, <3>3, <3>4, <3>5
  <2>. QED  BY <2>1, <2>2
<1>3. /\ \A c \in SoundCalls : c \in SoundCalls'
      /\ \A s \in Snapshots \cup Answered : Backed(s) => Backed(s)'
      /\ \A e \in BrokerOrders : Was(e) => Was(e)'
      /\ posts # 0
  BY <1>1, <1>2, SoundWhileOpen
<1>4. PICK S, T : S = SoundCalls /\ T = SoundCalls'  OBVIOUS
<1>5. line' \in Seq(SoundCalls')
  <2>1. S \subseteq T  BY <1>3, <1>4
  <2>2. PICK l : l = line  OBVIOUS
  <2>3. l \in Seq(S)  BY <1>4, <2>2 DEF SessionInv
  <2>4. l \in Seq(T)  BY <2>1, <2>3, SeqMonotonic
  <2>. QED  BY <1>1, <1>4, <2>2, <2>4
<1>6. Backed(snapshot)' /\ Backed(answer)'
  <2>1. PICK s, n : s = snapshot /\ n = answer  OBVIOUS
  <2>2. s \in Snapshots /\ n \in Answered /\ Backed(s) /\ Backed(n)  BY <2>1 DEF SessionInv, SessionShape
  <2>3. Backed(s)' /\ Backed(n)'  BY <1>3, <2>2
  <2>. QED  BY <1>1, <2>1, <2>3 DEF Backed
<1>7. \A e \in past' : Was(e)' /\ e \in BrokerOrders
  <2>. SUFFICES ASSUME NEW e \in past' PROVE Was(e)' /\ e \in BrokerOrders  OBVIOUS
  <2>1. CASE e = truth'
    <3>1. truth'.filled \in Nat  BY <1>2 DEF BrokerOrders
    <3>. QED  BY <1>2, <2>1, <3>1 DEF Was
  <2>2. CASE e # truth'
    BY <1>2, <1>3, <2>2 DEF SessionInv, SessionShape
  <2>. QED  BY <2>1, <2>2
<1>. QED  BY <1>1, <1>2, <1>3, <1>5, <1>6, <1>7 DEF SessionInv, SessionShape

(* An observation of the stream, of any state the order had. *)
LEMMA StreamKeepsSession == ASSUME SessionInv, applyOrderUpdate PROVE SessionInv'
<1>1. UNCHANGED <<truth, posts, past, stages, answer, line>>  BY DEF applyOrderUpdate
<1>2. PICK seen \in past, proven \in BOOLEAN :
         snapshot' = IF proven /\ seen.filled < snapshot.filled /\ Observed(seen, proven).state = snapshot.state
                     THEN snapshot ELSE Observed(seen, proven)
  BY Zenon DEF applyOrderUpdate
<1>3. posts # 0  BY OnlyThePost
<1>4. SessionShape /\ snapshot \in Snapshots /\ Backed(snapshot) /\ seen \in BrokerOrders /\ Was(seen)
  BY DEF SessionInv, SessionShape
<1>5. PICK d : d = Observed(seen, proven)  OBVIOUS
<1>6. d \in Snapshots /\ Backed(d)  BY <1>4, <1>5, ObservedIsBacked
<1>7. snapshot' = snapshot \/ snapshot' = d  BY <1>2, <1>5, Zenon
<1>8. snapshot' \in Snapshots /\ Backed(snapshot)'  BY <1>1, <1>6, <1>7, KnownStays, SnapshotStays
<1>. QED  BY <1>1, <1>3, <1>8, AnswerStays, StagesStay, LineStays, BackedStep

(* The budget and the others who spend it. *)
LEMMA BudgetKeepsSession ==
    ASSUME SessionInv, WindowPasses \/ CooldownEnds \/ OtherOrders PROVE SessionInv'
<1>1. UNCHANGED <<truth, posts, snapshot, stages, answer, line, past>>
  BY DEF WindowPasses, CooldownEnds, OtherOrders
<1>2. SoundCalls' = SoundCalls  BY <1>1, SoundStays
<1>. QED  BY <1>1, <1>2 DEF SessionInv, SessionShape, Backed, Was, Unposted

(* Calls that are sent: the first in the line is replaced by what the broker made of it. *)
LEMMA FirstCallReplaced ==
    ASSUME NEW S, NEW l \in Seq(S), l # <<>>, NEW T, S \subseteq T, NEW c \in T,
           NEW m, m = [l EXCEPT ![1] = c]
    PROVE  /\ m \in Seq(T) /\ Len(m) = Len(l) /\ m[1] = c
           /\ \A i \in 1 .. Len(l) : i # 1 => m[i] = l[i]
<1>1. l \in Seq(T)  BY SeqMonotonic
<1>2. Len(l) \in Nat /\ Len(l) # 0  BY EmptySeq
<1>3. 1 \in 1 .. Len(l)  BY <1>2
<1>. QED  BY <1>1, <1>3, ExceptSeq

(* The same, when the line holds nothing else. *)
LEMMA OnlyCallReplaced ==
    ASSUME NEW S, NEW l \in Seq(S), Len(l) = 1, NEW T, NEW c \in T, NEW m, m = [l EXCEPT ![1] = c]
    PROVE  m \in Seq(T)
<1>1. PICK U : U = S \cup T  OBVIOUS
<1>2. l \in Seq(U) /\ c \in U /\ 1 \in 1 .. Len(l)  BY <1>1, SeqMonotonic
<1>3. m \in Seq(U) /\ Len(m) = Len(l) /\ m[1] = c  BY <1>2, ExceptSeq
<1>4. <<c>> \in Seq(T) /\ <<c>> \in Seq(U) /\ Len(<<c>>) = 1 /\ <<c>>[1] = c  BY <1>2
<1>5. ASSUME NEW i \in 1 .. Len(m) PROVE m[i] = <<c>>[i]
  <2>1. Len(m) = 1  BY <1>3, Zenon
  <2>2. i \in 1 .. 1  BY <2>1, Zenon
  <2>3. i = 1  BY <2>2
  <2>. QED  BY <1>3, <1>4, <2>3, Zenon
<1>6. m = <<c>>  BY <1>3, <1>4, <1>5, SeqEqual
<1>. QED  BY <1>4, <1>6

(* The post leaves, or is refused at the last guard before it (placementGuard). *)
LEMMA PostKeepsSession == ASSUME SessionInv, SendPost PROVE SessionInv'
<1>0. /\ line # <<>> /\ ~Head(line).sent /\ Head(line).op = "place"
      /\ UNCHANGED <<snapshot, stages, answer>>
  BY DEF SendPost
<1>1. PICK l, c : l = line /\ c = Head(line)  OBVIOUS
<1>2. c \in SoundCalls /\ l \in Seq(SoundCalls) /\ l # <<>>
  BY <1>0, <1>1, HeadIsSound DEF SessionInv
<1>3. posts = 0 /\ Unposted  BY <1>0, <1>1, <1>2, CallIsSound DEF SessionInv
<1>4. c = l[1] /\ Len(l) = 1  BY <1>0, <1>1, <1>3, OnlyThePost
<1>5. /\ c \in Calls /\ ~c.sent /\ c.op = "place" /\ c.by = "submit" /\ c.known \in Snapshots /\ Backed(c.known)
      /\ c.seen \in BrokerOrders /\ Was(c.seen) /\ c.known.state \notin TerminalStates
  <2>1. 1 \in 1 .. Len(line) /\ line[1] = c  BY <1>1, <1>4
  <2>. QED  BY <1>0, <1>1, <1>2, <1>3, <2>1, CallIsSound DEF Unposted
<1>6. truth = NoOrder /\ truth.filled = 0 /\ truth.status = "none" /\ past = {} /\ snapshot \in Snapshots
  BY <1>3 DEF Unposted, NoOrder, SessionInv, SessionShape
<1>7. stages["submit"] # "idle"  BY <1>0, <1>3 DEF Unposted
<1>8. c.seen.filled \in Nat /\ c.seen.filled <= 0 /\ c.seen.status \notin Final
  <2>1. "none" \notin Final  BY DEF Final
  <2>. QED  BY <1>5, <1>6, <2>1 DEF Was, BrokerOrders
<1>9. c.known.filled \in Nat /\ c.known.filled <= 0  BY <1>5, <1>6 DEF Snapshots, Backed
<1>10. snapshot.filled \in Nat /\ snapshot.filled <= 0 /\ snapshot.state \notin TerminalStates
  BY <1>3, <1>6 DEF Snapshots, SessionInv, Backed, Unposted, TerminalStates
<1>11. answer = NoAnswer /\ NoAnswer.state \notin TerminalStates /\ NoAnswer.filled = 0
  BY <1>3 DEF Unposted, NoAnswer, TerminalStates
<1>12. ASSUME truth' \in BrokerOrders, NEW d \in Calls, d.sent, d.op = "place", d.known = c.known, d.seen = c.seen,
              posts' \in {0, 1}, posts' = 0 <=> d.reply = "refused", d.reply = "refusal" => truth'.status = "none"
       PROVE  /\ d \in SoundCalls' /\ Backed(snapshot)' /\ Backed(answer)'
  <2>1. truth'.filled \in Nat /\ truth'.filled >= 0  BY <1>12 DEF BrokerOrders
  <2>2. Backed(d.known)'  BY <1>5, <1>9, <1>12, <2>1 DEF Backed
  <2>3. Was(d.seen)'  BY <1>8, <1>12, <2>1 DEF Was
  <2>4. Backed(snapshot)'  BY <1>0, <1>10, <2>1 DEF Backed
  <2>5. Backed(answer)'  BY <1>0, <1>11, <2>1 DEF Backed
  <2>6. Grounded(d)'  BY <1>12, <2>2, <2>3 DEF Grounded
  <2>. QED  BY <1>12, <2>4, <2>5, <2>6 DEF SoundCalls
<1>13. CASE line' = [line EXCEPT ![1].sent = TRUE, ![1].reply = "refused"] /\ UNCHANGED <<truth, past, posts>>
  <2>1. PICK d : d = [c EXCEPT !.sent = TRUE, !.reply = "refused"]  OBVIOUS
  <2>2. /\ d \in Calls /\ d.sent /\ d.reply = "refused" /\ d.seen = c.seen
        /\ d.op = c.op /\ d.by = c.by /\ d.known = c.known
    BY <1>5, <2>1, Zenon DEF Calls
  <2>3. line' = [l EXCEPT ![1] = d]  BY <1>1, <1>4, <1>13, <2>1, Zenon
  <2>4. truth' \in BrokerOrders  BY <1>13 DEF SessionInv, SessionShape
  <2>5. d \in SoundCalls'  BY <1>3, <1>5, <1>12, <1>13, <2>2, <2>4
  <2>6. SoundCalls' = SoundCalls  BY <1>13, SoundStays
  <2>7. PICK S : S = SoundCalls  OBVIOUS
  <2>8. PICK m : m = line'  OBVIOUS
  <2>9. m \in Seq(S) /\ Len(m) = Len(l) /\ m[1] = d
    BY <1>2, <2>3, <2>5, <2>6, <2>7, <2>8, FirstCallReplaced
  <2>10. Unposted'
    <3>1. \A i \in 1 .. Len(line') : line'[i] = d  BY <1>4, <2>8, <2>9
    <3>2. d.op = "place" /\ d.by = "submit" /\ d.known.state \notin TerminalStates  BY <1>5, <2>2
    <3>3. Len(line') <= 1  BY <1>4, <2>8, <2>9
    <3>. QED  BY <1>0, <1>3, <1>7, <1>13, <3>1, <3>2, <3>3 DEF Unposted
  <2>. QED
    BY <1>0, <1>3, <1>7, <1>13, <2>6, <2>7, <2>8, <2>9, <2>10 DEF SessionInv, SessionShape, Backed, Was
<1>14. ASSUME posts' = posts + 1,
              \/ \E status \in {"open", "rejected"} : Changes([status |-> status, filled |-> 0])
              \/ UNCHANGED <<truth, past>>,
              NEW reply \in {"ok", "claim", "error", "429", "refusal"},
              reply = "refusal" => truth'.status = "none",
              line' = [line EXCEPT ![1].sent = TRUE, ![1].reply = reply]
       PROVE  SessionInv'
  <2>1. posts' = 1  BY <1>3, <1>14
  <2>2. truth' \in BrokerOrders /\ truth'.filled = 0 /\ past' \subseteq {truth'}
    <3>1. CASE UNCHANGED <<truth, past>>
      BY <1>6, <3>1 DEF SessionInv, SessionShape
    <3>2. ASSUME NEW status \in {"open", "rejected"}, Changes([status |-> status, filled |-> 0])
          PROVE  truth' \in BrokerOrders /\ truth'.filled = 0 /\ past' \subseteq {truth'}
      BY <1>6, <3>2 DEF Changes, BrokerOrders, Final
    <3>. QED  BY <1>14, <3>1, <3>2
  <2>3. PICK d : d = [c EXCEPT !.sent = TRUE, !.reply = reply]  OBVIOUS
  <2>4. /\ d \in Calls /\ d.sent /\ d.reply = reply /\ d.seen = c.seen
        /\ d.op = c.op /\ d.by = c.by /\ d.known = c.known
    BY <1>5, <2>3, Zenon DEF Calls
  <2>5. line' = [l EXCEPT ![1] = d]  BY <1>1, <1>4, <1>14, <2>3, Zenon
  <2>6. d \in SoundCalls' /\ Backed(snapshot)' /\ Backed(answer)'
    BY <1>5, <1>12, <1>14, <2>1, <2>2, <2>4
  <2>7. line' \in Seq(SoundCalls')
    <3>1. PICK T, m : T = SoundCalls' /\ m = line'  OBVIOUS
    <3>2. PICK S : S = SoundCalls  OBVIOUS
    <3>3. m \in Seq(T)  BY <1>2, <1>4, <2>5, <2>6, <3>1, <3>2, OnlyCallReplaced
    <3>. QED  BY <3>1, <3>3
  <2>8. \A e \in past' : Was(e)'
    <3>1. truth'.filled \in Nat  BY <2>2
    <3>. QED  BY <2>2, <3>1 DEF Was
  <2>. QED
    BY <1>0, <1>7, <2>1, <2>2, <2>6, <2>7, <2>8 DEF SessionInv, SessionShape
<1>15. \/ line' = [line EXCEPT ![1].sent = TRUE, ![1].reply = "refused"] /\ UNCHANGED <<truth, past, posts>>
       \/ /\ posts' = posts + 1
          /\ \/ \E status \in {"open", "rejected"} : Changes([status |-> status, filled |-> 0])
             \/ UNCHANGED <<truth, past>>
          /\ \E reply \in {"ok", "claim", "error", "429", "refusal"} :
                /\ reply = "refusal" => truth'.status = "none"
                /\ line' = [line EXCEPT ![1].sent = TRUE, ![1].reply = reply]
  BY Zenon DEF SendPost
<1>. QED  BY <1>13, <1>14, <1>15, Zenon

(* A cancel or a read is answered by the broker, whose order the cancel may end. *)
LEMMA AnsweredStaysSound ==
    ASSUME SessionInv, posts # 0, UNCHANGED <<truth, posts>>, NEW c \in SoundCalls, c.op # "place",
           NEW d \in Calls, d.op = c.op, d.known = c.known, Was(d.seen)
    PROVE  d \in SoundCalls'
<1>1. Grounded(d)  BY CallIsSound DEF Grounded
<1>. QED  BY <1>1, SoundStays DEF SoundCalls

(* A cancel goes out: the order may end with it, and its fills stand. *)
LEMMA CancelKeepsSession == ASSUME SessionInv, SendCancel PROVE SessionInv'
<1>0. /\ line # <<>> /\ Head(line).op = "cancel"
      /\ UNCHANGED <<posts, snapshot, stages, answer>>
  BY DEF SendCancel
<1>1. PICK l, c : l = line /\ c = Head(line)  OBVIOUS
<1>2. c \in SoundCalls /\ l \in Seq(SoundCalls) /\ l # <<>> /\ c = l[1] /\ c.op = "cancel"
  BY <1>0, <1>1, HeadIsSound, HeadTailProperties DEF SessionInv
<1>3. posts # 0  BY <1>0, OnlyThePost
<1>4. c \in Calls /\ c.known \in Snapshots /\ c.seen \in BrokerOrders /\ Backed(c.known) /\ Was(c.seen)
  BY <1>2, CallIsSound
<1>5. PICK reply \in {"ok", "error", "429"} : line' = [line EXCEPT ![1].sent = TRUE, ![1].reply = reply]
  BY Zenon DEF SendCancel
<1>6. PICK d : d = [c EXCEPT !.sent = TRUE, !.reply = reply]  OBVIOUS
<1>7. /\ d \in Calls /\ d.seen = c.seen /\ d.op = c.op /\ d.known = c.known
  BY <1>4, <1>6, Zenon DEF Calls
<1>8. line' = [l EXCEPT ![1] = d]  BY <1>1, <1>2, <1>5, <1>6, Zenon
<1>9. CASE UNCHANGED <<truth, past>>
  <2>1. d \in SoundCalls'  BY <1>0, <1>2, <1>3, <1>4, <1>7, <1>9, AnsweredStaysSound
  <2>2. SoundCalls' = SoundCalls  BY <1>0, <1>9, SoundStays
  <2>3. PICK S, m : S = SoundCalls /\ m = line'  OBVIOUS
  <2>4. m \in Seq(S)  BY <1>2, <1>8, <2>1, <2>2, <2>3, FirstCallReplaced
  <2>. QED
    BY <1>0, <1>3, <1>9, <2>3, <2>4, SnapshotStays, AnswerStays, StagesStay, BackedStep
<1>10. CASE truth.status = "open" /\ Changes([truth EXCEPT !.status = "cancelled"])
  <2>1. truth' = [truth EXCEPT !.status = "cancelled"] /\ past' = past \cup {truth'}
    BY <1>10, Zenon DEF Changes
  <2>2. PICK t, u : t = truth /\ u = truth'  OBVIOUS
  <2>3. t \in BrokerOrders /\ "cancelled" \in Final \cup {"none", "open"}
    BY <2>2 DEF SessionInv, SessionShape, Final
  <2>4. u \in BrokerOrders /\ u.filled = t.filled /\ u.status = "cancelled"
    BY <2>1, <2>2, <2>3, Zenon DEF BrokerOrders
  <2>5. u.filled \in Nat  BY <2>4 DEF BrokerOrders
  <2>6. /\ \A x \in SoundCalls : x \in SoundCalls'
        /\ \A s \in Snapshots \cup Answered : Backed(s) => Backed(s)'
        /\ \A e \in BrokerOrders : Was(e) => Was(e)'
    BY <1>0, <1>10, <2>2, <2>4, <2>5, SoundWhileOpen
  <2>7. d \in SoundCalls'
    <3>1. Backed(d.known)' /\ Was(d.seen)'  BY <1>4, <1>7, <2>6
    <3>2. Grounded(d)'  BY <1>2, <1>7, <3>1 DEF Grounded
    <3>. QED  BY <1>7, <3>2 DEF SoundCalls
  <2>8. line' \in Seq(SoundCalls')
    <3>1. PICK S, T, m : S = SoundCalls /\ T = SoundCalls' /\ m = line'  OBVIOUS
    <3>2. S \subseteq T  BY <2>6, <3>1
    <3>3. m \in Seq(T)  BY <1>2, <1>8, <2>7, <3>1, <3>2, FirstCallReplaced
    <3>. QED  BY <3>1, <3>3
  <2>9. Backed(snapshot)' /\ Backed(answer)'
    <3>1. PICK s, n : s = snapshot /\ n = answer  OBVIOUS
    <3>2. s \in Snapshots /\ n \in Answered /\ Backed(s) /\ Backed(n)  BY <3>1 DEF SessionInv, SessionShape
    <3>3. Backed(s)' /\ Backed(n)'  BY <2>6, <3>2
    <3>. QED  BY <1>0, <3>1, <3>3 DEF Backed
  <2>10. \A e \in past' : Was(e)' /\ e \in BrokerOrders
    <3>. SUFFICES ASSUME NEW e \in past' PROVE Was(e)' /\ e \in BrokerOrders  OBVIOUS
    <3>1. CASE e = truth'
      BY <2>2, <2>4, <2>5, <3>1 DEF Was
    <3>2. CASE e # truth'
      BY <2>1, <2>6, <3>2 DEF SessionInv, SessionShape
    <3>. QED  BY <3>1, <3>2
  <2>. QED
    BY <1>0, <1>3, <2>2, <2>4, <2>8, <2>9, <2>10 DEF SessionInv, SessionShape
<1>11. UNCHANGED <<truth, past>> \/ (truth.status = "open" /\ Changes([truth EXCEPT !.status = "cancelled"]))
  BY Zenon DEF SendCancel
<1>. QED  BY <1>9, <1>10, <1>11

(* A read goes out and sees the order as it is. *)
LEMMA ReadKeepsSession == ASSUME SessionInv, SendRead PROVE SessionInv'
<1>0. /\ line # <<>> /\ Head(line).op \in {"refresh", "lookup"}
      /\ UNCHANGED <<truth, past, posts, snapshot, stages, answer>>
  BY DEF SendRead
<1>1. PICK l, c : l = line /\ c = Head(line)  OBVIOUS
<1>2. c \in SoundCalls /\ l \in Seq(SoundCalls) /\ l # <<>> /\ c = l[1] /\ c.op # "place"
  BY <1>0, <1>1, HeadIsSound, HeadTailProperties DEF SessionInv
<1>3. posts # 0  BY <1>0, OnlyThePost
<1>4. c \in Calls /\ truth \in BrokerOrders  BY <1>2, CallIsSound DEF SessionInv, SessionShape
<1>5. PICK reply \in {"proven", "unproven", "error"} :
         line' = [line EXCEPT ![1].sent = TRUE, ![1].seen = truth, ![1].reply = reply]
  BY Zenon DEF SendRead
<1>6. PICK t : t = truth  OBVIOUS
<1>7. PICK d : d = [c EXCEPT !.sent = TRUE, !.seen = t, !.reply = reply]  OBVIOUS
<1>8. /\ d \in Calls /\ d.seen = t /\ d.op = c.op /\ d.known = c.known
  BY <1>4, <1>6, <1>7, Zenon DEF Calls
<1>9. line' = [l EXCEPT ![1] = d]  BY <1>1, <1>2, <1>5, <1>6, <1>7, Zenon
<1>10. Was(d.seen)
  <2>1. truth.filled \in Nat  BY <1>4 DEF BrokerOrders
  <2>. QED  BY <1>6, <1>8, <2>1 DEF Was
<1>11. d \in SoundCalls'  BY <1>0, <1>2, <1>3, <1>8, <1>10, AnsweredStaysSound
<1>12. SoundCalls' = SoundCalls  BY <1>0, SoundStays
<1>13. PICK S, m : S = SoundCalls /\ m = line'  OBVIOUS
<1>14. m \in Seq(S)  BY <1>2, <1>9, <1>11, <1>12, <1>13, FirstCallReplaced
<1>. QED
  BY <1>0, <1>3, <1>13, <1>14, SnapshotStays, AnswerStays, StagesStay, BackedStep

(* A reply that nobody waits for any more is dropped. *)
LEMMA UnclaimedKeepsSession == ASSUME SessionInv, UnclaimedReturns PROVE SessionInv'
<1>1. line # <<>> /\ Head(line).by = "nobody" /\ line' = Tail(line)
      /\ UNCHANGED <<truth, past, posts, snapshot, stages, answer>>
  BY DEF UnclaimedReturns, Reply, Pops
<1>2. posts # 0  BY <1>1, OnlyThePost
<1>. QED
  BY <1>1, <1>2, HeadIsSound, SnapshotStays, AnswerStays, StagesStay, BackedStep

(* The submission: it is queued before anything is known of the order. *)
LEMMA SubmitKeepsSession == ASSUME SessionInv, submitOrder PROVE SessionInv'
<1>0. /\ stages["submit"] = "idle" /\ snapshot.state = "absent"
      /\ snapshot' = [state |-> "SUBMITTING", filled |-> 0, original |-> TRUE]
      /\ line' = Append(line, Call("submit", "place")) /\ stages' = [stages EXCEPT !["submit"] = "posting"]
      /\ UNCHANGED <<truth, posts, answer, past>>
  BY DEF submitOrder, Queue, To
<1>1. posts = 0 /\ Unposted /\ SessionShape /\ Backed(snapshot) /\ Backed(answer)  BY <1>0 DEF SessionInv
<1>2. line = <<>> /\ truth = NoOrder /\ truth.filled = 0 /\ truth.status = "none" /\ past = {}
  BY <1>0, <1>1 DEF Unposted, NoOrder
<1>3. PICK s, c : s = snapshot
                  /\ c = [by |-> "submit", op |-> "place", known |-> s, sent |-> FALSE, seen |-> NoOrder, reply |-> "none"]
  OBVIOUS
<1>4. Call("submit", "place") = c  BY <1>3, Zenon DEF Call
<1>5. s \in Snapshots /\ Backed(s) /\ NoOrder \in BrokerOrders /\ Was(NoOrder)
  BY <1>1, <1>2, <1>3 DEF SessionShape, Was, Final
<1>6. c \in Calls /\ c.op = "place" /\ c.by = "submit" /\ c.known = s /\ c.seen = NoOrder /\ ~c.sent /\ c.reply = "none"
  BY <1>3, <1>5 DEF Calls, Actors
<1>7. c \in SoundCalls  BY <1>1, <1>5, <1>6 DEF Grounded, SoundCalls
<1>8. SoundCalls' = SoundCalls  BY <1>0, SoundStays
<1>9. line' = <<c>>
  <2>1. line' = Append(<<>>, c)  BY <1>0, <1>2, <1>4, Zenon
  <2>. QED  BY <2>1
<1>10. PICK S, m : S = SoundCalls /\ m = line'  OBVIOUS
<1>11. m \in Seq(S) /\ Len(m) = 1 /\ \A i \in 1 .. Len(m) : m[i] = c
  BY <1>7, <1>9, <1>10
<1>12. stages' \in [Actors -> Waits] /\ stages'["submit"] = "posting"
       /\ stages'["cancel"] = stages["cancel"] /\ stages'["read"] = stages["read"]
  <2>1. stages \in [Actors -> Waits] /\ "posting" \in Waits /\ "submit" \in Actors
    BY <1>1 DEF SessionShape, Waits, Actors
  <2>. QED  BY <1>0, <2>1 DEF Actors
<1>13. snapshot' \in Snapshots /\ snapshot'.state = "SUBMITTING" /\ snapshot'.filled = 0
  BY <1>0 DEF Snapshots, SnapshotStates
<1>14. Backed(snapshot)' /\ Backed(answer)'
  <2>1. "SUBMITTING" \notin TerminalStates  BY DEF TerminalStates
  <2>. QED  BY <1>0, <1>1, <1>2, <1>13, <2>1 DEF Backed
<1>15. Unposted'
  <2>1. s.state \notin TerminalStates  BY <1>0, <1>3 DEF TerminalStates
  <2>2. \A i \in 1 .. Len(line') : line'[i] = c  BY <1>10, <1>11
  <2>3. Len(line') <= 1  BY <1>10, <1>11
  <2>. QED  BY <1>0, <1>1, <1>2, <1>6, <1>12, <1>13, <2>1, <2>2, <2>3 DEF Unposted
<1>. QED
  BY <1>0, <1>1, <1>2, <1>8, <1>10, <1>11, <1>12, <1>13, <1>14, <1>15 DEF SessionInv, SessionShape

(* The post returns. *)
LEMMA PostReturnKeepsSession == ASSUME SessionInv, PostReturns PROVE SessionInv'
<1>0. /\ line # <<>> /\ Head(line).sent /\ Head(line).by = "submit" /\ Head(line).op = "place"
      /\ UNCHANGED <<truth, posts, past>>
  BY DEF PostReturns, Returned, Reply
<1>1. PICK c : c = Head(line)  OBVIOUS
<1>2. c \in SoundCalls /\ Tail(line) \in Seq(SoundCalls)  BY <1>0, <1>1, HeadIsSound
<1>3. /\ posts = 0 <=> c.reply = "refused"
      /\ c.reply = "refusal" => truth.status = "none"
  BY <1>0, <1>1, <1>2, CallIsSound
<1>4. SessionShape /\ truth.filled \in Nat /\ snapshot \in Snapshots /\ snapshot.filled \in Nat
      /\ Backed(snapshot)
  BY DEF SessionInv, SessionShape, BrokerOrders, Snapshots
<1>5. "submit" \in Actors /\ "looking" \in Waits /\ "waiting" \in Waits /\ "verifying" \in Waits /\ "idle" \in Waits
  BY DEF Actors, Waits
<1>6. CASE c.reply = "refused" /\ Pops /\ snapshot' = NoSnapshot /\ To("submit", "idle") /\ UNCHANGED answer
  <2>1. posts = 0 /\ Unposted  BY <1>3, <1>6 DEF SessionInv
  <2>2. line' = <<>>  BY <1>0, <1>6, <2>1, OnlyThePost DEF Pops
  <2>3. stages' \in [Actors -> Waits] /\ stages'["submit"] = "idle"
        /\ stages'["cancel"] = stages["cancel"] /\ stages'["read"] = stages["read"]
    <3>1. stages \in [Actors -> Waits]  BY <1>4 DEF SessionShape
    <3>. QED  BY <1>5, <1>6, <3>1 DEF To, Actors
  <2>4. snapshot' \in Snapshots /\ snapshot'.state = "absent" /\ snapshot'.filled = 0
    BY <1>6 DEF NoSnapshot, Snapshots, SnapshotStates
  <2>5. Backed(snapshot)' /\ Backed(answer)'
    <3>1. "absent" \notin TerminalStates  BY DEF TerminalStates
    <3>. QED  BY <1>0, <1>4, <1>6, <2>4, <3>1 DEF Backed, SessionInv
  <2>6. line' \in Seq(SoundCalls') /\ Len(line') <= 1 /\ 1 .. Len(line') = {}
    BY <2>2
  <2>7. Unposted'  BY <1>0, <1>6, <2>1, <2>2, <2>3, <2>4, <2>6 DEF Unposted
  <2>. QED
    BY <1>0, <1>4, <1>6, <2>1, <2>3, <2>4, <2>5, <2>6, <2>7 DEF SessionInv, SessionShape, Was
<1>7. CASE c.reply = "refusal" /\ Pops /\ snapshot' = [snapshot EXCEPT !.state = "REJECTED"]
           /\ Answers("submit", [state |-> "REJECTED", filled |-> 0])
  <2>1. posts # 0 /\ truth.status = "none" /\ truth.filled = 0
    BY <1>3, <1>4, <1>7 DEF SessionShape
  <2>2. PICK s, d, r : s = snapshot /\ d = snapshot' /\ r = [state |-> "REJECTED", filled |-> 0]  OBVIOUS
  <2>3. "REJECTED" \in SnapshotStates  BY DEF SnapshotStates, TerminalStates
  <2>4. d \in Snapshots /\ d.state = "REJECTED" /\ d.filled = s.filled
    BY <1>4, <1>7, <2>2, <2>3, Zenon DEF Snapshots
  <2>5. Backed(d)  BY <1>4, <2>1, <2>2, <2>4 DEF Backed
  <2>6. r.state \in SnapshotStates /\ r.filled \in Nat /\ Backed(r)  BY <2>1, <2>2, <2>3 DEF Backed
  <2>7. Answers("submit", r)  BY <1>7, <2>2
  <2>8. snapshot' \in Snapshots /\ Backed(snapshot)'  BY <1>0, <2>2, <2>4, <2>5, KnownStays
  <2>. QED
    BY <1>0, <1>2, <1>5, <1>7, <2>1, <2>6, <2>7, <2>8, AnswerIsBacked, BackedStep DEF Pops
<1>8. ASSUME posts # 0, NEW st \in {"looking", "waiting", "verifying"}, To("submit", st), UNCHANGED answer,
             line' \in Seq(SoundCalls), snapshot' \in Snapshots, Backed(snapshot)'
      PROVE  SessionInv'
  <2>1. stages' \in [Actors -> Waits] /\ stages'["submit"] # "idle"  BY <1>5, <1>8, WaitMoves
  <2>. QED  BY <1>0, <1>8, <2>1, AnswerStays, BackedStep
<1>9. ASSUME NEW op \in {"lookup", "refresh"}, posts # 0, line' = Append(Tail(line), Call("submit", op))
      PROVE  line' \in Seq(SoundCalls)
  <2>1. Call("submit", op) \in SoundCalls  BY <1>5, <1>9, QueuedIsSound
  <2>. QED  BY <1>2, <1>9, <2>1, AppendProperties
<1>10. CASE c.reply \in {"error", "429"} /\ line' = Append(Tail(line), Call("submit", "lookup"))
            /\ To("submit", "looking") /\ UNCHANGED <<snapshot, answer>>
  BY <1>0, <1>3, <1>8, <1>9, <1>10, SnapshotStays
<1>11. CASE c.reply = "claim" /\ line' = Append(Tail(line), Call("submit", "refresh"))
            /\ To("submit", "verifying") /\ UNCHANGED <<snapshot, answer>>
  BY <1>0, <1>3, <1>8, <1>9, <1>11, SnapshotStays
<1>12. CASE c.reply = "ok" /\ Pops /\ snapshot' \in {Acknowledged, snapshot}
            /\ To("submit", "waiting") /\ UNCHANGED answer
  <2>1. Acknowledged \in Snapshots /\ Backed(Acknowledged)
    BY <1>4 DEF Acknowledged, Snapshots, SnapshotStates, Backed, TerminalStates
  <2>2. snapshot' \in Snapshots /\ Backed(snapshot)'  BY <1>0, <1>12, <2>1, KnownStays, SnapshotStays
  <2>. QED  BY <1>2, <1>3, <1>8, <1>12, <2>2 DEF Pops
<1>13. PICK s, d : s = snapshot /\ d = snapshot'  OBVIOUS
<1>14. \/ c.reply = "refused" /\ Pops /\ snapshot' = NoSnapshot /\ To("submit", "idle") /\ UNCHANGED answer
       \/ c.reply = "refusal" /\ Pops /\ snapshot' = [snapshot EXCEPT !.state = "REJECTED"]
          /\ Answers("submit", [state |-> "REJECTED", filled |-> 0])
       \/ c.reply \in {"error", "429"} /\ line' = Append(Tail(line), Call("submit", "lookup"))
          /\ To("submit", "looking") /\ UNCHANGED <<snapshot, answer>>
       \/ c.reply = "claim" /\ line' = Append(Tail(line), Call("submit", "refresh"))
          /\ To("submit", "verifying") /\ UNCHANGED <<snapshot, answer>>
       \/ c.reply = "ok" /\ Pops /\ snapshot' \in {Acknowledged, snapshot}
          /\ To("submit", "waiting") /\ UNCHANGED answer
  BY <1>1, Zenon DEF PostReturns, Reply
<1>. QED  BY <1>6, <1>7, <1>10, <1>11, <1>12, <1>14

(* The lookup of an order whose acknowledgement was lost adopts what the broker has. *)
LEMMA LookupKeepsSession == ASSUME SessionInv, LookupReturns PROVE SessionInv'
<1>0. /\ line # <<>> /\ Head(line).op = "lookup" /\ line' = Tail(line) /\ UNCHANGED <<truth, posts, past>>
  BY DEF LookupReturns, Returned, Reply, Pops
<1>1. posts # 0  BY <1>0, OnlyThePost
<1>2. PICK c : c = Head(line)  OBVIOUS
<1>3. /\ c \in SoundCalls /\ line' \in Seq(SoundCalls) /\ c.known \in Snapshots /\ Backed(c.known)
      /\ c.seen \in BrokerOrders /\ Was(c.seen) /\ SessionShape /\ snapshot \in Snapshots /\ Backed(snapshot)
  BY <1>0, <1>2, HeadIsSound, CallIsSound DEF SessionInv, SessionShape
<1>4. "submit" \in Actors /\ "waiting" \in Waits  BY DEF Actors, Waits
<1>5. PICK adopted : adopted = Projected(c.seen, c.reply = "proven", c.known)  OBVIOUS
<1>6. adopted \in Snapshots /\ Backed(adopted)
  <2>1. (c.reply = "proven") \in BOOLEAN  OBVIOUS
  <2>. QED  BY <1>3, <1>5, <2>1, ProjectionIsBacked
<1>7. CASE snapshot' = adopted /\ Answers("submit", adopted)
  <2>1. adopted.state \in SnapshotStates /\ adopted.filled \in Nat  BY <1>6 DEF Snapshots
  <2>. QED  BY <1>0, <1>1, <1>3, <1>4, <1>6, <1>7, <2>1, KnownStays, AnswerIsBacked, BackedStep
<1>8. CASE snapshot' = adopted /\ To("submit", "waiting") /\ UNCHANGED answer
  <2>1. stages' \in [Actors -> Waits] /\ stages'["submit"] # "idle"  BY <1>1, <1>4, <1>8, WaitMoves
  <2>. QED  BY <1>0, <1>1, <1>3, <1>6, <1>8, <2>1, KnownStays, AnswerStays, BackedStep
<1>9. CASE snapshot' = (IF adapter = "dhan" THEN [Acknowledged EXCEPT !.state = "RECONCILIATION_REQUIRED"]
                         ELSE Quarantined(c.known)) /\ Answers("submit", Ambiguous)
  <2>1. PICK k, d : k = Acknowledged /\ d = [k EXCEPT !.state = "RECONCILIATION_REQUIRED"]  OBVIOUS
  <2>2. truth.filled \in Nat  BY <1>3 DEF SessionShape, BrokerOrders
  <2>3. k \in Snapshots /\ Backed(k)
    BY <2>1, <2>2 DEF Acknowledged, Snapshots, SnapshotStates, Backed, TerminalStates
  <2>4. "RECONCILIATION_REQUIRED" \in SnapshotStates \ TerminalStates  BY DEF SnapshotStates, TerminalStates
  <2>5. d \in Snapshots /\ Backed(d)  BY <2>1, <2>3, <2>4, DoubtIsBacked
  <2>6. PICK q : q = Quarantined(c.known)  OBVIOUS
  <2>7. q \in Snapshots /\ Backed(q)  BY <2>6, QuarantineIsBacked
  <2>8. snapshot' = d \/ snapshot' = q  BY <1>9, <2>1, <2>6, Zenon
  <2>9. snapshot' \in Snapshots /\ Backed(snapshot)'  BY <1>0, <2>5, <2>7, <2>8, KnownStays
  <2>. QED
    BY <1>0, <1>1, <1>3, <1>4, <1>9, <2>9, AmbiguousIsBacked, AnswerIsBacked, BackedStep
<1>10. \/ snapshot' = adopted /\ Answers("submit", adopted)
       \/ snapshot' = adopted /\ To("submit", "waiting") /\ UNCHANGED answer
       \/ snapshot' = (IF adapter = "dhan" THEN [Acknowledged EXCEPT !.state = "RECONCILIATION_REQUIRED"]
                       ELSE Quarantined(c.known)) /\ Answers("submit", Ambiguous)
  BY <1>2, <1>5, Zenon DEF LookupReturns, Reply
<1>. QED  BY <1>7, <1>8, <1>9, <1>10

(* A protective cancel leaves the order as it was known, with its end in doubt. *)
LEMMA ProtectiveCancelKeeps ==
    ASSUME SessionInv, posts # 0, UNCHANGED <<truth, posts, past>>, NEW a \in Actors,
           NEW order \in Snapshots, Backed(order), NEW calls, calls \in Seq(SoundCalls),
           ProtectiveCancel(a, order, calls)
    PROVE  SessionInv'
<1>0. /\ "cancelling" \in Waits /\ "confirming" \in Waits
      /\ "CANCEL_REQUESTED" \in SnapshotStates \ TerminalStates
      /\ "RECONCILIATION_REQUIRED" \in SnapshotStates \ TerminalStates
  BY DEF Waits, SnapshotStates, TerminalStates
<1>1. PICK d, e : d = [order EXCEPT !.state = "CANCEL_REQUESTED"]
                  /\ e = [order EXCEPT !.state = "RECONCILIATION_REQUIRED"]
  OBVIOUS
<1>2. d \in Snapshots /\ Backed(d) /\ e \in Snapshots /\ Backed(e)  BY <1>0, <1>1, DoubtIsBacked
<1>3. CASE snapshot' = d /\ line' = Append(calls, [Call(a, "cancel") EXCEPT !.known = snapshot'])
           /\ To(a, "cancelling") /\ UNCHANGED answer
  <2>1. PICK c : c = [Call(a, "cancel") EXCEPT !.known = d]  OBVIOUS
  <2>2. c \in SoundCalls  BY <1>2, <2>1, QueuedIsSound, Zenon
  <2>3. line' = Append(calls, c)  BY <1>3, <2>1, Zenon
  <2>4. PICK S, m : S = SoundCalls /\ m = line'  OBVIOUS
  <2>5. m \in Seq(S)  BY <2>2, <2>3, <2>4, AppendProperties
  <2>6. stages' \in [Actors -> Waits] /\ stages'["submit"] # "idle"  BY <1>0, <1>3, WaitMoves
  <2>. QED  BY <1>2, <1>3, <2>4, <2>5, <2>6, KnownStays, AnswerStays, BackedStep
<1>4. CASE line' = calls /\ snapshot' = e /\ Answers(a, Ambiguous)
  BY <1>2, <1>4, KnownStays, AmbiguousIsBacked, AnswerIsBacked, BackedStep
<1>5. CASE line' = calls /\ snapshot' = d /\ To(a, "confirming") /\ UNCHANGED answer
  <2>6. stages' \in [Actors -> Waits] /\ stages'["submit"] # "idle"  BY <1>0, <1>5, WaitMoves
  <2>. QED  BY <1>2, <1>5, <2>6, KnownStays, AnswerStays, BackedStep
<1>6. \/ snapshot' = d /\ line' = Append(calls, [Call(a, "cancel") EXCEPT !.known = snapshot'])
         /\ To(a, "cancelling") /\ UNCHANGED answer
      \/ line' = calls /\ snapshot' = e /\ Answers(a, Ambiguous)
      \/ line' = calls /\ snapshot' = d /\ To(a, "confirming") /\ UNCHANGED answer
  BY <1>1, Zenon DEF ProtectiveCancel
<1>. QED  BY <1>3, <1>4, <1>5, <1>6

(* The end of a wait is answered as observed, anything else is asked of the broker. *)
LEMMA WaitKeepsSession == ASSUME SessionInv, NEW a \in Actors, WaitEnds(a) PROVE SessionInv'
<1>0. stages[a] \in {"waiting", "confirming"} /\ UNCHANGED <<truth, posts, past, snapshot>>
  BY DEF WaitEnds
<1>1. posts # 0  BY <1>0, OnlyThePost
<1>2. snapshot \in Snapshots /\ Backed(snapshot) /\ "polling" \in Waits /\ "checking" \in Waits
  BY DEF SessionInv, SessionShape, Waits
<1>3. CASE Answers(a, snapshot) /\ UNCHANGED line
  <2>1. PICK s : s = snapshot  OBVIOUS
  <2>2. s.state \in SnapshotStates /\ s.filled \in Nat /\ Backed(s) /\ Answers(a, s)
    BY <1>2, <1>3, <2>1 DEF Snapshots
  <2>. QED  BY <1>0, <1>1, <1>3, <2>2, AnswerIsBacked, SnapshotStays, LineStays, BackedStep
<1>4. ASSUME NEW w \in {"polling", "checking"}, To(a, w), Queue(a, "refresh"), UNCHANGED answer PROVE SessionInv'
  <2>1. stages' \in [Actors -> Waits] /\ stages'["submit"] # "idle"  BY <1>1, <1>2, <1>4, WaitMoves
  <2>2. Call(a, "refresh") \in SoundCalls  BY <1>1, QueuedIsSound
  <2>3. line' \in Seq(SoundCalls)  BY <1>4, <2>2, AppendProperties DEF Queue, SessionInv
  <2>. QED  BY <1>0, <1>1, <1>4, <2>1, <2>3, AnswerStays, SnapshotStays, BackedStep
<1>5. \/ Answers(a, snapshot) /\ UNCHANGED line
      \/ To(a, "polling") /\ Queue(a, "refresh") /\ UNCHANGED answer
      \/ To(a, "checking") /\ Queue(a, "refresh") /\ UNCHANGED answer
  BY Zenon DEF WaitEnds
<1>. QED  BY <1>3, <1>4, <1>5

(* getOrder queues a refresh and waits for its reply. *)
LEMMA ReadsKeepSession == ASSUME SessionInv, getOrder PROVE SessionInv'
<1>0. /\ stages["read"] = "idle" /\ snapshot.state \notin {"absent", "SUBMITTING"}
      /\ Queue("read", "refresh") /\ To("read", "polling") /\ UNCHANGED <<truth, posts, past, snapshot, answer>>
  BY DEF getOrder
<1>1. posts # 0  BY <1>0, OnlyThePost
<1>2. "read" \in Actors /\ "polling" \in Waits  BY DEF Actors, Waits
<1>3. stages' \in [Actors -> Waits] /\ stages'["submit"] # "idle"  BY <1>0, <1>1, <1>2, WaitMoves
<1>4. Call("read", "refresh") \in SoundCalls  BY <1>1, <1>2, QueuedIsSound
<1>5. line' \in Seq(SoundCalls)  BY <1>0, <1>4, AppendProperties DEF Queue, SessionInv
<1>. QED  BY <1>0, <1>1, <1>3, <1>5, AnswerStays, SnapshotStays, BackedStep

(* The caller's own cancel, of an order it was given. *)
LEMMA CallersCancelKeepsSession == ASSUME SessionInv, cancelOrder PROVE SessionInv'
<1>0. /\ snapshot.state \notin {"absent", "SUBMITTING"} /\ ProtectiveCancel("cancel", snapshot, line)
      /\ UNCHANGED <<truth, posts, past>>
  BY DEF cancelOrder
<1>1. posts # 0  BY <1>0, OnlyThePost
<1>2. PICK order, calls : order = snapshot /\ calls = line  OBVIOUS
<1>3. order \in Snapshots /\ Backed(order) /\ calls \in Seq(SoundCalls) /\ "cancel" \in Actors
  BY <1>2 DEF SessionInv, SessionShape, Actors
<1>4. ProtectiveCancel("cancel", order, calls)  BY <1>0, <1>2, Zenon
<1>. QED  BY <1>0, <1>1, <1>3, <1>4, ProtectiveCancelKeeps

(* A cancel returns: its caller goes on to confirm the end, or quarantines the order. *)
LEMMA CancelReturnKeepsSession == ASSUME SessionInv, NEW a \in Actors, CancelReturns(a) PROVE SessionInv'
<1>0. /\ line # <<>> /\ Head(line).op = "cancel" /\ line' = Tail(line) /\ UNCHANGED <<truth, posts, past>>
  BY DEF CancelReturns, Returned, Reply, Pops
<1>1. posts # 0  BY <1>0, OnlyThePost
<1>2. line' \in Seq(SoundCalls)  BY <1>0, HeadIsSound
<1>3. CASE snapshot' = Quarantined(Head(line).known) /\ Answers(a, Ambiguous)
  <2>1. PICK q : q = Quarantined(Head(line).known)  OBVIOUS
  <2>2. q \in Snapshots /\ Backed(q)  BY <2>1, QuarantineIsBacked
  <2>. QED  BY <1>0, <1>1, <1>2, <1>3, <2>1, <2>2, KnownStays, AmbiguousIsBacked, AnswerIsBacked, BackedStep
<1>4. CASE To(a, "confirming") /\ UNCHANGED <<snapshot, answer>>
  <2>1. "confirming" \in Waits  BY DEF Waits
  <2>2. stages' \in [Actors -> Waits] /\ stages'["submit"] # "idle"  BY <1>1, <1>4, <2>1, WaitMoves
  <2>. QED  BY <1>0, <1>1, <1>2, <1>4, <2>2, AnswerStays, SnapshotStays, BackedStep
<1>5. \/ snapshot' = Quarantined(Head(line).known) /\ Answers(a, Ambiguous)
      \/ To(a, "confirming") /\ UNCHANGED <<snapshot, answer>>
  BY Zenon DEF CancelReturns, Reply
<1>. QED  BY <1>3, <1>4, <1>5

(* The confirmation of a cancel ends without a terminal state. *)
LEMMA ConfirmationKeepsSession == ASSUME SessionInv, NEW a \in Actors, ConfirmationEnds(a) PROVE SessionInv'
<1>0. /\ stages[a] = "confirming" /\ UNCHANGED <<truth, posts, past, line>> /\ Answers(a, Ambiguous)
      /\ snapshot' = [snapshot EXCEPT !.state = "RECONCILIATION_REQUIRED"]
  BY DEF ConfirmationEnds
<1>1. posts # 0  BY <1>0, OnlyThePost
<1>2. PICK s, d : s = snapshot /\ d = [s EXCEPT !.state = "RECONCILIATION_REQUIRED"]  OBVIOUS
<1>3. s \in Snapshots /\ Backed(s) /\ "RECONCILIATION_REQUIRED" \in SnapshotStates \ TerminalStates
  BY <1>2 DEF SessionInv, SessionShape, SnapshotStates, TerminalStates
<1>4. d \in Snapshots /\ Backed(d)  BY <1>2, <1>3, DoubtIsBacked
<1>5. snapshot' = d  BY <1>0, <1>2, Zenon
<1>. QED
  BY <1>0, <1>1, <1>4, <1>5, KnownStays, AmbiguousIsBacked, AnswerIsBacked, LineStays, BackedStep

(* A reply is merged with the order known when it was asked, and only what it says counts. *)
LEMMA RefreshedIsBacked ==
    ASSUME SessionInv, line # <<>>
    PROVE  /\ Refreshed \in Snapshots /\ Backed(Refreshed)
           /\ Merged \in Snapshots /\ Backed(Merged)
<1>1. PICK c : c = Head(line)  OBVIOUS
<1>2. /\ c.known \in Snapshots /\ Backed(c.known) /\ c.seen \in BrokerOrders /\ Was(c.seen)
      /\ SessionShape /\ snapshot \in Snapshots /\ Backed(snapshot)
  BY <1>1, HeadIsSound, CallIsSound DEF SessionInv, SessionShape
<1>3. PICK k, d, p : k = c.known /\ d = [k EXCEPT !.state = "UNKNOWN"]
                     /\ p = Projected(c.seen, c.reply = "proven", c.known)
  OBVIOUS
<1>4. "UNKNOWN" \in SnapshotStates \ TerminalStates  BY DEF SnapshotStates, TerminalStates
<1>5. d \in Snapshots /\ Backed(d)  BY <1>2, <1>3, <1>4, DoubtIsBacked
<1>6. p \in Snapshots /\ Backed(p)
  <2>1. (c.reply = "proven") \in BOOLEAN  OBVIOUS
  <2>. QED  BY <1>2, <1>3, <2>1, ProjectionIsBacked
<1>7. Refreshed = k \/ Refreshed = d \/ Refreshed = p
  <2>1. CASE c.reply = "error"
    BY <1>1, <1>3, <2>1, Zenon DEF Refreshed, Reply
  <2>2. CASE c.reply # "error" /\ c.seen.status = "none"
    BY <1>1, <1>3, <2>2, Zenon DEF Refreshed, Reply
  <2>3. CASE c.reply # "error" /\ c.seen.status # "none"
    BY <1>1, <1>3, <2>3, Zenon DEF Refreshed, Reply
  <2>. QED  BY <2>1, <2>2, <2>3, Zenon
<1>8. Refreshed \in Snapshots /\ Backed(Refreshed)  BY <1>2, <1>3, <1>5, <1>6, <1>7
<1>9. Merged = snapshot \/ Merged = Refreshed  BY Zenon DEF Merged
<1>. QED  BY <1>2, <1>8, <1>9

(* The reply to a poll, to a verification or to a read of the caller. *)
LEMMA RefreshKeepsSession == ASSUME SessionInv, NEW a \in Actors, RefreshReturns(a) PROVE SessionInv'
<1>0. /\ line # <<>> /\ Head(line).op = "refresh" /\ UNCHANGED <<truth, posts, past>>
  BY DEF RefreshReturns, Returned, Reply
<1>1. posts # 0  BY <1>0, OnlyThePost
<1>2. PICK f, m, rest : f = Refreshed /\ m = Merged /\ rest = Tail(line)  OBVIOUS
<1>3. f \in Snapshots /\ Backed(f) /\ m \in Snapshots /\ Backed(m) /\ rest \in Seq(SoundCalls)
  BY <1>0, <1>2, RefreshedIsBacked, HeadIsSound
<1>4. CASE Pops /\ snapshot' = m /\ Answers(a, f)
  <2>1. f.state \in SnapshotStates /\ f.filled \in Nat  BY <1>3 DEF Snapshots
  <2>. QED  BY <1>0, <1>1, <1>2, <1>3, <1>4, <2>1, KnownStays, AnswerIsBacked, BackedStep DEF Pops
<1>5. ASSUME NEW q \in Snapshots, Backed(q), Pops, snapshot' = q, Answers(a, Ambiguous) PROVE SessionInv'
  BY <1>0, <1>1, <1>2, <1>3, <1>5, KnownStays, AmbiguousIsBacked, AnswerIsBacked, BackedStep DEF Pops
<1>6. ASSUME NEW w \in {"confirming", "waiting"}, Pops, snapshot' = m, To(a, w), UNCHANGED answer PROVE SessionInv'
  <2>1. w \in Waits /\ w # "idle"  BY DEF Waits
  <2>2. stages' \in [Actors -> Waits] /\ stages'["submit"] # "idle"  BY <1>1, <1>6, <2>1, WaitMoves
  <2>. QED  BY <1>0, <1>1, <1>2, <1>3, <1>6, <2>2, KnownStays, AnswerStays, BackedStep DEF Pops
<1>7. CASE Pops /\ snapshot' = Quarantined(Head(line).known) /\ Answers(a, Ambiguous)
  <2>1. PICK q : q = Quarantined(Head(line).known)  OBVIOUS
  <2>. QED  BY <1>5, <1>7, <2>1, QuarantineIsBacked
<1>8. CASE Pops /\ snapshot' = [Merged EXCEPT !.state = "RECONCILIATION_REQUIRED"] /\ Answers(a, Ambiguous)
  <2>1. PICK q : q = [m EXCEPT !.state = "RECONCILIATION_REQUIRED"]  OBVIOUS
  <2>2. "RECONCILIATION_REQUIRED" \in SnapshotStates \ TerminalStates  BY DEF SnapshotStates, TerminalStates
  <2>3. q \in Snapshots /\ Backed(q)  BY <1>3, <2>1, <2>2, DoubtIsBacked
  <2>4. snapshot' = q  BY <1>2, <1>8, <2>1, Zenon
  <2>. QED  BY <1>5, <1>8, <2>3, <2>4
<1>9. CASE ProtectiveCancel(a, Merged, Tail(line))
  <2>1. ProtectiveCancel(a, m, rest)  BY <1>2, <1>9, Zenon
  <2>. QED  BY <1>0, <1>1, <1>3, <2>1, ProtectiveCancelKeeps
<1>10. \/ Pops /\ snapshot' = m /\ Answers(a, f)
       \/ Pops /\ snapshot' = m /\ To(a, "confirming") /\ UNCHANGED answer
       \/ Pops /\ snapshot' = m /\ To(a, "waiting") /\ UNCHANGED answer
       \/ Pops /\ snapshot' = Quarantined(Head(line).known) /\ Answers(a, Ambiguous)
       \/ Pops /\ snapshot' = [Merged EXCEPT !.state = "RECONCILIATION_REQUIRED"] /\ Answers(a, Ambiguous)
       \/ ProtectiveCancel(a, Merged, Tail(line))
  BY <1>2, Zenon DEF RefreshReturns, Reply
<1>. QED  BY <1>4, <1>6, <1>7, <1>8, <1>9, <1>10

(* The caller of a cancel stops waiting: the call stays in the line, or is taken out of it. *)
LEMMA TimeoutKeepsSession == ASSUME SessionInv, NEW a \in Actors, CancelTimesOut(a) PROVE SessionInv'
<1>0. /\ stages[a] = "cancelling" /\ UNCHANGED <<truth, posts, past>>
  BY DEF CancelTimesOut
<1>1. posts # 0  BY <1>0, OnlyThePost
<1>2. PICK l, S : l = line /\ S = SoundCalls  OBVIOUS
<1>3. l \in Seq(S) /\ Len(l) \in Nat  BY <1>2, LenProperties DEF SessionInv
<1>4. PICK i \in DOMAIN line :
         /\ line[i].op = "cancel"
         /\ \/ /\ line' = [line EXCEPT ![i].by = "nobody"]
               /\ snapshot' = Quarantined(line[i].known) /\ Answers(a, Ambiguous)
            \/ /\ line' = SubSeq(line, 1, i - 1) \o SubSeq(line, i + 1, Len(line))
               /\ To(a, "confirming") /\ UNCHANGED <<snapshot, answer>>
  BY Zenon DEF CancelTimesOut
<1>5. i \in 1 .. Len(l)
  <2>1. DOMAIN l = 1 .. Len(l)  BY <1>3, LenProperties
  <2>. QED  BY <1>2, <1>4, <2>1
<1>6. PICK c : c = l[i]  OBVIOUS
<1>7. c \in SoundCalls /\ c \in Calls /\ c.op = "cancel" /\ c.seen \in BrokerOrders /\ Was(c.seen)
  BY <1>2, <1>3, <1>4, <1>5, <1>6, ElementOfSeq, CallIsSound
<1>8. CASE /\ line' = [line EXCEPT ![i].by = "nobody"]
           /\ snapshot' = Quarantined(line[i].known) /\ Answers(a, Ambiguous)
  <2>1. PICK d : d = [c EXCEPT !.by = "nobody"]  OBVIOUS
  <2>2. d \in Calls /\ d.op = c.op /\ d.known = c.known /\ d.seen = c.seen
    BY <1>7, <2>1, Zenon DEF Calls
  <2>3. d \in SoundCalls'  BY <1>0, <1>1, <1>7, <2>2, AnsweredStaysSound
  <2>4. d \in S  BY <1>0, <1>2, <2>3, SoundStays
  <2>5. line' = [l EXCEPT ![i] = d]  BY <1>2, <1>6, <1>8, <2>1, Zenon
  <2>6. [l EXCEPT ![i] = d] \in Seq(S)  BY <1>3, <1>5, <2>4, ExceptSeq
  <2>7. PICK q : q = Quarantined(line[i].known)  OBVIOUS
  <2>8. q \in Snapshots /\ Backed(q)  BY <2>7, QuarantineIsBacked
  <2>9. snapshot' = q  BY <1>8, <2>7, Zenon
  <2>10. line' \in Seq(SoundCalls)  BY <1>2, <2>5, <2>6, Zenon
  <2>11. snapshot' \in Snapshots /\ Backed(snapshot)'  BY <1>0, <2>8, <2>9, KnownStays
  <2>12. Answers(a, Ambiguous)  BY <1>8
  <2>. QED
    BY <1>0, <1>1, <2>10, <2>11, <2>12, AmbiguousIsBacked, AnswerIsBacked, BackedStep
<1>9. CASE /\ line' = SubSeq(line, 1, i - 1) \o SubSeq(line, i + 1, Len(line))
           /\ To(a, "confirming") /\ UNCHANGED <<snapshot, answer>>
  <2>1. SubSeq(l, 1, i - 1) \in Seq(S) /\ SubSeq(l, i + 1, Len(l)) \in Seq(S)
    BY <1>3, <1>5, SubSeqProperties
  <2>2. SubSeq(l, 1, i - 1) \o SubSeq(l, i + 1, Len(l)) \in Seq(S)  BY <2>1, ConcatProperties
  <2>3. line' \in Seq(SoundCalls)  BY <1>2, <1>9, <2>2, Zenon
  <2>4. "confirming" \in Waits  BY DEF Waits
  <2>5. stages' \in [Actors -> Waits] /\ stages'["submit"] # "idle"  BY <1>1, <1>9, <2>4, WaitMoves
  <2>. QED  BY <1>0, <1>1, <1>9, <2>3, <2>5, AnswerStays, SnapshotStays, BackedStep
<1>. QED  BY <1>4, <1>8, <1>9

(* An order that submitOrder reports as ended has ended at the broker, with the fills that it *)
(* reports, whatever the stream delivered late, twice or without a quantity                   *)
(* (waitForResolution, applyOrderUpdate).                                                     *)
THEOREM AnswersAreExact == SessionSpec => []AnswerIsExact
<1>1. ASSUME SessionInit PROVE SessionInv
  <2>1. SessionShape
    <3>1. truth \in BrokerOrders /\ truth.filled = 0  BY <1>1 DEF SessionInit, NoOrder, BrokerOrders
    <3>2. snapshot \in Snapshots  BY <1>1 DEF SessionInit, NoSnapshot, Snapshots, SnapshotStates
    <3>3. answer \in Answered  BY <1>1 DEF SessionInit, NoAnswer, Answered
    <3>4. stages \in [Actors -> Waits]  BY <1>1 DEF SessionInit, Waits
    <3>. QED  BY <1>1, <3>1, <3>2, <3>3, <3>4 DEF SessionInit, SessionShape
  <2>2. line \in Seq(SoundCalls) /\ Len(line) = 0 /\ 1 .. Len(line) = {}
    BY <1>1, EmptySeq DEF SessionInit
  <2>3. Backed(snapshot) /\ Backed(answer)
    BY <1>1 DEF SessionInit, Backed, NoSnapshot, NoAnswer, NoOrder, TerminalStates
  <2>4. Unposted  BY <1>1, <2>2 DEF SessionInit, Unposted, NoSnapshot, Actors
  <2>. QED  BY <1>1, <2>1, <2>2, <2>3, <2>4 DEF SessionInv, SessionInit
<1>2. ASSUME SessionInv, [SessionNext]_sessionVars PROVE SessionInv'
  <2>1. CASE Transport
    BY <1>2, <2>1, PostKeepsSession, CancelKeepsSession, ReadKeepsSession, UnclaimedKeepsSession DEF Transport
  <2>2. CASE SubmitStep
    BY <1>2, <2>2, PostReturnKeepsSession, LookupKeepsSession, WaitKeepsSession, RefreshKeepsSession,
       CancelReturnKeepsSession, ConfirmationKeepsSession DEF SubmitStep
  <2>3. CASE BrokerFills \/ BrokerEnds
    BY <1>2, <2>3, BrokerKeepsSession
  <2>4. CASE applyOrderUpdate
    BY <1>2, <2>4, StreamKeepsSession
  <2>5. CASE WindowPasses \/ CooldownEnds \/ OtherOrders
    BY <1>2, <2>5, BudgetKeepsSession
  <2>6. CASE submitOrder
    BY <1>2, <2>6, SubmitKeepsSession
  <2>7. CASE cancelOrder
    BY <1>2, <2>7, CallersCancelKeepsSession
  <2>8. CASE getOrder
    BY <1>2, <2>8, ReadsKeepSession
  <2>9. ASSUME NEW a \in Actors, CancelTimesOut(a) PROVE SessionInv'
    BY <1>2, <2>9, TimeoutKeepsSession
  <2>10. CASE UNCHANGED sessionVars
    <3>1. UNCHANGED <<truth, posts, snapshot, stages, answer, line, past>>  BY <2>10 DEF sessionVars
    <3>2. SoundCalls' = SoundCalls  BY <3>1, SoundStays
    <3>. QED  BY <1>2, <3>1, <3>2 DEF SessionInv, SessionShape, Backed, Was, Unposted
  <2>. QED
    BY <1>2, <2>1, <2>2, <2>3, <2>4, <2>5, <2>6, <2>7, <2>8, <2>9, <2>10 DEF SessionNext
<1>3. SessionInv => AnswerIsExact
  BY DEF SessionInv, SessionShape, Backed, AnswerIsExact
<1>. QED  BY <1>1, <1>2, <1>3, PTL DEF SessionSpec
=============================================================================
