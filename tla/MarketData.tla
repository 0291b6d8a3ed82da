----------------------------- MODULE MarketData -----------------------------
(***************************************************************************)
(* The engine's market data (box/engine.ts, box/streamHealthPolicy.ts,     *)
(* box/quotes.ts, box/candidateMarketData.ts): START and STOP, the refresh *)
(* of the universe, the subscriptions of the dedicated box lane, the books *)
(* and the health machine that license an entry.                           *)
(*                                                                         *)
(* An underlying stands for the option tokens of its window.  Two sockets  *)
(* report to the engine: the box lane, which carries the options, and the  *)
(* futures hub.  Both drive the same feed generation and health machine.   *)
(***************************************************************************)
EXTENDS Naturals, FiniteSets

CONSTANTS
  Underlyings,     \* underlyings of the board
  Refreshes,       \* refreshes of the universe that may overlap
  MaxStreamed,     \* the subscription budget, in underlyings
  MaxConnections   \* bound: connections of the box lane

ASSUME MarketDataAssumption ==
  IsFiniteSet(Underlyings) /\ MaxStreamed \in Nat /\ MaxConnections \in Nat

VARIABLES
  running, marketOpen, authenticated,
  listening, hubUp,     \* the futures hub: the engine's listener, and its socket
  lane,                 \* the box lane's feed: does it exist, is it up, what it wants
  counted,              \* tokens the box lane's refcount table holds
  subscribedOptions,    \* the engine's own record of what it subscribed
  windows,              \* underlyings with a strike window
  entering, opened,     \* executions in flight, open positions
  books,                \* current feed generation: warm tokens, books, health
  machine,              \* MarketDataStateMachine
  refreshing,           \* each refresh in flight, with the positions it saw
  connection            \* history: number of connections of the box lane

marketVars == <<running, marketOpen, authenticated, listening, hubUp, lane, counted,
                subscribedOptions, windows, entering, opened, books, machine, refreshing,
                connection>>

NoLane == [exists |-> FALSE, up |-> FALSE, wanted |-> {}]
NoRefresh == [stage |-> "none", mustKeep |-> {}]
NoBooks == [warm |-> {}, quotes |-> [u \in Underlyings |-> 0], healthy |-> FALSE, raw |-> FALSE]

MarketInit ==
  /\ running = FALSE /\ marketOpen = TRUE /\ authenticated = TRUE
  /\ listening = FALSE /\ hubUp = FALSE
  /\ lane = NoLane /\ counted = {} /\ subscribedOptions = {} /\ windows = {}
  /\ entering = {} /\ opened = {}
  /\ books = NoBooks
  /\ machine = [state |-> "DISCONNECTED", desired |-> {}, depth |-> {}, frame |-> FALSE,
                backlog |-> FALSE]
  /\ refreshing = [r \in Refreshes |-> NoRefresh]
  /\ connection = 0

-----------------------------------------------------------------------------
(* The health machine.  depth holds the tokens with usable depth that is   *)
(* fresh and of the machine's current generation.                          *)

MarketDataStates ==
  {"DISABLED", "CONNECTING", "AUTHENTICATING", "SYNCHRONIZING", "READY", "DEGRADED",
   "DISCONNECTED", "AUTH_EXPIRED"}

marketDataPermissions(state) ==
  [newEntry |-> state = "READY",
   manageWorkingOrders |-> state \notin {"DISABLED", "AUTH_EXPIRED"},
   protectiveCancel |-> state \notin {"DISABLED", "AUTH_EXPIRED"},
   exitAndReduce |-> state \in {"READY", "DEGRADED"}]

anyDesiredFresh(m) == m.desired \cap m.depth # {}

reevaluate(m) ==
  IF m.state \notin {"SYNCHRONIZING", "READY", "DEGRADED"} THEN m
  ELSE [m EXCEPT !.state =
          IF m.frame /\ ~m.backlog /\ anyDesiredFresh(m) THEN "READY"
          ELSE IF m.state = "SYNCHRONIZING" THEN "SYNCHRONIZING" ELSE "DEGRADED"]

setDesiredInstruments(m, tokens) == reevaluate([m EXCEPT !.desired = tokens])

onFrame(m) == reevaluate([m EXCEPT !.frame = TRUE])

onUsableDepth(m, u) ==
  IF m.state \in {"DISABLED", "AUTH_EXPIRED"} THEN m
  ELSE reevaluate([m EXCEPT !.depth = @ \cup {u}, !.frame = TRUE])

onProcessingBacklog(m, active) == reevaluate([m EXCEPT !.backlog = active])

\* onConnecting, onSocketOpen and onAuthenticated in one call of the engine: a new
\* generation, in which no token has depth yet.  An expired session is left as well.
onAuthenticated(m) ==
  IF m.state = "DISABLED" THEN m
  ELSE [m EXCEPT !.state = "SYNCHRONIZING", !.depth = {}, !.backlog = FALSE]

onDisconnected(m) ==
  IF m.state \in {"DISABLED", "AUTH_EXPIRED"} THEN m ELSE [m EXCEPT !.state = "DISCONNECTED"]

onSessionLost(m) ==
  IF m.state = "DISABLED" THEN m ELSE [m EXCEPT !.state = "AUTH_EXPIRED"]

driveMarketDataConnection(m, connected) ==
  IF connected THEN setDesiredInstruments(onAuthenticated(m), subscribedOptions)
  ELSE onDisconnected(m)

\* A new feed generation: no token is warm, every book is dropped.
invalidateFeedGeneration == books' = NoBooks

\* evaluateCandidateMarketData: the four legs of a candidate are one underlying's tokens.
EligibleEvidence(u) ==
  /\ marketDataPermissions(machine.state).newEntry
  /\ u \in machine.desired /\ u \in books.warm /\ u \in machine.depth
  /\ books.quotes[u] # 0

-----------------------------------------------------------------------------
(* Subscriptions *)

\* setBoxTokens: the refcount table keeps what it had; only the difference goes upstream.
applySubscriptions(want) ==
  /\ counted' = want
  /\ lane' = IF want \ counted = {} /\ ~lane.exists THEN lane
             ELSE [lane EXCEPT !.exists = TRUE,
                               !.wanted = (@ \ (counted \ want)) \cup (want \ counted)]
  /\ subscribedOptions' = want

\* Books of dropped tokens are forgotten.
forget(want) ==
  books' = [books EXCEPT !.quotes = [u \in Underlyings |->
              IF u \in subscribedOptions \ want THEN 0 ELSE @[u]]]

\* The listener on the hub is told the hub's state at once.
ensureFeed ==
  /\ listening' = TRUE
  /\ IF listening THEN UNCHANGED <<books, machine>>
     ELSE invalidateFeedGeneration /\ machine' = driveMarketDataConnection(machine, hubUp)

maybeReleaseFeed(held) == listening' = (listening /\ held # {})

-----------------------------------------------------------------------------
(* START, STOP and the universe *)

start ==
  /\ ~running /\ authenticated
  /\ running' = TRUE
  /\ ensureFeed
  /\ UNCHANGED <<marketOpen, authenticated, hubUp, lane, counted, subscribedOptions, windows,
                 entering, opened, refreshing, connection>>

\* STOP: windows and tokens shrink to the open positions.
stop ==
  /\ running
  /\ running' = FALSE
  /\ windows' = windows \cap opened
  /\ applySubscriptions(opened)
  /\ forget(opened)
  /\ maybeReleaseFeed(opened)
  /\ UNCHANGED <<marketOpen, authenticated, hubUp, entering, opened, machine, refreshing,
                 connection>>

\* A refresh (START, the timer, the closed market's view) reads the instruments ...
refreshUniverse(r) ==
  /\ refreshing[r].stage = "none" /\ authenticated
  /\ running \/ ~marketOpen
  /\ refreshing' = [refreshing EXCEPT ![r].stage = "reading"]
  /\ UNCHANGED <<running, marketOpen, authenticated, listening, hubUp, lane, counted,
                 subscribedOptions, windows, entering, opened, books, machine, connection>>

\* ... notes the underlyings with positions and seeds the spots ...
seedSpots(r) ==
  /\ refreshing[r].stage = "reading"
  /\ refreshing' = [refreshing EXCEPT ![r] = [stage |-> "seeding", mustKeep |-> opened]]
  /\ UNCHANGED <<running, marketOpen, authenticated, listening, hubUp, lane, counted,
                 subscribedOptions, windows, entering, opened, books, machine, connection>>

\* Windows of the board within the budget, the underlyings to keep first and always.
StreamedWindows(mustKeep, chosen) ==
  IF running THEN mustKeep \cup chosen ELSE mustKeep

\* ... and builds the windows and the subscription set in one turn.  The legs of the
\* positions open now are always wanted.
UniverseBuilt(r, chosen) ==
  LET keep == refreshing[r].mustKeep
      looked == IF running \/ ~marketOpen THEN chosen ELSE {}
      want == StreamedWindows(keep, chosen) \cup opened
  IN /\ refreshing[r].stage = "seeding"
     /\ chosen \subseteq Underlyings \ keep
     /\ running => Cardinality(keep) + Cardinality(chosen) <= MaxStreamed \/ chosen = {}
     /\ refreshing' = [refreshing EXCEPT ![r] = NoRefresh]
     /\ windows' = keep \cup looked
     /\ applySubscriptions(want)
     /\ forget(want)
     /\ UNCHANGED <<running, marketOpen, authenticated, listening, hubUp, entering, opened,
                    machine, connection>>

-----------------------------------------------------------------------------
(* Entries and positions *)

EntryAdmitted(u) ==
  /\ running /\ marketOpen /\ books.healthy /\ u \in windows
  /\ u \notin entering \cup opened /\ EligibleEvidence(u)
  /\ entering' = entering \cup {u}
  /\ UNCHANGED <<running, marketOpen, authenticated, listening, hubUp, lane, counted,
                 subscribedOptions, windows, opened, books, machine, refreshing, connection>>

\* The fill is recorded and the position added; nothing is subscribed here.
openPaperTrade(u) ==
  /\ u \in entering
  /\ entering' = entering \ {u}
  /\ opened' \in {opened, opened \cup {u}}
  /\ UNCHANGED <<running, marketOpen, authenticated, listening, hubUp, lane, counted,
                 subscribedOptions, windows, books, machine, refreshing, connection>>

closePaperTrade(u) ==
  /\ u \in opened
  /\ opened' = opened \ {u}
  /\ IF running THEN UNCHANGED listening ELSE maybeReleaseFeed(opened \ {u})
  /\ UNCHANGED <<running, marketOpen, authenticated, hubUp, lane, counted, subscribedOptions,
                 windows, entering, books, machine, refreshing, connection>>

-----------------------------------------------------------------------------
(* Sockets and ticks *)

\* A bug: only a new connection is noticed, a lost one is not.
ReconnectionsOnly(connected) ==
  IF connected
  THEN invalidateFeedGeneration /\ machine' = driveMarketDataConnection(machine, TRUE)
  ELSE UNCHANGED <<books, machine>>

onBoxLaneConnection(connected) ==
  /\ invalidateFeedGeneration
  /\ machine' = driveMarketDataConnection(machine, connected)

LaneConnects ==
  /\ lane.exists /\ ~lane.up /\ authenticated /\ connection < MaxConnections
  /\ lane' = [lane EXCEPT !.up = TRUE]
  /\ connection' = connection + 1
  /\ onBoxLaneConnection(TRUE)
  /\ UNCHANGED <<running, marketOpen, authenticated, listening, hubUp, counted,
                 subscribedOptions, windows, entering, opened, refreshing>>

LaneDrops ==
  /\ lane.up
  /\ lane' = [lane EXCEPT !.up = FALSE]
  /\ onBoxLaneConnection(FALSE)
  /\ UNCHANGED <<running, marketOpen, authenticated, listening, hubUp, counted,
                 subscribedOptions, windows, entering, opened, refreshing, connection>>

HubConnection ==
  /\ hubUp' = ~hubUp
  /\ IF listening
     THEN invalidateFeedGeneration /\ machine' = driveMarketDataConnection(machine, ~hubUp)
     ELSE UNCHANGED <<books, machine>>
  /\ UNCHANGED <<running, marketOpen, authenticated, listening, lane, counted,
                 subscribedOptions, windows, entering, opened, refreshing, connection>>

\* A tick of the box lane: a usable book, or an empty one that deletes it.
onTicks(u, usable) ==
  /\ lane.up /\ u \in lane.wanted
  /\ books' = [warm |-> IF usable THEN books.warm \cup {u} ELSE books.warm \ {u},
               quotes |-> [books.quotes EXCEPT ![u] = IF usable THEN connection ELSE 0],
               healthy |-> books.healthy \/ marketOpen, raw |-> TRUE]
  /\ machine' = IF usable THEN onUsableDepth(onFrame(machine), u) ELSE onFrame(machine)
  /\ UNCHANGED <<running, marketOpen, authenticated, listening, hubUp, lane, counted,
                 subscribedOptions, windows, entering, opened, refreshing, connection>>

\* The hub's ticks hold no option depth, yet are raw ticks and frames like any other.
HubTicks ==
  /\ listening /\ hubUp
  /\ books' = [books EXCEPT !.raw = TRUE, !.healthy = @ \/ marketOpen]
  /\ machine' = onFrame(machine)
  /\ UNCHANGED <<running, marketOpen, authenticated, listening, hubUp, lane, counted,
                 subscribedOptions, windows, entering, opened, refreshing, connection>>

\* Time passes: depth of a token, or every frame, grows older than its bound.
TicksAge ==
  /\ \/ \E u \in machine.depth :
          machine' = [machine EXCEPT !.depth = @ \ {u}] /\ UNCHANGED books
     \/ /\ machine.frame \/ books.raw
        /\ machine' = [machine EXCEPT !.frame = FALSE]
        /\ books' = [books EXCEPT !.raw = FALSE]
  /\ UNCHANGED <<running, marketOpen, authenticated, listening, hubUp, lane, counted,
                 subscribedOptions, windows, entering, opened, refreshing, connection>>

\* The market watch: feed health, the machine's wants, a stalled loop, and the exchange
\* opening or closing.
startMarketWatch(open, stalled) ==
  LET healthy == marketOpen /\ books.raw
      lapsed == books.healthy /\ ~healthy
      reopened == open /\ ~marketOpen /\ ~running
  IN /\ marketOpen' = open
     /\ machine' = onProcessingBacklog(
                     setDesiredInstruments(machine, subscribedOptions), stalled)
     /\ IF reopened THEN /\ windows' = windows \cap opened
                         /\ applySubscriptions(opened)
                         /\ maybeReleaseFeed(opened)
        ELSE UNCHANGED <<windows, counted, lane, subscribedOptions, listening>>
     /\ IF lapsed THEN invalidateFeedGeneration
        ELSE books' = [books EXCEPT !.healthy = healthy,
                         !.quotes = [u \in Underlyings |->
                           IF reopened /\ u \in subscribedOptions \ opened THEN 0 ELSE @[u]]]
     /\ UNCHANGED <<running, authenticated, hubUp, entering, opened, refreshing, connection>>

\* The box lane's token is rejected.
onMarketDataSessionLost ==
  /\ lane.exists
  /\ machine' = onSessionLost(machine)
  /\ lane' = [lane EXCEPT !.up = FALSE]
  /\ IF lane.up THEN invalidateFeedGeneration ELSE UNCHANGED books
  /\ UNCHANGED <<running, marketOpen, authenticated, listening, hubUp, counted,
                 subscribedOptions, windows, entering, opened, refreshing, connection>>

\* The broker refuses the token: sockets closed, books dropped, scanner stopped.
onBrokerAuthFailure ==
  /\ authenticated
  /\ authenticated' = FALSE /\ running' = FALSE
  /\ hubUp' = FALSE
  /\ machine' = IF lane.up \/ (listening /\ hubUp) THEN onDisconnected(machine) ELSE machine
  /\ invalidateFeedGeneration
  /\ lane' = IF running /\ opened \ counted # {}
             THEN [exists |-> TRUE, up |-> FALSE, wanted |-> opened \ counted] ELSE NoLane
  /\ IF running THEN /\ windows' = windows \cap opened
                     /\ counted' = opened /\ subscribedOptions' = opened
                     /\ maybeReleaseFeed(opened)
     ELSE UNCHANGED <<windows, counted, listening>> /\ subscribedOptions' = {}
  /\ UNCHANGED <<marketOpen, entering, opened, refreshing, connection>>

\* The next token: instruments and the futures feed.  The box lane is not subscribed again.
onActiveBrokerReady ==
  /\ ~authenticated
  /\ authenticated' = TRUE
  /\ invalidateFeedGeneration
  /\ subscribedOptions' = {}
  /\ UNCHANGED <<running, marketOpen, listening, hubUp, lane, counted, windows, entering,
                 opened, machine, refreshing, connection>>

MarketNext ==
  \/ start \/ stop
  \/ \E r \in Refreshes : refreshUniverse(r) \/ seedSpots(r)
  \/ \E r \in Refreshes, chosen \in SUBSET Underlyings : UniverseBuilt(r, chosen)
  \/ \E u \in Underlyings : EntryAdmitted(u) \/ openPaperTrade(u) \/ closePaperTrade(u)
  \/ LaneConnects \/ LaneDrops \/ HubConnection \/ HubTicks \/ TicksAge
  \/ \E u \in Underlyings, usable \in BOOLEAN : onTicks(u, usable)
  \/ \E open, stalled \in BOOLEAN : startMarketWatch(open, stalled)
  \/ onMarketDataSessionLost \/ onBrokerAuthFailure \/ onActiveBrokerReady

MarketSpec == MarketInit /\ [][MarketNext]_marketVars

-----------------------------------------------------------------------------
(* Properties *)

\* Evidence that licenses an entry is the live connection's: whatever the hub, the clock,
\* a refresh or an expired token did in between, an eligible candidate is priced by books
\* received on the connection of the box lane that is up now.
EvidenceIsCurrent ==
  \A u \in Underlyings :
    EligibleEvidence(u) => lane.up /\ books.quotes[u] = connection

\* An open position is streamed: the legs of a position are among the tokens its lane
\* wants, so that the monitor sees their books.
OpenPositionIsStreamed == authenticated => opened \subseteq lane.wanted
=============================================================================
