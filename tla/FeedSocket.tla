----------------------------- MODULE FeedSocket -----------------------------
(***************************************************************************)
(* One market-data socket of one lane: ZerodhaFeed over connectTicker      *)
(* (brokers/zerodha/feed.ts, ticker.ts) or DhanFeed (brokers/dhan/feed.ts).*)
(* The registry hands it token differences only; it keeps what is wanted,  *)
(* subscribes it on the wire and reconnects.                               *)
(***************************************************************************)
EXTENDS Naturals, FiniteSets

CONSTANTS
  FeedKinds,        \* which feeds: "kite", "dhan"
  FeedTokens,       \* tokens the lane may be asked for
  MaxSocketFaults   \* bound: closes, errors and lost sessions

ASSUME FeedAssumption == FeedKinds \subseteq {"kite", "dhan"} /\ MaxSocketFaults \in Nat

VARIABLES
  feedKind,
  socket,        \* "none", "connecting" or "open"
  wantedTokens, subscribedTokens, \* what the feed was asked for, and thinks it has
  pendingTokens, \* Kite: sent when the socket opens
  wire,          \* tokens subscribed at the broker on this socket
  reconnectTimer,
  feedDead,      \* the feed told its owner that its session is dead
  feedSession,   \* is there a usable access token
  lateClose,     \* the close event of a socket given up is still to come
  socketFaults

feedVars == <<feedKind, socket, wantedTokens, subscribedTokens, pendingTokens, wire,
              reconnectTimer, feedDead, feedSession, lateClose, socketFaults>>

FeedInit ==
  /\ feedKind \in FeedKinds
  /\ socket = "none" /\ wantedTokens = {} /\ subscribedTokens = {} /\ pendingTokens = {}
  /\ wire = {} /\ reconnectTimer = FALSE /\ feedDead = FALSE /\ feedSession = TRUE
  /\ lateClose = FALSE /\ socketFaults = 0

\* A socket is made unless there is one, or no token to log in with.
ensureSocket(want) ==
  IF socket = "none" /\ feedSession
  THEN /\ socket' = "connecting"
       /\ pendingTokens' = IF feedKind = "kite" THEN want ELSE {}
       /\ feedDead' = FALSE
  ELSE UNCHANGED <<socket, pendingTokens, feedDead>>

\* subscribeTokens.  Dhan returns early when nothing is fresh; Kite makes a socket anyway.
\* On an open socket the fresh tokens go out now, on a connecting one with the rest.
subscribeTokens(tokens) ==
  LET fresh == tokens \ wantedTokens
      want == wantedTokens \cup tokens
  IN /\ wantedTokens' = want
     /\ IF socket = "none" /\ (feedKind = "kite" \/ fresh # {})
        THEN ensureSocket(want) /\ UNCHANGED <<subscribedTokens, wire>>
        ELSE /\ pendingTokens' = IF socket = "connecting" /\ feedKind = "kite"
                                 THEN pendingTokens \cup fresh ELSE pendingTokens
             /\ subscribedTokens' = IF feedKind = "kite" /\ socket # "none"
                                    THEN subscribedTokens \cup fresh ELSE subscribedTokens
             /\ wire' = IF socket = "open" THEN wire \cup fresh ELSE wire
             /\ UNCHANGED <<socket, feedDead>>

LaneSubscribes ==
  /\ \E tokens \in (SUBSET FeedTokens) \ {{}} :
       tokens \cap wantedTokens = {} /\ subscribeTokens(tokens)
  /\ UNCHANGED <<feedKind, reconnectTimer, feedSession, lateClose, socketFaults>>

unsubscribeTokens(t) ==
  /\ t \in wantedTokens
  /\ wantedTokens' = wantedTokens \ {t} /\ subscribedTokens' = subscribedTokens \ {t}
  /\ pendingTokens' = pendingTokens \ {t} /\ wire' = wire \ {t}
  /\ UNCHANGED <<feedKind, socket, reconnectTimer, feedDead, feedSession, lateClose,
                 socketFaults>>

\* A bug: a reconnected socket keeps what it thinks it had and sends nothing.
OpensSilently ==
  /\ socket = "connecting"
  /\ socket' = "open" /\ pendingTokens' = {}
  /\ UNCHANGED <<feedKind, wantedTokens, subscribedTokens, wire, reconnectTimer, feedDead,
                 feedSession, lateClose, socketFaults>>

\* onopen: the wanted set goes out on the new socket.
SocketOpens ==
  /\ socket = "connecting"
  /\ socket' = "open"
  /\ wire' = IF feedKind = "kite" THEN pendingTokens ELSE wantedTokens
  /\ subscribedTokens' = IF feedKind = "kite" THEN wantedTokens ELSE {}
  /\ pendingTokens' = {}
  /\ UNCHANGED <<feedKind, wantedTokens, reconnectTimer, feedDead, feedSession, lateClose,
                 socketFaults>>

\* Dhan counts a token as subscribed when its first packet arrives.
handleFrame(t) ==
  /\ feedKind = "dhan" /\ socket = "open" /\ t \in wire \ subscribedTokens
  /\ subscribedTokens' = subscribedTokens \cup {t}
  /\ UNCHANGED <<feedKind, socket, wantedTokens, pendingTokens, wire, reconnectTimer,
                 feedDead, feedSession, lateClose, socketFaults>>

\* Kite holds no socket open for nothing.
scheduleReconnect ==
  reconnectTimer' = (feedKind = "dhan" \/ wantedTokens # {} \/ reconnectTimer)

\* onclose of the feed's own socket.  Dhan's authentication codes are terminal; Kite's close
\* says nothing of the reason.
SocketCloses(auth) ==
  /\ socket # "none" /\ socketFaults < MaxSocketFaults
  /\ auth => feedKind = "dhan"
  /\ socketFaults' = socketFaults + 1
  /\ socket' = "none" /\ subscribedTokens' = {} /\ pendingTokens' = {} /\ wire' = {}
  /\ IF auth THEN feedDead' = TRUE /\ UNCHANGED reconnectTimer
     ELSE scheduleReconnect /\ UNCHANGED feedDead
  /\ feedSession' = (feedSession /\ ~auth)
  /\ UNCHANGED <<feedKind, wantedTokens, lateClose>>

\* onerror.  Kite: the socket is torn down and the owner told; the close that follows
\* belongs to a socket given up.  Dhan waits for the close.
SocketErrors ==
  /\ socket # "none" /\ feedKind = "kite" /\ socketFaults < MaxSocketFaults
  /\ socketFaults' = socketFaults + 1
  /\ socket' = "none" /\ subscribedTokens' = {} /\ pendingTokens' = {} /\ wire' = {}
  /\ reconnectTimer' = FALSE
  /\ feedDead' = TRUE /\ lateClose' = TRUE
  /\ UNCHANGED <<feedKind, wantedTokens, feedSession>>

\* The close of a socket given up: not the feed's socket any more, so nothing changes.
LateClose ==
  /\ lateClose /\ lateClose' = FALSE
  /\ UNCHANGED <<feedKind, socket, wantedTokens, subscribedTokens, pendingTokens, wire,
                 reconnectTimer, feedDead, feedSession, socketFaults>>

ReconnectTimerFires ==
  /\ reconnectTimer /\ reconnectTimer' = FALSE
  /\ ensureSocket(wantedTokens)
  /\ UNCHANGED <<feedKind, wantedTokens, subscribedTokens, wire, feedSession, lateClose,
                 socketFaults>>

\* stop(): a broker switch, or a refused token.  Kite's object is discarded and made anew.
FeedStops ==
  /\ socket' = "none" /\ wantedTokens' = {} /\ subscribedTokens' = {} /\ pendingTokens' = {}
  /\ wire' = {} /\ reconnectTimer' = FALSE /\ feedDead' = FALSE
  /\ lateClose' = (socket # "none")
  /\ UNCHANGED <<feedKind, feedSession, socketFaults>>

\* The token expires: nothing tells the socket.
SessionExpires ==
  /\ feedSession /\ socketFaults < MaxSocketFaults
  /\ feedSession' = FALSE /\ socketFaults' = socketFaults + 1
  /\ UNCHANGED <<feedKind, socket, wantedTokens, subscribedTokens, pendingTokens, wire,
                 reconnectTimer, feedDead, lateClose>>

\* A new token; after a login the registry asks for the lane's whole set again.
completeLogin ==
  /\ ~feedSession
  /\ feedSession' = TRUE
  /\ IF feedKind = "dhan" /\ wantedTokens # {} THEN subscribeTokens(wantedTokens)
     ELSE UNCHANGED <<socket, wantedTokens, subscribedTokens, pendingTokens, wire, feedDead>>
  /\ UNCHANGED <<feedKind, reconnectTimer, lateClose, socketFaults>>

FeedNext ==
  \/ LaneSubscribes \/ (\E t \in FeedTokens : unsubscribeTokens(t) \/ handleFrame(t))
  \/ SocketOpens \/ (\E auth \in BOOLEAN : SocketCloses(auth)) \/ SocketErrors \/ LateClose
  \/ ReconnectTimerFires \/ FeedStops \/ SessionExpires \/ completeLogin

\* Timers fire and a socket that is made opens or fails.
FeedSpec == FeedInit /\ [][FeedNext]_feedVars /\ WF_feedVars(SocketOpens)
            /\ WF_feedVars(ReconnectTimerFires)

-----------------------------------------------------------------------------
(* Properties *)

Streaming == wantedTokens \subseteq wire

\* While the access token stays good, a lane with wanted tokens streams all of them again
\* and again: whatever closes, reconnects and late events of an old socket come in between,
\* it stops only by telling its owner that it is dead.
StreamsUntilDead == []feedSession => []<>(Streaming \/ feedDead)

\* While the access token stays good, a lane comes back from every network fault.
LaneRecovers == []feedSession => []<>Streaming
=============================================================================
