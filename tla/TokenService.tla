---------------------------- MODULE TokenService ----------------------------
(***************************************************************************)
(* The daily acquisition of the brokers' access tokens.  Every broker has  *)
(* one runtime record, one timer and at most one chain of asynchronous     *)
(* steps: read the stored session, ask the provider, save, install, start  *)
(* the feed.  The stored session survives a crash, the token in the        *)
(* broker's client does not.                                               *)
(*                                                                         *)
(* A token is its login day and its expiry day (Unknown when the provider  *)
(* gives none).  Delays are left out: a timer is armed or not, the wake-up *)
(* timer fires once the day's polling time has come.                       *)
(***************************************************************************)
EXTENDS Naturals

CONSTANTS TokenBrokers,     \* "zerodha" and "dhan"
          ActiveBroker,     \* the broker whose runtime may be started
          LastTokenDay,     \* bound: the days the clock goes through
          MaxTokenFaults,   \* bound: failed reads, saves and requests, rejections
          MaxRestarts       \* bound: the times the process is started

ASSUME TokenAssumption == /\ ActiveBroker \in TokenBrokers
                          /\ LastTokenDay \in Nat \ {0}
                          /\ MaxTokenFaults \in Nat /\ MaxRestarts \in Nat

VARIABLES clock,       \* the IST day, and whether its polling time has come
          provider,    \* the upstream session the token provider can hand out
          stored,      \* broker_sessions
          client,      \* the token in the broker's client
          runtime,     \* BrokerRuntime
          chain,       \* the asynchronous steps under way
          service,     \* "down", "up" or "stopped"
          laneUp,      \* the active broker's feed was started
          tokenFaults, restarts

tokenVars == <<clock, provider, stored, client, runtime, chain, service, laneUp, tokenFaults, restarts>>

Unknown == 0
NoToken == [login |-> 0, until |-> Unknown]
TokenDays == 1..LastTokenDay
AnyToken == [login : TokenDays, until : TokenDays \cup {Unknown}]
istDayKey == clock.day
isAtOrAfterIstTime == clock.open

TokenStates == {"waiting", "polling", "ready", "invalid", "configuration_error"}
Timers == {"none", "wake", "retry"}
ChainSteps == {"none", "checking", "fetching", "saving", "installing", "starting"}
NoChain == [at |-> "none", day |-> 0, token |-> NoToken]
freshRuntime == [state |-> "waiting", readyForDay |-> 0, timer |-> "none"]

TokenTypeOK ==
    /\ clock \in [day : TokenDays, open : BOOLEAN]
    /\ provider \in [TokenBrokers -> AnyToken \cup {NoToken}]
    /\ stored \in [TokenBrokers -> AnyToken \cup {NoToken}]
    /\ client \in [TokenBrokers -> AnyToken \cup {NoToken}]
    /\ runtime \in [TokenBrokers -> [state : TokenStates, readyForDay : 0..LastTokenDay, timer : Timers]]
    /\ chain \in [TokenBrokers -> [at : ChainSteps, day : 0..LastTokenDay, token : AnyToken \cup {NoToken}]]
    /\ service \in {"down", "up", "stopped"} /\ laneUp \in BOOLEAN
    /\ tokenFaults \in 0..MaxTokenFaults /\ restarts \in 0..MaxRestarts

TokenInit ==
    /\ clock = [day |-> 1, open |-> FALSE]
    /\ provider = [b \in TokenBrokers |-> NoToken]
    /\ stored = [b \in TokenBrokers |-> NoToken]
    /\ client = [b \in TokenBrokers |-> NoToken]
    /\ runtime = [b \in TokenBrokers |-> freshRuntime]
    /\ chain = [b \in TokenBrokers |-> NoChain]
    /\ service = "down" /\ laneUp = FALSE
    /\ tokenFaults = 0 /\ restarts = 0

Running == service # "down"
TokenFault == tokenFaults < MaxTokenFaults /\ tokenFaults' = tokenFaults + 1
TokenSound == UNCHANGED tokenFaults
World == <<clock, provider, restarts>>

(***************************************************************************)
(* The stored session.  Only an active row is read, a row that cannot be   *)
(* read or opened throws, and a Dhan session that has expired is cleared   *)
(* rather than adopted.                                                    *)
(***************************************************************************)
isDhanTokenExpired(t) == t.until # Unknown /\ t.until < istDayKey

hasValidToken(b) ==
    /\ stored[b] # NoToken
    /\ IF b = "zerodha" THEN stored[b].login = istDayKey ELSE ~isDhanTokenExpired(stored[b])

adoptStoredDhanSession ==
    IF stored["dhan"] = NoToken THEN UNCHANGED <<stored, client>>
    ELSE IF isDhanTokenExpired(stored["dhan"])
         THEN stored' = [stored EXCEPT !["dhan"] = NoToken] /\ UNCHANGED client
         ELSE client' = [client EXCEPT !["dhan"] = stored["dhan"]] /\ UNCHANGED stored

(***************************************************************************)
(* Starting the process: restore adopts Dhan's stored session (no other    *)
(* one), then the service schedules every broker.                          *)
(***************************************************************************)
Boot ==
    /\ service = "down" /\ restarts < MaxRestarts
    /\ restarts' = restarts + 1 /\ service' = "up"
    /\ runtime' = [b \in TokenBrokers |-> freshRuntime]
    /\ chain' = [b \in TokenBrokers |-> [NoChain EXCEPT !.at = "checking"]]
    /\ IF "dhan" \in TokenBrokers THEN adoptStoredDhanSession ELSE UNCHANGED <<stored, client>>
    /\ TokenSound /\ UNCHANGED <<clock, provider, laneUp>>

\* arm: a stopped service arms nothing.
arm(timer) == IF service = "stopped" THEN "none" ELSE timer

Ends(b, state, timer) ==
    /\ runtime' = [runtime EXCEPT ![b].state = state, ![b].timer = arm(timer)]
    /\ chain' = [chain EXCEPT ![b] = NoChain]

(***************************************************************************)
(* attemptInner, up to the provider's answer.                              *)
(***************************************************************************)
attempt(b, armed) ==
    LET kept == IF runtime[b].readyForDay = istDayKey THEN istDayKey ELSE 0
    IN  IF kept = istDayKey
        THEN /\ runtime' = [runtime EXCEPT ![b] = [armed EXCEPT !.state = "ready"]]
             /\ chain' = [chain EXCEPT ![b] = NoChain]
        ELSE /\ runtime' = [runtime EXCEPT ![b] = [armed EXCEPT !.readyForDay = 0]]
             /\ chain' = [chain EXCEPT ![b] = [NoChain EXCEPT !.at = "fetching", !.day = istDayKey]]

scheduleBroker(b) ==
    /\ Running /\ chain[b].at = "checking"
    /\ \/ TokenFault /\ Ends(b, "polling", "retry")
       \/ /\ TokenSound /\ hasValidToken(b)
          /\ runtime' = [runtime EXCEPT ![b].state = "ready", ![b].readyForDay = istDayKey]
          /\ chain' = [chain EXCEPT ![b] = NoChain]
       \/ /\ TokenSound /\ ~hasValidToken(b) /\ isAtOrAfterIstTime
          /\ IF service = "stopped"
             THEN Ends(b, "polling", "none")
             ELSE attempt(b, [runtime[b] EXCEPT !.state = "polling"])
       \/ TokenSound /\ ~hasValidToken(b) /\ ~isAtOrAfterIstTime /\ Ends(b, "waiting", "wake")
    /\ UNCHANGED <<World, stored, client, service, laneUp>>

TimerFires(b) ==
    /\ service = "up" /\ runtime[b].timer # "none" /\ chain[b].at = "none"
    /\ runtime[b].timer = "wake" => isAtOrAfterIstTime
    /\ attempt(b, [runtime[b] EXCEPT !.timer = "none",
                                     !.state = IF runtime[b].timer = "wake" THEN "polling" ELSE @])
    /\ TokenSound /\ UNCHANGED <<World, stored, client, service, laneUp>>

(***************************************************************************)
(* fetchBrokerToken and its disposition.  validate is made against the day *)
(* of the request; handleResult stamps the day of the answer.              *)
(***************************************************************************)
validate(b) ==
    LET t == provider[b]
    IN  IF t = NoToken THEN "retry"
        ELSE IF b = "zerodha" /\ t.login # chain[b].day THEN "retry"
        ELSE IF b # "zerodha" /\ isDhanTokenExpired(t) THEN "security_error"
        ELSE "ready"

onBrokerAuthFailure(b) == laneUp' = (laneUp /\ b # ActiveBroker)

handleResult(b) ==
    /\ Running /\ chain[b].at = "fetching"
    /\ \/ /\ TokenSound /\ validate(b) = "ready"
          /\ chain' = [chain EXCEPT ![b] = [at |-> "saving", day |-> istDayKey, token |-> provider[b]]]
          /\ UNCHANGED <<runtime, laneUp>>
       \/ TokenSound /\ validate(b) = "retry" /\ Ends(b, "polling", "retry") /\ UNCHANGED laneUp
       \/ TokenSound /\ validate(b) = "security_error" /\ Ends(b, "invalid", "none") /\ UNCHANGED laneUp
       \* timeout, network error, 5xx, 503
       \/ TokenFault /\ Ends(b, "polling", "retry") /\ UNCHANGED laneUp
       \* 401, 403
       \/ TokenFault /\ Ends(b, "configuration_error", "none") /\ onBrokerAuthFailure(b)
    /\ UNCHANGED <<World, stored, client, service>>

(***************************************************************************)
(* installAndPersist.  Any failure is taken as transient.                  *)
(***************************************************************************)
Succeeds(b) ==
    /\ runtime' = [runtime EXCEPT ![b] = [state |-> "ready", readyForDay |-> chain[b].day, timer |-> "none"]]
    /\ chain' = [chain EXCEPT ![b] = NoChain]

\* Mutated form: a failed save or installation is reported and not retried.
InstallFailureForgotten(b) == Ends(b, "polling", "none")

installFailed(b) == Ends(b, "polling", "retry")

persistSession(b) ==
    /\ Running /\ chain[b].at = "saving"
    /\ \/ /\ TokenSound /\ stored' = [stored EXCEPT ![b] = chain[b].token]
          /\ chain' = [chain EXCEPT ![b].at = "installing"] /\ UNCHANGED runtime
       \/ TokenFault /\ installFailed(b) /\ UNCHANGED stored
    /\ UNCHANGED <<World, client, service, laneUp>>

\* The Kite client is handed the token; the Dhan manager reads the store again.
installToken(b) ==
    /\ Running /\ chain[b].at = "installing"
    /\ \/ /\ TokenSound
          /\ IF b = "zerodha"
             THEN client' = [client EXCEPT ![b] = chain[b].token] /\ UNCHANGED stored
             ELSE adoptStoredDhanSession
          /\ IF b = ActiveBroker
             THEN chain' = [chain EXCEPT ![b].at = "starting"] /\ UNCHANGED runtime
             ELSE Succeeds(b)
       \/ b # "zerodha" /\ TokenFault /\ installFailed(b) /\ UNCHANGED <<stored, client>>
    /\ UNCHANGED <<World, service, laneUp>>

\* startActiveRuntime: without a session the runtime stays idle.
onActiveBrokerReady(b) ==
    /\ Running /\ chain[b].at = "starting"
    /\ laneUp' = (laneUp \/ client[b] # NoToken)
    /\ Succeeds(b)
    /\ TokenSound /\ UNCHANGED <<World, stored, client, service>>

(***************************************************************************)
(* The surroundings.  The broker rejects a token through its feed: both    *)
(* copies are dropped, the acquisition service is not told.                *)
(***************************************************************************)
SessionRejected(b) ==
    /\ Running /\ client[b] # NoToken /\ laneUp /\ b = ActiveBroker /\ TokenFault
    /\ client' = [client EXCEPT ![b] = NoToken]
    /\ stored' = [stored EXCEPT ![b] = NoToken]
    /\ laneUp' = FALSE
    /\ UNCHANGED <<World, runtime, chain, service>>

ProviderLogsIn(b) ==
    /\ provider[b].login # istDayKey
    /\ \E until \in (IF b = "zerodha" THEN {Unknown} ELSE {Unknown, istDayKey}) :
          provider' = [provider EXCEPT ![b] = [login |-> istDayKey, until |-> until]]
    /\ TokenSound /\ UNCHANGED <<clock, stored, client, runtime, chain, service, laneUp, restarts>>

PollStart ==
    /\ ~clock.open /\ clock' = [clock EXCEPT !.open = TRUE]
    /\ TokenSound /\ UNCHANGED <<provider, stored, client, runtime, chain, service, laneUp, restarts>>

Midnight ==
    /\ clock.open /\ clock.day < LastTokenDay
    /\ clock' = [day |-> clock.day + 1, open |-> FALSE]
    /\ TokenSound /\ UNCHANGED <<provider, stored, client, runtime, chain, service, laneUp, restarts>>

StopService ==
    /\ service = "up" /\ service' = "stopped" /\ laneUp' = FALSE
    /\ runtime' = [b \in TokenBrokers |-> [runtime[b] EXCEPT !.timer = "none"]]
    /\ TokenSound /\ UNCHANGED <<World, stored, client, chain>>

ProcessEnds ==
    /\ Running /\ service' = "down" /\ laneUp' = FALSE
    /\ client' = [b \in TokenBrokers |-> NoToken]
    /\ runtime' = [b \in TokenBrokers |-> freshRuntime]
    /\ chain' = [b \in TokenBrokers |-> NoChain]
    /\ TokenSound /\ UNCHANGED <<World, stored>>

AcquisitionStep(b) ==
    \/ scheduleBroker(b) \/ TimerFires(b) \/ handleResult(b)
    \/ persistSession(b) \/ installToken(b) \/ onActiveBrokerReady(b)

TokenNext ==
    \/ Boot \/ PollStart \/ Midnight \/ StopService \/ ProcessEnds
    \/ \E b \in TokenBrokers : AcquisitionStep(b) \/ SessionRejected(b) \/ ProviderLogsIn(b)

\* Timers fire and promises settle: every request has a deadline.
TokenFairness == \A b \in TokenBrokers : WF_tokenVars(AcquisitionStep(b))

TokenSpec == TokenInit /\ [][TokenNext]_tokenVars /\ TokenFairness

-----------------------------------------------------------------------------
(***************************************************************************)
(* A broker that is being polled for is not left without a reschedule: on  *)
(* a day whose polling time has come and on which the provider has a       *)
(* session, it ends with the day's token or in one of the two states that  *)
(* wait for an operator, whatever reads, requests and saves failed before  *)
(* (attempt, handleResult, armRetry).                                      *)
(***************************************************************************)
OfferedIsAcquired ==
    \A b \in TokenBrokers :
        (/\ service = "up" /\ runtime[b].state \in {"waiting", "polling"}
         /\ clock = [day |-> LastTokenDay, open |-> TRUE] /\ provider[b].login = LastTokenDay)
        ~> (service # "up" \/ runtime[b].state \notin {"waiting", "polling"})

(***************************************************************************)
(* A broker reported ready has a token in its client, which is what the    *)
(* entry blocker active_broker_token_not_ready stands on.                  *)
(***************************************************************************)
ReadyHasSession ==
    \A b \in TokenBrokers :
        service = "up" /\ runtime[b].state = "ready" => client[b] # NoToken

=============================================================================
