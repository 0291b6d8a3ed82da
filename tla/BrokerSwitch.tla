---------------------------- MODULE BrokerSwitch ----------------------------
(***************************************************************************)
(* The active broker (brokers/registry.ts): the guarded switch, the feeds, *)
(* the subscriptions (brokers/subscriptions.ts), the Dhan session and the  *)
(* durable selection (brokerState/brokerSessions.ts).                      *)
(*                                                                         *)
(* A switch runs its checks, then tears down, clears reservations, saves   *)
(* the selection and adopts it, with an await between any two of these.    *)
(* One entry stands for the engine's execution: its orders belong to the   *)
(* broker that was active when it began.                                   *)
(***************************************************************************)
EXTENDS Naturals, FiniteSets

CONSTANTS
  SwitchRequests,      \* switch requests that may be in progress together
  StartsDuringSwitch,  \* may the operator press START while a switch runs
  MaxGeneration,       \* bound: selections
  MaxSaveFaults,       \* bound: failed saves of the selection
  MaxSwitchCrashes     \* bound: restarts

ASSUME SwitchAssumption ==
  StartsDuringSwitch \in BOOLEAN /\ MaxGeneration \in Nat /\ MaxSaveFaults \in Nat

BrokerIds == {"zerodha", "dhan"}
NoBroker == "none"

VARIABLES
  active, generation,     \* the process's selection
  selected,               \* the row active_broker, and its generation sequence
  switch,                 \* each switch request: its stage and target
  scanning,               \* the engine's running flag
  feeds,                  \* brokers with a socket of this process
  tokens,                 \* the broker whose tokens the strategy's lane has subscribed
  refresh,                \* a refresh in flight: the broker whose instruments it read
  books,                  \* the broker whose depth the quote store holds
  entry,                  \* the execution in flight or the open position
  intents,                \* brokers with unresolved durable order intents
  dhanSession, dhanStored, \* the Dhan token in memory, and its stored copy
  saveFaults, switchCrashes

switchVars == <<active, generation, selected, switch, scanning, feeds, tokens, refresh, books, entry,
                intents, dhanSession, dhanStored, saveFaults, switchCrashes>>

NotSwitching == [stage |-> "none", target |-> NoBroker, saved |-> 0]
NoEntry == [stage |-> "none", broker |-> NoBroker]

SwitchInit ==
  /\ active = "zerodha" /\ generation = 1
  /\ selected = [broker |-> "zerodha", generation |-> 1]
  /\ switch = [s \in SwitchRequests |-> NotSwitching]
  /\ scanning = FALSE /\ feeds = {}
  /\ tokens = NoBroker /\ refresh = NoBroker
  /\ books = NoBroker /\ entry = NoEntry /\ intents = {}
  /\ dhanSession = TRUE /\ dhanStored = TRUE
  /\ saveFaults = 0 /\ switchCrashes = 0

Switching == \E s \in SwitchRequests : switch[s].stage # "none"

sessionFor(broker) == broker = "zerodha" \/ dhanSession

-----------------------------------------------------------------------------
(* Subscriptions: one socket per broker, opened by the first token wanted *)

subscribeUpstream(broker) == feeds' = feeds \cup {broker}

\* The strategy's whole token set is declared again: counted, and sent to the feed of the
\* broker that is active now.  An empty set opens nothing.
setOwnerTokens(t) ==
  /\ tokens' = t
  /\ IF t = NoBroker THEN UNCHANGED feeds ELSE subscribeUpstream(active)

\* Depth arrives on any socket that is open.
FeedTicks(b) ==
  /\ b \in feeds /\ books # b
  /\ books' = b
  /\ UNCHANGED <<active, generation, selected, switch, scanning, feeds, tokens, refresh, entry, intents,
                 dhanSession, dhanStored, saveFaults, switchCrashes>>

-----------------------------------------------------------------------------
(* The engine, as the switch sees it *)

\* START.  The tokens follow with the refresh of the universe.
EngineStarts ==
  /\ ~scanning /\ sessionFor(active)
  /\ StartsDuringSwitch \/ ~Switching
  /\ scanning' = TRUE
  /\ UNCHANGED <<active, generation, selected, switch, feeds, tokens, refresh, books, entry,
                 intents, dhanSession, dhanStored, saveFaults, switchCrashes>>

\* A refresh (START, a timer, the closed-market view) reads the active broker's instruments.
refreshUniverse ==
  /\ refresh = NoBroker /\ sessionFor(active)
  /\ refresh' = active
  /\ UNCHANGED <<active, generation, selected, switch, scanning, feeds, tokens, books, entry,
                 intents, dhanSession, dhanStored, saveFaults, switchCrashes>>

\* After its awaits it declares the tokens: none unless the scanner runs or a box is open.
applySubscriptions ==
  /\ refresh # NoBroker
  /\ refresh' = NoBroker
  /\ setOwnerTokens(IF scanning \/ entry.stage = "open" THEN refresh ELSE NoBroker)
  /\ UNCHANGED <<active, generation, selected, switch, scanning, books, entry, intents,
                 dhanSession, dhanStored, saveFaults, switchCrashes>>

\* STOP keeps the tokens of open positions only.
EngineStops ==
  /\ scanning
  /\ scanning' = FALSE
  /\ tokens' = IF entry.stage = "open" THEN tokens ELSE NoBroker
  /\ UNCHANGED <<active, generation, selected, switch, feeds, refresh, books, entry, intents,
                 dhanSession, dhanStored, saveFaults, switchCrashes>>

EntryStarts ==
  /\ scanning /\ entry = NoEntry /\ books # NoBroker /\ sessionFor(active)
  /\ entry' = [stage |-> "executing", broker |-> active]
  /\ intents' = intents \cup {active}
  /\ UNCHANGED <<active, generation, selected, switch, scanning, feeds, tokens, refresh, books,
                 dhanSession, dhanStored, saveFaults, switchCrashes>>

\* It aborts with nothing left, or a position opens; its intents are terminal.
EntryEnds ==
  /\ entry.stage = "executing"
  /\ entry' \in {NoEntry, [entry EXCEPT !.stage = "open"]}
  /\ intents' = intents \ {entry.broker}
  /\ UNCHANGED <<active, generation, selected, switch, scanning, feeds, tokens, refresh, books,
                 dhanSession, dhanStored, saveFaults, switchCrashes>>

PositionLeaves ==
  /\ entry.stage = "open"
  /\ entry' = NoEntry
  /\ UNCHANGED <<active, generation, selected, switch, scanning, feeds, tokens, refresh, books, intents,
                 dhanSession, dhanStored, saveFaults, switchCrashes>>

\* Intents left by a restart are reconciled through their own broker only.
IntentsReconciled ==
  /\ entry = NoEntry /\ active \in intents /\ sessionFor(active)
  /\ intents' = intents \ {active}
  /\ UNCHANGED <<active, generation, selected, switch, scanning, feeds, tokens, refresh, books, entry,
                 dhanSession, dhanStored, saveFaults, switchCrashes>>

-----------------------------------------------------------------------------
(* The switch *)

\* A bug: an entry that has no position yet does not block.
BlockedByPositionsOnly == scanning \/ entry.stage = "open"

\* The checks made before the first await.
switchBlockers == scanning \/ entry # NoEntry

SwitchBegins(s, target) ==
  /\ switch[s].stage = "none" /\ target # active /\ generation < MaxGeneration
  /\ ~switchBlockers
  /\ switch' = [switch EXCEPT ![s] = [stage |-> "checking", target |-> target, saved |-> 0]]
  /\ UNCHANGED <<active, generation, selected, scanning, feeds, tokens, refresh, books, entry, intents,
                 dhanSession, dhanStored, saveFaults, switchCrashes>>

\* The count of the leaving broker's unresolved intents arrives: refused.
SwitchRefused(s) ==
  /\ switch[s].stage = "checking" /\ active \in intents
  /\ switch' = [switch EXCEPT ![s] = NotSwitching]
  /\ UNCHANGED <<active, generation, selected, scanning, feeds, tokens, refresh, books, entry, intents,
                 dhanSession, dhanStored, saveFaults, switchCrashes>>

stopAllLanes == feeds' = {}

resetForBrokerSwitch == tokens' = NoBroker

\* ... or none are left: scanner, feeds, subscriptions and books go before the broker does.
SwitchTearsDown(s) ==
  /\ switch[s].stage = "checking" /\ active \notin intents
  /\ scanning' = FALSE
  /\ stopAllLanes
  /\ resetForBrokerSwitch
  /\ books' = NoBroker
  /\ switch' = [switch EXCEPT ![s].stage = "clearing"]
  /\ UNCHANGED <<active, generation, selected, refresh, entry, intents, dhanSession,
                 dhanStored, saveFaults, switchCrashes>>

\* Reservations are cleared, or lapse; the selection is saved with a new generation.
saveActiveBroker(s) ==
  /\ switch[s].stage = "clearing"
  /\ \/ /\ selected' = [broker |-> switch[s].target, generation |-> selected.generation + 1]
        /\ switch' = [switch EXCEPT ![s].stage = "saved", ![s].saved = selected.generation + 1]
        /\ UNCHANGED saveFaults
     \/ /\ saveFaults < MaxSaveFaults
        /\ saveFaults' = saveFaults + 1
        /\ switch' = [switch EXCEPT ![s].stage = "saved", ![s].saved = 0]
        /\ UNCHANGED selected
  /\ UNCHANGED <<active, generation, scanning, feeds, tokens, refresh, books, entry, intents,
                 dhanSession, dhanStored, switchCrashes>>

\* Broker and generation move together; an unsaved generation moves all the same.
SwitchAdopts(s) ==
  /\ switch[s].stage = "saved"
  /\ active' = switch[s].target
  /\ generation' = IF switch[s].saved > generation + 1 THEN switch[s].saved ELSE generation + 1
  /\ switch' = [switch EXCEPT ![s].stage = "loading"]
  /\ UNCHANGED <<selected, scanning, feeds, tokens, refresh, books, entry, intents,
                 dhanSession, dhanStored, saveFaults, switchCrashes>>

startActiveFeed == feeds' = IF active = "dhan" THEN feeds \cup {"dhan"} ELSE feeds

\* The universe is loaded, or not; the feed of the broker active now is started.
SwitchCompletes(s) ==
  /\ switch[s].stage = "loading"
  /\ startActiveFeed
  /\ switch' = [switch EXCEPT ![s] = NotSwitching]
  /\ UNCHANGED <<active, generation, selected, scanning, tokens, refresh, books, entry, intents,
                 dhanSession, dhanStored, saveFaults, switchCrashes>>

-----------------------------------------------------------------------------
(* The Dhan session and the restart *)

\* Login: the feed is recycled onto the new token, and started if Dhan is active.
completeDhanLogin ==
  /\ ~dhanSession
  /\ dhanSession' = TRUE /\ dhanStored' = TRUE
  /\ feeds' = (feeds \ {"dhan"}) \cup (IF active = "dhan" THEN {"dhan"} ELSE {})
  /\ UNCHANGED <<active, generation, selected, switch, scanning, tokens, refresh, books, entry, intents,
                 saveFaults, switchCrashes>>

\* Logout, or the feed reports the session lost.
onDhanSessionLost ==
  /\ dhanSession
  /\ dhanSession' = FALSE /\ dhanStored' = FALSE
  /\ feeds' = feeds \ {"dhan"}
  /\ books' = IF active = "dhan" THEN NoBroker ELSE books
  /\ UNCHANGED <<active, generation, selected, switch, scanning, tokens, refresh, entry, intents,
                 saveFaults, switchCrashes>>

\* A restart: the saved selection and the stored session are read back; an open position
\* is adopted, an execution leaves its intents.
restore ==
  /\ switchCrashes < MaxSwitchCrashes
  /\ switchCrashes' = switchCrashes + 1
  /\ active' = selected.broker /\ generation' = selected.generation
  /\ switch' = [s \in SwitchRequests |-> NotSwitching]
  /\ scanning' = FALSE /\ tokens' = NoBroker /\ refresh' = NoBroker /\ books' = NoBroker
  /\ dhanSession' = dhanStored
  /\ feeds' = IF selected.broker = "dhan" /\ dhanStored THEN {"dhan"} ELSE {}
  /\ entry' = IF entry.stage = "open" THEN entry ELSE NoEntry
  /\ UNCHANGED <<selected, intents, dhanStored, saveFaults>>

SwitchNext ==
  \/ \E b \in BrokerIds : FeedTicks(b)
  \/ EngineStarts \/ refreshUniverse \/ applySubscriptions \/ EngineStops \/ EntryStarts \/ EntryEnds \/ PositionLeaves
  \/ IntentsReconciled
  \/ \E s \in SwitchRequests, t \in BrokerIds : SwitchBegins(s, t)
  \/ \E s \in SwitchRequests :
       \/ SwitchRefused(s) \/ SwitchTearsDown(s) \/ saveActiveBroker(s)
       \/ SwitchAdopts(s) \/ SwitchCompletes(s)
  \/ completeDhanLogin \/ onDhanSessionLost \/ restore

SwitchSpec == SwitchInit /\ [][SwitchNext]_switchVars

-----------------------------------------------------------------------------
(* Properties *)

\* Exposure and unresolved orders belong to the broker that is active: no switch and no
\* restart leaves a position or an intent with a broker nobody can act through, as long as
\* every selection was saved (a switch that could not save goes on, and a restart undoes it).
ExposureIsReachable ==
  saveFaults = 0 =>
    /\ entry # NoEntry => entry.broker = active
    /\ intents \subseteq {active}

\* Sockets, subscribed tokens and books are the active broker's: no depth of one broker
\* can price a decision for the other.
OneFeedDrivesDecisions ==
  /\ feeds \subseteq {active}
  /\ tokens \in {NoBroker, active}
  /\ books \in {NoBroker, active}
=============================================================================
