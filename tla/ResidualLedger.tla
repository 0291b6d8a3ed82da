--------------------------- MODULE ResidualLedger ---------------------------
(***************************************************************************)
(* The flattening of residual exposure (residualFlatten.ts,                *)
(* executionGateway.ts), its durable, versioned ledger row                 *)
(* (executionAttemptProjection.ts, repository.ts), the process's copy of   *)
(* it (engine.ts) and the charges the daily risk limit is debited with     *)
(* (orderManager.ts).                                                      *)
(*                                                                         *)
(* One residual leg is modelled.  Every unit filled costs one unit of      *)
(* charge, so the two watermarks of the code (filled and charged) are one. *)
(* A flatten order belongs to a generation; the durable intents of the     *)
(* generations are what the broker did with them (OrderSubmission).        *)
(***************************************************************************)
EXTENDS Integers, Sequences, FiniteSets, FiniteSetsExt

CONSTANTS
  Quantity,            \* units the aborted entry left in the account
  MaxGenerations,      \* bound: flatten orders
  Retriers,            \* timer passes whose retry of a command may be in flight
  LastDay,             \* bound: trading days
  MaxLedgerFaults,     \* bound: database errors and failed seed loads
  MaxLedgerCrashes     \* bound: restarts of the process

ASSUME LedgerAssumption ==
  /\ Quantity \in Nat \ {0} /\ MaxGenerations \in Nat \ {0}
  /\ LastDay \in Nat \ {0} /\ MaxLedgerFaults \in Nat /\ MaxLedgerCrashes \in Nat

Generations == 1..MaxGenerations
Days == 1..LastDay
Unset == -1
NoCommand == [version |-> Unset]
NoAnswer == [version |-> Unset]
NoFlight == [command |-> NoCommand]
NoSeed == [day |-> 0]
Idle == [attempt |-> 0]
Persisting == [attempt |-> Unset]

VARIABLES
  held,          \* units the account still holds
  flattenOrders, \* the order of each generation
  ledger,        \* the row of box_execution_attempts
  memory,        \* residualByAttempt and residualProjectionVersion; quantity 0: none
  pass,          \* the flatten pass (residualFlattenInFlight), or Idle
  pending,       \* pendingResidualPersists
  flights,       \* commands on their way to the database and back
  observed,      \* observedFlattenChargesByDay
  today,         \* the calendar
  managerDay, debited,   \* the manager's trading day and what it debited for it
  seed, mutations,       \* the daily-risk load in flight, and the charges noted since
  seedHealthy,
  lateSeed,      \* a load whose time ran out and that may still answer
  overtaken,     \* such a load answered since the load that the seed is of began
  ledgerFaults, ledgerCrashes

ledgerVars == <<held, flattenOrders, ledger, memory, pass, pending, flights, observed, today,
                managerDay, debited, seed, mutations, seedHealthy, lateSeed, overtaken,
                ledgerFaults, ledgerCrashes>>

-----------------------------------------------------------------------------
(* The row and what a command does to it *)

Residual(quantity, attempt, accounted, version) ==
  [quantity |-> quantity, attempt |-> attempt, accounted |-> accounted, version |-> version]

residualFlattenAttempt(residual) == residual.attempt

\* A row inserted by an aborted entry: no generation, no watermark, no charge.
insertBoxExecutionAttempt ==
  [quantity |-> Quantity, attempt |-> 1, accounted |-> Unset, version |-> 0,
   charges |-> 0, day |-> 0, forDay |-> 0, applications |-> {}]

\* The watermarks are not part of the identity; an empty residual has one identity.
residualProjectionIdentity(residual) ==
  IF residual.quantity = 0 THEN <<0, 0>> ELSE <<residual.quantity, residual.attempt>>

createResidualProjectionCommand(version, expected, next, charge, day) ==
  [version |-> version, expected |-> residualProjectionIdentity(expected),
   next |-> next, charge |-> charge, day |-> day]

residualProjectionChanges(command) ==
  \/ command.expected # residualProjectionIdentity(command.next)
  \/ command.charge > 0

transitionResidualProjectionSnapshot(row, command) ==
  [quantity |-> command.next.quantity, attempt |-> command.next.attempt,
   accounted |-> command.next.accounted, version |-> row.version + 1,
   charges |-> row.charges + command.charge,
   day |-> IF command.charge > 0 THEN command.day ELSE row.day,
   forDay |-> IF command.charge > 0
                THEN (IF row.day = command.day THEN row.forDay ELSE 0) + command.charge
                ELSE row.forDay,
   applications |-> row.applications \cup {command}]

\* Compare-and-set under the row lock: a known command changes nothing, a command whose
\* version or identity is not the row's is stale.
applyBoxExecutionAttemptProjection(row, command) ==
  IF \/ command \in row.applications
     \/ row.version # command.version
     \/ residualProjectionIdentity(row) # command.expected
    THEN row
    ELSE transitionResidualProjectionSnapshot(row, command)

-----------------------------------------------------------------------------
(* One pass over the residual *)

Terminal == {"COMPLETE", "CANCELLED", "REJECTED"}

classifyResidualOrder(order, requested) ==
  IF order.state \notin Terminal \/ order.state = "REJECTED" THEN "adopt_attempt"
  ELSE IF order.filled >= requested THEN "flattened" ELSE "retire_attempt"

dispositionForFailure(kind) ==
  CASE kind \in {"no_executable_book", "gate_refused", "already_in_flight"} -> "reuse_attempt"
    [] kind \in {"local_pre_submit_refused", "identity_conflict"} -> "retire_attempt"
    [] OTHER -> "adopt_attempt"

\* A bug: the watermark of the generation is not carried.
CarryWithoutWatermark(residual, quantity, attempt, disposition, accounted) ==
  Residual(quantity, IF disposition = "retire_attempt" THEN attempt + 1 ELSE attempt,
           0, residual.version)

carryResidualForward(residual, quantity, attempt, disposition, accounted) ==
  Residual(quantity,
           IF disposition = "retire_attempt" THEN attempt + 1 ELSE attempt,
           IF disposition = "retire_attempt" THEN 0 ELSE accounted, residual.version)

\* The first generation from the residual's own on that was not refused before its POST.
firstAdoptableResidualAttempt(residual) ==
  Min({g \in residualFlattenAttempt(residual)..(MaxGenerations + 1) :
         g > MaxGenerations \/ flattenOrders[g].state # "local"})

\* What a pass leaves of the residual, given the order it saw and how the pass ended.
flattenResidual(residual, attempt, order, disposition) ==
  LET same == attempt = residualFlattenAttempt(residual)
      mark == IF same THEN residual.accounted ELSE Unset
      base == IF mark # Unset THEN mark
              ELSE IF order.state = "none" \/ order.quantity < residual.quantity THEN 0
              ELSE order.quantity - residual.quantity
      regressed == order.filled < base \/ order.filled - base > residual.quantity
      seen == order.state # "none"
      delta == IF seen /\ ~regressed THEN order.filled - base ELSE 0
      accounted == IF ~seen THEN mark ELSE IF regressed THEN base ELSE order.filled
      left == residual.quantity - delta
  IN [remaining |-> IF left = 0 THEN Residual(0, attempt, Unset, residual.version)
                    ELSE carryResidualForward(residual, left, attempt,
                           IF seen /\ regressed THEN "adopt_attempt" ELSE disposition,
                           accounted),
      charges |-> delta]

NoOrder == [state |-> "none", quantity |-> 0, filled |-> 0]

Working == {g \in Generations : flattenOrders[g].state = "working"}

\* What the manager's reduction reservations leave free to sell.
Reducible ==
  held - MapThenSumSet(LAMBDA g : flattenOrders[g].quantity - flattenOrders[g].filled, Working)

LedgerInit ==
  /\ held = Quantity
  /\ flattenOrders = [g \in Generations |-> NoOrder]
  /\ ledger = insertBoxExecutionAttempt
  /\ memory = Residual(Quantity, 1, Unset, 0)
  /\ pass = Idle /\ pending = NoCommand
  /\ flights = [f \in Retriers \cup {"pass"} |-> NoFlight]
  /\ observed = [d \in Days |-> 0]
  /\ today = 1 /\ managerDay = 1 /\ debited = 0
  /\ seed = NoSeed /\ mutations = <<>> /\ seedHealthy = TRUE /\ lateSeed = NoSeed
  /\ overtaken = FALSE
  /\ ledgerFaults = 0 /\ ledgerCrashes = 0

managerVars == <<managerDay, debited, seed, mutations, seedHealthy, lateSeed, overtaken>>
boundVars == <<ledgerFaults, ledgerCrashes>>

\* The end of a pass: a command for the database, or nothing to say.  The version is the
\* one registered now, the residual the one the pass began with.
PassEnds(residual, attempt, order, disposition) ==
  LET result == flattenResidual(residual, attempt, order, disposition)
      command == createResidualProjectionCommand(memory.version, residual,
                   result.remaining, result.charges, today)
  IN /\ flights["pass"] = NoFlight
     /\ pass' = IF residualProjectionChanges(command) THEN Persisting ELSE Idle
     /\ flights' = IF residualProjectionChanges(command)
                     THEN [flights EXCEPT !["pass"] = [command |-> command, result |-> NoAnswer]]
                     ELSE flights

\* The pass of the timer: skipped while a command is pending or a pass is in flight.  It
\* adopts what a generation is already known to have done, or submits its order.
flattenResiduals ==
  /\ pass = Idle /\ pending = NoCommand /\ memory.quantity > 0
  /\ LET attempt == firstAdoptableResidualAttempt(memory) IN
     /\ attempt \in Generations
     /\ LET order == flattenOrders[attempt] IN
        \/ /\ order.state \in Terminal
           /\ PassEnds(memory, attempt, order,
                IF order.state = "REJECTED" THEN dispositionForFailure("broker_rejected")
                ELSE classifyResidualOrder(order, memory.quantity))
           /\ UNCHANGED flattenOrders
        \/ /\ order.state = "none"
           /\ memory.quantity <= Reducible
           /\ pass' = [residual |-> memory, attempt |-> attempt]
           /\ flattenOrders' = [flattenOrders EXCEPT ![attempt] =
                [state |-> "working", quantity |-> memory.quantity, filled |-> 0]]
           /\ UNCHANGED flights
        \/ /\ order.state = "none"          \* no book, or the manager's gate refuses
           /\ PassEnds(memory, attempt, NoOrder, dispositionForFailure("gate_refused"))
           /\ UNCHANGED flattenOrders
        \/ /\ order.state = "none"          \* refused before the POST, durably
           /\ flattenOrders' = [flattenOrders EXCEPT ![attempt].state = "local"]
           /\ PassEnds(memory, attempt, NoOrder,
                       dispositionForFailure("local_pre_submit_refused"))
        \/ /\ order.state = "working" /\ order.quantity = memory.quantity
           /\ pass' = [residual |-> memory, attempt |-> attempt]
           /\ UNCHANGED <<flattenOrders, flights>>
        \/ /\ order.state = "working" /\ order.quantity # memory.quantity
           /\ PassEnds(memory, attempt, NoOrder, dispositionForFailure("identity_conflict"))
           /\ UNCHANGED flattenOrders
  /\ UNCHANGED <<held, ledger, memory, pending, observed, today, managerVars, boundVars>>

\* The submission answers: with the order as it stands, or with an ambiguous error that
\* knows no order.
flattenOneResidual ==
  /\ pass \notin {Idle, Persisting}
  /\ LET order == flattenOrders[pass.attempt] IN
     \/ PassEnds(pass.residual, pass.attempt, order,
          IF order.state = "REJECTED" THEN dispositionForFailure("broker_rejected")
          ELSE classifyResidualOrder(order, pass.residual.quantity))
     \/ PassEnds(pass.residual, pass.attempt, NoOrder,
          dispositionForFailure("broker_state_unknown"))
  /\ UNCHANGED <<held, flattenOrders, ledger, memory, pending, observed, today,
                 managerVars, boundVars>>

\* The broker fills a unit of a working order, or ends it.
BrokerFills(g) ==
  /\ g \in Working
  /\ LET order == flattenOrders[g] IN
     flattenOrders' = [flattenOrders EXCEPT ![g] =
       [order EXCEPT !.filled = @ + 1,
                     !.state = IF order.filled + 1 = order.quantity THEN "COMPLETE" ELSE @]]
  /\ held' = held - 1
  /\ UNCHANGED <<ledger, memory, pass, pending, flights, observed, today, managerVars, boundVars>>

BrokerEnds(g) ==
  /\ g \in Working
  /\ flattenOrders' = [flattenOrders EXCEPT ![g].state =
                         IF flattenOrders[g].filled = 0 THEN "REJECTED" ELSE "CANCELLED"]
  /\ UNCHANGED <<held, ledger, memory, pass, pending, flights, observed, today,
                 managerVars, boundVars>>

\* An order with no fill may also be cancelled.
BrokerCancels(g) ==
  /\ g \in Working /\ flattenOrders[g].filled = 0
  /\ flattenOrders' = [flattenOrders EXCEPT ![g].state = "CANCELLED"]
  /\ UNCHANGED <<held, ledger, memory, pass, pending, flights, observed, today,
                 managerVars, boundVars>>

-----------------------------------------------------------------------------
(* The command and its answer *)

\* A timer pass sends the pending command again.
RetryPending(r) ==
  /\ r \in Retriers /\ flights[r] = NoFlight /\ pending # NoCommand
  /\ flights' = [flights EXCEPT ![r] = [command |-> pending, result |-> NoAnswer]]
  /\ UNCHANGED <<held, flattenOrders, ledger, memory, pass, pending, observed, today,
                 managerVars, boundVars>>

Sent(f) == flights[f] # NoFlight /\ flights[f].result = NoAnswer

LedgerApplies(f) ==
  /\ Sent(f)
  /\ ledger' = applyBoxExecutionAttemptProjection(ledger, flights[f].command)
  /\ flights' = [flights EXCEPT ![f].result =
                   [ledger' EXCEPT !.applications = {}]]
  /\ UNCHANGED <<held, flattenOrders, memory, pass, pending, observed, today,
                 managerVars, boundVars>>

\* The error of a query that ran, or of one that did not: the answer is lost.
LedgerFails(f) ==
  /\ flights[f] # NoFlight /\ ledgerFaults < MaxLedgerFaults
  /\ ledgerFaults' = ledgerFaults + 1
  /\ pending' = IF f = "pass" THEN flights[f].command ELSE pending
  /\ pass' = IF f = "pass" THEN Idle ELSE pass
  /\ flights' = [flights EXCEPT ![f] = NoFlight]
  /\ UNCHANGED <<held, flattenOrders, ledger, memory, observed, today, managerVars,
                 ledgerCrashes>>

\* The manager debits a charge of its own trading day, and remembers it for a seed that
\* is being loaded.
recordFlattenCharge(day, previous, current) ==
  IF current > previous /\ day = managerDay
    THEN /\ debited' = debited + (current - previous)
         /\ mutations' = IF seed # NoSeed /\ seed.day = day
                           THEN Append(mutations, [previous |-> previous, current |-> current])
                           ELSE mutations
    ELSE UNCHANGED <<debited, mutations>>

\* A resolved attempt forgets its watermarks; every other day's are forgotten too.
compactObservedFlattenChargeWatermarks(marks) == [d \in Days |-> 0]

\* The answer becomes what the process believes: charges beyond the watermark are debited,
\* the residual is registered, and whatever command was pending is forgotten.
persistOwnedResidualProjection(f) ==
  /\ flights[f] # NoFlight /\ flights[f].result # NoAnswer
  /\ LET result == flights[f].result
         fresh == result.day # 0 /\ result.forDay > observed[result.day]
         marks == IF fresh THEN [observed EXCEPT ![result.day] = result.forDay] ELSE observed
     IN /\ IF fresh THEN recordFlattenCharge(result.day, observed[result.day], result.forDay)
           ELSE UNCHANGED <<debited, mutations>>
        /\ observed' = IF result.quantity = 0
                         THEN compactObservedFlattenChargeWatermarks(marks) ELSE marks
        /\ memory' = IF result.quantity = 0 THEN Residual(0, 1, Unset, 0)
                     ELSE Residual(result.quantity, result.attempt, result.accounted,
                                   result.version)
        /\ pending' = NoCommand
        /\ pass' = IF f = "pass" THEN Idle ELSE pass
        /\ flights' = [flights EXCEPT ![f] = NoFlight]
  /\ UNCHANGED <<held, flattenOrders, ledger, today, managerDay, seed, seedHealthy, lateSeed,
                 overtaken, boundVars>>

-----------------------------------------------------------------------------
(* The daily-risk seed, the day and the restart *)

boxExecutionAttemptDailyRiskContribution(day) ==
  IF ledger.day = day THEN ledger.forDay ELSE 0

beginDailyRiskSeed(day) == [day |-> day, baseline |-> Unset, unresolved |-> FALSE]

MidnightPasses ==
  /\ today < LastDay
  /\ today' = today + 1
  /\ UNCHANGED <<held, flattenOrders, ledger, memory, pass, pending, flights, observed,
                 managerVars, boundVars>>

\* The manager notices the new day: its debits restart from a new load.
rollTradingDay ==
  /\ managerDay # today
  /\ managerDay' = today /\ debited' = 0 /\ mutations' = <<>>
  /\ seed' = beginDailyRiskSeed(today) /\ seedHealthy' = FALSE /\ overtaken' = FALSE
  /\ UNCHANGED <<held, flattenOrders, ledger, memory, pass, pending, flights, observed, today,
                 lateSeed, boundVars>>

\* The reconciliation starts a load again while none is healthy.
refreshDailyRiskSeed ==
  /\ seed = NoSeed /\ ~seedHealthy
  /\ seed' = beginDailyRiskSeed(managerDay) /\ overtaken' = FALSE
  /\ UNCHANGED <<held, flattenOrders, ledger, memory, pass, pending, flights, observed, today,
                 managerDay, debited, mutations, seedHealthy, lateSeed, boundVars>>

\* The rows as a load reads them.
Loaded(load) == [load EXCEPT !.baseline = boxExecutionAttemptDailyRiskContribution(load.day),
                             !.unresolved = ledger.quantity > 0]

loadBoxLiveRiskSeed ==
  /\ seed # NoSeed /\ seed.baseline = Unset
  /\ seed' = Loaded(seed)
  /\ UNCHANGED <<held, flattenOrders, ledger, memory, pass, pending, flights, observed, today,
                 managerDay, debited, mutations, seedHealthy, lateSeed, overtaken, boundVars>>

\* A bug: charges noted while the load ran are taken as part of what it read.
MergeNothing(noted, baseline) == 0

\* The part of a charge noted since the load began that its rows do not contain.
Unseeded(mutation, baseline) ==
  LET representedThrough == IF mutation.previous > baseline THEN mutation.previous ELSE baseline
  IN IF mutation.current > representedThrough THEN mutation.current - representedThrough ELSE 0

\* The charges noted since the load began, as far as its rows do not contain them.
mergePostLoadFlattenCharges(noted, baseline) ==
  LET unseeded[n \in 0..Len(noted)] ==
        IF n = 0 THEN 0 ELSE unseeded[n - 1] + Unseeded(noted[n], baseline)
  IN unseeded[Len(noted)]

\* The watermarks after a load: forgotten for an attempt that neither the rows nor the
\* process still hold open, and raised to what an unresolved row was charged.
SeededWatermarks(load) ==
  LET retained == load.unresolved \/ memory.quantity > 0 \/ pending # NoCommand
      kept(d) == IF retained /\ d = load.day THEN observed[d] ELSE 0
  IN [d \in Days |-> IF load.unresolved /\ d = load.day /\ load.baseline > kept(d)
                       THEN load.baseline ELSE kept(d)]

\* loadDailyRiskSeed of the engine: watermarks of a load for today.
InstallWatermarks(load) ==
  observed' = IF load.day = today THEN SeededWatermarks(load) ELSE observed

\* The load lands: watermarks first, then the manager's debits of the day.
seedLimits ==
  /\ seed # NoSeed /\ seed.baseline # Unset
  /\ InstallWatermarks(seed)
  /\ debited' = seed.baseline + mergePostLoadFlattenCharges(mutations, seed.baseline)
  /\ seedHealthy' = TRUE /\ seed' = NoSeed /\ mutations' = <<>>
  /\ UNCHANGED <<held, flattenOrders, ledger, memory, pass, pending, flights, today,
                 managerDay, lateSeed, overtaken, boundVars>>

\* The load fails or times out; its token is settled.  One that timed out goes on.
abandonDailyRiskSeed ==
  /\ seed # NoSeed /\ ledgerFaults < MaxLedgerFaults
  /\ ledgerFaults' = ledgerFaults + 1
  /\ seed' = NoSeed /\ mutations' = <<>> /\ seedHealthy' = FALSE
  /\ lateSeed' = seed
  /\ UNCHANGED <<held, flattenOrders, ledger, memory, pass, pending, flights, observed, today,
                 managerDay, debited, overtaken, ledgerCrashes>>

\* A load that timed out reads, and answers: the manager ignores it, but its watermarks are
\* installed before the manager is asked.
LateLoad ==
  /\ lateSeed # NoSeed
  /\ IF lateSeed.baseline = Unset
       THEN lateSeed' = Loaded(lateSeed) /\ UNCHANGED <<observed, overtaken>>
       ELSE lateSeed' = NoSeed /\ overtaken' = TRUE /\ InstallWatermarks(lateSeed)
  /\ UNCHANGED <<held, flattenOrders, ledger, memory, pass, pending, flights, today,
                 managerDay, debited, seed, mutations, seedHealthy, boundVars>>

\* A restart: the row is read back, its charges are the watermark, and a load begins.
reconcileResidualExposure ==
  /\ ledgerCrashes < MaxLedgerCrashes
  /\ ledgerCrashes' = ledgerCrashes + 1
  /\ memory' = IF ledger.quantity = 0 THEN Residual(0, 1, Unset, 0)
               ELSE Residual(ledger.quantity, ledger.attempt, ledger.accounted, ledger.version)
  /\ observed' = [d \in Days |-> IF ledger.quantity > 0 /\ d = ledger.day
                                   THEN ledger.forDay ELSE 0]
  /\ pass' = Idle /\ pending' = NoCommand
  /\ flights' = [f \in DOMAIN flights |-> NoFlight]
  /\ managerDay' = today /\ debited' = 0 /\ mutations' = <<>>
  /\ seed' = beginDailyRiskSeed(today) /\ seedHealthy' = FALSE
  /\ lateSeed' = NoSeed /\ overtaken' = FALSE
  /\ UNCHANGED <<held, flattenOrders, ledger, today, ledgerFaults>>

LedgerNext ==
  \/ flattenResiduals
  \/ flattenOneResidual
  \/ \E g \in Generations : BrokerFills(g) \/ BrokerEnds(g) \/ BrokerCancels(g)
  \/ \E r \in Retriers : RetryPending(r)
  \/ \E f \in Retriers \cup {"pass"} :
       LedgerApplies(f) \/ LedgerFails(f) \/ persistOwnedResidualProjection(f)
  \/ MidnightPasses
  \/ rollTradingDay
  \/ refreshDailyRiskSeed
  \/ loadBoxLiveRiskSeed
  \/ seedLimits
  \/ abandonDailyRiskSeed
  \/ LateLoad
  \/ reconcileResidualExposure

LedgerSpec == LedgerInit /\ [][LedgerNext]_ledgerVars

-----------------------------------------------------------------------------
(* Properties *)

\* The durable row never claims less exposure than the account holds, whatever retries
\* overlap, answers are lost or restarts happen between a fill and its accounting.
LedgerNeverUnderstates == ledger.quantity >= held

\* What the process believes of the residual is the row as it stands.
KnowsRow == IF ledger.quantity = 0 THEN memory.quantity = 0 ELSE memory.version = ledger.version

\* A process that knows the row, and whose seed of the day is healthy, has debited at least
\* the charges the row holds for the day: a loss limit misses none (unless a load that had
\* timed out answered since: its watermarks hide the charges it read).
ChargesNeverMissed ==
  KnowsRow /\ seedHealthy /\ seed = NoSeed /\ managerDay = today /\ ~overtaken
    => debited >= boxExecutionAttemptDailyRiskContribution(today)

\* The same of a process with nothing in flight, whether it knows the row or not.
ChargesSettle ==
  ( /\ pass = Idle /\ pending = NoCommand /\ \A f \in DOMAIN flights : flights[f] = NoFlight
    /\ seedHealthy /\ seed = NoSeed /\ managerDay = today )
  => debited >= boxExecutionAttemptDailyRiskContribution(today)

\* A residual is accounted for in lots and in money: neither the exposure nor the charges of
\* its flattening is ever less on record than it is (carryResidualForward,
\* mergePostLoadFlattenCharges).
ResidualIsAccounted == LedgerNeverUnderstates /\ ChargesNeverMissed

\* No charge is debited twice: the debits of the manager's day never exceed what the row
\* holds for that day (while the row has not moved on to a later one).
ChargesDebitedOnce ==
  ledger.day <= managerDay => debited <= boxExecutionAttemptDailyRiskContribution(managerDay)
=============================================================================
