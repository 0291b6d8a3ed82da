--------------------------- MODULE ChargeReconciler ---------------------------
(***************************************************************************)
(* The asynchronous verification of a trade's charges: the queue, the      *)
(* workers and the retries of chargeReconciler.ts, the cache and the       *)
(* in-flight call of charges.ts estimateExitOnly that every attempt goes   *)
(* through, and the verdict stored on the trade (repository.ts).           *)
(*                                                                         *)
(* A job is one trade and phase.  Instants are counted down: `backoff' is  *)
(* what is left of a retry timer and `cachedFor' what is left of the cache *)
(* entry of a failure; a timer may fire late, never early.                 *)
(***************************************************************************)
EXTENDS Naturals, Sequences, FiniteSets

CONSTANTS ChargeJobs,               \* the verifications: one per trade and phase
          ReconcileWorkers,   \* chargeReconcileConcurrency
          MaxChargeAttempts,  \* chargeReconcileMaxAttempts
          RetryBase,          \* chargeReconcileRetryBaseMs
          ChargeCacheTtl,     \* chargeCacheTtlMs, in the unit of RetryBase
          MaxPricingFaults,   \* bound: the calls the broker fails to price
          MaxLogouts          \* bound: the losses of the broker session

ASSUME ChargeAssumption ==
  /\ {ReconcileWorkers, MaxChargeAttempts, RetryBase} \subseteq Nat \ {0}
  /\ {ChargeCacheTtl, MaxPricingFaults, MaxLogouts} \subseteq Nat

VARIABLES
  chargeQueue,    \* the queue of jobs
  jobStage,       \* job -> where it is
  attempts,       \* job -> the attempts that failed
  backoff,        \* job -> what is left of its retry timer
  cachedFor,      \* job -> what is left of the cached failure of its orders
  calls,          \* job -> the calls that reached the broker
  verdict,        \* job -> the verdict its worker came to
  storedVerdict,  \* job -> the verdict on the trade's row
  loggedIn,       \* isAuthenticated()
  pricingFaults, logouts

jobVars == <<chargeQueue, jobStage, attempts, backoff, calls, verdict, storedVerdict>>
worldVars == <<loggedIn, pricingFaults, logouts>>
chargeVars == <<jobVars, cachedFor, worldVars>>

\* "new": not submitted; "starting": taken by a worker; "pricing": the call is at
\* the broker; "storing": the verdict is being written; "settled": the worker ended.
JobStages == {"new", "queued", "starting", "pricing", "waiting", "storing", "settled"}
Verdicts == {"none", "verified", "failed", "skipped"}

ChargeTypeOK ==
  /\ chargeQueue \in Seq(ChargeJobs)
  /\ jobStage \in [ChargeJobs -> JobStages]
  /\ attempts \in [ChargeJobs -> 0..(MaxChargeAttempts - 1)]
  /\ backoff \in [ChargeJobs -> 0..(RetryBase * MaxChargeAttempts)]
  /\ cachedFor \in [ChargeJobs -> 0..(ChargeCacheTtl + 1)]
  /\ calls \in [ChargeJobs -> 0..MaxChargeAttempts]
  /\ verdict \in [ChargeJobs -> Verdicts] /\ storedVerdict \in [ChargeJobs -> Verdicts]
  /\ loggedIn \in BOOLEAN
  /\ pricingFaults \in 0..MaxPricingFaults /\ logouts \in 0..MaxLogouts

ChargeInit ==
  /\ chargeQueue = <<>>
  /\ jobStage = [j \in ChargeJobs |-> "new"]
  /\ attempts = [j \in ChargeJobs |-> 0] /\ backoff = attempts /\ cachedFor = attempts /\ calls = attempts
  /\ verdict = [j \in ChargeJobs |-> "none"] /\ storedVerdict = verdict
  /\ loggedIn \in BOOLEAN
  /\ pricingFaults = 0 /\ logouts = 0

Busy(stage) == {j \in ChargeJobs : stage[j] \in {"starting", "pricing", "storing"}}

Least(m, n) == IF m < n THEN m ELSE n

\* Start workers up to the configured concurrency, on a queue and the stages as
\* they are after the caller's own change.
pump(queue, stage) ==
  LET room == ReconcileWorkers - Cardinality(Busy(stage))
      n == Least(room, Len(queue))
  IN  /\ chargeQueue' = SubSeq(queue, n + 1, Len(queue))
      /\ jobStage' = [j \in ChargeJobs |-> IF \E i \in 1..n : queue[i] = j THEN "starting" ELSE stage[j]]

\* The trade exists and its order lines are queued; a trade and phase is admitted once.
submit(j) ==
  /\ jobStage[j] = "new"
  /\ pump(Append(chargeQueue, j), [jobStage EXCEPT ![j] = "queued"])
  /\ UNCHANGED <<attempts, backoff, cachedFor, calls, verdict, storedVerdict, worldVars>>

\* A worker begins: without a session the job is skipped; orders whose failure is
\* still cached are answered from the cache; otherwise the broker is called.
RunSkips(j) ==
  /\ jobStage[j] = "starting" /\ ~loggedIn
  /\ jobStage' = [jobStage EXCEPT ![j] = "storing"]
  /\ verdict' = [verdict EXCEPT ![j] = "skipped"]
  /\ UNCHANGED <<chargeQueue, attempts, backoff, cachedFor, calls, storedVerdict, worldVars>>

RunCalls(j) ==
  /\ jobStage[j] = "starting" /\ loggedIn /\ cachedFor[j] = 0
  /\ jobStage' = [jobStage EXCEPT ![j] = "pricing"]
  /\ calls' = [calls EXCEPT ![j] = @ + 1]
  /\ UNCHANGED <<chargeQueue, attempts, backoff, cachedFor, verdict, storedVerdict, worldVars>>

\* Another attempt later, or the verdict "failed": the worker of a job that waits
\* for its timer has ended.
retryOrFail(j) ==
  IF attempts[j] + 1 < MaxChargeAttempts
  THEN /\ attempts' = [attempts EXCEPT ![j] = @ + 1]
       /\ backoff' = [backoff EXCEPT ![j] = RetryBase * attempts'[j]]
       /\ pump(chargeQueue, [jobStage EXCEPT ![j] = "waiting"])
       /\ UNCHANGED verdict
  ELSE /\ verdict' = [verdict EXCEPT ![j] = "failed"]
       /\ jobStage' = [jobStage EXCEPT ![j] = "storing"]
       /\ UNCHANGED <<chargeQueue, attempts, backoff>>

RunHitsCache(j) ==
  /\ jobStage[j] = "starting" /\ loggedIn /\ cachedFor[j] > 0
  /\ retryOrFail(j)
  /\ UNCHANGED <<cachedFor, calls, storedVerdict, worldVars>>

\* The broker's answer: charges, or nothing (an error is the same to the caller),
\* which estimateExitOnly caches.
Priced(j) ==
  /\ jobStage[j] = "pricing"
  /\ verdict' = [verdict EXCEPT ![j] = "verified"]
  /\ jobStage' = [jobStage EXCEPT ![j] = "storing"]
  /\ UNCHANGED <<chargeQueue, attempts, backoff, cachedFor, calls, storedVerdict, worldVars>>

PricingFails(j) ==
  /\ jobStage[j] = "pricing" /\ pricingFaults < MaxPricingFaults
  /\ pricingFaults' = pricingFaults + 1
  /\ cachedFor' = [cachedFor EXCEPT ![j] = ChargeCacheTtl + 1]
  /\ retryOrFail(j)
  /\ UNCHANGED <<calls, storedVerdict, loggedIn, logouts>>

\* Mutated form: the `finally' of the worker only counts it out.
WorkerEndsQuietly(j) ==
  jobStage' = [jobStage EXCEPT ![j] = "settled"] /\ UNCHANGED chargeQueue

\* The worker ends and its successor is taken from the queue.
WorkerEnds(j) == pump(chargeQueue, [jobStage EXCEPT ![j] = "settled"])

\* safePersist: a failed write is only logged; "skipped" is stored as "failed".
safePersist(j) ==
  /\ jobStage[j] = "storing"
  /\ \/ storedVerdict' = [storedVerdict EXCEPT ![j] = verdict[j]]
     \/ UNCHANGED storedVerdict
  /\ WorkerEnds(j)
  /\ UNCHANGED <<attempts, backoff, cachedFor, calls, verdict, worldVars>>

RetryFires(j) ==
  /\ jobStage[j] = "waiting" /\ backoff[j] = 0
  /\ pump(Append(chargeQueue, j), [jobStage EXCEPT ![j] = "queued"])
  /\ UNCHANGED <<attempts, backoff, cachedFor, calls, verdict, storedVerdict, worldVars>>

Elapse(left) == [j \in ChargeJobs |-> IF left[j] > 0 THEN left[j] - 1 ELSE 0]

ChargeTimePasses ==
  /\ \E j \in ChargeJobs : backoff[j] > 0 \/ cachedFor[j] > 0
  /\ backoff' = Elapse(backoff) /\ cachedFor' = Elapse(cachedFor)
  /\ UNCHANGED <<chargeQueue, jobStage, attempts, calls, verdict, storedVerdict, worldVars>>

LogsIn == ~loggedIn /\ loggedIn' = TRUE /\ UNCHANGED <<jobVars, cachedFor, pricingFaults, logouts>>

LogsOut ==
  /\ loggedIn /\ logouts < MaxLogouts
  /\ loggedIn' = FALSE /\ logouts' = logouts + 1
  /\ UNCHANGED <<jobVars, cachedFor, pricingFaults>>

\* What the process does by itself once a job is submitted.
JobRuns(j) ==
  \/ RunSkips(j) \/ RunCalls(j) \/ RunHitsCache(j)
  \/ Priced(j) \/ PricingFails(j) \/ safePersist(j) \/ RetryFires(j)

ChargeNext ==
  \/ \E j \in ChargeJobs : submit(j) \/ JobRuns(j)
  \/ ChargeTimePasses \/ LogsIn \/ LogsOut

\* Every call of the broker is answered or times out, timers fire, time passes.
ChargeSpec ==
  /\ ChargeInit /\ [][ChargeNext]_chargeVars
  /\ WF_chargeVars(ChargeTimePasses)
  /\ \A j \in ChargeJobs : WF_chargeVars(JobRuns(j))

-----------------------------------------------------------------------------

\* Every verification that was queued comes to an end, however many jobs share the
\* workers and however often the session is lost (chargeReconciler.ts pump).
VerificationEnds ==
  \A j \in ChargeJobs : jobStage[j] = "queued" ~> jobStage[j] = "settled"

\* A verification given up as failed was tried at the broker as often as is
\* configured ("gave up after ${maxAttempts} attempt(s)", retryOrFail).
FailedWasTried ==
  \A j \in ChargeJobs : verdict[j] = "failed" => calls[j] = MaxChargeAttempts
=============================================================================
