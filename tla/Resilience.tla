----------------------------- MODULE Resilience -----------------------------
(***************************************************************************)
(* resilient_request (app/infrastructure/http/resilience.py): per-provider *)
(* concurrency limit, circuit breaker, attempts with a timeout, backoff.   *)
(*                                                                         *)
(* Every research run of the process shares the one rate_limiter and the   *)
(* one circuit_breaker, so requests of different runs meet here.  An       *)
(* action is the code between two waits: on the semaphore, on the          *)
(* provider's answer, on the backoff.  asyncio.Semaphore is external; the  *)
(* order in which it serves its waiters is left open.                      *)
(***************************************************************************)
EXTENDS Integers, Sequences, FiniteSets

CONSTANTS
  Requests,       \* calls of resilient_request
  Providers,
  ProviderOf,     \* the provider a request calls
  Limit,          \* PROVIDER_LIMITS, 5 for a provider it does not name
  Threshold,      \* failure_threshold
  ResetSeconds,   \* reset_seconds
  MaxAttempts,    \* max(1, max_attempts)
  MaxTime         \* bound: the last value of the clock

ASSUME ConstantsAssumption ==
  /\ IsFiniteSet(Requests)
  /\ ProviderOf \in [Requests -> Providers]
  /\ Limit \in [Providers -> Nat]
  /\ Threshold \in Nat \ {0}
  /\ ResetSeconds \in Nat
  /\ MaxAttempts \in Nat \ {0}
  /\ MaxTime \in Nat

VARIABLES
  phase,      \* what a request waits for, or how it ended
  attempt,    \* attempt of the for loop
  permits,    \* Semaphore._value
  failures,   \* CircuitBreaker._failures
  opened_at,  \* CircuitBreaker._opened_at
  now,        \* time.monotonic()
  outcomes    \* history: outcomes the requests recorded

breaker == <<failures, opened_at>>
vars == <<phase, attempt, permits, breaker, now, outcomes>>

Ended == {"returned", "failed", "refused", "cancelled"}
Phases == {"idle", "waiting", "calling", "backoff"} \cup Ended

Never == -1

Init ==
  /\ phase = [q \in Requests |-> "idle"]
  /\ attempt = [q \in Requests |-> 0]
  /\ permits = Limit
  /\ failures = [p \in Providers |-> 0]
  /\ opened_at = [p \in Providers |-> Never]
  /\ now = 0
  /\ outcomes = <<>>

-----------------------------------------------------------------------------
(* CircuitBreaker *)

Close(p) ==
  /\ failures' = [failures EXCEPT ![p] = 0]
  /\ opened_at' = [opened_at EXCEPT ![p] = Never]

\* (mutation) a success closes the circuit and leaves the count of failures
RecordSuccessKeepsCount(p) ==
  /\ opened_at' = [opened_at EXCEPT ![p] = Never]
  /\ UNCHANGED failures

RecordSuccess(p) == Close(p)

\* each failure of an open circuit opens it anew
RecordFailure(p) ==
  /\ failures' = [failures EXCEPT ![p] = @ + 1]
  /\ opened_at' = [opened_at EXCEPT ![p] = IF failures[p] + 1 >= Threshold THEN now ELSE @]

Elapsed(p) == now - opened_at[p] >= ResetSeconds

Recorded(q, succeeded) ==
  outcomes' = Append(outcomes, [request |-> q, provider |-> ProviderOf[q], ok |-> succeeded])

-----------------------------------------------------------------------------
(* resilient_request *)

Goto(q, p) == phase' = [phase EXCEPT ![q] = p]

\* async with semaphore
Acquire(p) == permits[p] > 0 /\ permits' = [permits EXCEPT ![p] = @ - 1]

Release(p) == permits' = [permits EXCEPT ![p] = @ + 1]

\* the circuit breaker is asked once, before the first attempt
Enter(q) ==
  LET p == ProviderOf[q]
  IN  /\ phase[q] = "idle"
      /\ \/ /\ opened_at[p] = Never
            /\ Goto(q, "waiting") /\ attempt' = [attempt EXCEPT ![q] = 1]
            /\ UNCHANGED breaker
         \/ /\ opened_at[p] # Never /\ Elapsed(p)
            /\ Goto(q, "waiting") /\ attempt' = [attempt EXCEPT ![q] = 1]
            /\ Close(p)
         \/ /\ opened_at[p] # Never /\ ~Elapsed(p)
            /\ Goto(q, "refused")
            /\ UNCHANGED <<attempt, breaker>>
      /\ UNCHANGED <<permits, now, outcomes>>

Call(q) ==
  /\ phase[q] = "waiting"
  /\ Acquire(ProviderOf[q])
  /\ Goto(q, "calling")
  /\ UNCHANGED <<attempt, breaker, now, outcomes>>

Succeeds(q) ==
  /\ phase[q] = "calling"
  /\ Goto(q, "returned")
  /\ Release(ProviderOf[q])
  /\ RecordSuccess(ProviderOf[q])
  /\ Recorded(q, TRUE)
  /\ UNCHANGED <<attempt, now>>

\* the last attempt fails, or any attempt fails with an error that is not retried
FailsForGood(q) ==
  /\ phase[q] = "calling"
  /\ Goto(q, "failed")
  /\ Release(ProviderOf[q])
  /\ RecordFailure(ProviderOf[q])
  /\ Recorded(q, FALSE)
  /\ UNCHANGED <<attempt, now>>

\* (mutation) one attempt too many
RetryLeftOffByOne(q) == attempt[q] <= MaxAttempts

RetryLeft(q) == attempt[q] < MaxAttempts

\* (mutation) the permit is kept over the backoff, and never given back
FailsForNowKeepingPermit(q) ==
  /\ phase[q] = "calling" /\ RetryLeft(q)
  /\ Goto(q, "backoff")
  /\ UNCHANGED <<attempt, permits, breaker, now, outcomes>>

\* (mutation) every attempt counts as a failure of its own
FailsForNowRecorded(q) ==
  /\ phase[q] = "calling" /\ RetryLeft(q)
  /\ Goto(q, "backoff")
  /\ Release(ProviderOf[q])
  /\ RecordFailure(ProviderOf[q])
  /\ Recorded(q, FALSE)
  /\ UNCHANGED <<attempt, now>>

\* a timeout, a transport error or a 429, 502, 503 with attempts left: no record
FailsForNow(q) ==
  /\ phase[q] = "calling" /\ RetryLeft(q)
  /\ Goto(q, "backoff")
  /\ Release(ProviderOf[q])
  /\ UNCHANGED <<attempt, breaker, now, outcomes>>

\* (mutation) the loop never counts its attempts
RetryUncounted(q) ==
  /\ phase[q] = "backoff"
  /\ Goto(q, "waiting")
  /\ UNCHANGED <<attempt, permits, breaker, now, outcomes>>

Retry(q) ==
  /\ phase[q] = "backoff"
  /\ Goto(q, "waiting")
  /\ attempt' = [attempt EXCEPT ![q] = @ + 1]
  /\ UNCHANGED <<permits, breaker, now, outcomes>>

\* the run is cancelled: CancelledError is no Exception, so nothing is recorded, and the
\* async with block gives the permit back
Cancelled(q) ==
  /\ phase[q] \in {"waiting", "calling", "backoff"}
  /\ Goto(q, "cancelled")
  /\ IF phase[q] = "calling" THEN Release(ProviderOf[q]) ELSE UNCHANGED permits
  /\ UNCHANGED <<attempt, breaker, now, outcomes>>

Tick ==
  /\ now < MaxTime
  /\ now' = now + 1
  /\ UNCHANGED <<phase, attempt, permits, breaker, outcomes>>

Step(q) ==
  \/ Call(q)
  \/ Succeeds(q)
  \/ FailsForGood(q)
  \/ FailsForNow(q)
  \/ Retry(q)

Next ==
  \/ \E q \in Requests : Enter(q) \/ Step(q) \/ Cancelled(q)
  \/ Tick

\* wait_for ends every call after its timeout, the backoff ends, and a free permit is
\* handed to a waiter
Fairness == \A q \in Requests : WF_vars(Step(q))

Spec == Init /\ [][Next]_vars /\ Fairness

-----------------------------------------------------------------------------
(* Properties *)

\* Counters and phases stay in range; in particular the loop is never left at its end, so
\* that the code's raise after the loop is never reached.
TypeOK ==
  /\ phase \in [Requests -> Phases]
  /\ attempt \in [Requests -> 0..MaxAttempts]
  /\ permits \in [Providers -> Nat]
  /\ failures \in [Providers -> Nat]
  /\ opened_at \in [Providers -> 0..MaxTime \cup {Never}]
  /\ now \in 0..MaxTime
  /\ outcomes \in Seq([request : Requests, provider : Providers, ok : BOOLEAN])

Calling(p) == {q \in Requests : phase[q] = "calling" /\ ProviderOf[q] = p}

\* Permits are held by calls and by nothing else: whichever way calls end, in whatever
\* order, none leaks and a provider never sees more calls at once than its limit.
PermitsConserved ==
  \A p \in Providers : permits[p] + Cardinality(Calling(p)) = Limit[p]

\* The two dictionaries of the breaker agree: a circuit is open exactly when its provider
\* has reached the threshold of failures.
OpenIffThreshold ==
  \A p \in Providers : opened_at[p] # Never <=> failures[p] >= Threshold

\* Where the failures of provider p are that no success of p has followed yet.
FailuresInARow(p) ==
  {i \in 1..Len(outcomes) :
     /\ outcomes[i].provider = p
     /\ \A j \in i..Len(outcomes) : outcomes[j].provider = p => ~outcomes[j].ok}

\* An open circuit is due to repeated failures: the last Threshold requests to the
\* provider that ended on their own all failed, with no success among them.
OpenMeansRepeatedFailures ==
  \A p \in Providers : opened_at[p] # Never => Cardinality(FailuresInARow(p)) >= Threshold

\* A request counts once, however often it was retried: it records one outcome if it
\* returned or failed, and none while it runs, or if it was refused or cancelled.
OneOutcomePerRequest ==
  \A q \in Requests :
    Cardinality({i \in 1..Len(outcomes) : outcomes[i].request = q}) =
      IF phase[q] \in {"returned", "failed"} THEN 1 ELSE 0

\* Every request that was let in ends.
RequestsEnd == \A q \in Requests : phase[q] = "waiting" ~> phase[q] \in Ended

=============================================================================
