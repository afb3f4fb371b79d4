--------------------------- MODULE CircuitBreaker ---------------------------
(***************************************************************************)
(* backend/shared/resilience/circuit_breaker.py: one CircuitBreaker and    *)
(* the coroutines that go through its call().                              *)
(*                                                                         *)
(* The sections under the asyncio lock hold no await, so each is one step: *)
(* admission before the protected coroutine, bookkeeping after it.  What   *)
(* interleaves is everything the event loop runs while coroutines are in   *)
(* flight.  A call may outlive the state in which it was admitted, and a   *)
(* cancelled one (async_with_timeout cancels the coroutine it awaits)      *)
(* skips the bookkeeping: CancelledError is not an Exception.              *)
(*                                                                         *)
(* Time is abstracted to whether recovery_timeout has passed since         *)
(* _last_failure_time.                                                     *)
(***************************************************************************)
EXTENDS Naturals, FiniteSets

CONSTANTS
  Call,               \* callers; each has at most one call in flight
  FailureThreshold,   \* failure_threshold
  HalfOpenMaxCalls,   \* half_open_max_calls
  MaxFailures,        \* bound: failures counted without a success
  MaxCancels          \* bound: cancellations

ASSUME BreakerAssumption ==
  /\ IsFiniteSet(Call)
  /\ FailureThreshold \in Nat \ {0} /\ HalfOpenMaxCalls \in Nat \ {0}
  /\ MaxFailures \in Nat /\ MaxCancels \in Nat

VARIABLES
  state,           \* _state
  failureCount,    \* _failure_count
  halfOpenCalls,   \* _half_open_calls
  recovered,       \* recovery_timeout has passed since _last_failure_time
  call,            \* call[c]: "none", or c's call in flight: "probe" of
                   \* the running HALF_OPEN period, or "call"
  wasted,          \* history: probes of this HALF_OPEN period cancelled
  cancels

vars == <<state, failureCount, halfOpenCalls, recovered, call, wasted, cancels>>

Init ==
  /\ state = "CLOSED"
  /\ failureCount = 0 /\ halfOpenCalls = 0
  /\ recovered = FALSE
  /\ call = [c \in Call |-> "none"]
  /\ wasted = 0 /\ cancels = 0

-----------------------------------------------------------------------------
\* When HALF_OPEN ends, its probes in flight become calls like any other: the
\* code does not tell calls apart by the state they were admitted in.
Retired == [c \in Call |-> IF call[c] = "probe" THEN "call" ELSE call[c]]

\* Waiting is over: recovery_timeout passes without another failure.
TimeoutPasses ==
  /\ state = "OPEN" /\ ~recovered
  /\ recovered' = TRUE
  /\ UNCHANGED <<state, failureCount, halfOpenCalls, call, wasted, cancels>>

AdmitClosed(c) ==
  /\ call[c] = "none" /\ state = "CLOSED"
  /\ call' = [call EXCEPT ![c] = "call"]
  /\ UNCHANGED <<state, failureCount, halfOpenCalls, recovered, wasted, cancels>>

\* The first call after recovery_timeout becomes the first probe.  Faulty
\* variant: the count of the last HALF_OPEN period is kept.
KeptCount == halfOpenCalls + 1
FirstProbe == 1

AdmitRecovered(c) ==
  /\ call[c] = "none" /\ state = "OPEN" /\ recovered
  /\ state' = "HALF_OPEN"
  /\ halfOpenCalls' = FirstProbe
  /\ wasted' = 0
  /\ call' = [call EXCEPT ![c] = "probe"]
  /\ UNCHANGED <<failureCount, recovered, cancels>>

AdmitProbe(c) ==
  /\ call[c] = "none" /\ state = "HALF_OPEN"
  /\ halfOpenCalls < HalfOpenMaxCalls
  /\ halfOpenCalls' = halfOpenCalls + 1
  /\ call' = [call EXCEPT ![c] = "probe"]
  /\ UNCHANGED <<state, failureCount, recovered, wasted, cancels>>

\* The protected coroutine raises.  Whenever it was admitted, the failure is
\* counted and restarts the recovery timeout.  Faulty variant: a failure in
\* HALF_OPEN is only counted.
StayHalfOpen == IF state = "CLOSED" /\ failureCount + 1 >= FailureThreshold
                THEN "OPEN" ELSE state
AfterFailure == IF state = "HALF_OPEN" \/ failureCount + 1 >= FailureThreshold
                THEN "OPEN" ELSE state

Fail(c) ==
  /\ call[c] # "none"
  /\ failureCount < MaxFailures
  /\ failureCount' = failureCount + 1
  /\ recovered' = FALSE
  /\ state' = AfterFailure
  /\ call' = [(IF AfterFailure # state THEN Retired ELSE call) EXCEPT ![c] = "none"]
  /\ UNCHANGED <<halfOpenCalls, wasted, cancels>>

\* The coroutine returns.  Faulty variant: closing keeps the failure count.
CountKept == IF state = "CLOSED" THEN 0 ELSE failureCount
CountAfterSuccess == IF state = "OPEN" THEN failureCount ELSE 0
AfterSuccess == IF state = "HALF_OPEN" THEN "CLOSED" ELSE state

Succeed(c) ==
  /\ call[c] # "none"
  /\ state' = AfterSuccess
  /\ failureCount' = CountAfterSuccess
  /\ call' = [(IF AfterSuccess # state THEN Retired ELSE call) EXCEPT ![c] = "none"]
  /\ UNCHANGED <<halfOpenCalls, recovered, wasted, cancels>>

\* The call is cancelled: nothing is recorded.
Cancel(c) ==
  /\ call[c] # "none"
  /\ cancels < MaxCancels
  /\ cancels' = cancels + 1
  /\ wasted' = IF call[c] = "probe" THEN wasted + 1 ELSE wasted
  /\ call' = [call EXCEPT ![c] = "none"]
  /\ UNCHANGED <<state, failureCount, halfOpenCalls, recovered>>

Next ==
  \/ TimeoutPasses
  \/ \E c \in Call : AdmitClosed(c) \/ AdmitRecovered(c) \/ AdmitProbe(c)
                     \/ Fail(c) \/ Succeed(c) \/ Cancel(c)

Spec == Init /\ [][Next]_vars

\* Time passes, coroutines end one way or another, and somebody keeps calling
\* while the breaker would let a call through to probe.
Fairness ==
  /\ WF_vars(TimeoutPasses)
  /\ \A c \in Call : WF_vars(Fail(c) \/ Succeed(c) \/ Cancel(c))
  /\ WF_vars(\E c \in Call : AdmitRecovered(c) \/ AdmitProbe(c))

FairSpec == Spec /\ Fairness
-----------------------------------------------------------------------------
TypeOK ==
  /\ state \in {"CLOSED", "OPEN", "HALF_OPEN"}
  /\ failureCount \in Nat /\ halfOpenCalls \in Nat
  /\ recovered \in BOOLEAN
  /\ call \in [Call -> {"none", "call", "probe"}]
  /\ wasted \in Nat /\ cancels \in Nat

Probes == {c \in Call : call[c] = "probe"}

\* The failure count and the state agree at all times, whichever results
\* arrive late: the breaker is CLOSED exactly below the threshold.  (A count
\* that survived closing would trip the breaker on its first failure.)
CountMatchesState == (state = "CLOSED") <=> (failureCount < FailureThreshold)

\* HALF_OPEN slots are never refilled: those in use are the probes in flight
\* and the probes that were cancelled, and never more than half_open_max_calls.
SlotsAccounted ==
  /\ state = "HALF_OPEN" =>
       /\ halfOpenCalls = Cardinality(Probes) + wasted
       /\ halfOpenCalls <= HalfOpenMaxCalls
  /\ state # "HALF_OPEN" => Probes = {}

\* An open breaker lets calls through again, and HALF_OPEN ends, unless every
\* one of its slots went to a call that was cancelled.
EventuallyDecides ==
  /\ state = "OPEN" ~> state # "OPEN"
  /\ state = "HALF_OPEN" ~> (state # "HALF_OPEN" \/ wasted = HalfOpenMaxCalls)
=============================================================================
