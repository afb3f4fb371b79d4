------------------------------ MODULE Bulkhead ------------------------------
(***************************************************************************)
(* backend/shared/resilience/bulkhead.py: one Bulkhead and the coroutines  *)
(* that go through its run().                                              *)
(*                                                                         *)
(* The sections under the asyncio lock hold no await and are single steps. *)
(* asyncio.Semaphore serves its waiters in order: a release hands the      *)
(* permit to the first waiter, which resumes later ("granted").  A call    *)
(* may be cancelled wherever it is suspended.                              *)
(***************************************************************************)
EXTENDS Integers, FiniteSets, Sequences, SequencesExt, FiniteSetsExt

CONSTANTS
  Caller,          \* callers; each has at most one call in progress
  MaxConcurrent,   \* max_concurrent
  MaxQueue,        \* max_queue
  MaxAbandoned     \* bound: cancellations of calls that wait

ASSUME BulkheadAssumption ==
  /\ IsFiniteSet(Caller)
  /\ MaxConcurrent \in Nat \ {0} /\ MaxQueue \in Nat /\ MaxAbandoned \in Nat

VARIABLES
  queueCount,      \* _queue_count, and the queue_depth gauge
  inFlight,        \* _in_flight_count, and the in_flight gauge
  permits,         \* the semaphore's value
  waiters,         \* the semaphore's waiters without a permit, in order
  granted,         \* calls that were handed a permit and have not resumed
  running,         \* calls whose protected coroutine is in progress
  leaked           \* history: calls cancelled before they resumed

bulkheadVars == <<queueCount, inFlight, permits, waiters, granted, running, leaked>>

Waiting == ToSet(waiters) \cup granted
Busy == Waiting \cup running

BulkheadInit ==
  /\ queueCount = 0 /\ inFlight = 0
  /\ permits = MaxConcurrent
  /\ waiters = <<>> /\ granted = {} /\ running = {}
  /\ leaked = 0

-----------------------------------------------------------------------------
(* asyncio.Semaphore                                                       *)

\* Hand permits out of value to the first waiters, at most k of them.
Wake(k, value, ws, gs) ==
  LET n == Min({k, value, Len(ws)})
  IN  /\ permits' = value - n
      /\ waiters' = SubSeq(ws, n + 1, Len(ws))
      /\ granted' = gs \cup ToSet(SubSeq(ws, 1, n))

\* A permit is free and nobody, woken or not, is waiting for one.
Unlocked == permits > 0 /\ waiters = <<>> /\ granted = {}

\* Leaving the semaphore wakes one waiter.  Faulty variants: the permit is
\* kept, or given back without waking anybody.
KeepPermit == UNCHANGED <<permits, waiters, granted>>
ReleaseSilently == permits' = permits + 1 /\ UNCHANGED <<waiters, granted>>
ReleasePermit == Wake(1, permits + 1, waiters, granted)

-----------------------------------------------------------------------------
(* Bulkhead.run                                                            *)

\* _queue_count at entry and when the semaphore is acquired.  Faulty
\* variants: a call is not counted in, or not counted out.
NotCounted(n) == n
CountedIn(n) == n + 1
CountedOut(n) == n - 1

\* A call passes the queue check and gets a permit at once.
EnterAtOnce(c) ==
  /\ c \notin Busy
  /\ queueCount < MaxQueue
  /\ Unlocked
  /\ queueCount' = CountedOut(CountedIn(queueCount))
  /\ permits' = permits - 1
  /\ inFlight' = inFlight + 1
  /\ running' = running \cup {c}
  /\ UNCHANGED <<waiters, granted, leaked>>

\* A call passes the queue check and waits for the semaphore.
EnterQueue(c) ==
  /\ c \notin Busy
  /\ queueCount < MaxQueue
  /\ ~Unlocked
  /\ queueCount' = CountedIn(queueCount)
  /\ waiters' = Append(waiters, c)
  /\ UNCHANGED <<inFlight, permits, granted, running, leaked>>

\* A waiter that was handed a permit resumes.  Acquiring ends by waking as
\* many others as there are permits left.
Resume(c) ==
  /\ c \in granted
  /\ Wake(permits, permits, waiters, granted \ {c})
  /\ queueCount' = CountedOut(queueCount)
  /\ inFlight' = inFlight + 1
  /\ running' = running \cup {c}
  /\ UNCHANGED leaked

\* The protected coroutine returns, raises or is cancelled: the finally
\* clause and the semaphore's exit run in every case.
Finish(c) ==
  /\ c \in running
  /\ running' = running \ {c}
  /\ inFlight' = inFlight - 1
  /\ ReleasePermit
  /\ UNCHANGED <<queueCount, leaked>>

\* A call is cancelled while it waits.  The semaphore passes a permit it was
\* handed on; _queue_count keeps counting the call.
CancelWaiting(c) ==
  /\ leaked < MaxAbandoned
  /\ \/ /\ c \in granted
        /\ Wake(permits + 1, permits + 1, waiters, granted \ {c})
     \/ \E i \in DOMAIN waiters :
          waiters[i] = c /\ Wake(permits, permits, RemoveAt(waiters, i), granted)
  /\ leaked' = leaked + 1
  /\ UNCHANGED <<queueCount, inFlight, running>>

BulkheadNext ==
  \E c \in Caller :
    \/ EnterAtOnce(c) \/ EnterQueue(c)
    \/ Resume(c) \/ Finish(c) \/ CancelWaiting(c)

BulkheadSpec == BulkheadInit /\ [][BulkheadNext]_bulkheadVars

\* The event loop resumes what it can, and protected coroutines end.
BulkheadFairness == \A c \in Caller : WF_bulkheadVars(Resume(c)) /\ WF_bulkheadVars(Finish(c))

-----------------------------------------------------------------------------
BulkheadTypeOK ==
  /\ queueCount \in Nat /\ inFlight \in Nat /\ permits \in Nat /\ leaked \in Nat
  /\ waiters \in Seq(Caller) /\ IsInjective(waiters)
  /\ granted \subseteq Caller /\ running \subseteq Caller

\* Every permit is free, on its way to a waiter or used by a running call, so
\* at most max_concurrent calls run, however calls are cancelled.
PermitsConserved ==
  /\ permits + Cardinality(granted) + Cardinality(running) = MaxConcurrent
  /\ Cardinality(running) = inFlight

\* _queue_count is bounded by max_queue and counts the calls that wait and,
\* for good, those that were cancelled while they waited.
QueueAccounted ==
  /\ queueCount = Cardinality(Waiting) + leaked
  /\ queueCount <= MaxQueue

\* No wake-up is lost: a permit is only free while a call waits if another
\* waiter is about to resume, which will pass it on.
NoLostWakeup == waiters # <<>> /\ permits > 0 => granted # {}

\* A call that passed the queue check gets to run (or is cancelled).
EveryCallerServed == \A c \in Caller : c \in Waiting ~> c \notin Waiting
=============================================================================
