------------------------- MODULE RequestRateLimiter -------------------------
(***************************************************************************)
(* RequestRateLimiter.wait of grpc_stock_catalog.py: an asyncio.Lock held  *)
(* across a sleep, and one number, _next_allowed, that every caller moves  *)
(* forward by the interval before it lets go of the lock.                  *)
(*                                                                         *)
(* A call is cut where the coroutine can be suspended: while it queues for *)
(* the lock (Call .. Measure) and while it sleeps (Measure .. Wake).  The  *)
(* clock may advance by any amount while it is suspended, so a sleeper may *)
(* be resumed late: that is the lag of the event loop.                     *)
(***************************************************************************)
EXTENDS Integers, Sequences

CONSTANTS
    Tasks,      \* the coroutines that share one limiter
    NoTask,     \* nobody holds the lock
    Interval,   \* 1 / requests_per_second, in clock ticks
    MaxTime     \* bound: the clock stops here

ASSUME LimiterAssumption ==
    /\ NoTask \notin Tasks
    /\ Interval \in Nat \ {0}
    /\ MaxTime \in Nat

VARIABLES
    now,            \* time.monotonic()
    nextAllowed,    \* _next_allowed
    waiters,        \* FIFO of the asyncio.Lock
    holder,         \* the task that holds the lock, asleep
    seen,           \* the holder's local variable now
    starts          \* history: when each call of wait() returned, in order

vars == <<now, nextAllowed, waiters, holder, seen, starts>>

Later(a, b) == IF a >= b THEN a ELSE b

Init ==
    /\ now \in 0 .. MaxTime
    /\ nextAllowed = 0
    /\ waiters = << >>
    /\ holder = NoTask
    /\ seen = 0
    /\ starts = << >>

Waiting == {waiters[i] : i \in DOMAIN waiters}

\* A coroutine reaches "async with self._lock".
Call(t) ==
    /\ t \notin Waiting
    /\ holder # t
    /\ waiters' = Append(waiters, t)
    /\ UNCHANGED <<now, nextAllowed, holder, seen, starts>>

\* Wrong forms: the interval is taken off; the reserved slot is forgotten.
ReturnEarlier(measured) ==
    /\ nextAllowed' = Later(measured, nextAllowed) - Interval
    /\ starts' = Append(starts, now)
ReturnFromMeasured(measured) ==
    /\ nextAllowed' = measured + Interval
    /\ starts' = Append(starts, now)

\* wait() returns: the slot after the later of the measured time and the
\* reserved one is reserved for the next caller.
Return(measured) ==
    /\ nextAllowed' = Later(measured, nextAllowed) + Interval
    /\ starts' = Append(starts, now)

\* The first waiter gets the lock and measures the time.  Without a delay it
\* returns at once; with one it keeps the lock and goes to sleep.
Measure(t) ==
    /\ holder = NoTask
    /\ waiters # << >>
    /\ t = Head(waiters)
    /\ waiters' = Tail(waiters)
    /\ \/ /\ nextAllowed <= now
          /\ Return(now)
          /\ UNCHANGED <<holder, seen>>
       \/ /\ nextAllowed > now
          /\ holder' = t
          /\ seen' = now
          /\ UNCHANGED <<nextAllowed, starts>>
    /\ UNCHANGED now

\* The sleeper is resumed, not before its delay has passed, and returns.
Wake(t) ==
    /\ holder = t
    /\ now >= nextAllowed
    /\ Return(seen)
    /\ holder' = NoTask
    /\ UNCHANGED <<now, waiters, seen>>

\* A wrong form: the slot is reserved before the sleep and stays reserved.
CancelKeepingSlot(t) ==
    /\ holder = t
    /\ nextAllowed' = nextAllowed + Interval
    /\ holder' = NoTask
    /\ UNCHANGED <<now, waiters, seen, starts>>

\* A caller is cancelled while it sleeps: async with releases the lock.
CancelSleeper(t) ==
    /\ holder = t
    /\ holder' = NoTask
    /\ UNCHANGED <<now, nextAllowed, waiters, seen, starts>>

\* A caller is cancelled while it queues for the lock.
CancelWaiter(i) ==
    /\ waiters' = [j \in 1 .. Len(waiters) - 1 |->
                     waiters[IF j < i THEN j ELSE j + 1]]
    /\ UNCHANGED <<now, nextAllowed, holder, seen, starts>>

Tick ==
    /\ now < MaxTime
    /\ now' = now + 1
    /\ UNCHANGED <<nextAllowed, waiters, holder, seen, starts>>

Next ==
    \/ \E t \in Tasks : Call(t)
    \/ \E t \in Tasks : Measure(t)
    \/ \E t \in Tasks : Wake(t)
    \/ \E t \in Tasks : CancelSleeper(t)
    \/ \E i \in DOMAIN waiters : CancelWaiter(i)
    \/ Tick

Spec == Init /\ [][Next]_vars

-----------------------------------------------------------------------------
(* Every variable keeps its type, and the history is as long as it is old. *)
TypeOK ==
    /\ now \in Nat
    /\ nextAllowed \in Nat
    /\ waiters \in Seq(Tasks)
    /\ holder \in Tasks \union {NoTask}
    /\ seen \in Nat
    /\ starts \in Seq(Nat)

(***************************************************************************)
(* The rate: of any n + 1 consecutive starts the last is at least n - 1    *)
(* intervals after the first, however late sleepers are resumed and        *)
(* whoever is cancelled.  One interval may be lost to a late sleeper, never *)
(* two: time without requests earns no credit for a burst.                 *)
(***************************************************************************)
RateBound ==
    \A j \in 1 .. Len(starts) : \A i \in 1 .. j - 1 :
        starts[j] - starts[i] >= (j - i - 1) * Interval

(***************************************************************************)
(* A slot is reserved at most one interval ahead of the clock: a caller    *)
(* that is cancelled while it waits leaves no slot behind that the callers *)
(* after it would have to wait for.                                        *)
(***************************************************************************)
NoLostSlot == nextAllowed <= now + Interval
=============================================================================
