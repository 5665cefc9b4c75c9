----------------------- MODULE RequestRateLimiterProofs -----------------------
(* The rate of RequestRateLimiter for any number of tasks, any interval    *)
(* and a clock that runs to any time.                                      *)
EXTENDS RequestRateLimiter, FiniteSetTheorems, WellFoundedInduction, TLAPS

\* The sleeper measured the time before its slot and after every start.
SleeperInOrder ==
    holder # NoTask =>
        /\ seen < nextAllowed
        /\ \A i \in 1 .. Len(starts) : starts[i] <= seen

StartsInPast == \A i \in 1 .. Len(starts) : starts[i] <= now

\* All starts but the last have pushed the next slot one interval each.
SlotsPaid ==
    \A i \in 1 .. Len(starts) - 1 :
        nextAllowed >= starts[i] + (Len(starts) - i) * Interval

IInv ==
    /\ TypeOK
    /\ StartsInPast
    /\ SleeperInOrder
    /\ SlotsPaid
    /\ NoLostSlot
    /\ RateBound

LEMMA InitIInv == Init => IInv
  BY LimiterAssumption, SMT DEF Init, IInv, TypeOK, StartsInPast,
     SleeperInOrder, SlotsPaid, NoLostSlot, RateBound

\* One more slot costs one more interval.
LEMMA OneMore == \A n \in Int : (n + 1) * Interval = n * Interval + Interval
  BY LimiterAssumption, SMT

\* What a return does, for the holder or for a caller without a delay: m is
\* the measured time, at or after every start.
LEMMA ReturnKeeps ==
    ASSUME TypeOK, StartsInPast, SlotsPaid, NoLostSlot, RateBound,
           NEW m \in Nat, m <= now, nextAllowed <= now,
           \A i \in 1 .. Len(starts) : starts[i] <= m,
           Return(m), now' = now
    PROVE  /\ nextAllowed' \in Nat
           /\ starts' \in Seq(Nat)
           /\ StartsInPast'
           /\ SlotsPaid'
           /\ NoLostSlot'
           /\ RateBound'
<1> DEFINE L == Len(starts)
<1>1. /\ L \in Nat
      /\ starts' \in Seq(Nat)
      /\ Len(starts') = L + 1
      /\ starts'[L + 1] = now
      /\ \A i \in 1 .. L : starts'[i] = starts[i] /\ starts[i] \in Nat
  BY SMT DEF TypeOK, Return
<1>2. /\ nextAllowed' \in Nat
      /\ nextAllowed' >= nextAllowed + Interval
      /\ nextAllowed' >= m + Interval
      /\ nextAllowed' <= now + Interval
  BY LimiterAssumption, SMT DEF TypeOK, Return, Later
<1>3. StartsInPast'
  <2> SUFFICES ASSUME NEW i \in 1 .. L + 1
               PROVE  starts'[i] <= now
    BY <1>1, SMT DEF StartsInPast
  <2>1. CASE i = L + 1
    BY <2>1, <1>1, SMT DEF TypeOK
  <2>2. CASE i \in 1 .. L
    BY <2>2, <1>1, SMT DEF StartsInPast
  <2> QED
    BY <2>1, <2>2, <1>1, SMT
<1>4. SlotsPaid'
  <2> SUFFICES ASSUME NEW i \in 1 .. L
               PROVE  nextAllowed' >= starts[i] + (L + 1 - i) * Interval
    BY <1>1, SMT DEF SlotsPaid
  <2>1. CASE i = L
    <3>1. (L + 1 - i) * Interval = Interval
      BY <2>1, <1>1, LimiterAssumption, SMT
    <3>2. starts[i] <= m /\ starts[i] \in Nat
      BY <1>1
    <3> QED
      BY <3>1, <3>2, <1>2, LimiterAssumption, SMT
  <2>2. CASE i # L
    <3>1. nextAllowed >= starts[i] + (L - i) * Interval
      BY <2>2, <1>1, SMT DEF SlotsPaid
    <3>2. ((L - i) + 1) * Interval = (L - i) * Interval + Interval
      BY <1>1, OneMore
    <3>3. (L - i) + 1 = L + 1 - i
      BY <1>1, SMT
    <3>4. (L - i) * Interval \in Int /\ starts[i] \in Nat
      BY <1>1, LimiterAssumption, SMT
    <3> QED
      BY <3>1, <3>2, <3>3, <3>4, <1>2, LimiterAssumption, SMT DEF TypeOK
  <2> QED
    BY <2>1, <2>2
<1>5. RateBound'
  <2> SUFFICES ASSUME NEW j \in 1 .. L + 1, NEW i \in 1 .. j - 1
               PROVE  starts'[j] - starts'[i] >= (j - i - 1) * Interval
    BY <1>1, SMT DEF RateBound
  <2>1. CASE j <= L
    <3>1. i \in 1 .. L /\ j \in 1 .. L
      BY <2>1, <1>1, SMT
    <3>2. starts[j] - starts[i] >= (j - i - 1) * Interval
      BY <3>1 DEF RateBound
    <3> QED
      BY <3>1, <3>2, <1>1
  <2>2. CASE j = L + 1 /\ i = L
    <3>1. (j - i - 1) * Interval = 0
      BY <2>2, <1>1, LimiterAssumption, SMT
    <3>2. starts'[j] = now /\ starts'[i] = starts[i] /\ starts[i] <= now
      BY <2>2, <1>1, SMT DEF StartsInPast
    <3> QED
      BY <3>1, <3>2, <1>1, <2>2, SMT DEF TypeOK
  <2>3. CASE j = L + 1 /\ i < L
    <3>1. nextAllowed >= starts[i] + (L - i) * Interval
      BY <2>3, <1>1, SMT DEF SlotsPaid
    <3>2. starts'[j] = now /\ starts'[i] = starts[i] /\ j - i - 1 = L - i
      BY <2>3, <1>1, SMT
    <3>3. (L - i) * Interval \in Int /\ starts[i] \in Nat /\ now \in Nat
      <4>1. L - i \in Int /\ Interval \in Int /\ i \in 1 .. L
        BY <2>3, <1>1, LimiterAssumption, SMT
      <4>2. starts[i] \in Nat /\ now \in Nat
        BY <4>1, SMT DEF TypeOK
      <4> QED
        BY <4>1, <4>2, SMT
    <3>4. now >= nextAllowed /\ nextAllowed \in Nat
      BY SMT DEF TypeOK
    <3> HIDE DEF L
    <3> QED
      BY <3>1, <3>2, <3>3, <3>4, SMT
  <2>4. j <= L \/ (j = L + 1 /\ i = L) \/ (j = L + 1 /\ i < L)
    <3>1. L \in Nat
      BY <1>1
    <3> HIDE DEF L
    <3> QED
      BY <3>1, SMT
  <2> QED
    BY <2>1, <2>2, <2>3, <2>4, Zenon
<1>6. NoLostSlot'
  BY <1>2 DEF NoLostSlot
<1> QED
  BY <1>1, <1>2, <1>3, <1>4, <1>5, <1>6

LEMMA NextIInv == IInv /\ [Next]_vars => IInv'
<1> SUFFICES ASSUME IInv, [Next]_vars
             PROVE  IInv'
  OBVIOUS
<1> USE LimiterAssumption
<1> USE DEF IInv
<1>1. ASSUME NEW t \in Tasks, Call(t)
      PROVE  IInv'
  BY <1>1, SMT DEF Call, TypeOK, StartsInPast, SleeperInOrder, SlotsPaid,
     NoLostSlot, RateBound
<1>2. ASSUME NEW t \in Tasks, Measure(t)
      PROVE  IInv'
  <2>1. waiters' \in Seq(Tasks) /\ now' = now
    BY <1>2, SMT DEF Measure, TypeOK
  <2>2. CASE nextAllowed <= now /\ Return(now) /\ UNCHANGED <<holder, seen>>
    <3>1. \A i \in 1 .. Len(starts) : starts[i] <= now
      BY DEF StartsInPast
    <3>2. now \in Nat /\ now <= now
      BY SMT DEF TypeOK
    <3>3. /\ nextAllowed' \in Nat
          /\ starts' \in Seq(Nat)
          /\ StartsInPast'
          /\ SlotsPaid'
          /\ NoLostSlot'
          /\ RateBound'
      BY <2>1, <2>2, <3>1, <3>2, ReturnKeeps
    <3>4. SleeperInOrder'
      BY <1>2, <2>2 DEF Measure, SleeperInOrder
    <3> QED
      BY <2>1, <2>2, <3>3, <3>4 DEF TypeOK
  <2>3. CASE /\ nextAllowed > now
             /\ holder' = t
             /\ seen' = now
             /\ UNCHANGED <<nextAllowed, starts>>
    BY <2>1, <2>3, SMT DEF TypeOK, StartsInPast, SleeperInOrder, SlotsPaid,
       NoLostSlot, RateBound
  <2> QED
    BY <1>2, <2>2, <2>3 DEF Measure
<1>3. ASSUME NEW t \in Tasks, Wake(t)
      PROVE  IInv'
  <2>1. /\ holder # NoTask
        /\ nextAllowed <= now
        /\ now' = now
        /\ seen \in Nat
        /\ seen <= now
        /\ \A i \in 1 .. Len(starts) : starts[i] <= seen
    BY <1>3, SMT DEF Wake, TypeOK, SleeperInOrder
  <2>2. /\ nextAllowed' \in Nat
        /\ starts' \in Seq(Nat)
        /\ StartsInPast'
        /\ SlotsPaid'
        /\ NoLostSlot'
        /\ RateBound'
    BY <1>3, <2>1, ReturnKeeps DEF Wake
  <2>3. TypeOK' /\ SleeperInOrder'
    BY <1>3, <2>2 DEF Wake, TypeOK, SleeperInOrder
  <2> QED
    BY <2>2, <2>3
<1>4. ASSUME NEW t \in Tasks, CancelSleeper(t)
      PROVE  IInv'
  BY <1>4, SMT DEF CancelSleeper, TypeOK, StartsInPast, SleeperInOrder,
     SlotsPaid, NoLostSlot, RateBound
<1>5. ASSUME NEW i \in DOMAIN waiters, CancelWaiter(i)
      PROVE  IInv'
  <2>1. waiters' \in Seq(Tasks)
    <3>1. waiters \in Seq(Tasks) /\ i \in 1 .. Len(waiters) /\ Len(waiters) \in Nat
      BY SMT DEF TypeOK
    <3>2. \A j \in 1 .. Len(waiters) - 1 :
             waiters[IF j < i THEN j ELSE j + 1] \in Tasks
      BY <3>1, SMT
    <3> QED
      BY <1>5, <3>1, <3>2, SMT DEF CancelWaiter
  <2> QED
    BY <1>5, <2>1, SMT DEF CancelWaiter, TypeOK, StartsInPast,
       SleeperInOrder, SlotsPaid, NoLostSlot, RateBound
<1>6. CASE Tick
  BY <1>6, SMT DEF Tick, TypeOK, StartsInPast, SleeperInOrder, SlotsPaid,
     NoLostSlot, RateBound
<1>7. CASE UNCHANGED vars
  BY <1>7, SMT DEF vars, TypeOK, StartsInPast, SleeperInOrder, SlotsPaid,
     NoLostSlot, RateBound
<1> QED
  BY <1>1, <1>2, <1>3, <1>4, <1>5, <1>6, <1>7 DEF Next

LEMMA InvariantIInv == Spec => []IInv
<1>1. Init => IInv
  BY InitIInv
<1>2. IInv /\ [Next]_vars => IInv'
  BY NextIInv
<1> QED
  BY <1>1, <1>2, PTL DEF Spec

(***************************************************************************)
(* The limiter's state keeps its type: in particular a cancelled waiter    *)
(* leaves the queue of the lock well formed.                               *)
(***************************************************************************)
THEOREM TypeCorrect == Spec => []TypeOK
<1>1. IInv => TypeOK
  BY DEF IInv
<1> QED
  BY <1>1, InvariantIInv, PTL

(***************************************************************************)
(* RequestRateLimiter.wait lets at most n calls start in any stretch of    *)
(* time shorter than n - 1 intervals, whatever is late or cancelled.       *)
(***************************************************************************)
THEOREM RateIsBounded == Spec => []RateBound
<1>1. IInv => RateBound
  BY DEF IInv
<1> QED
  BY <1>1, InvariantIInv, PTL

(***************************************************************************)
(* No cancelled call of RequestRateLimiter.wait costs the callers after it *)
(* a slot: the next one is never more than an interval away.               *)
(***************************************************************************)
THEOREM NoSlotIsLost == Spec => []NoLostSlot
<1>1. IInv => NoLostSlot
  BY DEF IInv
<1> QED
  BY <1>1, InvariantIInv, PTL

-----------------------------------------------------------------------------
(* What the operator of Stock Service reads off the bound: how many calls  *)
(* one limiter starts in a window of time, wherever the window lies.       *)

Window(a, n) == {i \in 1 .. Len(starts) : a <= starts[i] /\ starts[i] < a + n * Interval}

WindowBound == \A a \in Nat, n \in Nat : Cardinality(Window(a, n)) <= n + 1

LEMMA LeastElement ==
    ASSUME NEW S \in SUBSET Nat, S # {}
    PROVE  \E m \in S : \A k \in S : m <= k
<1> DEFINE R == OpToRel(<, Nat)
<1>1. PICK m \in S : \A k \in S : ~ (<<k, m>> \in R)
  <2> HIDE DEF R
  <2>1. IsWellFoundedOn(R, Nat)
    BY NatLessThanWellFounded DEF R
  <2> QED
    BY <2>1, WFMin
<1>2. \A k \in S : ~ (k < m)
  BY <1>1 DEF OpToRel
<1> QED
  BY <1>2, SMT

\* Fewer intervals do not last longer.
LEMMA FewerIntervals ==
    ASSUME NEW d \in Int, NEW n \in Nat, d * Interval < n * Interval
    PROVE  d < n
<1> SUFFICES ASSUME d >= n
             PROVE  FALSE
  BY SMT
<1> DEFINE e == d - n
<1>1. e \in Nat /\ Interval \in Nat
  BY LimiterAssumption, SMT
<1>2. d * Interval = n * Interval + e * Interval
  BY <1>1, SMT
<1>3. e * Interval \in Nat /\ n * Interval \in Int
  BY <1>1, SMT
<1> QED
  BY <1>2, <1>3, SMT

(***************************************************************************)
(* A limiter of r requests per second starts at most n + 1 calls in any n  *)
(* of its intervals, thus at most r + 1 in any second: one more than the   *)
(* setting says, and never a burst, whatever was slow or cancelled before. *)
(***************************************************************************)
THEOREM WindowIsBounded == Spec => []WindowBound
<1>1. ASSUME TypeOK, RateBound, NEW a \in Nat, NEW n \in Nat
      PROVE  Cardinality(Window(a, n)) <= n + 1
  <2> DEFINE W == Window(a, n)
  <2>1. CASE W = {}
    BY <2>1, FS_EmptySet, SMT
  <2>2. CASE W # {}
    <3>1. W \in SUBSET Nat
      BY <1>1, SMT DEF Window, TypeOK
    <3>2. PICK m \in W : \A k \in W : m <= k
      BY <2>2, <3>1, LeastElement
    <3>3. ASSUME NEW k \in W
          PROVE  k \in m .. m + n
      <4>1. m \in Nat /\ k \in Nat /\ m <= k
        BY <3>1, <3>2
      <4>2. CASE k = m
        BY <4>1, <4>2, SMT
      <4>3. CASE k # m
        <5>1. /\ starts[k] - starts[m] >= (k - m - 1) * Interval
              /\ a <= starts[m] /\ starts[k] < a + n * Interval
              /\ starts[k] \in Nat /\ starts[m] \in Nat
          <6>1. /\ k \in 1 .. Len(starts) /\ m \in 1 .. Len(starts)
                /\ a <= starts[m] /\ starts[k] < a + n * Interval
            BY Zenon DEF Window
          <6>2. Len(starts) \in Nat /\ starts[k] \in Nat /\ starts[m] \in Nat
            BY <1>1, <6>1, SMT DEF TypeOK
          <6>3. m \in 1 .. k - 1
            BY <4>1, <4>3, <6>1, <6>2, SMT
          <6> QED
            BY <1>1, <6>1, <6>2, <6>3 DEF RateBound
        <5> DEFINE d == k - m - 1
        <5>2. d \in Int /\ d * Interval \in Int /\ n * Interval \in Int
          BY <4>1, LimiterAssumption, SMT
        <5>3. d * Interval < n * Interval
          BY <5>1, <5>2, SMT
        <5>4. d < n
          BY <5>2, <5>3, FewerIntervals
        <5> QED
          BY <4>1, <5>4, SMT
      <4> QED
        BY <4>2, <4>3
    <3>4. IsFiniteSet(m .. m + n) /\ Cardinality(m .. m + n) = n + 1
      <4>1. m \in Int /\ m + n \in Int /\ ~(m > m + n) /\ (m + n) - m + 1 = n + 1
        BY <3>1, SMT
      <4> QED
        BY <4>1, FS_Interval, Zenon
    <3>5. Cardinality(W) <= Cardinality(m .. m + n)
      BY <3>3, <3>4, FS_Subset
    <3> QED
      BY <3>4, <3>5
  <2> QED
    BY <2>1, <2>2
<1>2. IInv => WindowBound
  BY <1>1 DEF IInv, WindowBound
<1> QED
  BY <1>2, InvariantIInv, PTL
=============================================================================
