------------------------ MODULE ServiceLifecycleProofs ------------------------
(* Shutdown and the daily runs, for any calls, settings and change of the  *)
(* clock.                                                                  *)
EXTENDS ServiceLifecycle, TLAPS

\* What has ended at each stage of the shutdown, and what has not begun.
Stages ==
    /\ main \in {"pool", "schema", "start"} => \A c \in Calls : call[c] = "none"
    /\ main \in {"pool", "schema"} => loop = "none" /\ startup = "none"
    /\ main \in {"cancelLoop", "cancelStartup", "close", "ended"} =>
          \A c \in Calls : call[c] # "open"
    /\ main \in {"cancelStartup", "close", "ended"} => loop \in {"none", "ended"}
    /\ main \in {"close", "ended"} => startup \in {"none", "ended"}
    /\ main = "ended" => \A c \in Calls : call[c] # "cancelled"
    /\ pool = "closed" => main = "ended"

\* A start-up warming runs beside no start-up run of the loop.
Startups ==
    /\ startup = "warm" /\ loop \in {"sync", "warm"} => ran >= 0
    /\ loop = "asleep" => planned >= 0

IInv == TypeOK /\ Stages /\ Startups

-----------------------------------------------------------------------------
(* Wall-clock arithmetic.                                                  *)

LEMMA DayOf ==
    ASSUME NEW l \in Int
    PROVE  /\ l \div Day \in Int
           /\ (l \div Day) * Day <= l
           /\ l < (l \div Day) * Day + Day
  BY LifecycleAssumption, SMT

LEMMA ClockTypes ==
    /\ \A t \in Nat : Local(t) \in Nat
    /\ \A l \in Int : Utc(l) \in Int
    /\ \A date \in Int : SyncAt(date) \in Int
  BY LifecycleAssumption, SMT DEF Local, Utc, SyncAt

LEMMA NextDateIs ==
    ASSUME now \in Nat
    PROVE  /\ NextDate \in Nat
           /\ \A date \in Int : SyncAt(date) < Local(now) <=> date < NextDate
<1> DEFINE L == Local(now)
           today == L \div Day
<1>1. L \in Nat /\ Day \in Nat \ {0} /\ SyncTime \in 0 .. Day - 1
  BY ClockTypes, LifecycleAssumption
<1>2. today \in Int /\ today * Day <= L /\ L < today * Day + Day
  BY <1>1, DayOf
<1> HIDE DEF L
<1>3. today >= 0
  BY <1>1, SMT
<1>4. NextDate = IF SyncAt(today) < L THEN today + 1 ELSE today
  BY DEF NextDate, L
<1> HIDE DEF today
<1>5. ASSUME NEW date \in Int, date < today
      PROVE  SyncAt(date) < L
  <2> DEFINE d == today - 1 - date
  <2>1. d \in Nat /\ today = date + 1 + d
    BY <1>2, <1>5, SMT
  <2> HIDE DEF d
  <2>2. d * Day \in Nat /\ today * Day = date * Day + Day + d * Day
    BY <1>1, <2>1, SMT
  <2>3. date * Day \in Int
    BY <1>1, SMT
  <2> QED
    BY <1>1, <1>2, <2>2, <2>3, SMT DEF SyncAt
<1>6. ASSUME NEW date \in Int, date > today
      PROVE  ~(SyncAt(date) < L)
  <2> DEFINE d == date - 1 - today
  <2>1. d \in Nat /\ date = today + 1 + d
    BY <1>2, <1>6, SMT
  <2> HIDE DEF d
  <2>2. d * Day \in Nat /\ date * Day = today * Day + Day + d * Day
    BY <1>1, <1>2, <2>1, SMT
  <2>3. today * Day \in Int
    BY <1>1, <1>2, SMT
  <2> QED
    BY <1>1, <1>2, <2>2, <2>3, SMT DEF SyncAt
<1>7. \A date \in Int : SyncAt(date) < L <=> date < NextDate
  <2> SUFFICES ASSUME NEW date \in Int
               PROVE  SyncAt(date) < L <=> date < NextDate
    OBVIOUS
  <2>1. CASE date = today
    BY <1>2, <1>4, <2>1, SMT
  <2>2. CASE date < today
    BY <1>2, <1>4, <1>5, <2>2, SMT
  <2>3. CASE date > today
    BY <1>2, <1>4, <1>6, <2>3, SMT
  <2> QED
    BY <1>2, <2>1, <2>2, <2>3, SMT
<1> QED
  BY <1>2, <1>3, <1>4, <1>7, SMT DEF L

LEMMA WakeTimeIs ==
    ASSUME now \in Nat, NEW date \in Int
    PROVE  WakeTime(date) \in Nat /\ WakeTime(date) >= Utc(SyncAt(date))
  BY ClockTypes, SMT DEF WakeTime

-----------------------------------------------------------------------------
LEMMA InitIInv == Init => IInv
<1> SUFFICES ASSUME Init
             PROVE  IInv
  OBVIOUS
<1>1. now \in Nat
  BY LifecycleAssumption, SMT DEF Init
<1>2. TypeOK
  <2>1. settings \subseteq Switches /\ call \in [Calls -> {"none", "open", "cancelled", "ended"}]
    BY Zenon DEF Init
  <2>2. {now, began, slept, wake, due} \subseteq Nat /\ planned \in Int /\ ran \in Int
    BY <1>1, SMT DEF Init
  <2> QED
    BY <2>1, <2>2 DEF Init, TypeOK
<1>3. Stages /\ Startups
  BY DEF Init, Stages, Startups
<1> QED
  BY <1>2, <1>3 DEF IInv

LEMMA NextIInv == IInv /\ [Next]_vars => IInv'
<1> SUFFICES ASSUME IInv, [Next]_vars
             PROVE  IInv'
  OBVIOUS
<1> USE DEF IInv, loopVars
<1>1. CASE Tick \/ Signal \/ CreatePool \/ Start
  <2>1. now' \in Nat
    BY <1>1, SMT DEF Tick, Signal, CreatePool, Start, TypeOK
  <2>2. settings' = settings /\ signalled' \in BOOLEAN
    BY <1>1, Zenon DEF Tick, Signal, CreatePool, Start, TypeOK
  <2>3. main' \in {"pool", "schema", "start", "serve", "drain", "cancelLoop",
                   "cancelStartup", "close", "ended", "died"}
        /\ pool' \in {"none", "open", "closed"}
    BY <1>1 DEF Tick, Signal, CreatePool, Start, TypeOK
  <2>4. UNCHANGED <<loop, began, slept, wake, planned, ran, startup, call, due>>
    BY <1>1, Zenon DEF Tick, Signal, CreatePool, Start
  <2>5. TypeOK'
    BY <2>1, <2>2, <2>3, <2>4 DEF TypeOK
  <2>6. Stages' /\ Startups'
    BY <1>1 DEF Tick, Signal, CreatePool, Start, Stages, Startups
  <2> QED
    BY <2>5, <2>6
<1>2. CASE Build
  <2>1. loop' \in {"none", "sync", "plan"} /\ startup' \in {"none", "warm"}
    BY <1>2 DEF Build, LoopAtStartup, Stages
  <2>2. ~(startup' = "warm" /\ loop' = "sync")
    BY <1>2 DEF Build, LoopAtStartup, WarmsAtStartup, Stages
  <2>3. main' \in {"start", "died"} /\ pool' = pool /\ call' = call
    BY <1>2 DEF Build
  <2>4. TypeOK'
    BY <1>2, <2>1, <2>3 DEF Build, TypeOK
  <2>5. Stages' /\ Startups'
    BY <1>2, <2>1, <2>2, <2>3 DEF Build, Stages, Startups
  <2> QED
    BY <2>4, <2>5
<1>3. CASE Plan
  <2>1. planned' \in Nat /\ wake' \in Nat
    BY <1>3, NextDateIs, WakeTimeIs DEF Plan, TypeOK
  <2> QED
    BY <1>3, <2>1, SMT DEF Plan, Running, TypeOK, Stages, Startups
<1>4. CASE Wake \/ SyncReturns \/ WarmReturns \/ StartupWarmReturns
  BY <1>4, SMT DEF Wake, SyncReturns, AfterSync, WarmReturns, StartupWarmReturns,
                   Running, TypeOK, Stages, Startups
<1>5. ASSUME NEW c \in Calls, Accept(c) \/ CallEnds(c)
      PROVE  IInv'
  BY <1>5, SMT DEF Accept, CallEnds, Running, TypeOK, Stages, Startups
<1>6. CASE Stop \/ Drained \/ CancelCalls
  BY <1>6, LifecycleAssumption, SMT
     DEF Stop, GraceEnd, Drained, CancelCalls, TypeOK, Stages, Startups
<1>7. CASE CancelLoop \/ CancelStartup \/ Close
  BY <1>7, SMT DEF CancelLoop, LoopCancelled, CancelStartup, Close, TypeOK, Stages, Startups
<1>8. CASE UNCHANGED vars
  BY <1>8 DEF vars, TypeOK, Stages, Startups
<1> QED
  BY <1>1, <1>2, <1>3, <1>4, <1>5, <1>6, <1>7, <1>8 DEF Next, Main, Background

LEMMA InvariantIInv == Spec => []IInv
  BY InitIInv, NextIInv, PTL DEF Spec

-----------------------------------------------------------------------------
(***************************************************************************)
(* The state of the process keeps its type.                                *)
(***************************************************************************)
THEOREM TypeCorrect == Spec => []TypeOK
<1>1. IInv => TypeOK
  BY DEF IInv
<1> QED
  BY <1>1, InvariantIInv, PTL

(***************************************************************************)
(* The pool is closed after the tasks and handlers that use it have ended, *)
(* in whatever order signal, failed start and grace period come.           *)
(***************************************************************************)
THEOREM PoolIsClosedLast == Spec => []PoolOutlivesItsUsers
<1>1. IInv => PoolOutlivesItsUsers
  BY DEF IInv, Stages, PoolOutlivesItsUsers
<1> QED
  BY <1>1, InvariantIInv, PTL

(***************************************************************************)
(* No settings make a start-up run of the loop and the start-up warming    *)
(* warm at once.                                                           *)
(***************************************************************************)
THEOREM StartupsDoNotOverlap == Spec => []OneWarmingAtStartup
<1>1. IInv => OneWarmingAtStartup
  BY DEF IInv, Startups, OneWarmingAtStartup
<1> QED
  BY <1>1, InvariantIInv, PTL

-----------------------------------------------------------------------------
(* The clock of the loop, when no daily run is due in an hour that the     *)
(* change of the local clock skips or repeats.                             *)

SyncHourIsUnique ==
    \A date \in Int : SyncAt(date) \notin (ShiftAt .. ShiftAt + Shift - 1)
                                     \cup (ShiftAt + Shift .. ShiftAt - 1)

DueAt(date) == Utc(SyncAt(date))

Clock ==
    /\ main \in {"pool", "schema"} => loop = "none" /\ ran = -1
    /\ loop = "asleep" => /\ planned > ran
                          /\ wake = DueAt(planned)
                          /\ \A date \in Int : DueAt(date) < slept <=> date < planned
    /\ loop = "sync" => DueAt(ran) <= began /\ began <= now
    /\ loop \in {"warm", "plan"} => DueAt(ran) < now

LEMMA DueTypes == \A date \in Int : DueAt(date) \in Int
  BY ClockTypes DEF DueAt

LEMMA DueMonotone ==
    ASSUME NEW d \in Int, NEW e \in Int, d <= e
    PROVE  DueAt(d) <= DueAt(e)
<1>1. CASE d = e
  BY <1>1, DueTypes, SMT
<1>2. CASE d < e
  <2> DEFINE n == e - 1 - d
  <2>1. n \in Nat /\ e = d + 1 + n
    BY <1>2, SMT
  <2> HIDE DEF n
  <2>2. n * Day \in Nat /\ e * Day = d * Day + Day + n * Day /\ d * Day \in Int
    BY <2>1, LifecycleAssumption, SMT
  <2>3. SyncAt(d) + Day <= SyncAt(e)
    BY <2>2, LifecycleAssumption, SMT DEF SyncAt
  <2> QED
    BY <2>3, ClockTypes, LifecycleAssumption, SMT DEF DueAt, Utc
<1> QED
  BY <1>1, <1>2, SMT

LEMMA DueBefore ==
    ASSUME SyncHourIsUnique, NEW t \in Nat, NEW date \in Int
    PROVE  SyncAt(date) < Local(t) <=> DueAt(date) < t
<1>1. SyncAt(date) \in Int
  BY ClockTypes
<1>2. SyncAt(date) \notin ShiftAt .. ShiftAt + Shift - 1
  BY DEF SyncHourIsUnique
<1>3. SyncAt(date) \notin ShiftAt + Shift .. ShiftAt - 1
  BY DEF SyncHourIsUnique
<1> QED
  BY <1>1, <1>2, <1>3, LifecycleAssumption, SMT DEF DueAt, Utc, Local

LEMMA NothingDueYet == DueAt(-1) < 0
<1>1. SyncAt(-1) \in Int /\ SyncAt(-1) < 0
  BY LifecycleAssumption, SMT DEF SyncAt
<1> QED
  BY <1>1, LifecycleAssumption, SMT DEF DueAt, Utc

LEMMA NextClock ==
    ASSUME SyncHourIsUnique, IInv, Clock, [Next]_vars
    PROVE  Clock'
<1> USE DEF loopVars
<1>1. now \in Nat /\ began \in Nat /\ ran \in Int /\ planned \in Int
  BY DEF IInv, TypeOK
<1>2. DueAt(ran) \in Int /\ DueAt(planned) \in Int
  BY <1>1, DueTypes
<1>3. CASE Tick
  BY <1>1, <1>2, <1>3, SMT DEF Tick, Clock
<1>4. CASE CreatePool \/ Signal \/ Start
  BY <1>4 DEF CreatePool, Signal, Start, Clock
<1>5. CASE Build
  <2>1. ran = -1 /\ ran' = -1 /\ main' \in {"start", "died"} /\ now' = now
    BY <1>5 DEF Build, Clock
  <2>2. DueAt(-1) \in Int /\ DueAt(-1) < 0
    BY DueTypes, NothingDueYet
  <2>3. \/ loop' = "none"
        \/ loop' \in {"sync", "plan"} /\ began' = now
    BY <1>5 DEF Build, LoopAtStartup, Clock
  <2> QED
    BY <1>1, <2>1, <2>2, <2>3, SMT DEF Clock
<1>6. CASE Plan
  <2>1. planned' = NextDate /\ NextDate \in Int
    BY <1>1, <1>6, NextDateIs DEF Plan
  <2>2. \A date \in Int : DueAt(date) < now <=> date < NextDate
    BY <1>1, NextDateIs, DueBefore
  <2>3. ran < NextDate
    BY <1>1, <1>6, <2>2 DEF Plan, Clock
  <2>4. DueAt(NextDate) \in Int /\ ~(DueAt(NextDate) < now)
    <3>1. ~(NextDate < NextDate)
      BY <2>1, SMT
    <3> QED
      BY <2>1, <2>2, <3>1, DueTypes
  <2>5. WakeTime(NextDate) = DueAt(NextDate)
    BY <2>4 DEF WakeTime, DueAt
  <2>6. wake' = DueAt(planned') /\ slept' = now /\ ran' = ran /\ loop' = "asleep" /\ main' = main
    BY <2>1, <2>5, <1>6 DEF Plan
  <2>7. main \notin {"pool", "schema"}
    BY <1>6 DEF Plan, Running
  <2>8. planned' > ran'
    BY <1>1, <2>1, <2>3, <2>6, SMT
  <2> QED
    BY <2>1, <2>2, <2>6, <2>7, <2>8 DEF Clock
<1>7. CASE Wake
  BY <1>1, <1>2, <1>7, SMT DEF Wake, Running, Clock
<1>8. CASE SyncReturns \/ WarmReturns \/ StartupWarmReturns
  BY <1>1, <1>2, <1>8, SMT DEF SyncReturns, AfterSync, WarmReturns, StartupWarmReturns, Running, Clock
<1>9. CASE Stop \/ Drained \/ CancelCalls \/ CancelLoop \/ CancelStartup \/ Close
  BY <1>9 DEF Stop, Drained, CancelCalls, CancelLoop, LoopCancelled, CancelStartup, Close, Clock
<1>10. ASSUME NEW c \in Calls, Accept(c) \/ CallEnds(c)
       PROVE  Clock'
  BY <1>10 DEF Accept, CallEnds, Clock
<1>11. CASE UNCHANGED vars
  BY <1>11 DEF vars, Clock
<1> QED
  BY <1>3, <1>4, <1>5, <1>6, <1>7, <1>8, <1>9, <1>10, <1>11 DEF Next, Main, Background

LEMMA InvariantClock ==
    ASSUME SyncHourIsUnique
    PROVE  Spec => [](IInv /\ Clock)
<1>1. Init => Clock
  BY DEF Init, Clock
<1>2. IInv /\ Clock /\ [Next]_vars => Clock'
  BY NextClock
<1> QED
  BY <1>1, <1>2, InvariantIInv, PTL DEF Spec

(***************************************************************************)
(* The loop sleeps to the first moment at which a run is due, so that none *)
(* is slept through, for any time of day outside the hour that the change  *)
(* of the clock skips or repeats.                                          *)
(***************************************************************************)
THEOREM EveryRunIsPlanned ==
    ASSUME SyncHourIsUnique
    PROVE  Spec => []NoRunSleptThrough
<1>1. IInv /\ Clock => NoRunSleptThrough
  <2> SUFFICES ASSUME IInv, Clock, loop = "asleep",
                      NEW date \in 0 .. Horizon + 1, DueAt(date) >= slept
               PROVE  wake <= DueAt(date)
    BY DEF NoRunSleptThrough, DueAt
  <2>1. date \in Int /\ planned \in Int /\ slept \in Nat
    BY DEF IInv, TypeOK
  <2>2. ~(DueAt(date) < slept)
    BY <2>1, DueTypes, SMT
  <2>3. planned <= date
    BY <2>1, <2>2, SMT DEF Clock
  <2> QED
    BY <2>1, <2>3, DueMonotone DEF Clock
<1> QED
  BY <1>1, InvariantClock, PTL

(***************************************************************************)
(* No date has two runs: after the run of one date the loop sleeps to that *)
(* of a later one, under the same condition.                               *)
(***************************************************************************)
THEOREM NoDateRunsTwice ==
    ASSUME SyncHourIsUnique
    PROVE  Spec => []NextRunIsLater
<1>1. IInv /\ Clock => NextRunIsLater
  BY DEF Clock, NextRunIsLater
<1> QED
  BY <1>1, InvariantClock, PTL
=============================================================================
