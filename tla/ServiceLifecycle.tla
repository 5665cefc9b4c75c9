--------------------------- MODULE ServiceLifecycle ---------------------------
(***************************************************************************)
(* main.py: building the application, the background tasks beside the gRPC *)
(* server, the daily loop with the wall-clock time it sleeps to, and the   *)
(* shutdown that stops the server, then the tasks, then closes the pool.   *)
(*                                                                         *)
(* now is UTC.  The local clock is moved by Shift at UTC time ShiftAt:     *)
(* back (a fold) if Shift is negative, forward (a gap) if it is positive.  *)
(* A tick is shorter than any run of sync or warming.                      *)
(***************************************************************************)
EXTENDS Integers

CONSTANTS
    Calls,          \* calls of GetRecommendations
    Day,            \* ticks of a day
    SyncTime,       \* stock_sync_time, as ticks since midnight
    ShiftAt, Shift, \* the change of the clock in stock_sync_timezone
    Grace,          \* GRACEFUL_SHUTDOWN_SECONDS
    Horizon         \* bound on the clock

ASSUME LifecycleAssumption ==
    /\ Day \in Nat \ {0}
    /\ SyncTime \in 0 .. Day - 1
    /\ {ShiftAt, Grace, Horizon} \subseteq Nat
    /\ Shift \in -Day .. Day       \* a change is shorter than a day
    /\ ShiftAt + Shift >= 0

VARIABLES
    settings,       \* which background work is switched on
    now,
    main,           \* where _amain is
    signalled,      \* shutdown_event
    loop,           \* _run_stock_sync_loop
    began,          \* when the run of the loop began
    slept,          \* when the loop last planned its sleep
    wake,           \* until when it sleeps
    planned, ran,   \* dates of the run it sleeps to and of its last run
    startup,        \* warm_task
    call,           \* handlers of the server
    due,            \* end of the grace period
    pool

loopVars == <<loop, began, slept, wake, planned, ran>>
vars == <<settings, now, main, signalled, loopVars, startup, call, due, pool>>

Switches == {"sync", "syncOnStartup", "warmer", "warmOnStartup"}

Init ==
    /\ settings \in SUBSET Switches
    /\ now \in 0 .. Day - 1
    /\ main = "pool"
    /\ signalled = FALSE
    /\ loop = "none"
    /\ began = 0
    /\ slept = 0
    /\ wake = 0
    /\ planned = 0
    /\ ran = -1
    /\ startup = "none"
    /\ call = [c \in Calls |-> "none"]
    /\ due = 0
    /\ pool = "none"

-----------------------------------------------------------------------------
(* The wall clock, and the date and time a wall-clock reading means: one   *)
(* that occurs twice is the first, one that is skipped is read with the    *)
(* clock of before (PEP 495).                                              *)

Local(t) == IF t < ShiftAt THEN t ELSE t + Shift
Utc(l) == IF l < ShiftAt + (IF Shift > 0 THEN Shift ELSE 0) THEN l ELSE l - Shift

SyncAt(date) == date * Day + SyncTime

\* Wrong forms: a run that is due at this very moment is put off by a day;
\* the time of day is not compared.
NextDateStrict ==
    LET today == Local(now) \div Day
    IN  IF SyncAt(today) <= Local(now) THEN today + 1 ELSE today

NextDateToday == Local(now) \div Day

\* _next_sync_at compares wall-clock readings, without the zone.
NextDate ==
    LET today == Local(now) \div Day
    IN  IF SyncAt(today) < Local(now) THEN today + 1 ELSE today

\* The difference to now is taken in UTC and never negative.
WakeTime(date) == IF Utc(SyncAt(date)) < now THEN now ELSE Utc(SyncAt(date))

-----------------------------------------------------------------------------
\* Time passes; the bound gives way to a grace period or a run under way.
Tick ==
    /\ \/ now < Horizon
       \/ main = "drain" /\ now < due
       \/ loop = "sync" /\ now = began
    /\ now' = now + 1
    /\ UNCHANGED <<settings, main, signalled, loopVars, startup, call, due, pool>>

CreatePool ==
    /\ main = "pool"
    /\ \/ main' = "schema" /\ pool' = "open"
       \/ main' = "died" /\ pool' = pool
    /\ UNCHANGED <<settings, now, signalled, loopVars, startup, call, due>>

\* Wrong form: the start-up run of the loop is not taken into account.
WarmsAtStartupAnyway == "warmer" \in settings /\ "warmOnStartup" \in settings

WarmsAtStartup ==
    /\ "warmer" \in settings
    /\ "warmOnStartup" \in settings
    /\ ~("sync" \in settings /\ "syncOnStartup" \in settings)

\* The task of the loop, and the run it may begin with.
LoopAtStartup ==
    IF "sync" \notin settings THEN "none"
    ELSE IF "syncOnStartup" \in settings THEN "sync"
    ELSE "plan"

\* The schema is applied and the rest is put together, or the process dies.
Build ==
    /\ main = "schema"
    /\ \/ /\ main' = "start"
          /\ loop' = LoopAtStartup
          /\ startup' = IF WarmsAtStartup THEN "warm" ELSE "none"
          /\ began' = now
       \/ main' = "died" /\ UNCHANGED <<loop, startup, began>>
    /\ UNCHANGED <<settings, now, signalled, slept, wake, planned, ran, call, due, pool>>

\* A server that cannot start leads to the finally of _amain at once.
Start ==
    /\ main = "start"
    /\ main' \in {"serve", "cancelLoop"}
    /\ UNCHANGED <<settings, now, signalled, loopVars, startup, call, due, pool>>

Signal ==
    /\ main \in {"start", "serve"}
    /\ ~signalled
    /\ signalled' = TRUE
    /\ UNCHANGED <<settings, now, main, loopVars, startup, call, due, pool>>

-----------------------------------------------------------------------------
Running == main \notin {"pool", "schema", "died", "ended"}

Plan ==
    /\ Running
    /\ loop = "plan"
    /\ loop' = "asleep"
    /\ planned' = NextDate
    /\ wake' = WakeTime(planned')
    /\ slept' = now
    /\ UNCHANGED <<settings, now, main, signalled, began, ran, startup, call, due, pool>>

\* However late the event loop resumes it.
Wake ==
    /\ Running
    /\ loop = "asleep"
    /\ now >= wake
    /\ loop' = "sync"
    /\ began' = now
    /\ ran' = planned
    /\ UNCHANGED <<settings, now, main, signalled, slept, wake, planned, startup, call, due, pool>>

\* Wrong form: an error of the sync ends the loop.
AfterFailingSync == {"ended", "plan"}

\* _sync_stock_catalog returns, also after an error.
AfterSync == {IF "warmer" \in settings THEN "warm" ELSE "plan"}

SyncReturns ==
    /\ Running
    /\ loop = "sync"
    /\ now > began
    /\ loop' \in AfterSync
    /\ UNCHANGED <<settings, now, main, signalled, began, slept, wake, planned, ran, startup, call, due, pool>>

WarmReturns ==
    /\ Running
    /\ loop = "warm"
    /\ loop' = "plan"
    /\ UNCHANGED <<settings, now, main, signalled, began, slept, wake, planned, ran, startup, call, due, pool>>

StartupWarmReturns ==
    /\ Running
    /\ startup = "warm"
    /\ startup' = "ended"
    /\ UNCHANGED <<settings, now, main, signalled, loopVars, call, due, pool>>

-----------------------------------------------------------------------------
Accept(c) ==
    /\ main = "serve"
    /\ call[c] = "none"
    /\ call' = [call EXCEPT ![c] = "open"]
    /\ UNCHANGED <<settings, now, main, signalled, loopVars, startup, due, pool>>

\* A handler returns, or has undone its transaction after a cancellation.
CallEnds(c) ==
    /\ Running
    /\ call[c] \in {"open", "cancelled"}
    /\ call' = [call EXCEPT ![c] = "ended"]
    /\ UNCHANGED <<settings, now, main, signalled, loopVars, startup, due, pool>>

\* Wrong form: the sign of the grace period.
GraceBefore == now - Grace

GraceEnd == now + Grace

\* Health is NOT_SERVING and the server takes no calls from here on.
Stop ==
    /\ main = "serve"
    /\ signalled
    /\ main' = "drain"
    /\ due' = GraceEnd
    /\ UNCHANGED <<settings, now, signalled, loopVars, startup, call, pool>>

Drained ==
    /\ main = "drain"
    /\ \A c \in Calls : call[c] # "open"
    /\ main' = "cancelLoop"
    /\ UNCHANGED <<settings, now, signalled, loopVars, startup, call, due, pool>>

\* Wrong form: stop() waits for the calls for as long as they take.
NeverOver == FALSE

GraceIsOver == now >= due

\* The calls that are left are cancelled; their handlers still have to unwind.
CancelCalls ==
    /\ main = "drain"
    /\ GraceIsOver
    /\ \E c \in Calls : call[c] = "open"
    /\ call' = [c \in Calls |-> IF call[c] = "open" THEN "cancelled" ELSE call[c]]
    /\ UNCHANGED <<settings, now, main, signalled, loopVars, startup, due, pool>>

\* Wrong form: the task is cancelled and not awaited.
LoopLeft == loop

LoopCancelled == IF loop = "none" THEN "none" ELSE "ended"

CancelLoop ==
    /\ main = "cancelLoop"
    /\ main' = "cancelStartup"
    /\ loop' = LoopCancelled
    /\ UNCHANGED <<settings, now, signalled, began, slept, wake, planned, ran, startup, call, due, pool>>

CancelStartup ==
    /\ main = "cancelStartup"
    /\ main' = "close"
    /\ startup' = IF startup = "none" THEN "none" ELSE "ended"
    /\ UNCHANGED <<settings, now, signalled, loopVars, call, due, pool>>

\* pool.close waits until every connection has been given back.
Close ==
    /\ main = "close"
    /\ \A c \in Calls : call[c] # "cancelled"
    /\ pool' = "closed"
    /\ main' = "ended"
    /\ UNCHANGED <<settings, now, signalled, loopVars, startup, call, due>>

Background == Plan \/ Wake \/ SyncReturns \/ WarmReturns \/ StartupWarmReturns

Main ==
    \/ CreatePool \/ Build \/ Start \/ Stop \/ Drained \/ CancelCalls
    \/ CancelLoop \/ CancelStartup \/ Close

Next ==
    \/ Tick
    \/ Signal
    \/ Main
    \/ Background
    \/ \E c \in Calls : Accept(c) \/ CallEnds(c)

\* A call that nobody cancels may take for ever; one that was cancelled unwinds.
Fairness ==
    /\ WF_vars(Tick)
    /\ WF_vars(Main)
    /\ WF_vars(Plan \/ SyncReturns \/ WarmReturns)
    /\ WF_vars(Wake)
    /\ \A c \in Calls : WF_vars(CallEnds(c) /\ call[c] = "cancelled")

Spec == Init /\ [][Next]_vars /\ Fairness

-----------------------------------------------------------------------------
(* Every variable keeps its type.                                          *)
TypeOK ==
    /\ settings \subseteq Switches
    /\ {now, began, slept, wake, due} \subseteq Nat
    /\ main \in {"pool", "schema", "start", "serve", "drain", "cancelLoop",
                 "cancelStartup", "close", "ended", "died"}
    /\ signalled \in BOOLEAN
    /\ loop \in {"none", "plan", "asleep", "sync", "warm", "ended"}
    /\ planned \in Int
    /\ ran \in Int
    /\ startup \in {"none", "warm", "ended"}
    /\ call \in [Calls -> {"none", "open", "cancelled", "ended"}]
    /\ pool \in {"none", "open", "closed"}

(***************************************************************************)
(* The pool is closed only after its users have ended: the loop, the       *)
(* start-up warming and every handler, whatever came first of signal,      *)
(* failed start and end of the grace period.  (Tasks that a failed gather  *)
(* left behind are not awaited here: see NightlyBatch.)                    *)
(***************************************************************************)
PoolOutlivesItsUsers ==
    pool = "closed" =>
        /\ loop \in {"none", "ended"}
        /\ startup \in {"none", "ended"}
        /\ \A c \in Calls : call[c] \notin {"open", "cancelled"}

(***************************************************************************)
(* "같은 종목에 GetCandles 중복 호출 방지": whatever the settings, no two   *)
(* warmings run at once unless a daily run has come due since the start.   *)
(***************************************************************************)
OneWarmingAtStartup == loop = "warm" /\ startup = "warm" => ran >= 0

(***************************************************************************)
(* No daily run is slept through: the loop sleeps to the first of the      *)
(* moments at which a run is due, counted from when it went to sleep.      *)
(***************************************************************************)
NoRunSleptThrough ==
    loop = "asleep" =>
        \A date \in 0 .. Horizon + 1 :
            Utc(SyncAt(date)) >= slept => wake <= Utc(SyncAt(date))

(***************************************************************************)
(* "다음 달력 날짜의 23:00을 다시 계산": after the run of one date the loop *)
(* sleeps to one of a later date, so that no date has two runs.            *)
(***************************************************************************)
NextRunIsLater == loop = "asleep" => planned > ran

(***************************************************************************)
(* After each run the loop sleeps again, also after a failed one, as long  *)
(* as the service is up.                                                   *)
(***************************************************************************)
LoopGoesOn == loop = "sync" ~> loop = "asleep" \/ main # "serve"

(***************************************************************************)
(* A signal ends the process, even if calls hang.                          *)
(***************************************************************************)
SignalEndsService == signalled ~> main = "ended"
=============================================================================
