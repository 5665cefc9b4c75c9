--------------------------- MODULE MetricsFreshness ---------------------------
(***************************************************************************)
(* The age of one stock's market metrics under the daily warming run, the  *)
(* run at start-up and the refresh on a cache miss.  The three settings    *)
(* that decide whether requests meet an expired value live in different    *)
(* places: the TTL in the reader, the stale limit in the warmer's query,   *)
(* the daily time in the scheduler.                                        *)
(*                                                                         *)
(* Time is discrete.  A run begins with the catalogue sync, asks the cache *)
(* for the stale stocks and reaches this one later; Duration bounds it.    *)
(***************************************************************************)
EXTENDS Integers

CONSTANTS
    Day,            \* ticks from one daily run to the next
    TTL,            \* volatility_cache_ttl_seconds
    StaleAfter,     \* market_metrics_warm_stale_after_seconds
    Duration        \* the daily run has dealt with the stock by then

ASSUME SettingsAssumption ==
    /\ Day \in Nat \ {0}
    /\ TTL \in Nat
    /\ StaleAfter \in 0 .. TTL
    /\ Duration \in 0 .. Day - 1

VARIABLES
    phase,          \* ticks since stock_sync_time
    age,            \* now() - volatility_calculated_at, up to TTL + 1
    run,            \* how far each run is with the stock
    covered         \* history: written, and no daily run has failed since

vars == <<phase, age, run, covered>>

Runs == {"daily", "startup"}

\* Nothing is cached at first: that is as good as expired.
Init ==
    /\ phase \in 0 .. Day - 1
    /\ age = TTL + 1
    /\ run = [k \in Runs |-> IF k = "startup" THEN "begun" ELSE "idle"]
    /\ covered = FALSE

Expired == age > TTL

\* Wrong forms: a day is never over; the query goes by the reader's limit.
NextPhaseUnbounded == phase + 1
StaleByTTL == age > TTL

NextPhase == (phase + 1) % Day

\* The limit of list_stale_market_metric_codes.
Stale == age > StaleAfter

Later(a) == IF a > TTL THEN a ELSE a + 1

\* A tick; the one that ends the day starts the daily run.
Tick ==
    /\ run["daily"] # "idle" => phase < Duration
    /\ phase' = NextPhase
    /\ age' = Later(age)
    /\ run' = IF phase' = 0 THEN [run EXCEPT !["daily"] = "begun"] ELSE run
    /\ UNCHANGED covered

\* The run takes the stock on, or finds it fresh enough and leaves it.
List(k) ==
    /\ run[k] = "begun"
    /\ run' = [run EXCEPT ![k] = IF Stale THEN "listed" ELSE "idle"]
    /\ UNCHANGED <<phase, age, covered>>

Warm(k) ==
    /\ run[k] = "listed"
    /\ run' = [run EXCEPT ![k] = "idle"]
    /\ age' = 0
    /\ covered' = TRUE
    /\ UNCHANGED phase

\* The fetch fails in every pass, or the whole run breaks off.
Fail(k) ==
    /\ run[k] # "idle"
    /\ run' = [run EXCEPT ![k] = "idle"]
    /\ covered' = (covered /\ k # "daily")
    /\ UNCHANGED <<phase, age>>

\* A deployment ends both runs and warms the cache at start-up.
Restart ==
    /\ run' = [k \in Runs |-> IF k = "startup" THEN "begun" ELSE "idle"]
    /\ covered' = (covered /\ run["daily"] = "idle")
    /\ UNCHANGED <<phase, age>>

\* A request misses and refreshes the value itself.
Refresh ==
    /\ Expired
    /\ age' = 0
    /\ covered' = TRUE
    /\ UNCHANGED <<phase, run>>

Next ==
    \/ Tick
    \/ \E k \in Runs : List(k)
    \/ \E k \in Runs : Warm(k)
    \/ \E k \in Runs : Fail(k)
    \/ Restart
    \/ Refresh

Spec == Init /\ [][Next]_vars

-----------------------------------------------------------------------------
(* Every variable keeps its type.                                          *)
TypeOK ==
    /\ phase \in 0 .. Day - 1
    /\ age \in 0 .. TTL + 1
    /\ run \in [Runs -> {"idle", "begun", "listed"}]
    /\ covered \in BOOLEAN

(***************************************************************************)
(* Once written, and as long as the daily runs succeed, a value is renewed *)
(* before it expires: no request has to fetch candles.                     *)
(***************************************************************************)
RenewedInTime == covered => ~Expired
=============================================================================
