-------------------------- MODULE MarketMetricsWarmer --------------------------
(***************************************************************************)
(* MarketMetricsWarmer.warm_all: passes over the stale stocks, each cut    *)
(* into batches, one gather of _warm_one per batch.                        *)
(*                                                                         *)
(* A fetch that fails or finds no candles is an outcome that is counted.   *)
(* The write after it stands outside the try: its failure ends the gather, *)
(* the batch and the run, while the other stocks of the batch go on.       *)
(***************************************************************************)
EXTENDS StockCache

CONSTANTS
    BatchSize,      \* market_metrics_warm_batch_size
    Passes,         \* market_metrics_warm_passes
    Permits         \* of the fetcher's semaphore

ASSUME WarmerAssumption == {BatchSize, Passes, Permits} \subseteq Nat \ {0}

VARIABLES
    warm,           \* warm_all: "idle", "list", "gather", "done" or "failed"
    pass,           \* completed_passes
    targets,        \* the codes of the first pass; targeted is their number
    codes,          \* the codes of this pass
    cut,            \* the batch of codes that is gathered
    task,           \* _warm_one of each stock of this pass
    tally,          \* refreshed, unavailable and failed of this pass
    refreshed,      \* refreshed_total
    written         \* history: stocks this run wrote

warmVars == <<warm, pass, targets, codes, cut, task, tally, refreshed, written>>

Outcomes == {"refreshed", "unavailable", "failed"}
Busy == {"queued", "fetch", "write"}

NoOutcome == [o \in Outcomes |-> 0]

InitWarm ==
    /\ warm = "idle"
    /\ pass = 0
    /\ targets = {}
    /\ codes = {}
    /\ cut = 0
    /\ task = [c \in Stocks |-> "out"]
    /\ tally = NoOutcome
    /\ refreshed = 0
    /\ written = {}

-----------------------------------------------------------------------------
Batch == Slice(codes, BatchSize, cut)

\* Nothing stale ends the run with the counts of the pass before.
List ==
    /\ warm = "list"
    /\ codes' = StaleCodes
    /\ targets' = IF pass = 0 THEN codes' ELSE targets
    /\ cut' = 0
    /\ IF codes' = {}
       THEN warm' = "done" /\ UNCHANGED <<pass, task, tally>>
       ELSE /\ warm' = "gather"
            /\ pass' = pass + 1
            /\ tally' = NoOutcome
            /\ task' = [c \in Stocks |->
                        IF c \in Slice(codes', BatchSize, 0) THEN "queued" ELSE "out"]
    /\ UNCHANGED <<row, refreshed, written>>

ListFails ==
    /\ warm = "list"
    /\ warm' = "failed"
    /\ UNCHANGED <<row, pass, targets, codes, cut, task, tally, refreshed, written>>

Turns(c, from, to) ==
    /\ task[c] = from
    /\ task' = [task EXCEPT ![c] = to]
    /\ UNCHANGED <<pass, targets, codes, cut, tally, refreshed>>

\* Wrong form: a fetch that raises does not give its permit back.
FetchingOrFailed == {c \in Stocks : task[c] \in {"fetch", "failed"}}

Fetching == {c \in Stocks : task[c] = "fetch"}

TakePermit(c) ==
    /\ Cardinality(Fetching) < Permits
    /\ Turns(c, "queued", "fetch")
    /\ UNCHANGED <<row, warm, written>>

\* fetch answers with a volatility, or finds too few candles, or raises.
Reply(c) ==
    /\ \E to \in {"write", "unavailable", "failed"} : Turns(c, "fetch", to)
    /\ UNCHANGED <<row, warm, written>>

Write(c) ==
    /\ Turns(c, "write", "refreshed")
    /\ row' = Renewed({c})
    /\ written' = written \cup {c}
    /\ UNCHANGED warm

\* A value the column cannot hold, or the database: the error leaves the gather.
WriteFails(c) ==
    /\ Turns(c, "write", "raised")
    /\ warm' = IF warm = "gather" THEN "failed" ELSE warm
    /\ UNCHANGED <<row, written>>

\* Wrong forms: the last batch is left out; the passes are not counted.
LastBatchEarly == cut + 2 >= Slices(codes, BatchSize)
AnotherPassAlways(t) == t["failed"] > 0

BatchAwaited == warm = "gather" /\ \A c \in Batch : task[c] \in Outcomes
LastBatch == cut + 1 >= Slices(codes, BatchSize)
AnotherPass(t) == t["failed"] > 0 /\ pass < Passes

BatchDone ==
    /\ BatchAwaited
    /\ tally' = [o \in Outcomes |->
                    tally[o] + Cardinality({c \in Batch : task[c] = o})]
    /\ IF LastBatch
       THEN /\ refreshed' = refreshed + tally'["refreshed"]
            /\ warm' = IF AnotherPass(tally') THEN "list" ELSE "done"
            /\ UNCHANGED <<cut, task>>
       ELSE /\ cut' = cut + 1
            /\ task' = [c \in Stocks |->
                        IF c \in Slice(codes, BatchSize, cut') THEN "queued" ELSE task[c]]
            /\ UNCHANGED <<refreshed, warm>>
    /\ UNCHANGED <<row, pass, targets, codes, written>>

Task(c) == TakePermit(c) \/ Reply(c) \/ Write(c) \/ WriteFails(c)

NextWarm == List \/ ListFails \/ BatchDone \/ (\E c \in Stocks : Task(c))

-----------------------------------------------------------------------------
WarmTypeOK ==
    /\ warm \in {"idle", "list", "gather", "done", "failed"}
    /\ pass \in 0 .. Passes
    /\ {targets, codes, written} \subseteq SUBSET Stocks
    /\ cut \in Nat
    /\ task \in [Stocks -> Outcomes \cup Busy \cup {"out", "raised", "cancelled"}]
    /\ tally \in [Outcomes -> Nat]
    /\ refreshed \in Nat

(***************************************************************************)
(* warm_all counts a stock as refreshed once, however many passes there    *)
(* are: what it returns is the number of stocks it has written.            *)
(***************************************************************************)
RefreshedIsTrue == warm = "done" => refreshed = Cardinality(written)

(***************************************************************************)
(* A warm_all that returns has given every stock that was stale when it    *)
(* began its turn: the value is new, or the last attempt in a pass that    *)
(* took it found no candles or failed.  Batches and failing stocks cost no *)
(* other stock its turn.                                                   *)
(***************************************************************************)
EveryTargetHadItsTurn ==
    warm = "done" => \A c \in targets : row[c] = "fresh" \/ task[c] \in {"unavailable", "failed"}

(***************************************************************************)
(* "One stock that fails does not end the batch": whoever was targeted is  *)
(* tried, however the run ends.                                            *)
(***************************************************************************)
FailureSparesTheOthers ==
    warm \in {"done", "failed"} /\ (\A c \in Stocks : task[c] \notin Busy) =>
        \A c \in targets : row[c] = "fresh" \/ task[c] # "out"
=============================================================================
