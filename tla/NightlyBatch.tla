----------------------------- MODULE NightlyBatch -----------------------------
(***************************************************************************)
(* One round of the daily loop in main.py: the catalogue sync, and after   *)
(* it, however it ended, the warming, over the same rows.  Meanwhile the   *)
(* listing moves, values grow old, requests refresh rows they miss on, and *)
(* a shutdown may cancel the round at any await.                           *)
(*                                                                         *)
(* What a failed gather left behind is nobody's to wait for: the jobs of a *)
(* sync that failed go on while the warmer reads and writes the rows.      *)
(***************************************************************************)
EXTENDS CatalogSync, MarketMetricsWarmer

CONSTANTS
    Listings,       \* the listings a night may begin with
    Caches,         \* the rows a night may begin with
    MaxOutside      \* bound on what happens outside of the batch

ASSUME NightAssumption ==
    /\ Listings \subseteq SUBSET Stocks
    /\ Caches \subseteq [Stocks -> Ages \ {"fresh"}]
    /\ MaxOutside \in Nat

VARIABLES
    night,          \* "sync", "warm", "end" or "cancelled"
    outside         \* number of outside events so far

vars == <<row, listing, syncVars, warmVars, night, outside>>

Init ==
    /\ listed \in Listings
    /\ row \in Caches
    /\ InitSync
    /\ InitWarm
    /\ night = "sync"
    /\ outside = 0

LiveJobs == {c \in Stocks : job[c] \in Steps \cup {"queued"}}
LiveTasks == {c \in Stocks : task[c] \in Busy}

\* Each part moves by itself; its jobs may outlive it.
Sync ==
    /\ \/ night = "sync" /\ NextSync
       \/ \E c \in Stocks : Job(c)
    /\ UNCHANGED <<listing, warmVars, night, outside>>

\* _sync_stock_catalog logs a failure and returns: the warming follows.
SyncReturns ==
    /\ night = "sync"
    /\ sync \in {"done", "failed"}
    /\ night' = "warm"
    /\ warm' = "list"
    /\ UNCHANGED <<row, listing, syncVars, pass, targets, codes, cut, task, tally,
                   refreshed, written, outside>>

Warm ==
    /\ \/ night = "warm" /\ NextWarm
       \/ \E c \in Stocks : Task(c)
    /\ UNCHANGED <<listing, syncVars, night, outside>>

WarmReturns ==
    /\ night = "warm"
    /\ warm \in {"done", "failed"}
    /\ night' = "end"
    /\ UNCHANGED <<row, listing, syncVars, warmVars, outside>>

\* Wrong form: the task is cancelled, the children of its gather are not.
CancelLoopOnly ==
    /\ night \in {"sync", "warm"}
    /\ night' = "cancelled"
    /\ UNCHANGED <<row, listing, syncVars, warmVars, outside>>

\* Cancelling a gather cancels its children; those that wait for a statement
\* do not learn whether it took effect.  Orphans of a failed gather go on.
Cancel ==
    /\ night \in {"sync", "warm"}
    /\ night' = "cancelled"
    /\ LET jobs == IF sync = "gather" THEN LiveJobs ELSE {}
           tasks == IF warm = "gather" THEN LiveTasks ELSE {}
       IN  /\ job' = [c \in Stocks |-> IF c \in jobs THEN "cancelled" ELSE job[c]]
           /\ task' = [c \in Stocks |-> IF c \in tasks THEN "cancelled" ELSE task[c]]
           /\ \/ \E S \in SUBSET {c \in jobs : job[c] = "row"} : row' = Upserted(S)
              \/ \E S \in SUBSET {c \in tasks : task[c] = "write"} : row' = Renewed(S)
    /\ UNCHANGED <<listing, told, born, sync, page, pages, batch, synced,
                   warm, pass, targets, codes, cut, tally, refreshed, written, outside>>

Outside ==
    /\ night \in {"sync", "warm"}
    /\ outside < MaxOutside
    /\ outside' = outside + 1
    /\ \/ \E c \in Stocks : Move(c) /\ UNCHANGED row
       \/ \E c \in Stocks : (Age(c) \/ Refresh(c)) /\ UNCHANGED listing
    /\ UNCHANGED <<syncVars, warmVars, night>>

Next == Sync \/ SyncReturns \/ Warm \/ WarmReturns \/ Cancel \/ Outside

Fairness == WF_vars(Sync) /\ WF_vars(SyncReturns) /\ WF_vars(Warm) /\ WF_vars(WarmReturns)

Spec == Init /\ [][Next]_vars /\ Fairness

-----------------------------------------------------------------------------
(* Every variable keeps its type.                                          *)
TypeOK ==
    /\ SyncTypeOK
    /\ WarmTypeOK
    /\ night \in {"sync", "warm", "end", "cancelled"}
    /\ outside \in 0 .. MaxOutside

(***************************************************************************)
(* Whatever runs on behind a part of the night that is over was left there *)
(* by a failed gather: a part that returned its counts, or was cancelled,  *)
(* writes nothing any more.                                                *)
(***************************************************************************)
OnlyFailuresLeaveOrphans ==
    /\ LiveJobs # {} => sync = "failed" \/ (night = "sync" /\ sync = "gather")
    /\ LiveTasks # {} => warm = "failed" \/ (night = "warm" /\ warm = "gather")

(***************************************************************************)
(* "A stock that was listed today is warmed in the same batch": if sync    *)
(* and warming return, each stock whose row the sync inserted was a target *)
(* of the warming, or a request was quicker.                               *)
(***************************************************************************)
NewStocksAreWarmed ==
    night = "end" /\ sync = "done" /\ warm = "done" =>
        \A c \in born : c \in targets \/ row[c] = "fresh"

(***************************************************************************)
(* The round comes to an end, whatever fails.                              *)
(***************************************************************************)
NightEnds == <>(night \in {"end", "cancelled"})
=============================================================================
