-------------------------- MODULE NightlyBatchProofs --------------------------
(* What a night leaves behind, what it has warmed and what it counts, for  *)
(* any catalogue, any page and batch size and any number of passes.        *)
EXTENDS NightlyBatch, FiniteSetTheorems, TLAPS

\* The jobs of a sync that has not failed are those of its page.
JobsOwned ==
    /\ LiveJobs # {} => sync = "failed" \/ (night = "sync" /\ sync = "gather")
    /\ sync = "gather" => LiveJobs \subseteq batch
    /\ night \in {"warm", "end"} => sync \in {"done", "failed"}

\* So are the tasks of a warming; it begins after the sync and once.
TasksOwned ==
    /\ LiveTasks # {} => warm = "failed" \/ (night = "warm" /\ warm = "gather")
    /\ warm = "gather" => LiveTasks \subseteq Batch
    /\ night = "sync" => warm = "idle"
    /\ night = "end" => warm \in {"done", "failed"}

\* The passes are counted, and one is left when the list is read.
PassesCounted ==
    /\ warm = "idle" => pass = 0
    /\ warm = "list" => pass < Passes
    /\ warm = "gather" => pass > 0

\* A row that the sync inserted is stale until it is renewed, and the first
\* list of the warming had it if it was.
BornTargeted ==
    /\ \A c \in born : row[c] \in {"stale", "fresh"}
    /\ sync = "done" /\ (pass > 0 \/ warm = "done") =>
          \A c \in born : c \in targets \/ row[c] = "fresh"

IInv ==
    /\ TypeOK
    /\ JobsOwned
    /\ TasksOwned
    /\ PassesCounted
    /\ BornTargeted

-----------------------------------------------------------------------------
(* Sets of stocks are finite and their parts can be counted.               *)

LEMMA Counts ==
    ASSUME NEW S \in SUBSET Stocks
    PROVE  IsFiniteSet(S) /\ Cardinality(S) \in Nat
  BY StocksAssumption, FS_Subset, FS_CardinalityType

LEMMA SliceIsPart ==
    ASSUME NEW S \in SUBSET Stocks, NEW size \in Nat \ {0}, NEW i \in Nat
    PROVE  Slice(S, size, i) \subseteq S /\ Slices(S, size) \in Nat
<1>1. Cardinality(S) + size - 1 \in Nat
  BY Counts, SMT
<1>2. \A n \in Nat : n \div size \in Nat
  BY SMT
<1> QED
  BY <1>1, <1>2 DEF Slice, Slices

\* What writes rows: a job's upsert, a renewal, the clock.
LEMMA RowsKeepType ==
    ASSUME row \in [Stocks -> Ages], NEW S
    PROVE  Upserted(S) \in [Stocks -> Ages] /\ Renewed(S) \in [Stocks -> Ages]
  BY SMT DEF Upserted, Renewed, Ages

\* Rows only ever come into being, grow stale and are renewed.
RowStep ==
    \A c \in Stocks :
        /\ row[c] = "fresh" => row'[c] = "fresh"
        /\ row[c] = "stale" => row'[c] \in {"stale", "fresh"}
        /\ row[c] # "none" => row'[c] # "none"

LEMMA WritesRenew ==
    ASSUME row \in [Stocks -> Ages], NEW S,
           row' = row \/ row' = Upserted(S) \/ row' = Renewed(S)
    PROVE  RowStep /\ row' \in [Stocks -> Ages]
  BY SMT DEF RowStep, Upserted, Renewed, Ages

LEMMA JobsFrame ==
    ASSUME JobsOwned, UNCHANGED <<sync, job, batch, night>>
    PROVE  JobsOwned'
  BY DEF JobsOwned, LiveJobs

LEMMA TasksFrame ==
    ASSUME TasksOwned, UNCHANGED <<warm, task, codes, cut, night>>
    PROVE  TasksOwned'
  BY DEF TasksOwned, LiveTasks, Batch

LEMMA BornFrame ==
    ASSUME BornTargeted, RowStep, born \subseteq Stocks,
           UNCHANGED <<born, sync, pass, warm, targets>>
    PROVE  BornTargeted'
  BY DEF BornTargeted, RowStep

-----------------------------------------------------------------------------
LEMMA InitIInv == Init => IInv
<1> SUFFICES ASSUME Init
             PROVE  IInv
  OBVIOUS
<1> USE DEF Init, InitSync, InitWarm
<1>1. TypeOK
  <2>1. SyncTypeOK
    BY NightAssumption, SMT DEF SyncTypeOK, Ages, Steps
  <2>2. WarmTypeOK
    BY WarmerAssumption, SMT DEF WarmTypeOK, Outcomes, Busy, NoOutcome
  <2> QED
    BY <2>1, <2>2, NightAssumption, SMT DEF TypeOK
<1>2. LiveJobs = {} /\ LiveTasks = {}
  BY DEF LiveJobs, LiveTasks, Steps, Busy
<1> QED
  BY <1>1, <1>2 DEF IInv, JobsOwned, TasksOwned, PassesCounted, BornTargeted

(***************************************************************************)
(* The steps of the sync.                                                  *)
(***************************************************************************)
SyncOnly == UNCHANGED <<listing, warmVars, night, outside>>

LEMMA SearchKeeps ==
    ASSUME IInv, night = "sync", SearchStocks \/ SearchFails, SyncOnly
    PROVE  IInv'
<1> USE DEF IInv, SyncOnly, warmVars, listing
<1>1. LiveJobs = {} /\ sync = "page"
  BY DEF JobsOwned, SearchStocks, SearchFails
<1>2. batch' \subseteq Stocks /\ pages' \in Nat
  BY SliceIsPart, CatalogAssumption DEF SearchStocks, SearchFails, Fetch, TypeOK, SyncTypeOK
<1>3. job' = job \/ (job' = [c \in Stocks |-> IF c \in batch' THEN "queued" ELSE job[c]]
                     /\ sync' = "gather")
  BY DEF SearchStocks, SearchFails
<1>4. TypeOK'
  BY <1>2, <1>3, SMT DEF TypeOK, SyncTypeOK, WarmTypeOK, SearchStocks, SearchFails
<1>5. JobsOwned'
  <2>1. LiveJobs' = {} \/ (LiveJobs' \subseteq batch' /\ sync' = "gather")
    BY <1>1, <1>3, SMT DEF LiveJobs, Steps
  <2> QED
    BY <2>1 DEF JobsOwned
<1>6. TasksOwned'
  BY TasksFrame
<1>7. PassesCounted'
  BY DEF PassesCounted
<1>8. BornTargeted'
  BY DEF BornTargeted, SearchStocks, SearchFails, TasksOwned, PassesCounted
<1> QED
  BY <1>4, <1>5, <1>6, <1>7, <1>8

LEMMA PageDoneKeeps ==
    ASSUME IInv, night = "sync", PageDone, SyncOnly
    PROVE  IInv'
<1> USE DEF IInv, SyncOnly, warmVars, listing
<1>1. LiveJobs = {}
  BY DEF JobsOwned, PageDone, Awaited, LiveJobs, Steps
<1>2. TypeOK'
  <2>1. Cardinality(batch) \in Nat
    BY Counts DEF TypeOK, SyncTypeOK
  <2> QED
    BY <2>1, SMT DEF TypeOK, SyncTypeOK, WarmTypeOK, PageDone
<1>3. JobsOwned'
  BY <1>1 DEF JobsOwned, LiveJobs, PageDone
<1>4. TasksOwned' /\ PassesCounted'
  BY TasksFrame DEF PassesCounted
<1>5. BornTargeted'
  BY DEF BornTargeted, PageDone, TasksOwned, PassesCounted
<1> QED
  BY <1>2, <1>3, <1>4, <1>5

LEMMA JobKeeps ==
    ASSUME IInv, NEW c \in Stocks, Job(c), SyncOnly
    PROVE  IInv'
<1> USE DEF IInv, SyncOnly, warmVars, listing
<1>1. c \in LiveJobs
  BY DEF Job, Begin, CopyRow, CopyText, SyncFails, LiveJobs, Steps
<1>2. /\ \E s \in Steps \cup {"done", "failed"} : job' = [job EXCEPT ![c] = s]
      /\ sync' = sync \/ (sync = "gather" /\ sync' = "failed")
      /\ UNCHANGED <<page, pages, batch, synced>>
  BY DEF Job, Begin, CopyRow, CopyText, SyncFails, Steps
<1>3. RowStep /\ row' \in [Stocks -> Ages]
  BY WritesRenew DEF Job, Begin, CopyRow, CopyText, SyncFails, TypeOK, SyncTypeOK
<1>4. TypeOK'
  <2>1. told' \subseteq Stocks /\ born' \subseteq Stocks
    BY DEF Job, Begin, CopyRow, CopyText, SyncFails, TypeOK, SyncTypeOK
  <2>2. job' \in [Stocks -> Steps \cup {"out", "queued", "done", "failed", "cancelled"}]
    BY <1>2, SMT DEF TypeOK, SyncTypeOK
  <2>3. sync' \in {"page", "gather", "done", "failed"}
    BY <1>2, SMT DEF TypeOK, SyncTypeOK
  <2> QED
    BY <1>2, <1>3, <2>1, <2>2, <2>3, SMT DEF TypeOK, SyncTypeOK, WarmTypeOK
<1>5. LiveJobs' \subseteq LiveJobs
  BY <1>1, <1>2 DEF LiveJobs, TypeOK, SyncTypeOK
<1>6. JobsOwned'
  BY <1>1, <1>2, <1>5 DEF JobsOwned
<1>7. TasksOwned' /\ PassesCounted'
  BY TasksFrame DEF PassesCounted
<1>8. BornTargeted'
  <2>1. sync' = "done" => born' = born /\ sync = "done"
    BY <1>1, <1>2 DEF JobsOwned
  <2>2. \A d \in born' : d \in born \/ row'[d] = "stale"
    BY SMT DEF Job, Begin, CopyRow, CopyText, SyncFails, TypeOK, SyncTypeOK, Upserted
  <2>3. \A d \in born' : row'[d] \in {"stale", "fresh"}
    BY <1>3, <2>2 DEF BornTargeted, RowStep, TypeOK, SyncTypeOK
  <2>4. born \subseteq Stocks
    BY DEF TypeOK, SyncTypeOK
  <2> QED
    BY <1>3, <2>1, <2>3, <2>4 DEF BornTargeted, RowStep
<1> QED
  BY <1>4, <1>6, <1>7, <1>8

(***************************************************************************)
(* The steps of the warming.                                               *)
(***************************************************************************)
WarmOnly == UNCHANGED <<listing, syncVars, night, outside>>

LEMMA ListKeeps ==
    ASSUME IInv, night = "warm", List, WarmOnly
    PROVE  IInv'
<1> USE DEF IInv, WarmOnly, syncVars, listing
<1> USE WarmerAssumption
<1>1. LiveTasks = {} /\ warm = "list" /\ pass < Passes
  BY DEF TasksOwned, PassesCounted, List
<1>2. codes' = StaleCodes /\ codes' \subseteq Stocks /\ targets' \subseteq Stocks
  BY DEF List, StaleCodes, TypeOK, WarmTypeOK
<1>3. CASE codes' = {}
  <2>1. warm' = "done" /\ pass' = pass /\ task' = task /\ tally' = tally
    BY <1>3 DEF List
  <2>2. TypeOK'
    BY <1>2, <2>1, SMT DEF TypeOK, SyncTypeOK, WarmTypeOK, List
  <2>3. TasksOwned'
    BY <1>1, <2>1 DEF TasksOwned, LiveTasks
  <2>4. BornTargeted'
    <3>1. \A c \in born : row[c] = "fresh"  \/ pass > 0
      BY <1>2, <1>3 DEF StaleCodes, BornTargeted, TypeOK, SyncTypeOK
    <3> QED
      BY <2>1, <3>1, SMT DEF BornTargeted, List, TypeOK, WarmTypeOK
  <2> QED
    BY <2>1, <2>2, <2>3, <2>4, JobsFrame DEF PassesCounted, List
<1>4. CASE codes' # {}
  <2>1. /\ warm' = "gather" /\ pass' = pass + 1 /\ tally' = NoOutcome /\ cut' = 0
        /\ task' = [c \in Stocks |->
                       IF c \in Slice(codes', BatchSize, 0) THEN "queued" ELSE "out"]
    BY <1>4 DEF List
  <2>2. pass' \in 0 .. Passes /\ pass' > 0
    BY <1>1, <2>1, SMT DEF TypeOK, WarmTypeOK
  <2>3. TypeOK'
    BY <1>2, <2>1, <2>2, SMT DEF TypeOK, SyncTypeOK, WarmTypeOK, List, NoOutcome, Busy
  <2>4. TasksOwned'
    BY <2>1, SMT DEF TasksOwned, LiveTasks, Batch, Busy
  <2>5. BornTargeted'
    <3>1. pass = 0 => \A c \in born : c \in targets' \/ row[c] = "fresh"
      BY <1>2 DEF List, StaleCodes, BornTargeted, TypeOK, SyncTypeOK
    <3>2. pass # 0 => pass > 0 /\ targets' = targets
      BY SMT DEF List, TypeOK, WarmTypeOK
    <3> QED
      BY <3>1, <3>2 DEF BornTargeted, List
  <2> QED
    BY <2>1, <2>2, <2>3, <2>4, <2>5, JobsFrame DEF PassesCounted, List
<1> QED
  BY <1>3, <1>4

LEMMA BatchDoneKeeps ==
    ASSUME IInv, night = "warm", BatchDone, WarmOnly
    PROVE  IInv'
<1> USE DEF IInv, WarmOnly, syncVars, listing
<1>1. LiveTasks = {} /\ warm = "gather"
  BY DEF TasksOwned, BatchDone, BatchAwaited, LiveTasks, Busy, Outcomes
<1>2. tally' \in [Outcomes -> Nat]
  <2>1. \A o : Cardinality({c \in Batch : task[c] = o}) \in Nat
    BY Counts, SliceIsPart, WarmerAssumption DEF Batch, Slice, TypeOK, WarmTypeOK
  <2>2. \A o \in Outcomes : tally[o] + Cardinality({c \in Batch : task[c] = o}) \in Nat
    BY <2>1, SMT DEF TypeOK, WarmTypeOK
  <2> QED
    BY <2>2 DEF BatchDone
<1>3. refreshed' \in Nat /\ warm' \in {"gather", "list", "done"} /\ cut' \in Nat
  BY <1>1, <1>2, SMT DEF BatchDone, TypeOK, WarmTypeOK, Outcomes
<1>4. \/ task' = task /\ warm' # "gather"
      \/ /\ warm' = "gather"
         /\ cut' = cut + 1
         /\ task' = [c \in Stocks |->
                       IF c \in Slice(codes, BatchSize, cut') THEN "queued" ELSE task[c]]
  BY <1>1 DEF BatchDone
<1>5. task' \in [Stocks -> Outcomes \cup Busy \cup {"out", "raised", "cancelled"}]
  BY <1>4, SMT DEF TypeOK, WarmTypeOK, Busy
<1>6. TypeOK'
  BY <1>2, <1>3, <1>5, SMT DEF TypeOK, SyncTypeOK, WarmTypeOK, BatchDone
<1>7. TasksOwned'
  <2>1. codes' = codes
    BY DEF BatchDone
  <2>2. LiveTasks' = {} \/ (LiveTasks' \subseteq Batch' /\ warm' = "gather")
    BY <1>1, <1>4, <2>1, SMT DEF LiveTasks, Batch, Busy
  <2> QED
    BY <1>3, <2>2 DEF TasksOwned
<1>8. PassesCounted'
  BY <1>1, <1>3 DEF PassesCounted, BatchDone, AnotherPass
<1>9. BornTargeted'
  BY <1>1 DEF BornTargeted, BatchDone, PassesCounted
<1> QED
  BY <1>6, <1>7, <1>8, <1>9, JobsFrame DEF BatchDone

LEMMA TaskKeeps ==
    ASSUME IInv, NEW c \in Stocks, Task(c), WarmOnly
    PROVE  IInv'
<1> USE DEF IInv, WarmOnly, syncVars, listing
<1>1. c \in LiveTasks
  BY DEF Task, TakePermit, Reply, Write, WriteFails, Turns, LiveTasks, Busy
<1>2. /\ \E s \in Outcomes \cup {"fetch", "write", "raised"} : task' = [task EXCEPT ![c] = s]
      /\ warm' = warm \/ (warm = "gather" /\ warm' = "failed")
      /\ UNCHANGED <<pass, targets, codes, cut, tally, refreshed>>
  BY DEF Task, TakePermit, Reply, Write, WriteFails, Turns, Outcomes
<1>3. RowStep /\ row' \in [Stocks -> Ages]
  BY WritesRenew DEF Task, TakePermit, Reply, Write, WriteFails, TypeOK, SyncTypeOK
<1>4. TypeOK'
  <2>1. written' \subseteq Stocks
    BY DEF Task, TakePermit, Reply, Write, WriteFails, TypeOK, WarmTypeOK
  <2>2. task' \in [Stocks -> Outcomes \cup Busy \cup {"out", "raised", "cancelled"}]
    BY <1>2, SMT DEF TypeOK, WarmTypeOK, Busy
  <2>3. warm' \in {"idle", "list", "gather", "done", "failed"}
    BY <1>2, SMT DEF TypeOK, WarmTypeOK
  <2> QED
    BY <1>2, <1>3, <2>1, <2>2, <2>3, SMT DEF TypeOK, SyncTypeOK, WarmTypeOK
<1>5. LiveTasks' \subseteq LiveTasks /\ Batch' = Batch
  BY <1>1, <1>2 DEF LiveTasks, TypeOK, WarmTypeOK, Batch
<1>6. TasksOwned'
  BY <1>1, <1>2, <1>5 DEF TasksOwned
<1>7. PassesCounted'
  BY <1>1, <1>2 DEF PassesCounted
<1>8. BornTargeted'
  <2>1. warm' = "done" => warm = "done"
    BY <1>2
  <2> QED
    BY <1>2, <1>3, <2>1 DEF BornTargeted, RowStep, TypeOK, SyncTypeOK
<1> QED
  BY <1>4, <1>6, <1>7, <1>8, JobsFrame

(***************************************************************************)
(* The night itself.                                                       *)
(***************************************************************************)
LEMMA CancelKeeps == ASSUME IInv, Cancel PROVE IInv'
<1> USE DEF IInv, listing
<1> DEFINE jobs == IF sync = "gather" THEN LiveJobs ELSE {}
           tasks == IF warm = "gather" THEN LiveTasks ELSE {}
<1>1. /\ job' = [c \in Stocks |-> IF c \in jobs THEN "cancelled" ELSE job[c]]
      /\ task' = [c \in Stocks |-> IF c \in tasks THEN "cancelled" ELSE task[c]]
  BY DEF Cancel
<1>2. RowStep /\ row' \in [Stocks -> Ages]
  <2>1. \E S : row' = Upserted(S) \/ row' = Renewed(S)
    BY DEF Cancel
  <2> QED
    BY <2>1, WritesRenew DEF TypeOK, SyncTypeOK
<1>3. TypeOK'
  <2>1. job' \in [Stocks -> Steps \cup {"out", "queued", "done", "failed", "cancelled"}]
    BY <1>1, SMT DEF TypeOK, SyncTypeOK
  <2>2. task' \in [Stocks -> Outcomes \cup Busy \cup {"out", "raised", "cancelled"}]
    BY <1>1, SMT DEF TypeOK, WarmTypeOK
  <2> QED
    BY <1>2, <2>1, <2>2, SMT DEF TypeOK, SyncTypeOK, WarmTypeOK, Cancel
<1>4. JobsOwned'
  <2>1. LiveJobs' \subseteq LiveJobs /\ (sync = "gather" => LiveJobs' = {})
    BY <1>1, SMT DEF LiveJobs, Steps, TypeOK, SyncTypeOK
  <2> QED
    BY <2>1 DEF JobsOwned, Cancel
<1>5. TasksOwned'
  <2>1. LiveTasks' \subseteq LiveTasks /\ (warm = "gather" => LiveTasks' = {})
    BY <1>1, SMT DEF LiveTasks, Busy, TypeOK, WarmTypeOK
  <2> QED
    BY <2>1 DEF TasksOwned, Cancel, Batch
<1>6. PassesCounted' /\ BornTargeted'
  BY <1>2, BornFrame DEF Cancel, PassesCounted, TypeOK, SyncTypeOK
<1> QED
  BY <1>3, <1>4, <1>5, <1>6

LEMMA OutsideKeeps == ASSUME IInv, Outside PROVE IInv'
<1> USE DEF IInv, listing, syncVars, warmVars
<1>1. RowStep /\ row' \in [Stocks -> Ages]
  <2>1. CASE UNCHANGED row
    BY <2>1, WritesRenew DEF TypeOK, SyncTypeOK
  <2>2. ASSUME NEW c \in Stocks, Refresh(c)
        PROVE  RowStep /\ row' \in [Stocks -> Ages]
    BY <2>2, WritesRenew DEF Refresh, TypeOK, SyncTypeOK
  <2>3. ASSUME NEW c \in Stocks, Age(c)
        PROVE  RowStep /\ row' \in [Stocks -> Ages]
    BY <2>3, SMT DEF Age, RowStep, Ages, TypeOK, SyncTypeOK
  <2> QED
    BY <2>1, <2>2, <2>3 DEF Outside
<1>2. listed' \subseteq Stocks /\ joined' \subseteq Stocks /\ left' \subseteq Stocks
  BY DEF Outside, Move, TypeOK, SyncTypeOK
<1>3. TypeOK'
  <2>1. outside' \in 0 .. MaxOutside
    BY NightAssumption, SMT DEF Outside, TypeOK
  <2> QED
    BY <1>1, <1>2, <2>1 DEF Outside, TypeOK, SyncTypeOK, WarmTypeOK
<1> QED
  BY <1>1, <1>3, JobsFrame, TasksFrame, BornFrame
     DEF Outside, PassesCounted, TypeOK, SyncTypeOK

LEMMA ReturnsKeep == ASSUME IInv, SyncReturns \/ WarmReturns PROVE IInv'
<1> USE DEF IInv, listing, syncVars, warmVars
<1>1. CASE SyncReturns
  <2>1. warm = "idle" /\ LiveTasks = {} /\ pass = 0
    BY <1>1 DEF SyncReturns, TasksOwned, PassesCounted
  <2>2. TypeOK'
    BY <1>1 DEF SyncReturns, TypeOK, SyncTypeOK, WarmTypeOK
  <2>3. JobsOwned'
    BY <1>1 DEF SyncReturns, JobsOwned, LiveJobs
  <2>4. TasksOwned'
    BY <1>1, <2>1 DEF SyncReturns, TasksOwned, LiveTasks
  <2>5. PassesCounted'
    BY <1>1, <2>1, WarmerAssumption, SMT DEF SyncReturns, PassesCounted
  <2>6. BornTargeted'
    BY <1>1, <2>1 DEF SyncReturns, BornTargeted
  <2> QED
    BY <2>2, <2>3, <2>4, <2>5, <2>6
<1>2. CASE WarmReturns
  <2>1. TypeOK' /\ PassesCounted' /\ BornTargeted'
    BY <1>2 DEF WarmReturns, TypeOK, SyncTypeOK, WarmTypeOK, PassesCounted, BornTargeted
  <2>2. JobsOwned' /\ TasksOwned'
    BY <1>2 DEF WarmReturns, JobsOwned, LiveJobs, TasksOwned, LiveTasks, Batch
  <2> QED
    BY <2>1, <2>2
<1> QED
  BY <1>1, <1>2

LEMMA NextIInv == IInv /\ [Next]_vars => IInv'
<1> SUFFICES ASSUME IInv, [Next]_vars
             PROVE  IInv'
  OBVIOUS
<1>1. CASE Sync
  BY <1>1, SearchKeeps, PageDoneKeeps, JobKeeps DEF Sync, NextSync, SyncOnly
<1>2. CASE Warm
  <2>1. CASE ListFails /\ night = "warm"
    BY <1>2, <2>1, JobsFrame
       DEF Warm, ListFails, IInv, TypeOK, SyncTypeOK, WarmTypeOK, TasksOwned, LiveTasks,
           PassesCounted, BornTargeted, listing, syncVars
  <2> QED
    BY <1>2, <2>1, ListKeeps, BatchDoneKeeps, TaskKeeps DEF Warm, NextWarm, WarmOnly
<1>3. CASE UNCHANGED vars
  BY <1>3, JobsFrame, TasksFrame
     DEF vars, IInv, TypeOK, SyncTypeOK, WarmTypeOK, PassesCounted, BornTargeted,
         listing, syncVars, warmVars
<1> QED
  BY <1>1, <1>2, <1>3, CancelKeeps, OutsideKeeps, ReturnsKeep DEF Next

LEMMA InvariantIInv == Spec => []IInv
  BY InitIInv, NextIInv, PTL DEF Spec

-----------------------------------------------------------------------------
(***************************************************************************)
(* Rows, jobs, tasks and counts keep their types; no more passes are made  *)
(* than the settings allow.                                                *)
(***************************************************************************)
THEOREM TypeCorrect == Spec => []TypeOK
<1>1. IInv => TypeOK
  BY DEF IInv
<1> QED
  BY <1>1, InvariantIInv, PTL

(***************************************************************************)
(* Only a failed gather leaves work behind: a sync or a warming that has   *)
(* returned or was cancelled writes nothing any more, in any catalogue.    *)
(***************************************************************************)
THEOREM OnlyFailureOrphans == Spec => []OnlyFailuresLeaveOrphans
<1>1. IInv => OnlyFailuresLeaveOrphans
  BY DEF IInv, JobsOwned, TasksOwned, OnlyFailuresLeaveOrphans
<1> QED
  BY <1>1, InvariantIInv, PTL

(***************************************************************************)
(* A stock that the sync has inserted is in the warming of the same night. *)
(***************************************************************************)
THEOREM NewStocksGetWarm == Spec => []NewStocksAreWarmed
<1>1. IInv => NewStocksAreWarmed
  BY DEF IInv, BornTargeted, NewStocksAreWarmed
<1> QED
  BY <1>1, InvariantIInv, PTL

-----------------------------------------------------------------------------
(* What the end of the night rests on besides fairness: while a part is at *)
(* work, it or one of its jobs can go on, for any number of them.          *)

\* The guards of NextSync and of NextWarm, written out.
SyncCanGoOn ==
    \/ sync = "page"
    \/ Awaited
    \/ \E c \in Stocks : job[c] \in Steps
    \/ /\ \E c \in Stocks : job[c] = "queued"
       /\ Cardinality({d \in Stocks : job[d] \in Steps}) < Concurrency

WarmCanGoOn ==
    \/ warm = "list"
    \/ BatchAwaited
    \/ \E c \in Stocks : task[c] \in {"fetch", "write"}
    \/ /\ \E c \in Stocks : task[c] = "queued"
       /\ Cardinality(Fetching) < Permits

TheNightGoesOn ==
    /\ night = "sync" => sync \in {"done", "failed"} \/ SyncCanGoOn
    /\ night = "warm" => warm \in {"done", "failed"} \/ WarmCanGoOn

\* No job of a gather that has not failed has failed or was forgotten.
SyncWhole ==
    night = "sync" /\ sync = "gather" =>
        \A c \in batch : job[c] \in Steps \cup {"queued", "done"}

WarmWhole ==
    night = "warm" =>
        /\ warm # "idle"
        /\ warm = "gather" => \A c \in Batch : task[c] \in Busy \cup Outcomes

Whole == SyncWhole /\ WarmWhole

LEMMA SyncStaysWhole == ASSUME IInv, SyncWhole, [Next]_vars PROVE SyncWhole'
<1> SUFFICES ASSUME night' = "sync", sync' = "gather"
             PROVE  \A c \in batch' : job'[c] \in Steps \cup {"queued", "done"}
  BY DEF SyncWhole
<1> USE DEF IInv, TypeOK, SyncTypeOK
<1>1. CASE SearchStocks \/ SearchFails \/ PageDone
  <2>1. SearchStocks /\ batch' # {} /\ batch' \subseteq Stocks
    <3>1. SearchStocks /\ batch' # {}
      BY <1>1 DEF SearchStocks, SearchFails, PageDone
    <3> QED
      BY <3>1, SliceIsPart, CatalogAssumption DEF SearchStocks, Fetch
  <2> QED
    BY <2>1 DEF SearchStocks
<1>2. ASSUME NEW d \in Stocks, Job(d), night = "sync"
      PROVE  \A c \in batch' : job'[c] \in Steps \cup {"queued", "done"}
  <2>1. /\ \E s \in Steps \cup {"done"} : job' = [job EXCEPT ![d] = s]
        /\ sync = "gather" /\ batch' = batch
    BY <1>2 DEF Job, Begin, CopyRow, CopyText, SyncFails, Steps
  <2> QED
    BY <1>2, <2>1 DEF SyncWhole
<1>3. CASE UNCHANGED <<job, sync, batch, night>>
  BY <1>3 DEF SyncWhole
<1> QED
  BY <1>1, <1>2, <1>3
     DEF Next, vars, Sync, NextSync, SyncReturns, Warm, WarmReturns, Cancel, Outside, syncVars

LEMMA WarmStaysWhole == ASSUME IInv, WarmWhole, [Next]_vars PROVE WarmWhole'
<1> SUFFICES ASSUME night' = "warm"
             PROVE  /\ warm' # "idle"
                    /\ warm' = "gather" => \A c \in Batch' : task'[c] \in Busy \cup Outcomes
  BY DEF WarmWhole
<1> USE DEF IInv, TypeOK, WarmTypeOK
<1>1. CASE List /\ night = "warm"
  <2>1. codes' \subseteq Stocks
    BY <1>1 DEF List, StaleCodes
  <2>2. 0 \in Nat /\ BatchSize \in Nat \ {0}
    BY WarmerAssumption
  <2>3. Slice(codes', BatchSize, 0) \subseteq Stocks
    BY <2>1, <2>2, SliceIsPart
  <2> QED
    BY <1>1, <2>3 DEF List, Batch, Busy
<1>2. CASE BatchDone /\ night = "warm"
  <2>1. Slice(codes, BatchSize, cut + 1) \subseteq Stocks
    BY SliceIsPart, WarmerAssumption
  <2>2. CASE warm' = "gather"
    <3>1. /\ cut' = cut + 1 /\ codes' = codes
          /\ task' = [c \in Stocks |->
                        IF c \in Slice(codes, BatchSize, cut') THEN "queued" ELSE task[c]]
      BY <1>2, <2>2 DEF BatchDone, BatchAwaited
    <3> QED
      BY <2>1, <2>2, <3>1 DEF Batch, Busy
  <2>3. CASE warm' # "gather"
    BY <1>2, <2>3 DEF BatchDone, BatchAwaited
  <2> QED
    BY <2>2, <2>3
<1>3. ASSUME NEW d \in Stocks, Task(d), night = "warm"
      PROVE  /\ warm' # "idle"
             /\ warm' = "gather" => \A c \in Batch' : task'[c] \in Busy \cup Outcomes
  <2>1. warm' = warm \/ (warm = "gather" /\ warm' = "failed")
    BY <1>3 DEF Task, TakePermit, Reply, Write, WriteFails
  <2>2. CASE warm' = "gather"
    <3>1. /\ \E s \in Outcomes \cup Busy : task' = [task EXCEPT ![d] = s]
          /\ codes' = codes /\ cut' = cut
      BY <1>3, <2>1, <2>2
         DEF Task, TakePermit, Reply, Write, WriteFails, Turns, Outcomes, Busy
    <3> QED
      BY <1>3, <2>1, <2>2, <3>1 DEF WarmWhole, Batch
  <2> QED
    BY <1>3, <2>1, <2>2 DEF WarmWhole
<1>4. CASE SyncReturns
  BY <1>4 DEF SyncReturns
<1>5. CASE ListFails
  BY <1>5 DEF ListFails
<1>6. CASE UNCHANGED <<task, warm, codes, cut, night>>
  BY <1>6 DEF WarmWhole, Batch
<1> QED
  BY <1>1, <1>2, <1>3, <1>4, <1>5, <1>6
     DEF Next, vars, Sync, Warm, NextWarm, WarmReturns, Cancel, Outside, warmVars

(***************************************************************************)
(* The batch never waits for what cannot come: while the night is in a     *)
(* part that has not ended, a call of that part can be made or can return, *)
(* whatever failed before, however few the permits.  The gather ends with  *)
(* its last job, and a queue of jobs with a free permit is no dead end.    *)
(***************************************************************************)
THEOREM NightNeverStalls == Spec => []TheNightGoesOn
<1>1. Init => Whole
  BY DEF Init, InitSync, Whole, SyncWhole, WarmWhole
<1>2. IInv /\ Whole /\ [Next]_vars => Whole'
  BY SyncStaysWhole, WarmStaysWhole DEF Whole
<1>3. IInv /\ Whole => TheNightGoesOn
  <2> SUFFICES ASSUME IInv, Whole
               PROVE  TheNightGoesOn
    OBVIOUS
  <2>1. ASSUME night = "sync", sync = "gather"
        PROVE  SyncCanGoOn
    <3> DEFINE Working == {d \in Stocks : job[d] \in Steps}
    <3>1. CASE Working # {}
      BY <3>1 DEF SyncCanGoOn
    <3>2. CASE Working = {}
      <4>1. Cardinality(Working) < Concurrency
        BY <3>2, FS_EmptySet, CatalogAssumption, SMT
      <4>2. \A c \in batch : c \in Stocks /\ job[c] \in {"queued", "done"}
        BY <2>1, <3>2 DEF IInv, TypeOK, SyncTypeOK, Whole, SyncWhole
      <4>3. (\E c \in Stocks : job[c] = "queued") \/ \A c \in batch : job[c] = "done"
        BY <4>2
      <4> QED
        BY <2>1, <4>1, <4>3 DEF SyncCanGoOn, Awaited
    <3> QED
      BY <3>1, <3>2
  <2>2. ASSUME night = "warm", warm = "gather"
        PROVE  WarmCanGoOn
    <3>1. CASE \E c \in Stocks : task[c] \in {"fetch", "write"}
      BY <3>1 DEF WarmCanGoOn
    <3>2. CASE ~\E c \in Stocks : task[c] \in {"fetch", "write"}
      <4>1. Cardinality(Fetching) < Permits
        <5>1. Fetching = {}
          BY <3>2 DEF Fetching
        <5> QED
          BY <5>1, FS_EmptySet, WarmerAssumption, SMT
      <4>2. \A c \in Batch : c \in Stocks /\ task[c] \in {"queued"} \cup Outcomes
        <5>1. Batch \subseteq Stocks
          BY SliceIsPart, WarmerAssumption DEF Batch, IInv, TypeOK, WarmTypeOK
        <5> QED
          BY <2>2, <3>2, <5>1 DEF Whole, WarmWhole, Busy
      <4>3. (\E c \in Stocks : task[c] = "queued") \/ \A c \in Batch : task[c] \in Outcomes
        BY <4>2
      <4> QED
        BY <2>2, <4>1, <4>3 DEF WarmCanGoOn, BatchAwaited
    <3> QED
      BY <3>1, <3>2
  <2>3. sync \in {"page", "gather", "done", "failed"}
    BY DEF IInv, TypeOK, SyncTypeOK
  <2>4. night = "warm" => warm \in {"list", "gather", "done", "failed"}
    BY DEF IInv, TypeOK, WarmTypeOK, Whole, WarmWhole
  <2> QED
    BY <2>1, <2>2, <2>3, <2>4 DEF TheNightGoesOn, SyncCanGoOn, WarmCanGoOn
<1> QED
  BY <1>1, <1>2, <1>3, InvariantIInv, PTL DEF Spec

-----------------------------------------------------------------------------
(* ... and the other half: each step takes the part of the night that it   *)
(* belongs to further, and there are only so many pages, passes, batches.  *)

SyncPlace(s) == CASE s = "page" -> 0 [] s = "gather" -> 1 [] OTHER -> 2
JobPlace(j) ==
    CASE j \in {"out", "queued"} -> 0 [] j = "row" -> 1 [] j = "text" -> 2 [] OTHER -> 3

WarmPlace(w) ==
    CASE w = "idle" -> 0 [] w = "gather" -> 1 [] w = "list" -> 2 [] OTHER -> 3
TaskPlace(t) ==
    CASE t \in {"out", "queued"} -> 0 [] t = "fetch" -> 1 [] t = "write" -> 2 [] OTHER -> 3

JobsAhead ==
    /\ \A c \in Stocks : JobPlace(job[c]) <= JobPlace(job'[c])
    /\ \E c \in Stocks : JobPlace(job[c]) < JobPlace(job'[c])

TasksAhead ==
    /\ \A c \in Stocks : TaskPlace(task[c]) <= TaskPlace(task'[c])
    /\ \E c \in Stocks : TaskPlace(task[c]) < TaskPlace(task'[c])

\* To the next page, further with this page, or further with its jobs.
SyncAhead ==
    \/ page < page'
    \/ /\ page' = page
       /\ \/ SyncPlace(sync) < SyncPlace(sync')
          \/ sync' = sync /\ JobsAhead

\* To the next pass, further with this pass, to its next batch, or further
\* with the tasks of the batch.
WarmAhead ==
    \/ pass < pass'
    \/ /\ pass' = pass
       /\ \/ WarmPlace(warm) < WarmPlace(warm')
          \/ warm' = warm /\ cut < cut'
          \/ warm' = warm /\ cut' = cut /\ TasksAhead

NightAhead ==
    /\ Sync => SyncAhead
    /\ Warm => WarmAhead
    /\ UNCHANGED <<page, sync, job>> \/ SyncAhead
    /\ UNCHANGED <<pass, warm, cut, task>> \/ WarmAhead

NightOnlyAhead == [][NightAhead]_vars

PagesAndBatchesEnd ==
    /\ page <= Cardinality(Stocks)
    /\ cut <= Cardinality(Stocks)

\* The pages told last are no more than there are stocks, and one is left.
PagesLeft ==
    /\ pages <= Cardinality(Stocks)
    /\ sync = "page" => page = 0 \/ page < pages
    /\ sync = "gather" => page = 0 \/ page < Cardinality(Stocks)
    /\ sync = "gather" => batch # {}

LEMMA DivIs ==
    ASSUME NEW a \in Nat, NEW b \in Nat \ {0}
    PROVE  /\ a \div b \in Nat
           /\ (a \div b) * b <= a
           /\ a < (a \div b) * b + b
  BY SMT

LEMMA DivIsMost ==
    ASSUME NEW q \in Nat, NEW p \in Nat, NEW b \in Nat \ {0}, q * b < p * b + b
    PROVE  q <= p
<1>1. CASE q > p
  <2> DEFINE d == q - p - 1
  <2>1. d \in Nat /\ q = p + 1 + d
    BY <1>1, SMT
  <2> HIDE DEF d
  <2>2. q * b = p * b + b + d * b
    BY <2>1, SMT
  <2>3. d * b \in Nat
    BY <2>1, SMT
  <2> QED
    BY <2>2, <2>3, SMT
<1> QED
  BY <1>1, SMT

LEMMA FewSlices ==
    ASSUME NEW S \in SUBSET Stocks, NEW size \in Nat \ {0}
    PROVE  Slices(S, size) \in Nat /\ Slices(S, size) <= Cardinality(Stocks)
<1> DEFINE n == Cardinality(S)
           q == (n + size - 1) \div size
<1>1. n \in Nat /\ Cardinality(Stocks) \in Nat /\ n <= Cardinality(Stocks)
  BY Counts, StocksAssumption, FS_Subset
<1> HIDE DEF n
<1>2. q \in Nat /\ q * size <= n + size - 1
  <2>1. n + size - 1 \in Nat
    BY <1>1, SMT
  <2> QED
    BY <2>1, DivIs
<1>3. n + size - 1 < n * size + size
  <2> DEFINE e == size - 1
  <2>1. e \in Nat /\ size = e + 1
    BY SMT
  <2> HIDE DEF e
  <2>2. n * size = n * e + n /\ n * e \in Nat
    BY <1>1, <2>1, SMT
  <2> QED
    BY <1>1, <2>2, SMT
<1> HIDE DEF q
<1>4. q <= n
  <2>1. q * size \in Nat /\ n * size \in Nat /\ q * size < n * size + size
    BY <1>1, <1>2, <1>3, SMT
  <2> QED
    BY <1>1, <1>2, <2>1, DivIsMost
<1> QED
  BY <1>1, <1>2, <1>4, SMT DEF q, n, Slices

LEMMA SyncMoves ==
    ASSUME IInv, Sync
    PROVE  SyncAhead
<1> USE DEF IInv, TypeOK, SyncTypeOK
<1>1. CASE SearchStocks \/ SearchFails
  BY <1>1, SMT DEF SearchStocks, SearchFails, SyncAhead, SyncPlace
<1>2. CASE PageDone
  BY <1>2, SMT DEF PageDone, SyncAhead
<1>3. ASSUME NEW c \in Stocks, Job(c)
      PROVE  SyncAhead
  <2>1. /\ page' = page
        /\ sync' = sync \/ (sync = "gather" /\ sync' = "failed")
        /\ \E s : job' = [job EXCEPT ![c] = s] /\ JobPlace(job[c]) < JobPlace(s)
    BY <1>3, SMT DEF Job, Begin, CopyRow, CopyText, SyncFails, Steps, JobPlace
  <2>2. \A j : JobPlace(j) \in Nat
    BY SMT DEF JobPlace
  <2>3. JobsAhead
    BY <2>1, <2>2, SMT DEF JobsAhead
  <2> QED
    BY <2>1, <2>3, SMT DEF SyncAhead, SyncPlace
<1> QED
  BY <1>1, <1>2, <1>3 DEF Sync, NextSync

LEMMA WarmMoves ==
    ASSUME IInv, Warm
    PROVE  WarmAhead
<1> USE DEF IInv, TypeOK, WarmTypeOK
<1>1. CASE List \/ ListFails
  BY <1>1, SMT DEF List, ListFails, WarmAhead, WarmPlace
<1>2. CASE BatchDone
  BY <1>2, SMT DEF BatchDone, BatchAwaited, WarmAhead, WarmPlace
<1>3. ASSUME NEW c \in Stocks, Task(c)
      PROVE  WarmAhead
  <2>1. /\ pass' = pass /\ cut' = cut
        /\ warm' = warm \/ (warm = "gather" /\ warm' = "failed")
        /\ \E t : task' = [task EXCEPT ![c] = t] /\ TaskPlace(task[c]) < TaskPlace(t)
    BY <1>3, SMT DEF Task, TakePermit, Reply, Write, WriteFails, Turns, TaskPlace
  <2>2. \A t : TaskPlace(t) \in Nat
    BY SMT DEF TaskPlace
  <2>3. TasksAhead
    BY <2>1, <2>2, SMT DEF TasksAhead
  <2> QED
    BY <2>1, <2>3, SMT DEF WarmAhead, WarmPlace
<1> QED
  BY <1>1, <1>2, <1>3 DEF Warm, NextWarm

LEMMA CancelMoves ==
    ASSUME IInv, Cancel
    PROVE  /\ UNCHANGED <<page, sync, job>> \/ SyncAhead
           /\ UNCHANGED <<pass, warm, cut, task>> \/ WarmAhead
<1> USE DEF IInv, TypeOK, SyncTypeOK, WarmTypeOK
<1> DEFINE jobs == IF sync = "gather" THEN LiveJobs ELSE {}
           tasks == IF warm = "gather" THEN LiveTasks ELSE {}
<1>1. /\ job' = [c \in Stocks |-> IF c \in jobs THEN "cancelled" ELSE job[c]]
      /\ task' = [c \in Stocks |-> IF c \in tasks THEN "cancelled" ELSE task[c]]
      /\ UNCHANGED <<page, sync, pass, warm, cut>>
  BY DEF Cancel
<1>2. /\ \A c \in jobs : c \in Stocks /\ JobPlace(job[c]) < JobPlace("cancelled")
      /\ \A c \in tasks : c \in Stocks /\ TaskPlace(task[c]) < TaskPlace("cancelled")
  BY SMT DEF LiveJobs, LiveTasks, Steps, Busy, JobPlace, TaskPlace
<1>3. \A x : JobPlace(x) \in Nat /\ TaskPlace(x) \in Nat
  BY SMT DEF JobPlace, TaskPlace
<1> HIDE DEF jobs, tasks
<1>4. job' = job \/ JobsAhead
  <2>1. CASE jobs = {}
    BY <1>1, <2>1
  <2>2. CASE jobs # {}
    BY <1>1, <1>2, <1>3, <2>2, SMT DEF JobsAhead
  <2> QED
    BY <2>1, <2>2
<1>5. task' = task \/ TasksAhead
  <2>1. CASE tasks = {}
    BY <1>1, <2>1
  <2>2. CASE tasks # {}
    BY <1>1, <1>2, <1>3, <2>2, SMT DEF TasksAhead
  <2> QED
    BY <2>1, <2>2
<1> QED
  BY <1>1, <1>4, <1>5 DEF SyncAhead, WarmAhead

LEMMA PagesKeep ==
    ASSUME IInv, PagesLeft, PagesAndBatchesEnd, [Next]_vars
    PROVE  PagesLeft' /\ PagesAndBatchesEnd'
<1> USE DEF IInv, TypeOK, SyncTypeOK, WarmTypeOK
<1> DEFINE N == Cardinality(Stocks)
<1>1. N \in Nat /\ \A S \in SUBSET Stocks : S # {} => N > 0
  <2>1. ASSUME NEW S \in SUBSET Stocks, S # {}
        PROVE  N > 0
    <3>1. Stocks # {} /\ IsFiniteSet(Stocks) /\ N \in Nat
      BY <2>1, Counts
    <3>2. N # 0
      BY <3>1, FS_EmptySet
    <3> QED
      BY <3>1, <3>2, SMT
  <2> QED
    BY <2>1, Counts
<1>2. Slices(listed, PageSize) <= N /\ Slices(codes, BatchSize) <= N
  BY FewSlices, CatalogAssumption, WarmerAssumption
<1>3. Slices(listed, PageSize) \in Nat /\ Slices(codes, BatchSize) \in Nat
  BY FewSlices, CatalogAssumption, WarmerAssumption
<1> HIDE DEF N
<1>4. PagesLeft' /\ page' <= N
  <2> USE DEF PagesLeft, PagesAndBatchesEnd, N
  <2>1. CASE SearchStocks \/ SearchFails
    BY <2>1, <1>1, <1>2, SMT DEF SearchStocks, SearchFails, Fetch
  <2>2. CASE PageDone
    <3>1. page + 1 <= N
      BY <2>2, <1>1, SMT DEF PageDone, Awaited
    <3> QED
      BY <2>2, <3>1, <1>1, SMT DEF PageDone
  <2>3. ASSUME NEW c \in Stocks, Job(c)
        PROVE  PagesLeft' /\ page' <= N
    BY <2>3 DEF Job, Begin, CopyRow, CopyText, SyncFails
  <2>4. CASE UNCHANGED <<page, pages, sync, batch>>
    BY <2>4
  <2> QED
    BY <2>1, <2>2, <2>3, <2>4
       DEF Next, vars, Sync, NextSync, SyncReturns, Warm, WarmReturns, Cancel, Outside,
           syncVars
<1>5. cut' <= N
  <2> USE DEF PagesAndBatchesEnd, N
  <2>1. CASE List \/ ListFails
    BY <2>1, <1>1, SMT DEF List, ListFails
  <2>2. CASE BatchDone
    BY <2>2, <1>1, <1>2, <1>3, SMT DEF BatchDone, LastBatch
  <2>3. ASSUME NEW c \in Stocks, Task(c)
        PROVE  cut' <= N
    BY <2>3 DEF Task, TakePermit, Reply, Write, WriteFails, Turns
  <2>4. CASE UNCHANGED cut
    BY <2>4
  <2> QED
    BY <2>1, <2>2, <2>3, <2>4
       DEF Next, vars, Sync, SyncReturns, Warm, NextWarm, WarmReturns, Cancel, Outside,
           warmVars
<1> QED
  BY <1>4, <1>5 DEF PagesAndBatchesEnd, N

(***************************************************************************)
(* The night takes finitely many steps of its own: every step of a part    *)
(* takes it to a later page, pass or batch, or takes one of its jobs       *)
(* further and none back, and of these there are only so many.  That holds *)
(* for pages, too, though the listing moves and its number of pages with   *)
(* it: sync_all goes by the number it was told last, which no listing of   *)
(* these stocks makes longer than they are many.                           *)
(***************************************************************************)
THEOREM NightOnlyGoesOn == Spec => NightOnlyAhead /\ []PagesAndBatchesEnd
<1>1. Init => PagesLeft /\ PagesAndBatchesEnd
  <2>1. Cardinality(Stocks) \in Nat
    BY Counts
  <2> QED
    BY <2>1, SMT DEF Init, InitSync, InitWarm, PagesLeft, PagesAndBatchesEnd
<1>2. IInv /\ PagesLeft /\ PagesAndBatchesEnd /\ [Next]_vars
        => PagesLeft' /\ PagesAndBatchesEnd'
  BY PagesKeep
<1>3. IInv /\ [Next]_vars => [NightAhead]_vars
  <2> SUFFICES ASSUME IInv, Next, vars' # vars
               PROVE  NightAhead
    OBVIOUS
  <2>1. Sync => SyncAhead /\ UNCHANGED <<pass, warm, cut, task>>
    BY SyncMoves DEF Sync, warmVars
  <2>2. Warm => WarmAhead /\ UNCHANGED <<page, sync, job>>
    BY WarmMoves DEF Warm, syncVars
  <2>3. SyncReturns => WarmAhead /\ UNCHANGED <<page, sync, job>>
    BY SMT DEF SyncReturns, IInv, TypeOK, TasksOwned, WarmAhead, WarmPlace, syncVars
  <2>4. WarmReturns \/ Outside => UNCHANGED <<page, sync, job, pass, warm, cut, task>>
    BY DEF WarmReturns, Outside, syncVars, warmVars
  <2> QED
    BY <2>1, <2>2, <2>3, <2>4, CancelMoves DEF Next, NightAhead
<1> QED
  BY <1>1, <1>2, <1>3, InvariantIInv, PTL DEF Spec, NightOnlyAhead
=============================================================================
