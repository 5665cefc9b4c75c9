-------------------------- MODULE NightlyCountsProofs --------------------------
(* What the warming and the sync of a night have done when they return,    *)
(* for any rows, listing, batch and page size: whom they have reached and  *)
(* what they count.                                                        *)
EXTENDS NightlyBatchProofs

\* The number of the batch that c is in.
PartOf(c) == Rank(c, codes) \div BatchSize

Done(o) == {c \in Stocks : task[c] = o}

\* What is listed or written has a row, and what is written stays fresh.
RowsKnown ==
    /\ \A c \in targets : row[c] \in {"stale", "fresh"}
    /\ \A c \in codes : row[c] # "none"
    /\ \A c \in written : row[c] = "fresh"
    /\ LiveTasks \subseteq codes

\* Nobody is called before his batch, and after it everybody has an outcome.
InTurn ==
    /\ \A c \in Stocks : task[c] # "out" => c \in codes /\ PartOf(c) <= cut
    /\ \A c \in codes : PartOf(c) < cut => task[c] \in Outcomes
    /\ \A c \in targets : c \in codes \/ row[c] = "fresh"
    /\ \A c \in Stocks : task[c] = "refreshed" => row[c] = "fresh"

\* The counts agree with what has been written, up to the batch under way.
Counted ==
    /\ \A c \in codes : task[c] \in Busy \cup {"out"} => c \notin written
    /\ refreshed + Cardinality(Done("refreshed")) = Cardinality(written)
    /\ tally["refreshed"] = Cardinality(Done("refreshed") \ Batch)

Pass == night = "warm" /\ warm = "gather" => InTurn /\ Counted

Settled ==
    /\ warm \in {"idle", "list", "done"} => refreshed = Cardinality(written)
    /\ EveryTargetHadItsTurn

WInv == IInv /\ RowsKnown /\ Pass /\ Settled

-----------------------------------------------------------------------------
(* A list cut into batches is used up by the last of them.                 *)

LEMMA DivLess ==
    ASSUME NEW r \in Nat, NEW n \in Nat, NEW b \in Nat \ {0}, r < n
    PROVE  (r \div b) + 1 <= (n + b - 1) \div b
<1> DEFINE q == r \div b
           p == (n + b - 1) \div b
<1>1. q \in Nat /\ q * b <= r
  BY DivIs
<1>2. p \in Nat /\ n + b - 1 < p * b + b
  <2>1. n + b - 1 \in Nat
    BY SMT
  <2> QED
    BY <2>1, DivIs
<1> HIDE DEF q, p
<1>3. (q + 1) * b = q * b + b /\ q * b \in Nat /\ p * b \in Nat
  BY <1>1, <1>2, SMT
<1>4. q + 1 \in Nat /\ (q + 1) * b < p * b + b
  BY <1>1, <1>2, <1>3, SMT
<1>5. q + 1 <= p
  BY <1>2, <1>4, DivIsMost
<1> QED
  BY <1>5 DEF q, p

LEMMA RankIsLess ==
    ASSUME NEW S \in SUBSET Stocks, NEW c \in S
    PROVE  Rank(c, S) \in Nat /\ Rank(c, S) < Cardinality(S)
<1> DEFINE L == {d \in S : d < c}
<1>1. L \subseteq S /\ c \notin L
  BY StocksAssumption, SMT
<1>2. IsFiniteSet(S) /\ Cardinality(S) \in Nat /\ Cardinality(L) \in Nat
  BY <1>1, Counts
<1>3. Cardinality(L) <= Cardinality(S) /\ Cardinality(L) # Cardinality(S)
  BY <1>1, <1>2, FS_Subset
<1> QED
  BY <1>2, <1>3, SMT DEF Rank

LEMMA PartIsInRange ==
    ASSUME TypeOK, NEW c \in codes
    PROVE  PartOf(c) \in Nat /\ PartOf(c) + 1 <= Slices(codes, BatchSize)
<1>1. codes \subseteq Stocks /\ BatchSize \in Nat \ {0}
  BY WarmerAssumption DEF TypeOK, WarmTypeOK
<1>2. Rank(c, codes) \in Nat /\ Rank(c, codes) < Cardinality(codes) /\ Cardinality(codes) \in Nat
  BY <1>1, RankIsLess, Counts
<1> QED
  BY <1>1, <1>2, DivIs, DivLess DEF PartOf, Slices

LEMMA BatchIs == Batch = {c \in codes : PartOf(c) = cut}
  BY DEF Batch, Slice, PartOf

-----------------------------------------------------------------------------
(* The invariant.                                                          *)

LEMMA InitWInv == Init => WInv
<1> SUFFICES ASSUME Init
             PROVE  WInv
  OBVIOUS
<1>1. IInv
  BY InitIInv
<1>2. LiveTasks = {}
  BY DEF Init, InitWarm, LiveTasks, Busy
<1>3. RowsKnown /\ Pass
  BY <1>2 DEF Init, InitWarm, RowsKnown, Pass
<1>4. Settled
  BY FS_EmptySet DEF Init, InitWarm, Settled, EveryTargetHadItsTurn
<1> QED
  BY <1>1, <1>3, <1>4 DEF WInv

\* A step that leaves the warming alone.
LEMMA WarmFrame ==
    ASSUME WInv, RowStep, warmVars' = warmVars, night' = night \/ night' # "warm"
    PROVE  RowsKnown' /\ Pass' /\ Settled'
<1> USE DEF WInv, IInv, TypeOK, SyncTypeOK, WarmTypeOK, warmVars
<1>1. RowsKnown'
  BY DEF RowsKnown, RowStep, LiveTasks
<1>2. Pass'
  BY DEF Pass, InTurn, Counted, PartOf, Done, Batch, RowStep
<1>3. Settled'
  BY DEF Settled, EveryTargetHadItsTurn, RowStep
<1> QED
  BY <1>1, <1>2, <1>3

LEMMA SyncKeepsWarming ==
    ASSUME WInv, Sync
    PROVE  RowsKnown' /\ Pass' /\ Settled'
<1>1. \E S : row' = row \/ row' = Upserted(S)
  BY DEF Sync, NextSync, SearchStocks, SearchFails, PageDone, Job, Begin, CopyRow,
         CopyText, SyncFails
<1>2. RowStep
  BY <1>1, WritesRenew DEF WInv, IInv, TypeOK, SyncTypeOK
<1> QED
  BY <1>2, WarmFrame DEF Sync

LEMMA OutsideKeepsWarming ==
    ASSUME WInv, Outside
    PROVE  RowsKnown' /\ Pass' /\ Settled'
<1>1. RowStep
  <2>1. CASE UNCHANGED row
    BY <2>1 DEF RowStep
  <2>2. ASSUME NEW c \in Stocks, Refresh(c)
        PROVE  RowStep
    BY <2>2, WritesRenew DEF Refresh, WInv, IInv, TypeOK, SyncTypeOK
  <2>3. ASSUME NEW c \in Stocks, Age(c)
        PROVE  RowStep
    BY <2>3, SMT DEF Age, RowStep, WInv, IInv, TypeOK, SyncTypeOK
  <2> QED
    BY <2>1, <2>2, <2>3 DEF Outside
<1> QED
  BY <1>1, WarmFrame DEF Outside

LEMMA CancelKeepsWarming ==
    ASSUME WInv, Cancel
    PROVE  RowsKnown' /\ Pass' /\ Settled'
<1> USE DEF WInv, IInv, TypeOK, SyncTypeOK, WarmTypeOK
<1>1. RowStep
  <2>1. \E S : row' = Upserted(S) \/ row' = Renewed(S)
    BY DEF Cancel
  <2> QED
    BY <2>1, WritesRenew
<1>2. LiveTasks' \subseteq LiveTasks /\ (warm # "gather" => task' = task)
  BY SMT DEF Cancel, LiveTasks, Busy
<1>3. RowsKnown'
  BY <1>1, <1>2 DEF RowsKnown, RowStep, Cancel
<1>4. Settled'
  BY <1>1, <1>2 DEF Settled, EveryTargetHadItsTurn, RowStep, Cancel
<1> QED
  BY <1>3, <1>4 DEF Pass, Cancel

LEMMA ReturnsKeepWarming ==
    ASSUME WInv, SyncReturns \/ WarmReturns
    PROVE  RowsKnown' /\ Pass' /\ Settled'
<1>1. CASE SyncReturns
  <2>1. warm = "idle" /\ warm' = "list"
    BY <1>1 DEF SyncReturns, WInv, IInv, TasksOwned
  <2> QED
    BY <1>1, <2>1
       DEF SyncReturns, WInv, RowsKnown, LiveTasks, Pass, Settled, EveryTargetHadItsTurn
<1>2. CASE WarmReturns
  BY <1>2 DEF WarmReturns, WInv, RowsKnown, LiveTasks, Pass, Settled,
              EveryTargetHadItsTurn, warmVars
<1> QED
  BY <1>1, <1>2

LEMMA ListKeepsWarming ==
    ASSUME WInv, night = "warm", List, WarmOnly
    PROVE  RowsKnown' /\ Pass' /\ Settled'
<1> USE DEF WInv, IInv
<1>1. /\ warm = "list" /\ LiveTasks = {} /\ codes' = StaleCodes
      /\ UNCHANGED <<row, refreshed, written>>
      /\ refreshed = Cardinality(written)
  BY DEF List, TasksOwned, Settled
<1>2. \A c \in targets' : row[c] \in {"stale", "fresh"} /\ (c \in codes' \/ row[c] = "fresh")
  BY <1>1 DEF List, StaleCodes, RowsKnown, TypeOK, WarmTypeOK
<1>3. CASE codes' = {}
  <2>1. warm' = "done" /\ task' = task
    BY <1>3 DEF List
  <2> QED
    BY <1>1, <1>2, <1>3, <2>1 DEF RowsKnown, LiveTasks, Pass, Settled, EveryTargetHadItsTurn
<1>4. CASE codes' # {}
  <2>1. /\ warm' = "gather" /\ tally' = NoOutcome /\ cut' = 0
        /\ task' = [c \in Stocks |-> IF c \in Batch' THEN "queued" ELSE "out"]
    BY <1>4 DEF List, Batch
  <2>2. \A c \in Stocks : task'[c] \in {"queued", "out"} /\ (task'[c] = "queued" => c \in Batch')
    BY <2>1
  <2>3. Batch' \subseteq codes' /\ \A c \in Batch' : PartOf(c)' = 0
    BY <2>1 DEF Batch, Slice, PartOf
  <2>4. \A c \in codes' : PartOf(c)' \in Nat
    <3>1. codes' \subseteq Stocks /\ BatchSize \in Nat \ {0}
      BY <1>1, WarmerAssumption DEF StaleCodes
    <3> QED
      BY <3>1, RankIsLess, DivIs DEF PartOf
  <2>5. RowsKnown'
    BY <1>1, <1>2, <2>2, <2>3 DEF RowsKnown, LiveTasks, Busy, StaleCodes
  <2>6. InTurn'
    <3>1. \A c \in codes' : ~(PartOf(c)' < 0)
      BY <2>4, SMT
    <3> QED
      BY <1>1, <1>2, <2>1, <2>2, <2>3, <3>1, SMT DEF InTurn
  <2>7. Counted'
    <3>1. Done("refreshed")' = {}
      BY <2>2 DEF Done
    <3>2. \A c \in codes' : c \notin written
      BY <1>1 DEF RowsKnown, StaleCodes
    <3>3. refreshed + 0 = Cardinality(written)
      BY <1>1, SMT DEF TypeOK, WarmTypeOK
    <3>4. tally'["refreshed"] = 0
      BY <2>1 DEF NoOutcome, Outcomes
    <3> QED
      BY <1>1, <3>1, <3>2, <3>3, <3>4, FS_EmptySet DEF Counted
  <2> QED
    BY <2>1, <2>5, <2>6, <2>7 DEF Pass, Settled, EveryTargetHadItsTurn
<1> QED
  BY <1>3, <1>4

LEMMA TaskKeepsWarming ==
    ASSUME WInv, NEW c \in Stocks, Task(c), WarmOnly
    PROVE  RowsKnown' /\ Pass' /\ Settled'
<1> USE DEF WInv, IInv, TypeOK, SyncTypeOK, WarmTypeOK
<1>1. c \in LiveTasks /\ c \in codes /\ row[c] # "none"
  BY DEF Task, TakePermit, Reply, Write, WriteFails, Turns, LiveTasks, Busy, RowsKnown
<1>2. PICK s \in Outcomes \cup {"fetch", "write", "raised"} :
         /\ task' = [task EXCEPT ![c] = s]
         /\ warm' = warm \/ (warm = "gather" /\ warm' = "failed")
         /\ UNCHANGED <<night, pass, targets, codes, cut, tally, refreshed>>
         /\ \/ s # "refreshed" /\ UNCHANGED <<row, written>> /\ (s = "raised" => warm' # "gather")
            \/ s = "refreshed" /\ row' = Renewed({c}) /\ written' = written \cup {c}
  BY DEF Task, TakePermit, Reply, Write, WriteFails, Turns, Outcomes, WarmOnly
<1>3. RowStep /\ (s = "refreshed" => row'[c] = "fresh")
  <2>1. RowStep
    BY <1>2, WritesRenew
  <2> QED
    BY <1>1, <1>2, <2>1, SMT DEF Renewed
<1>4. RowsKnown'
  <2>1. LiveTasks' \subseteq LiveTasks
    BY <1>1, <1>2 DEF LiveTasks
  <2>2. \A d \in written' : row'[d] = "fresh"
    BY <1>2, <1>3 DEF RowsKnown, RowStep
  <2> QED
    BY <1>2, <1>3, <2>1, <2>2 DEF RowsKnown, RowStep
<1>5. Settled'
  BY <1>1, <1>2 DEF Settled, EveryTargetHadItsTurn, TasksOwned
<1>6. ASSUME night = "warm", warm = "gather", warm' = "gather"
      PROVE  InTurn' /\ Counted'
  <2>1. c \in Batch /\ PartOf(c) = cut
    BY <1>1, <1>6, BatchIs DEF TasksOwned
  <2>2. InTurn /\ Counted
    BY <1>6 DEF Pass
  <2>3. Batch' = Batch /\ \A d : PartOf(d)' = PartOf(d)
    BY <1>2 DEF Batch, PartOf
  <2>4. InTurn'
    <3>1. cut \in Nat
      OBVIOUS
    <3>2. PartOf(c) <= cut /\ ~(PartOf(c) < cut)
      BY <2>1, <3>1, SMT
    <3> QED
      BY <1>1, <1>2, <1>3, <2>2, <2>3, <3>2 DEF InTurn, RowStep
  <2>5. Done("refreshed")' \ Batch' = Done("refreshed") \ Batch
    BY <1>2, <2>1, <2>3 DEF Done
  <2>6. c \notin written /\ c \notin Done("refreshed")
    BY <1>1, <2>2 DEF Counted, LiveTasks, Done, Busy
  <2>7. CASE s # "refreshed"
    <3>1. Done("refreshed")' = Done("refreshed") /\ written' = written
      BY <1>2, <2>6, <2>7 DEF Done
    <3>2. \A d \in codes : task'[d] \in Busy \cup {"out"} => d \notin written
      BY <1>2, <2>2, <2>6 DEF Counted
    <3> QED
      BY <1>2, <2>2, <2>4, <2>5, <3>1, <3>2 DEF Counted
  <2>8. CASE s = "refreshed"
    <3>1. Done("refreshed")' = Done("refreshed") \cup {c} /\ written' = written \cup {c}
      BY <1>2, <2>8 DEF Done
    <3>2. /\ IsFiniteSet(written) /\ IsFiniteSet(Done("refreshed"))
          /\ Cardinality(written) \in Nat /\ Cardinality(Done("refreshed")) \in Nat
      BY Counts DEF Done
    <3>3. /\ Cardinality(written') = Cardinality(written) + 1
          /\ Cardinality(Done("refreshed")') = Cardinality(Done("refreshed")) + 1
      <4>1. Cardinality(written \cup {c}) = Cardinality(written) + 1
        BY <2>6, <3>2, FS_AddElement
      <4>2. Cardinality(Done("refreshed") \cup {c}) = Cardinality(Done("refreshed")) + 1
        BY <2>6, <3>2, FS_AddElement
      <4> QED
        BY <3>1, <4>1, <4>2
    <3>4. \A d \in codes : task'[d] \in Busy \cup {"out"} => d \notin written'
      BY <1>2, <2>2, <2>8, <3>1 DEF Counted, Busy
    <3>5. refreshed + Cardinality(Done("refreshed")') = Cardinality(written')
      BY <2>2, <3>2, <3>3, SMT DEF Counted
    <3> QED
      BY <1>2, <2>2, <2>4, <2>5, <3>4, <3>5 DEF Counted
  <2> QED
    BY <2>4, <2>7, <2>8
<1>7. Pass'
  <2>1. warm' = "gather" => warm = "gather"
    BY <1>2
  <2> QED
    BY <1>2, <1>6, <2>1 DEF Pass
<1> QED
  BY <1>4, <1>5, <1>7

LEMMA BatchDoneKeepsWarming ==
    ASSUME WInv, night = "warm", BatchDone, WarmOnly
    PROVE  RowsKnown' /\ Pass' /\ Settled'
<1> USE DEF WInv, IInv, TypeOK, SyncTypeOK, WarmTypeOK
<1>1. /\ warm = "gather" /\ InTurn /\ Counted /\ LiveTasks = {}
      /\ \A c \in Batch : task[c] \in Outcomes
      /\ UNCHANGED <<row, targets, codes, written, night>>
  BY DEF BatchDone, BatchAwaited, Pass, WarmOnly, TasksOwned, LiveTasks, Busy, Outcomes
<1>2. \A c \in codes : PartOf(c) \in Nat /\ PartOf(c) + 1 <= Slices(codes, BatchSize)
  BY PartIsInRange
<1>3. \A c \in codes : PartOf(c) < cut + 1 => task[c] \in Outcomes
  <2>1. \A c \in codes : PartOf(c) < cut + 1 => PartOf(c) < cut \/ c \in Batch
    BY <1>2, BatchIs, SMT
  <2> QED
    BY <1>1, <2>1 DEF InTurn
<1>4. /\ tally' = [o \in Outcomes |-> tally[o] + Cardinality({c \in Batch : task[c] = o})]
      /\ tally'["refreshed"] = Cardinality(Done("refreshed"))
  <2> DEFINE B == {c \in Batch : task[c] = "refreshed"}
             R == Done("refreshed")
  <2>1. tally' = [o \in Outcomes |-> tally[o] + Cardinality({c \in Batch : task[c] = o})]
    BY DEF BatchDone
  <2>2. tally'["refreshed"] = Cardinality(R \ Batch) + Cardinality(B)
    BY <1>1, <2>1 DEF Outcomes, Counted
  <2>3. /\ R = (R \ Batch) \cup B /\ (R \ Batch) \cap B = {}
        /\ IsFiniteSet(B) /\ IsFiniteSet(R \ Batch)
        /\ Cardinality(B) \in Nat /\ Cardinality(R \ Batch) \in Nat
    <3>1. Batch \subseteq Stocks
      BY BatchIs
    <3>2. B \subseteq Stocks /\ R \ Batch \subseteq Stocks
      BY <3>1 DEF Done
    <3> QED
      BY <3>1, <3>2, Counts DEF Done
  <2>4. Cardinality(R) = Cardinality(R \ Batch) + Cardinality(B)
    <3>1. Cardinality((R \ Batch) \cup B)
            = Cardinality(R \ Batch) + Cardinality(B) - Cardinality((R \ Batch) \cap B)
      BY <2>3, FS_Union
    <3>2. Cardinality((R \ Batch) \cap B) = 0
      BY <2>3, FS_EmptySet
    <3> HIDE DEF B, R
    <3>3. Cardinality(R) = Cardinality((R \ Batch) \cup B)
      BY <2>3
    <3>4. \A n \in Nat, m \in Nat : n + m - 0 = n + m
      BY SMT
    <3> QED
      BY <2>3, <3>1, <3>2, <3>3, <3>4
  <2> QED
    BY <2>1, <2>2, <2>4
<1>5. RowsKnown'
  <2>1. LiveTasks' \subseteq codes
    BY <1>1 DEF BatchDone, LiveTasks, Slice, Busy
  <2> QED
    BY <1>1, <2>1 DEF RowsKnown
<1>6. CASE LastBatch
  <2>1. task' = task /\ refreshed' = refreshed + tally'["refreshed"] /\ warm' \in {"list", "done"}
    BY <1>6 DEF BatchDone
  <2>2. refreshed' = Cardinality(written')
    BY <1>1, <1>4, <2>1 DEF Counted
  <2>3. \A c \in codes : task[c] \in Outcomes
    <3>1. \A c \in codes : PartOf(c) < cut + 1
      <4>1. Slices(codes, BatchSize) \in Nat
        BY SliceIsPart, WarmerAssumption
      <4>2. cut + 1 >= Slices(codes, BatchSize) /\ cut \in Nat
        BY <1>6 DEF LastBatch
      <4> QED
        BY <1>2, <4>1, <4>2, SMT
    <3> QED
      BY <1>3, <3>1
  <2>4. EveryTargetHadItsTurn'
    BY <1>1, <2>1, <2>3 DEF EveryTargetHadItsTurn, InTurn, Outcomes
  <2> QED
    BY <1>5, <2>1, <2>2, <2>4 DEF Pass, Settled
<1>7. CASE ~LastBatch
  <2>1. /\ cut' = cut + 1 /\ warm' = "gather" /\ refreshed' = refreshed
        /\ task' = [c \in Stocks |-> IF c \in Batch' THEN "queued" ELSE task[c]]
    BY <1>1, <1>7 DEF BatchDone, Batch
  <2>2. \A c \in codes : PartOf(c)' = PartOf(c)
    BY <1>1 DEF PartOf
  <2>3. Batch' = {c \in codes : PartOf(c) = cut + 1}
    BY <1>1, <2>1 DEF Batch, Slice, PartOf
  <2>4. \A c \in Batch' : task[c] = "out"
    <3>1. \A c \in Batch' : c \in codes /\ ~(PartOf(c) <= cut)
      BY <2>3, SMT
    <3> QED
      BY <1>1, <3>1 DEF InTurn
  <2>5. InTurn'
    <3>1. \A c \in codes : PartOf(c) <= cut => PartOf(c) <= cut + 1
      BY <1>2, SMT
    <3>2. \A c \in Stocks : task'[c] # "out" => c \in codes /\ PartOf(c) <= cut'
      <4>1. \A c \in Batch' : PartOf(c) <= cut + 1
        BY <2>3, SMT
      <4> QED
        BY <1>1, <2>1, <2>3, <3>1, <4>1 DEF InTurn
    <3>3. \A c \in codes : PartOf(c) < cut' => task'[c] \in Outcomes
      <4>1. \A c \in codes : PartOf(c) < cut + 1 => c \notin Batch'
        BY <2>3, SMT
      <4> QED
        BY <1>3, <2>1, <4>1
    <3> QED
      BY <1>1, <2>1, <2>2, <3>2, <3>3 DEF InTurn
  <2>6. Done("refreshed")' = Done("refreshed") /\ Done("refreshed") \ Batch' = Done("refreshed")
    BY <2>1, <2>4 DEF Done
  <2>7. \A c \in codes : task'[c] \in Busy \cup {"out"} => c \notin written
    BY <1>1, <2>1, <2>4 DEF Counted
  <2>8. Counted'
    BY <1>1, <1>4, <2>1, <2>6, <2>7 DEF Counted
  <2> QED
    BY <1>5, <2>1, <2>5, <2>8 DEF Pass, Settled, EveryTargetHadItsTurn
<1> QED
  BY <1>6, <1>7

LEMMA NextWInv == WInv /\ [Next]_vars => WInv'
<1> SUFFICES ASSUME WInv, [Next]_vars
             PROVE  WInv'
  OBVIOUS
<1>1. IInv'
  BY NextIInv DEF WInv
<1>2. CASE Warm
  <2>1. CASE ListFails
    BY <1>1, <1>2, <2>1 DEF Warm, ListFails, WInv, RowsKnown, LiveTasks, Pass, Settled,
                      EveryTargetHadItsTurn
  <2> QED
    BY <1>1, <1>2, <2>1, ListKeepsWarming, BatchDoneKeepsWarming, TaskKeepsWarming
       DEF Warm, NextWarm, WarmOnly, WInv
<1>3. CASE UNCHANGED vars
  <2>1. RowStep
    BY <1>3 DEF vars, RowStep
  <2> QED
    BY <1>1, <1>3, <2>1, WarmFrame DEF vars, WInv
<1> QED
  BY <1>1, <1>2, <1>3, SyncKeepsWarming, OutsideKeepsWarming, CancelKeepsWarming,
     ReturnsKeepWarming DEF Next, WInv

LEMMA InvariantWInv == Spec => []WInv
  BY InitWInv, NextWInv, PTL DEF Spec

-----------------------------------------------------------------------------
(***************************************************************************)
(* The count of refreshed stocks that a warming returns is the number of   *)
(* stocks it has written, whatever failed and however often it passed.     *)
(***************************************************************************)
THEOREM RefreshedCountIsTrue == Spec => []RefreshedIsTrue
<1>1. WInv => RefreshedIsTrue
  BY DEF WInv, Settled, RefreshedIsTrue
<1> QED
  BY <1>1, InvariantWInv, PTL

(***************************************************************************)
(* A warming that returns has tried every stock that was stale when it     *)
(* began, in however many batches and passes.                              *)
(***************************************************************************)
THEOREM NoTargetIsLeftOut == Spec => []EveryTargetHadItsTurn
<1>1. WInv => EveryTargetHadItsTurn
  BY DEF WInv, Settled
<1> QED
  BY <1>1, InvariantWInv, PTL

-----------------------------------------------------------------------------
(***************************************************************************)
(* The pages of the listing.  A stock moves to an earlier page only when   *)
(* another is delisted and to a later one only when another is listed.     *)
(***************************************************************************)
PageIn(c, S) == Rank(c, S) \div PageSize
PageOf(c) == PageIn(c, listed)

Copied == \A c \in Stocks : job[c] = "done" => c \in told

\* Who was listed all along has been copied, is being copied, or is on a page
\* that is still to be read.
Unread ==
    left = {} =>
        \A c \in listed \ joined :
            /\ sync = "page" => c \in told \/ PageOf(c) >= page
            /\ sync = "gather" => c \in told \cup batch \/ (PageOf(c) > page /\ page + 1 < pages)
            /\ sync = "done" => c \in told

\* What is copied has been counted, up to the page under way.
Tallied ==
    /\ sync \in {"page", "done"} => synced >= Cardinality(told)
    /\ sync = "gather" => synced >= Cardinality(told \ batch)

\* Nobody is read twice if nobody is listed.
ReadOnce ==
    joined = {} =>
        /\ sync \in {"page", "done"} => synced = Cardinality(told)
        /\ sync = "page" => \A c \in told \cap listed : PageOf(c) < page
        /\ sync = "gather" =>
              /\ synced = Cardinality(told \ batch)
              /\ \A c \in (told \cup batch) \cap listed : PageOf(c) <= page

PInv == IInv /\ Copied /\ Unread /\ Tallied /\ ReadOnce

LEMMA DivMonotone ==
    ASSUME NEW a \in Nat, NEW b \in Nat, NEW k \in Nat \ {0}, a <= b
    PROVE  a \div k <= b \div k
<1> DEFINE q == a \div k
           p == b \div k
<1>1. q \in Nat /\ q * k <= a /\ p \in Nat /\ b < p * k + k
  BY DivIs
<1> HIDE DEF q, p
<1>2. q * k \in Nat /\ p * k \in Nat
  BY <1>1, SMT
<1>3. q <= p
  BY <1>1, <1>2, DivIsMost, SMT
<1> QED
  BY <1>3 DEF q, p

LEMMA PageMonotone ==
    ASSUME NEW S \in SUBSET Stocks, NEW T \in SUBSET Stocks, S \subseteq T, NEW c
    PROVE  /\ PageIn(c, S) \in Nat
           /\ PageIn(c, T) \in Nat
           /\ PageIn(c, S) <= PageIn(c, T)
<1> DEFINE A == {d \in S : d < c}
           B == {d \in T : d < c}
<1>1. A \subseteq B /\ A \subseteq Stocks /\ B \subseteq Stocks
  OBVIOUS
<1>2. /\ IsFiniteSet(B) /\ Cardinality(A) \in Nat /\ Cardinality(B) \in Nat
  BY <1>1, Counts
<1>3. Cardinality(A) <= Cardinality(B)
  BY <1>1, <1>2, FS_Subset
<1>4. PageSize \in Nat \ {0}
  BY CatalogAssumption
<1> QED
  BY <1>2, <1>3, <1>4, DivIs, DivMonotone DEF PageIn, Rank

\* Every place of an ordered set is taken.
LEMMA RankIsOnto ==
    ASSUME NEW S \in SUBSET Stocks, NEW n \in Nat, n < Cardinality(S)
    PROVE  \E c \in S : Rank(c, S) = n
<1> DEFINE N == Cardinality(S)
           T == 0 .. N - 1
           f == [c \in S |-> Rank(c, S)]
<1>1. IsFiniteSet(S) /\ N \in Nat
  BY Counts
<1>2. IsFiniteSet(T) /\ Cardinality(T) = N
  <2>1. N - 1 \in Int /\ 0 \in Int /\ (IF 0 > N - 1 THEN 0 ELSE (N - 1) - 0 + 1) = N
    BY <1>1, SMT
  <2> QED
    BY <2>1, FS_Interval
<1>3. f \in [S -> T]
  BY <1>1, RankIsLess, SMT
<1>4. ASSUME NEW c \in S, NEW d \in S, c < d
      PROVE  Rank(c, S) < Rank(d, S)
  <2> DEFINE A == {x \in S : x < c}
             B == {x \in S : x < d}
  <2>1. A \subseteq B /\ c \in B /\ c \notin A
    <3>1. c \in Nat /\ d \in Nat /\ \A x \in S : x \in Nat
      BY StocksAssumption
    <3>2. ~(c < c) /\ \A x \in S : x < c => x < d
      BY <1>4, <3>1, SMT
    <3> QED
      BY <1>4, <3>2
  <2>2. IsFiniteSet(B) /\ Cardinality(A) \in Nat /\ Cardinality(B) \in Nat
    <3>1. A \subseteq Stocks /\ B \subseteq Stocks
      OBVIOUS
    <3> QED
      BY <3>1, Counts
  <2>3. Cardinality(A) <= Cardinality(B) /\ Cardinality(A) # Cardinality(B)
    BY <2>1, <2>2, FS_Subset
  <2> QED
    BY <2>2, <2>3, SMT DEF Rank
<1>5. ASSUME NEW c \in S, NEW d \in S, Rank(c, S) = Rank(d, S)
      PROVE  c = d
  <2>1. c \in Nat /\ d \in Nat /\ Rank(c, S) \in Nat
    BY StocksAssumption, RankIsLess
  <2>2. ~(c < d) /\ ~(d < c)
    BY <1>4, <1>5, <2>1, SMT
  <2> QED
    BY <2>1, <2>2, SMT
<1>6. f \in Injection(S, T)
  BY <1>3, <1>5 DEF Injection, IsInjective
<1>7. f \in Surjection(S, T)
  BY <1>2, <1>6, FS_Injection
<1>8. n \in T
  BY <1>1, SMT
<1> QED
  BY <1>7, <1>8 DEF Surjection

\* An empty page is behind the last one.
LEMMA NoEmptyPage ==
    ASSUME NEW S \in SUBSET Stocks, NEW c \in S, NEW i \in Nat, i <= PageIn(c, S)
    PROVE  Slice(S, PageSize, i) # {}
<1> DEFINE k == PageIn(c, S)
           r == Rank(c, S)
<1>1. PageSize \in Nat \ {0} /\ r \in Nat /\ r < Cardinality(S) /\ Cardinality(S) \in Nat
  BY CatalogAssumption, RankIsLess, Counts
<1>2. k \in Nat /\ k * PageSize <= r
  BY <1>1, DivIs DEF PageIn
<1> HIDE DEF k, r
<1>3. i * PageSize \in Nat /\ i * PageSize <= k * PageSize /\ k * PageSize \in Nat
  <2> DEFINE d == k - i
  <2>1. d \in Nat /\ k = i + d
    BY <1>2, SMT DEF k
  <2> HIDE DEF d
  <2>2. k * PageSize = i * PageSize + d * PageSize /\ d * PageSize \in Nat /\ i * PageSize \in Nat
    BY <1>1, <2>1, SMT
  <2> QED
    BY <2>2, SMT
<1>4. i * PageSize < Cardinality(S)
  BY <1>1, <1>2, <1>3, SMT
<1>5. PICK d \in S : Rank(d, S) = i * PageSize
  BY <1>3, <1>4, RankIsOnto
<1>6. (i * PageSize) \div PageSize = i
  <2> DEFINE q == (i * PageSize) \div PageSize
  <2>1. q \in Nat /\ q * PageSize <= i * PageSize /\ i * PageSize < q * PageSize + PageSize
    BY <1>1, <1>3, DivIs
  <2> HIDE DEF q
  <2>2. q * PageSize \in Nat
    BY <1>1, <2>1, SMT
  <2>3. q * PageSize < i * PageSize + PageSize
    BY <1>1, <1>3, <2>1, <2>2, SMT
  <2>4. q <= i /\ i <= q
    BY <1>1, <2>1, <2>3, DivIsMost
  <2> QED
    BY <2>1, <2>4, SMT DEF q
<1> QED
  BY <1>5, <1>6 DEF Slice

LEMMA PageIsInRange ==
    ASSUME NEW S \in SUBSET Stocks, NEW c \in S
    PROVE  PageIn(c, S) \in Nat /\ PageIn(c, S) + 1 <= Slices(S, PageSize)
<1>1. PageSize \in Nat \ {0} /\ Rank(c, S) \in Nat /\ Rank(c, S) < Cardinality(S)
      /\ Cardinality(S) \in Nat
  BY CatalogAssumption, RankIsLess, Counts
<1> QED
  BY <1>1, DivIs, DivLess DEF PageIn, Slices

-----------------------------------------------------------------------------
LEMMA InitPInv == Init => PInv
<1> SUFFICES ASSUME Init
             PROVE  PInv
  OBVIOUS
<1>1. IInv
  BY InitIInv
<1>2. \A c \in listed : PageOf(c) \in Nat
  BY <1>1, PageMonotone DEF PageOf, IInv, TypeOK, SyncTypeOK
<1>3. Unread
  BY <1>2, SMT DEF Init, InitSync, Unread
<1>4. Cardinality(told) = 0
  BY FS_EmptySet DEF Init, InitSync
<1>5. Copied /\ Tallied /\ ReadOnce
  BY <1>4, SMT DEF Init, InitSync, Copied, Tallied, ReadOnce
<1> QED
  BY <1>1, <1>3, <1>5 DEF PInv

LEMMA SearchKeepsPages ==
    ASSUME PInv, night = "sync", SearchStocks \/ SearchFails, SyncOnly
    PROVE  Copied' /\ Unread' /\ Tallied' /\ ReadOnce'
<1> USE DEF SyncOnly, listing
<1>1. CASE SearchFails
  BY <1>1 DEF SearchFails, PInv, Copied, Unread, Tallied, ReadOnce
<1>2. CASE SearchStocks
  <2>1. /\ sync = "page" /\ page \in Nat /\ synced \in Nat /\ listed \subseteq Stocks
        /\ told \subseteq Stocks
        /\ UNCHANGED <<listed, joined, left, told, page, synced>>
        /\ batch' = Slice(listed, PageSize, page)
        /\ pages' = Slices(listed, PageSize)
    BY <1>2 DEF SearchStocks, Fetch, PInv, IInv, TypeOK, SyncTypeOK
  <2>2. \A c \in listed : PageOf(c) \in Nat /\ PageOf(c) + 1 <= pages' /\ pages' \in Nat
    BY <2>1, PageIsInRange, SliceIsPart, CatalogAssumption DEF PageOf
  <2>3. batch' = {c \in listed : PageOf(c) = page}
    BY <2>1 DEF Slice, PageOf, PageIn
  <2>4. \A c : PageOf(c)' = PageOf(c)
    BY <2>1 DEF PageOf
  <2>5. Copied'
    BY <1>2, <2>1 DEF SearchStocks, PInv, Copied
  <2>6. CASE batch' = {}
    <3>1. sync' = "done"
      BY <1>2, <2>6 DEF SearchStocks
    <3>2. \A c \in listed : ~(page <= PageOf(c))
      BY <2>1, <2>6, NoEmptyPage DEF PageOf
    <3>3. Unread'
      BY <2>1, <2>2, <3>1, <3>2, SMT DEF PInv, Unread
    <3> QED
      BY <2>1, <2>5, <3>1, <3>3 DEF PInv, Tallied, ReadOnce
  <2>7. CASE batch' # {}
    <3>1. sync' = "gather"
      BY <1>2, <2>7 DEF SearchStocks
    <3>2. Unread'
      <4> SUFFICES ASSUME left = {}, NEW c \in listed \ joined, c \notin told, c \notin batch'
                   PROVE  PageOf(c) > page /\ page + 1 < pages'
        BY <2>1, <2>4, <3>1 DEF Unread
      <4>1. PageOf(c) >= page /\ PageOf(c) # page
        BY <2>1, <2>3 DEF PInv, Unread
      <4> QED
        BY <2>1, <2>2, <4>1, SMT
    <3>3. Cardinality(told \ batch') <= Cardinality(told) /\ Cardinality(told) \in Nat
          /\ Cardinality(told \ batch') \in Nat
      <4>1. told \ batch' \subseteq told
        OBVIOUS
      <4> QED
        BY <2>1, <4>1, Counts, FS_Subset
    <3>4. Tallied'
      BY <2>1, <3>1, <3>3, SMT DEF PInv, Tallied
    <3>5. ReadOnce'
      <4> SUFFICES ASSUME joined = {}
                   PROVE  /\ synced = Cardinality(told \ batch')
                          /\ \A c \in (told \cup batch') \cap listed : PageOf(c) <= page
        BY <2>1, <2>4, <3>1 DEF ReadOnce
      <4>1. synced = Cardinality(told) /\ \A c \in told \cap listed : PageOf(c) < page
        BY <2>1 DEF PInv, ReadOnce
      <4>2. told \ batch' = told
        BY <2>1, <2>2, <2>3, <4>1, SMT
      <4>3. \A c \in (told \cup batch') \cap listed : PageOf(c) <= page
        BY <2>1, <2>2, <2>3, <4>1, SMT
      <4> QED
        BY <4>1, <4>2, <4>3
    <3> QED
      BY <2>5, <3>2, <3>4, <3>5
  <2> QED
    BY <2>6, <2>7
<1> QED
  BY <1>1, <1>2

LEMMA PageDoneKeepsPages ==
    ASSUME PInv, night = "sync", PageDone, SyncOnly
    PROVE  Copied' /\ Unread' /\ Tallied' /\ ReadOnce'
<1> USE DEF SyncOnly, listing
<1>1. /\ sync = "gather" /\ sync' = (IF page' >= pages THEN "done" ELSE "page")
      /\ page' = page + 1
      /\ synced' = synced + Cardinality(batch)
      /\ UNCHANGED <<listed, joined, left, told, pages, batch, job>>
      /\ page \in Nat /\ pages \in Nat /\ synced \in Nat
      /\ told \subseteq Stocks /\ batch \subseteq Stocks /\ listed \subseteq Stocks
  BY DEF PageDone, Awaited, PInv, IInv, TypeOK, SyncTypeOK
<1>2. batch \subseteq told
  BY <1>1 DEF PageDone, Awaited, PInv, Copied
<1>3. Cardinality(told) = Cardinality(told \ batch) + Cardinality(batch)
  <2>1. (told \ batch) \cup batch = told /\ (told \ batch) \cap batch = {}
    BY <1>2
  <2>2. IsFiniteSet(told \ batch) /\ IsFiniteSet(batch)
    <3>1. told \ batch \subseteq Stocks
      BY <1>1
    <3> QED
      BY <1>1, <3>1, Counts
  <2>3. Cardinality((told \ batch) \cup batch)
          = Cardinality(told \ batch) + Cardinality(batch) - Cardinality((told \ batch) \cap batch)
    BY <2>2, FS_Union
  <2>4. Cardinality(told \ batch) \in Nat /\ Cardinality(batch) \in Nat
    BY <2>2, FS_CardinalityType
  <2>5. Cardinality({}) = 0
    BY FS_EmptySet
  <2>6. Cardinality(told) = Cardinality(told \ batch) + Cardinality(batch) - 0
    BY <2>1, <2>3, <2>5
  <2> QED
    BY <2>4, <2>6, SMT
<1>4. Cardinality(batch) \in Nat /\ Cardinality(told \ batch) \in Nat
  <2>1. told \ batch \subseteq Stocks
    BY <1>1
  <2> QED
    BY <1>1, <2>1, Counts
<1>5. \A c : PageOf(c)' = PageOf(c)
  BY <1>1 DEF PageOf
<1>6. \A c \in listed : PageOf(c) \in Nat
  BY <1>1, PageMonotone DEF PageOf
<1>7. Unread'
  <2> SUFFICES ASSUME left = {}, NEW c \in listed \ joined, c \notin told
               PROVE  sync' = "page" /\ PageOf(c) >= page'
    BY <1>1, <1>5 DEF Unread
  <2>1. PageOf(c) > page /\ page + 1 < pages
    BY <1>1, <1>2 DEF PInv, Unread
  <2> QED
    BY <1>1, <1>6, <2>1, SMT
<1>8. Tallied'
  BY <1>1, <1>3, <1>4, SMT DEF PInv, Tallied
<1>9. ReadOnce'
  <2> SUFFICES ASSUME joined = {}
               PROVE  synced' = Cardinality(told) /\ \A c \in told \cap listed : PageOf(c) < page'
    BY <1>1, <1>5 DEF ReadOnce
  <2>1. synced = Cardinality(told \ batch) /\ \A c \in told \cap listed : PageOf(c) <= page
    BY <1>1 DEF PInv, ReadOnce
  <2> QED
    BY <1>1, <1>3, <1>4, <1>6, <2>1, SMT
<1> QED
  BY <1>1, <1>7, <1>8, <1>9 DEF PInv, Copied

LEMMA JobKeepsPages ==
    ASSUME PInv, NEW c \in Stocks, Job(c), SyncOnly
    PROVE  Copied' /\ Unread' /\ Tallied' /\ ReadOnce'
<1> USE DEF SyncOnly, listing
<1>1. /\ c \in LiveJobs
      /\ job \in [Stocks -> Steps \cup {"out", "queued", "done", "failed", "cancelled"}]
      /\ UNCHANGED <<listed, joined, left, page, pages, batch, synced>>
  BY DEF Job, Begin, CopyRow, CopyText, SyncFails, LiveJobs, Steps, PInv, IInv, TypeOK, SyncTypeOK
<1>2. /\ told' \in {told, told \cup {c}}
      /\ sync' = sync \/ sync' = "failed"
  BY DEF Job, Begin, CopyRow, CopyText, SyncFails
<1>3. Copied'
  BY <1>1 DEF Job, Begin, CopyRow, CopyText, SyncFails, PInv, Copied
<1>4. \A d : PageOf(d)' = PageOf(d)
  BY <1>1 DEF PageOf
<1>5. CASE sync' = "failed"
  BY <1>3, <1>5 DEF Unread, Tallied, ReadOnce
<1>6. CASE sync' = sync /\ sync # "failed"
  <2>1. sync = "gather" /\ c \in batch
    BY <1>1, <1>6 DEF PInv, IInv, JobsOwned
  <2>2. told' \ batch' = told \ batch /\ told' \cup batch' = told \cup batch
    BY <1>1, <1>2, <2>1
  <2>3. Unread'
    BY <1>1, <1>4, <1>6, <2>1, <2>2 DEF PInv, Unread
  <2>4. Tallied' /\ ReadOnce'
    BY <1>1, <1>4, <1>6, <2>1, <2>2 DEF PInv, Tallied, ReadOnce
  <2> QED
    BY <1>3, <2>3, <2>4
<1> QED
  BY <1>2, <1>5, <1>6

LEMMA MoveKeepsPages ==
    ASSUME PInv, NEW c \in Stocks, Move(c), UNCHANGED syncVars
    PROVE  Copied' /\ Unread' /\ Tallied' /\ ReadOnce'
<1> USE DEF syncVars
<1>1. /\ listed \subseteq Stocks /\ page \in Nat
      /\ UNCHANGED <<told, sync, page, pages, batch, job, synced>>
  BY DEF PInv, IInv, TypeOK, SyncTypeOK
<1>2. Copied' /\ Tallied'
  BY <1>1 DEF PInv, Copied, Tallied
<1>3. CASE c \notin listed
  <2>1. /\ listed' = listed \cup {c} /\ joined' = joined \cup {c} /\ left' = left
        /\ listed' \subseteq Stocks
    BY <1>1, <1>3 DEF Move
  <2>2. listed' \ joined' = listed \ joined
    BY <1>3, <2>1
  <2>3. \A d : PageOf(d) \in Nat /\ PageOf(d)' \in Nat /\ PageOf(d) <= PageOf(d)'
    BY <1>1, <2>1, PageMonotone DEF PageOf
  <2>4. Unread'
    <3> SUFFICES ASSUME left = {}, NEW d \in listed \ joined
                 PROVE  /\ sync = "page" => d \in told \/ PageOf(d)' >= page
                        /\ sync = "gather" => d \in told \cup batch
                                              \/ (PageOf(d)' > page /\ page + 1 < pages)
                        /\ sync = "done" => d \in told
      BY <1>1, <2>1, <2>2 DEF Unread
    <3>1. /\ sync = "page" => d \in told \/ PageOf(d) >= page
          /\ sync = "gather" => d \in told \cup batch \/ (PageOf(d) > page /\ page + 1 < pages)
          /\ sync = "done" => d \in told
      BY DEF PInv, Unread
    <3>2. (PageOf(d) >= page => PageOf(d)' >= page) /\ (PageOf(d) > page => PageOf(d)' > page)
      BY <1>1, <2>3, SMT
    <3> QED
      BY <3>1, <3>2
  <2> QED
    BY <1>2, <2>1, <2>4 DEF ReadOnce
<1>4. CASE c \in listed
  <2>1. /\ listed' = listed \ {c} /\ left' = left \cup {c} /\ joined' = joined
        /\ listed' \subseteq Stocks
    BY <1>1, <1>4 DEF Move
  <2>2. \A d : PageOf(d) \in Nat /\ PageOf(d)' \in Nat /\ PageOf(d)' <= PageOf(d)
    BY <1>1, <2>1, PageMonotone DEF PageOf
  <2>3. ReadOnce'
    <3> SUFFICES ASSUME joined = {}
                 PROVE  /\ sync \in {"page", "done"} => synced = Cardinality(told)
                        /\ sync = "page" => \A d \in told \cap listed' : PageOf(d)' < page
                        /\ sync = "gather" =>
                              /\ synced = Cardinality(told \ batch)
                              /\ \A d \in (told \cup batch) \cap listed' : PageOf(d)' <= page
      BY <1>1, <2>1 DEF ReadOnce
    <3>1. \A d : (PageOf(d) < page => PageOf(d)' < page) /\ (PageOf(d) <= page => PageOf(d)' <= page)
      BY <1>1, <2>2, SMT
    <3> QED
      BY <2>1, <3>1 DEF PInv, ReadOnce
  <2> QED
    BY <1>2, <2>1, <2>3 DEF Unread
<1> QED
  BY <1>3, <1>4

LEMMA PagesFrame ==
    ASSUME PInv, UNCHANGED <<listing, told, sync, page, pages, batch, synced>>,
           \A c \in Stocks : job'[c] = "done" => job[c] = "done"
    PROVE  Copied' /\ Unread' /\ Tallied' /\ ReadOnce'
<1>1. \A c : PageOf(c)' = PageOf(c)
  BY DEF PageOf, listing
<1> QED
  BY <1>1 DEF PInv, Copied, Unread, Tallied, ReadOnce, listing

LEMMA NextPInv == PInv /\ [Next]_vars => PInv'
<1> SUFFICES ASSUME PInv, [Next]_vars
             PROVE  PInv'
  OBVIOUS
<1>1. IInv'
  BY NextIInv DEF PInv
<1>2. CASE Sync
  BY <1>1, <1>2, SearchKeepsPages, PageDoneKeepsPages, JobKeepsPages
     DEF Sync, NextSync, SyncOnly, PInv
<1>3. CASE Warm \/ SyncReturns \/ WarmReturns
  <2>1. UNCHANGED <<listing, told, sync, page, pages, batch, synced, job>>
    BY <1>3 DEF Warm, SyncReturns, WarmReturns, syncVars
  <2> QED
    BY <1>1, <2>1, PagesFrame DEF PInv
<1>4. CASE Cancel
  <2>1. \A c \in Stocks : job'[c] = "done" => job[c] = "done"
    BY <1>4 DEF Cancel
  <2>2. UNCHANGED <<listing, told, sync, page, pages, batch, synced>>
    BY <1>4 DEF Cancel
  <2> QED
    BY <1>1, <2>1, <2>2, PagesFrame DEF PInv
<1>5. CASE Outside
  <2>1. CASE UNCHANGED listing
    <3>1. UNCHANGED <<listing, told, sync, page, pages, batch, synced, job>>
      BY <1>5, <2>1 DEF Outside, syncVars
    <3> QED
      BY <1>1, <3>1, PagesFrame DEF PInv
  <2> QED
    BY <1>1, <1>5, <2>1, MoveKeepsPages DEF Outside, PInv
<1>6. CASE UNCHANGED vars
  <2>1. UNCHANGED <<listing, told, sync, page, pages, batch, synced, job>>
    BY <1>6 DEF vars, syncVars
  <2> QED
    BY <1>1, <2>1, PagesFrame DEF PInv
<1> QED
  BY <1>2, <1>3, <1>4, <1>5, <1>6 DEF Next

LEMMA InvariantPInv == Spec => []PInv
  BY InitPInv, NextPInv, PTL DEF Spec

(***************************************************************************)
(* A sync that returns has copied every stock that was listed all along,   *)
(* unless some stock was delisted meanwhile, for any listing and page size.*)
(***************************************************************************)
THEOREM NoListedStockIsSkipped == Spec => []NoStockSkipped
<1>1. PInv => NoStockSkipped
  BY DEF PInv, Unread, NoStockSkipped
<1> QED
  BY <1>1, InvariantPInv, PTL

(***************************************************************************)
(* The count a sync returns is the number of stocks it has copied, unless  *)
(* some stock was listed meanwhile; it is never less.                      *)
(***************************************************************************)
THEOREM SyncedCountIsTrue == Spec => []CountIsTrue
<1>1. PInv => CountIsTrue
  BY DEF PInv, Tallied, ReadOnce, CountIsTrue
<1> QED
  BY <1>1, InvariantPInv, PTL
=============================================================================
