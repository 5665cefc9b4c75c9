-------------------------------- MODULE Ranking --------------------------------
(***************************************************************************)
(* From the two searches to the recommended stocks: reciprocal rank fusion *)
(* and its cut (hybrid_stock_search.py), then scoring, sorting and the     *)
(* final cut (score_candidates.py).  Python's sort is stable and a dict    *)
(* keeps the order of insertion, so equal scores keep an order, too.       *)
(***************************************************************************)
EXTENDS FitScore, SequencesExt

CONSTANTS
    Stocks,
    TopK,           \* of hybrid_search
    RRFK,           \* RRF_K
    TopN,           \* TOP_N_RECOMMEND
    Samples,        \* metrics a stock may have
    NoMetrics

ASSUME RankingAssumption ==
    /\ {TopK, TopN, RRFK} \subseteq Nat \ {0}
    /\ RRFK + 2 > TopK
    /\ Samples \subseteq Metrics
    /\ NoMetrics \notin Samples

VARIABLES
    stage,          \* "search", "fuse", "read", "score" or "done"
    byVector,       \* result of _vector_search: stocks, best first
    byKeyword,      \* result of _keyword_search
    candidates,     \* retrieved_candidates
    risk,           \* risk_tolerance of the investor
    metrics,        \* what get_metrics_many has for each candidate
    scored          \* scored_candidates

vars == <<stage, byVector, byKeyword, candidates, risk, metrics, scored>>

Lists(n) == UNION {{s \in [1 .. k -> Stocks] : IsInjective(s)} : k \in 0 .. n}

Init ==
    /\ stage = "search"
    /\ byVector = <<>>
    /\ byKeyword = <<>>
    /\ candidates = <<>>
    /\ risk \in RiskLevels
    /\ metrics = <<>>
    /\ scored = <<>>

-----------------------------------------------------------------------------
RankIn(d, list) == CHOOSE i \in DOMAIN list : list[i] = d
Has(list, d) == d \in ToSet(list)

\* Wrong form: the second rank replaces the first.
LastRank(d) ==
    IF Has(byKeyword, d) THEN <<1, RRFK + RankIn(d, byKeyword)>>
    ELSE <<1, RRFK + RankIn(d, byVector)>>

\* The sum of 1 / (k + rank) over the lists that have d, as a fraction.
RRF(d) ==
    LET v == RRFK + RankIn(d, byVector)
        w == RRFK + RankIn(d, byKeyword)
    IN  CASE ~Has(byKeyword, d) -> <<1, v>>
          [] ~Has(byVector, d)  -> <<1, w>>
          [] OTHER              -> <<v + w, v * w>>

Above(p, q) == p[1] * q[2] > q[1] * p[2]

\* Wrong form: the keyword results are entered first.
EnteredKeywordFirst(d) ==
    IF Has(byKeyword, d) THEN RankIn(d, byKeyword) ELSE Len(byKeyword) + RankIn(d, byVector)

\* The place of d in the dict.
Entered(d) ==
    IF Has(byVector, d) THEN RankIn(d, byVector) ELSE Len(byVector) + RankIn(d, byKeyword)

Fused(d, e) ==
    \/ Above(RRF(d), RRF(e))
    \/ ~Above(RRF(e), RRF(d)) /\ Entered(d) < Entered(e)

\* Python's sort, by an order in which no two elements tie: an element comes
\* after as many as are before it in the order.
Predecessors(d, S, order) == {e \in S : <<e, d>> \in order}

Sorted(S, order) ==
    [i \in 1 .. Cardinality(S) |->
        CHOOSE d \in S : Cardinality(Predecessors(d, S, order)) = i - 1]

FirstOf(n, list) == SubSeq(list, 1, IF n < Len(list) THEN n ELSE Len(list))

Found == ToSet(byVector) \cup ToSet(byKeyword)
FusionOrder == {p \in Found \X Found : Fused(p[1], p[2])}

\* Two statements, each with a limit of top_k.
Search ==
    /\ stage = "search"
    /\ byVector' \in Lists(TopK)
    /\ byKeyword' \in Lists(TopK)
    /\ stage' = "fuse"
    /\ UNCHANGED <<candidates, risk, metrics, scored>>

Fuse ==
    /\ stage = "fuse"
    /\ candidates' = FirstOf(TopK, Sorted(Found, FusionOrder))
    /\ stage' = "read"
    /\ UNCHANGED <<byVector, byKeyword, risk, metrics, scored>>

\* get_metrics_many; the lists of the search are gone by now.
ReadMetrics ==
    /\ stage = "read"
    /\ metrics' \in [ToSet(candidates) -> Samples \cup {NoMetrics}]
    /\ byVector' = <<>>
    /\ byKeyword' = <<>>
    /\ stage' = "score"
    /\ UNCHANGED <<candidates, risk, scored>>

ScoreOf(d) == Score(metrics[d], risk)

Better(d, e) ==
    \/ ScoreOf(d) > ScoreOf(e)
    \/ ScoreOf(d) = ScoreOf(e) /\ RankIn(d, candidates) < RankIn(e, candidates)

Complete == {d \in ToSet(candidates) : metrics[d] # NoMetrics}

ScoreOrder == {p \in Complete \X Complete : Better(p[1], p[2])}

\* Wrong form: the list is cut before it is sorted.
BestOfTheFirst ==
    Sorted({d \in Complete : RankIn(d, candidates) <= TopN}, ScoreOrder)

Best == FirstOf(TopN, Sorted(Complete, ScoreOrder))

Rank ==
    /\ stage = "score"
    /\ scored' = Best
    /\ stage' = "done"
    /\ UNCHANGED <<byVector, byKeyword, candidates, risk, metrics>>

Next == Search \/ Fuse \/ ReadMetrics \/ Rank

Spec == Init /\ [][Next]_vars

-----------------------------------------------------------------------------
(* Every variable keeps its type: no stock comes twice, no list is longer  *)
(* than its limit, and every score is between 0 and 1.                     *)
TypeOK ==
    /\ stage \in {"search", "fuse", "read", "score", "done"}
    /\ {byVector, byKeyword, candidates} \subseteq Lists(TopK)
    /\ risk \in RiskLevels
    /\ stage \in {"score", "done"} =>
           /\ metrics \in [ToSet(candidates) -> Samples \cup {NoMetrics}]
           /\ \A d \in Complete : ScoreOf(d) \in 0 .. Unit
    /\ scored \in Lists(TopN)

(***************************************************************************)
(* A stock that both searches found comes before every stock that only one *)
(* of them found, at whatever ranks: that is what makes k = 60 enough for  *)
(* lists of 20.                                                            *)
(***************************************************************************)
BothBeatOne ==
    stage = "read" =>
        \A i, j \in DOMAIN candidates :
            i < j /\ Has(byVector, candidates[j]) /\ Has(byKeyword, candidates[j])
            => Has(byVector, candidates[i]) /\ Has(byKeyword, candidates[i])

(***************************************************************************)
(* The cut after the fusion keeps the best stock by meaning.  The best one *)
(* by keyword it drops in one case only: when every other keyword result   *)
(* is found by meaning, too, and the best by meaning is found by it alone. *)
(***************************************************************************)
BestHitsKept ==
    stage = "read" =>
        /\ byVector # <<>> => Has(candidates, byVector[1])
        /\ byKeyword # <<>> =>
              \/ Has(candidates, byKeyword[1])
              \/ /\ Len(byKeyword) = TopK
                 /\ \A i \in 2 .. TopK : Has(byVector, byKeyword[i])
                 /\ ~Has(byKeyword, byVector[1])

(***************************************************************************)
(* Of two candidates with metrics, the one that is on no axis worse is     *)
(* never recommended after the other, nor left out in favour of it, unless *)
(* they score the same.                                                    *)
(***************************************************************************)
NoWorseNoLater ==
    stage = "done" =>
        \A d, e \in Complete :
            NoWorse(metrics[d], metrics[e], risk) /\ Has(scored, e) =>
                \/ Has(scored, d) /\ RankIn(d, scored) <= RankIn(e, scored)
                \/ ScoreOf(d) = ScoreOf(e)

(***************************************************************************)
(* A stock that is recommended with a score below one half names at least  *)
(* one axis to improve.                                                    *)
(***************************************************************************)
LowScoresAreExplained ==
    stage = "done" =>
        \A i \in DOMAIN scored :
            ScoreOf(scored[i]) < Unit \div 2 => ImprovementTags(metrics[scored[i]], risk) # {}
=============================================================================
