------------------------------ MODULE StockCache ------------------------------
(***************************************************************************)
(* The rows of stocks_cache as far as the nightly batch tells them apart:  *)
(* whether a stock has a row, and the age of its market metrics.  "old" is *)
(* a value from before this night that the stale limit still allows and    *)
(* that may cross it during the night; "fresh" is one written tonight: the *)
(* limit is longer than a night.                                           *)
(***************************************************************************)
EXTENDS Integers, FiniteSets

CONSTANT Stocks     \* stock codes, in the order of CODE_ASC

ASSUME StocksAssumption == Stocks \subseteq Nat /\ IsFiniteSet(Stocks)

VARIABLE row

Ages == {"none", "stale", "old", "fresh"}

\* The i-th part of an ordered set cut into parts of the same size.
Rank(c, S) == Cardinality({d \in S : d < c})
Slice(S, size, i) == {c \in S : Rank(c, S) \div size = i}
Slices(S, size) == (Cardinality(S) + size - 1) \div size

\* upsert: a new row has no market metrics, those of an old one are kept.
Upserted(S) ==
    [c \in Stocks |-> IF c \in S /\ row[c] = "none" THEN "stale" ELSE row[c]]

\* update_market_metrics: an UPDATE, which finds no row to change in "none".
Renewed(S) ==
    [c \in Stocks |-> IF c \in S /\ row[c] # "none" THEN "fresh" ELSE row[c]]

\* Wrong form: the query returns fresh rows too.
EveryRow == {c \in Stocks : row[c] # "none"}

\* list_stale_market_metric_codes
StaleCodes == {c \in Stocks : row[c] = "stale"}

\* An old value crosses the stale limit; a request refreshes one on a miss.
Age(c) == row[c] = "old" /\ row' = [row EXCEPT ![c] = "stale"]
Refresh(c) == row[c] = "stale" /\ row' = Renewed({c})
=============================================================================
