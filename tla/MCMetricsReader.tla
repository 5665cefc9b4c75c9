--------------------------- MODULE MCMetricsReader ---------------------------
(* Small instances of MetricsReader: with a unit of 10, 14 is stored as    *)
(* 10, and 96 rounds to 100, which the column cannot hold.                 *)
EXTENDS MetricsReader, TLC

CONSTANTS r1, r2, r3, s1, s2, s3

OneObservation == {14}
TwoObservations == {14, 96}
ThreeObservations == {14, 31, 96}

RequestSymmetry == Permutations(Requests)
Symmetry == RequestSymmetry \union Permutations(Stocks)
=============================================================================
