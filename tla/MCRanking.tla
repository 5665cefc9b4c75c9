------------------------------- MODULE MCRanking -------------------------------
(* A small instance of Ranking; the metrics lie on and next to the edges   *)
(* of the bands and of the clamps.                                         *)
EXTENDS Ranking

CONSTANTS s1, s2, s3, s4

Sample(per, pbr, roe, vol) == [per |-> per, pbr |-> pbr, roe |-> roe, vol |-> vol]

EdgeSamples == {
    Sample(10, 10, 15, 15), Sample(25, 40, 8, 31), Sample(12, 10, 7, 15),
    Sample(-4, 9, -2, 9), Sample(40, 41, 0, 36), Sample(25, 25, 7, 40)}
=============================================================================
