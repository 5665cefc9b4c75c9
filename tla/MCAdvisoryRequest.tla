-------------------------- MODULE MCAdvisoryRequest --------------------------
(* Small instances of AdvisoryRequest: the first two requests are of one   *)
(* user, the third is of another.                                          *)
EXTENDS AdvisoryRequest, TLC

CONSTANTS r1, r2, r3, u1, u2

OneUser == [r \in {r1, r2} |-> u1]
TwoUsers == [r \in {r1, r2, r3} |-> IF r = r3 THEN u2 ELSE u1]
RequestSymmetry == Permutations({r1, r2})
=============================================================================
