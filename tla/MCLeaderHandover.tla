-------------------------- MODULE MCLeaderHandover --------------------------
(* Instances of LeaderHandover for TLC. *)
EXTENDS LeaderHandover, TLC

CONSTANTS n1, n2, r1, r2, alice, bob

OneRequest == {n1}
OneReview == {r1}
TwoReviews == {r1, r2}
TwoUsers == {alice, bob}

ReviewSymmetry == Permutations(Reviews)
=============================================================================
