------------------------ MODULE MCJobRequestOperator ------------------------
(* Instances of JobRequestOperator for TLC. *)
EXTENDS Undisturbed, TLC

CONSTANTS n1, n2, r1, r2, alice, bob

OneRequest == {n1}
TwoRequests == {n1, n2}
OneReview == {r1}
TwoReviews == {r1, r2}
TwoUsers == {alice, bob}

ReviewSymmetry == Permutations(Reviews)
=============================================================================
