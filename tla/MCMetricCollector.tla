------------------------- MODULE MCMetricCollector -------------------------
(* Instances of MetricCollector for TLC. *)
EXTENDS MetricCollector, TLC

CONSTANTS n1, n2, r1, alice

OneRequest == {n1}
TwoRequests == {n1, n2}
OneReview == {r1}
OneUser == {alice}

RequestSymmetry == Permutations(Requests)
=============================================================================
