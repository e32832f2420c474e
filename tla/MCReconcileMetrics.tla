------------------------- MODULE MCReconcileMetrics -------------------------
(* Instances of ReconcileMetrics for TLC. *)
EXTENDS ReconcileMetrics

CONSTANTS n1, r1, alice, bob

OneRequest == {n1}
OneReview == {r1}
TwoUsers == {alice, bob}
=============================================================================
