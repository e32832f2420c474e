-------------------------- MODULE MCPeriodicResync --------------------------
(* Instances of PeriodicResync for TLC. *)
EXTENDS PeriodicResync, Undisturbed

CONSTANTS n1, r1, alice, bob

OneRequest == {n1}
OneReview == {r1}
TwoUsers == {alice, bob}
=============================================================================
