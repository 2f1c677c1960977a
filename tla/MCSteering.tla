----------------------------- MODULE MCSteering -----------------------------
(* Steering on small instances. *)
EXTENDS Steering, TLC

CONSTANTS r1, r2, r3, r4

Four == {r1, r2, r3, r4}
Three == {r1, r2, r3}
RunSymmetry == Permutations(Run)

=============================================================================
