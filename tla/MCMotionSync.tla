---------------------------- MODULE MCMotionSync -----------------------------
(* Small instances of MotionSync for TLC. *)
EXTENDS MotionSync, TLC

CONSTANTS d1, d2
Directions == {d1, d2}
Symmetry   == Permutations(Directions)

\* The player alone, and the player and a watcher who comes and goes.
Budgets == {<<5, 0>>, <<2, 4>>}

=============================================================================
