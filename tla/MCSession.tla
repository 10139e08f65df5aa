----------------------------- MODULE MCSession -----------------------------
(* Two users who connect twice each; see README.md for the bounds.         *)
EXTENDS Session

CONSTANTS alice, bob

TwoUsers == {alice, bob}

=============================================================================
