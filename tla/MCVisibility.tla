---------------------------- MODULE MCVisibility ----------------------------
(* A small instance of Visibility for TLC: cells in a row.                   *)
EXTENDS Visibility, TLC

CONSTANTS s1, s2, s3

ThreeSobs == {s1, s2, s3}

Row3 == 0..2

\* Range 1: a sob sees its own cell and the neighbouring ones.
NearInRow3 == {p \in Row3 \X Row3 : p[1] <= p[2] + 1 /\ p[2] <= p[1] + 1}

=============================================================================
