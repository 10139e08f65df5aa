----------------------------- MODULE MCClientFlow -----------------------------
(* A user with up to two characters, who may have three; see README.md.     *)
EXTENDS ClientFlow, TLC

UpToTwo == 0..2

=============================================================================
