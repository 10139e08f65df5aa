---------------------------- MODULE MCEventServer ---------------------------
(* A small instance of EventServer for TLC. *)
EXTENDS EventServer, TLC

CONSTANTS e1, e2, e3

Events3 == {e1, e2, e3}

=============================================================================
