----------------------------- MODULE MCDispatch -----------------------------
(* A small instance of Dispatch for TLC. *)
EXTENDS Dispatch

CONSTANTS sob, spawn, move, chat

Listeners == {1, 2}
OneSob    == {sob}

=============================================================================
