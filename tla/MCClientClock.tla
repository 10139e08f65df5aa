---------------------------- MODULE MCClientClock ----------------------------
(* Small instances of ClientClock for TLC. *)
EXTENDS ClientClock, TLC

Ahead  == {2, 3, 20}    \* clients that started after the server
Behind == {-6}          \* a client that outlived a restart of the server
Both   == Ahead \cup Behind

\* A round trip is shorter than the time between two pings, or longer.
Delays == {1, 2, 3}

=============================================================================
