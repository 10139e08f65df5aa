---------------------------- MODULE MCTaskManager ---------------------------
(* A small instance of TaskManager for TLC. *)
EXTENDS TaskManager, TLC

CONSTANTS t1, t2, t3, nobody

Tasks3 == {t1, t2, t3}

\* One task before another, and one without an order.
Order3 == t1 :> 2 @@ t2 :> 1 @@ t3 :> Bottom

=============================================================================
