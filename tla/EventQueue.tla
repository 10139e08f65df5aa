----------------------------- MODULE EventQueue ------------------------------
(***************************************************************************)
(* The queue of CGameEventServer: what postEvent makes of a queue, and what *)
(* one run of processEventQueue hands out when no handler posts into the    *)
(* queue.  EventServer models the run with the dispatch itself.             *)
(*                                                                         *)
(* Index 1 is the front of a queue.  An event of Posted, Kept and HandedOut *)
(* is a record whose ts is its Timestamp.                                   *)
(***************************************************************************)
EXTENDS Naturals, Sequences

\* The loop of postEvent over the first i entries of q: e is inserted before
\* every entry whose timestamp is smaller, that is whose index is in later.
Looped(q, e, later) ==
  LET passed[i \in 0..Len(q)] ==
        IF i = 0 THEN <<>>
        ELSE passed[i - 1] \o (IF i \in later THEN <<e, q[i]>> ELSE <<q[i]>>)
  IN  passed

\* Before EVERY such entry (there is no break), and at the back if there is none.
Inserted(q, e, later) ==
  IF later = {} THEN Append(q, e) ELSE Looped(q, e, later)[Len(q)]

Posted(q, e) == Inserted(q, e, {i \in 1..Len(q) : q[i].ts < e.ts})

Due(e, time) == e.ts <= time

\* Entries that processEventQueue leaves: the back one is not due yet.
FirstKept(q, time) ==
  {i \in 0..Len(q) : \A j \in (i + 1)..Len(q) : Due(q[j], time)}

NumberKept(q, time) ==
  CHOOSE i \in FirstKept(q, time) : \A j \in FirstKept(q, time) : i <= j

Kept(q, time) == SubSeq(q, 1, NumberKept(q, time))

\* What is handed out, in order: from the back.
HandedOut(q, time) ==
  [i \in 1..(Len(q) - NumberKept(q, time)) |-> q[Len(q) + 1 - i]]

=============================================================================
