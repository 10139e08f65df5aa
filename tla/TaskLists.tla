------------------------------ MODULE TaskLists -----------------------------
(***************************************************************************)
(* The two lists of CTaskManager: m_Tasks, in the order of the calls of    *)
(* add, and m_OrderSortedTasks, in the order the walks of a frame follow.  *)
(* A task may be in them more than once: add does not look for it.         *)
(***************************************************************************)
EXTENDS Integers, Sequences, SequencesExt

CONSTANTS Task,     \* the ITask objects
          Order     \* the order every task is added with, Bottom for none

Bottom == -1

ASSUME OrderAssumption == Order \in [Task -> Nat \cup {Bottom}]

\* The tasks of a list.
Members(list) == {list[i] : i \in 1..Len(list)}

\* The nodes of a list that hold t.
Nodes(list, t) == {i \in 1..Len(list) : list[i] = t}

\* Where add puts t into m_OrderSortedTasks: at the bottom if it has no order,
\* else before the first task of a greater order.
IsPlace(list, t, p) ==
  IF Order[t] = Bottom
    THEN p = Len(list) + 1
    ELSE /\ \A i \in 1..(p - 1) : Order[list[i]] <= Order[t]
         /\ p <= Len(list) => Order[list[p]] > Order[t]

\* remove erases a node with list::remove, which erases every node of that
\* task, and goes on from the node behind the first: if that one held the same
\* task, it is gone.
Adjacent(list, t) == \E i \in Nodes(list, t) : i + 1 \in Nodes(list, t)

=============================================================================
