---------------------------- MODULE GridEntries -----------------------------
(***************************************************************************)
(* What CRangeGrid2D promises: a relation between data and cells, and three *)
(* questions about the square of cells around a position. How the cells     *)
(* are stored and how the squares are enumerated is module RangeGrid.       *)
(***************************************************************************)
EXTENDS Integers

CONSTANTS Data,          \* what the grid holds
          NumSideCells,  \* m_NumSideCells
          Radius         \* rad: the radius in cells

VARIABLES entries,       \* pairs <<data, cell>>
          answer         \* what the last question found

Cell == (0..(NumSideCells - 1)) \X (0..(NumSideCells - 1))

\* The cells no further from p than the radius.
Square(p) == ((p[1] - Radius)..(p[1] + Radius)) \X ((p[2] - Radius)..(p[2] + Radius))

\* The square around p is inside the grid.
Inner == {p \in Cell : /\ p[1] \in Radius..(NumSideCells - 1 - Radius)
                       /\ p[2] \in Radius..(NumSideCells - 1 - Radius)}

In(cells) == {d \in Data : \E c \in cells : <<d, c>> \in entries}

-----------------------------------------------------------------------------
Init == entries = {} /\ answer = {}

Insert(d, p) == entries' = entries \cup {<<d, p>>} /\ answer' = {}

Remove(d, p) == entries' = entries \ {<<d, p>>} /\ answer' = {}

\* Nothing is promised at the border.
Ask(positions, cells) ==
  /\ \/ positions \subseteq Inner /\ answer' = In(cells)
     \/ ~(positions \subseteq Inner) /\ answer' \in SUBSET Data
  /\ UNCHANGED entries

Next ==
  \/ \E d \in Data, p \in Cell : Insert(d, p) \/ Remove(d, p)
  \/ \E p \in Cell : Ask({p}, Square(p))
  \/ \E p, q \in Cell : Ask({p, q}, Square(p) \ Square(q))

Spec == Init /\ [][Next]_<<entries, answer>>

=============================================================================
