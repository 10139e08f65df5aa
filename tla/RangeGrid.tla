----------------------------- MODULE RangeGrid ------------------------------
(***************************************************************************)
(* CRangeGrid2D, the grid CProximityManager keeps the sobs in, with the     *)
(* CGenericObjectPool its cells come from. A cell without entries holds no  *)
(* list; the first insertion checks one out of the pool and the removal of  *)
(* the last entry checks it in again. getOldRange and getNewRange enumerate *)
(* the difference of two squares in unsigned arithmetic.                    *)
(***************************************************************************)
EXTENDS Integers, Sequences

CONSTANTS Data,          \* what the grid holds
          NumSideCells,  \* m_NumSideCells
          Radius,        \* rad: the radius in cells
          UintSize,      \* the number of values of a uint
          InitialSize,   \* of the pool
          GrowthStep     \* of the pool, in percent

ASSUME GridAssumption == /\ NumSideCells \in Nat \ {0}
                         /\ Radius \in Nat
                         /\ UintSize \in Nat
                         /\ NumSideCells + Radius < UintSize
ASSUME PoolAssumption == /\ InitialSize \in Nat \ {0}
                         /\ GrowthStep \in Nat \ {0}

VARIABLES grid,          \* m_Grid: cell -> index of a list, 0 for NULL
          objects,       \* m_AllObjects: the lists, as sets (see Insert)
          free,          \* m_ObjectPool: indices of the lists in the pool
          asked,         \* last question: <<position>>, or <<position, the other>>
          found,         \* what either loop found
          undefined      \* an index outside m_Grid was used

vars == <<grid, objects, free, asked, found, undefined>>

Cell   == (0..(NumSideCells - 1)) \X (0..(NumSideCells - 1))
None   == 0
Nobody == [vertical |-> {}, horizontal |-> {}]

-----------------------------------------------------------------------------
(* Squares, in unsigned arithmetic, one coordinate at a time.              *)

Low(a)  == IF Radius <= a THEN a - Radius ELSE a - Radius + UintSize
High(a) == IF a + Radius < UintSize THEN a + Radius ELSE a + Radius - UintSize

\* Where the part of a's interval that is outside b's starts and ends.
Start(a, b) == IF Low(a) > High(b) \/ Low(a) < Low(b) THEN Low(a) ELSE High(b) + 1

\* Slip: the column next to the other square is taken, too.
EndOneMore(a, b) ==
  IF High(a) > High(b) \/ High(a) < Low(b) THEN High(a) + 1 ELSE Low(b) + 1

End(a, b)   == IF High(a) > High(b) \/ High(a) < Low(b) THEN High(a) + 1 ELSE Low(b)

\* The first loop: whole columns of p's square.
Vertical(p, q) ==
  (Start(p[1], q[1])..(End(p[1], q[1]) - 1)) \X (Low(p[2])..High(p[2]))

\* The columns that are left to the second loop.
AllLeft(a, b)  == Start(a, b) = Low(a)
AllRight(a, b) == End(a, b) = High(a) + 1
RestFrom(a, b) == IF AllLeft(a, b) /\ ~AllRight(a, b) THEN Low(b) ELSE Low(a)
RestTo(a, b)   == IF AllLeft(a, b) /\ AllRight(a, b) THEN RestFrom(a, b) - 1
                  ELSE IF AllRight(a, b) THEN High(b)
                  ELSE High(a)

\* Slip: the second loop goes over whole rows.
HorizontalWhole(p, q) ==
  (Low(p[1])..High(p[1])) \X (Start(p[2], q[2])..(End(p[2], q[2]) - 1))

\* The second loop: what remains of the rows outside q's square.
Horizontal(p, q) ==
  (RestFrom(p[1], q[1])..RestTo(p[1], q[1]))
     \X (Start(p[2], q[2])..(End(p[2], q[2]) - 1))

\* getRange's only loop.
WholeRange(p) == (Low(p[1])..High(p[1])) \X (Low(p[2])..High(p[2]))

-----------------------------------------------------------------------------
(* The pool.                                                               *)

\* growObjectQueue: how many lists are added, a percentage rounded up.
GrowthNum == (Len(objects) * GrowthStep + 99) \div 100

Init ==
  /\ grid = [c \in Cell |-> None]
  /\ objects = [i \in 1..InitialSize |-> {}]
  /\ free = [i \in 1..InitialSize |-> i]
  /\ asked = <<>>
  /\ found = Nobody
  /\ undefined = FALSE

\* popObject's growth: the pool after growObjectQueue, if it was empty. (The
\* grid sets no maximum, so growing never fails.)
Objects == IF free # <<>> THEN objects
           ELSE objects \o [i \in 1..GrowthNum |-> {}]
Free    == IF free # <<>> THEN free
           ELSE [i \in 1..GrowthNum |-> Len(objects) + i]

-----------------------------------------------------------------------------
(* Insertion and removal.                                                  *)

At(c) == IF grid[c] = None THEN {} ELSE objects[grid[c]]

\* Slip: the index stays at the front of the pool.
InsertInFreshKeepsFront(d, p) ==
  /\ grid[p] = None
  /\ grid' = [grid EXCEPT ![p] = Head(Free)]
  /\ objects' = [Objects EXCEPT ![Head(Free)] = @ \cup {d}]
  /\ free' = Free

\* insert where the cell has no list: checkout and push_back.
InsertInFresh(d, p) ==
  /\ grid[p] = None
  /\ grid' = [grid EXCEPT ![p] = Head(Free)]
  /\ objects' = [Objects EXCEPT ![Head(Free)] = @ \cup {d}]
  /\ free' = Tail(Free)

\* insert where it has one.
InsertInList(d, p) ==
  /\ grid[p] # None
  /\ objects' = [objects EXCEPT ![grid[p]] = @ \cup {d}]
  /\ UNCHANGED <<grid, free>>

\* CProximityManager inserts a sob once, when its view is made, and again only
\* after it has been removed; so a list never has anything twice.
Insert(d, p) ==
  /\ ~undefined
  /\ \A c \in Cell : d \notin At(c)
  /\ InsertInFresh(d, p) \/ InsertInList(d, p)
  /\ asked' = <<>>
  /\ found' = Nobody
  /\ UNCHANGED undefined

\* Slip: the list goes back to the pool while it has an entry.
RemoveLastTooEarly(d, p) ==
  /\ grid[p] # None
  /\ objects' = [objects EXCEPT ![grid[p]] = @ \ {d}]
  /\ free' = <<grid[p]>> \o free
  /\ grid' = [grid EXCEPT ![p] = None]

\* remove of the last entry: checkin pushes the list to the front of the pool.
RemoveLast(d, p) ==
  /\ grid[p] # None
  /\ objects[grid[p]] \subseteq {d}
  /\ objects' = [objects EXCEPT ![grid[p]] = {}]
  /\ free' = <<grid[p]>> \o free
  /\ grid' = [grid EXCEPT ![p] = None]

\* Slip: an empty list stays in its cell.
RemoveEntryEvenLast(d, p) ==
  /\ grid[p] # None
  /\ objects' = [objects EXCEPT ![grid[p]] = @ \ {d}]
  /\ UNCHANGED <<grid, free>>

\* remove of another entry, or of none.
RemoveEntry(d, p) ==
  /\ grid[p] # None
  /\ ~(objects[grid[p]] \subseteq {d})
  /\ objects' = [objects EXCEPT ![grid[p]] = @ \ {d}]
  /\ UNCHANGED <<grid, free>>

\* remove from a cell without a list.
RemoveNothing(d, p) == grid[p] = None /\ UNCHANGED <<grid, objects, free>>

\* The cell need not be the one d is in: removeSob takes the sob's position,
\* which may be ahead of the grid.
Remove(d, p) ==
  /\ ~undefined
  /\ RemoveLast(d, p) \/ RemoveEntry(d, p) \/ RemoveNothing(d, p)
  /\ asked' = <<>>
  /\ found' = Nobody
  /\ UNCHANGED undefined

-----------------------------------------------------------------------------
(* Questions.                                                              *)

Entries(cells) == UNION {At(c) : c \in cells}

\* (The answer changes nothing; it is forgotten with the next change.)
Ask(positions, vertical, horizontal) ==
  /\ ~undefined
  /\ asked = <<>>
  /\ asked' = positions
  /\ IF vertical \cup horizontal \subseteq Cell
       THEN /\ found' = [vertical   |-> Entries(vertical),
                         horizontal |-> Entries(horizontal)]
            /\ UNCHANGED undefined
       ELSE found' = Nobody /\ undefined' = TRUE
  /\ UNCHANGED <<grid, objects, free>>

GetRange(p) == Ask(<<p>>, WholeRange(p), {})

\* getNewRange is the same text with old and new exchanged.
GetOldRange(old, new) == Ask(<<old, new>>, Vertical(old, new), Horizontal(old, new))
GetNewRange(old, new) == Ask(<<new, old>>, Vertical(new, old), Horizontal(new, old))

Next ==
  \/ \E d \in Data, p \in Cell : Insert(d, p) \/ Remove(d, p)
  \/ \E p \in Cell : GetRange(p)
  \/ \E old, new \in Cell : GetOldRange(old, new)
  \/ \E old, new \in Cell : GetNewRange(old, new)

Spec == Init /\ [][Next]_vars

-----------------------------------------------------------------------------
(* Properties.                                                             *)

Index == 1..Len(objects)

\* The shape of every variable.
TypeOK ==
  /\ objects \in Seq(SUBSET Data)
  /\ grid \in [Cell -> Index \cup {None}]
  /\ free \in Seq(Index)
  /\ asked \in {<<>>} \cup {<<p>> : p \in Cell} \cup (Cell \X Cell)
  /\ found \in [vertical : SUBSET Data, horizontal : SUBSET Data]
  /\ undefined \in BOOLEAN

\* Every list of the pool is in one cell or once among the free ones: none is
\* lost, shared by two cells, or handed out while in use.
ListsAccounted ==
  /\ \A i \in Index : (\E c \in Cell : grid[c] = i) \/ (\E k \in 1..Len(free) : free[k] = i)
  /\ \A c \in Cell, k \in 1..Len(free) : grid[c] # free[k]
  /\ \A c, d \in Cell : grid[c] = grid[d] /\ grid[c] # None => c = d
  /\ \A j, k \in 1..Len(free) : free[j] = free[k] => j = k

\* A list in a cell has entries and a free one has none, so nobody turns up in
\* a cell he was never in, and empty ground costs no list.
EmptyIsFree ==
  /\ \A c \in Cell : grid[c] # None => objects[grid[c]] # {}
  /\ \A k \in 1..Len(free) : objects[free[k]] = {}

\* Nobody shares a list, none leaks, and whoever gets one gets it empty, however
\* often lists went to cells and back.
PoolSound == ListsAccounted /\ EmptyIsFree

\* Neither loop of getOldRange and getNewRange visits a cell of the other: a
\* sob is reported once.
FoundOnce == found.vertical \cap found.horizontal = {}

Promised == INSTANCE GridEntries WITH
  entries <- {e \in Data \X Cell : e[1] \in At(e[2])},
  answer  <- found.vertical \cup found.horizontal

\* The grid stores, finds and removes as the relation of GridEntries does,
\* whatever lists its cells get from the pool.
ImplementsEntries == Promised!Spec

AskedInside == asked # <<>> /\ \A k \in 1..Len(asked) : asked[k] \in Promised!Inner

\* Away from the border a question is answered with exactly the entries of the
\* square, or of the difference of the squares, however far apart they are, and
\* without an index outside m_Grid.
FoundIsAsked ==
  AskedInside =>
    /\ ~undefined
    /\ found.vertical \cup found.horizontal =
         Promised!In(IF Len(asked) = 1 THEN Promised!Square(asked[1])
                     ELSE Promised!Square(asked[1]) \ Promised!Square(asked[2]))

\* What a question finds is what it asks for, each entry once.
AnswersExact == FoundOnce /\ FoundIsAsked

=============================================================================
