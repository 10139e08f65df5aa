--------------------------- MODULE RangeGridProofs --------------------------
(***************************************************************************)
(* Machine-checked proofs about RangeGrid, for every grid, radius, set of   *)
(* data and pool.                                                           *)
(***************************************************************************)
EXTENDS RangeGrid, SequenceTheorems, TLAPS

-----------------------------------------------------------------------------
(* Geometry, one coordinate at a time.                                     *)

\* The ends of an interval are natural numbers; inside, nothing wraps.
LEMMA Ends ==
  ASSUME NEW a \in 0..(NumSideCells - 1)
  PROVE  /\ Low(a) \in Nat /\ High(a) \in Nat
         /\ a \in Radius..(NumSideCells - 1 - Radius) =>
              Low(a) = a - Radius /\ High(a) = a + Radius
BY GridAssumption DEF Low, High

\* The first loop's columns are those outside the other square, the second
\* loop's those inside both.
LEMMA Columns ==
  ASSUME NEW a \in Radius..(NumSideCells - 1 - Radius),
         NEW b \in Radius..(NumSideCells - 1 - Radius),
         NEW x
  PROVE  /\ x \in Start(a, b)..(End(a, b) - 1) <=>
              /\ x \in (a - Radius)..(a + Radius)
              /\ x \notin (b - Radius)..(b + Radius)
         /\ x \in RestFrom(a, b)..RestTo(a, b) <=>
              /\ x \in (a - Radius)..(a + Radius)
              /\ x \in (b - Radius)..(b + Radius)
<1>1. /\ Radius \in Nat /\ NumSideCells \in Nat
      /\ a \in 0..(NumSideCells - 1) /\ b \in 0..(NumSideCells - 1)
      /\ a \in Int /\ b \in Int
  BY GridAssumption
<1>2. /\ Low(a) = a - Radius /\ High(a) = a + Radius
      /\ Low(b) = b - Radius /\ High(b) = b + Radius
  BY <1>1, Ends
<1>3. /\ Start(a, b) = IF a - Radius > b + Radius \/ a < b THEN a - Radius
                                                             ELSE b + Radius + 1
      /\ End(a, b) = IF a > b \/ a + Radius < b - Radius THEN a + Radius + 1
                                                         ELSE b - Radius
  BY <1>1, <1>2 DEF Start, End
<1>4. /\ RestFrom(a, b) = IF Start(a, b) = a - Radius /\ End(a, b) # a + Radius + 1
                            THEN b - Radius ELSE a - Radius
      /\ RestTo(a, b) = IF Start(a, b) = a - Radius /\ End(a, b) = a + Radius + 1
                          THEN RestFrom(a, b) - 1
                        ELSE IF End(a, b) = a + Radius + 1 THEN b + Radius
                        ELSE a + Radius
  BY <1>2 DEF RestFrom, RestTo, AllLeft, AllRight
<1>5. CASE x \in Int
  <2>1. CASE a < b
    BY <1>1, <1>3, <1>4, <1>5, <2>1
  <2>2. CASE a = b
    BY <1>1, <1>3, <1>4, <1>5, <2>2
  <2>3. CASE a > b
    BY <1>1, <1>3, <1>4, <1>5, <2>3
  <2>4. QED
    BY <1>1, <2>1, <2>2, <2>3
<1>6. CASE x \notin Int
  <2>1. Start(a, b) \in Int /\ End(a, b) - 1 \in Int
    BY <1>1, <1>3
  <2>2. RestFrom(a, b) \in Int /\ RestTo(a, b) \in Int
    BY <1>1, <1>3, <1>4
  <2>3. QED
    BY <1>1, <1>6, <2>1, <2>2
<1>7. QED
  BY <1>5, <1>6

\* The two loops never meet, wherever the squares are.
LEMMA ColumnsApart ==
  ASSUME NEW a \in 0..(NumSideCells - 1), NEW b \in 0..(NumSideCells - 1)
  PROVE  (Start(a, b)..(End(a, b) - 1)) \cap (RestFrom(a, b)..RestTo(a, b)) = {}
<1>1. Low(a) \in Nat /\ High(a) \in Nat /\ Low(b) \in Nat /\ High(b) \in Nat
  BY Ends
<1>2. SUFFICES ASSUME NEW x \in Start(a, b)..(End(a, b) - 1),
                      x \in RestFrom(a, b)..RestTo(a, b)
               PROVE  FALSE
  OBVIOUS
<1>3. x \in Int
  BY <1>1, <1>2 DEF Start, End
<1>4. CASE AllLeft(a, b) /\ AllRight(a, b)
  BY <1>1, <1>2, <1>3, <1>4 DEF RestTo, RestFrom, AllLeft, AllRight, Start, End
<1>5. CASE AllLeft(a, b) /\ ~AllRight(a, b)
  BY <1>1, <1>2, <1>3, <1>5 DEF RestTo, RestFrom, AllLeft, AllRight, Start, End
<1>6. CASE ~AllLeft(a, b) /\ AllRight(a, b)
  BY <1>1, <1>2, <1>3, <1>6 DEF RestTo, RestFrom, AllLeft, AllRight, Start, End
<1>7. CASE ~AllLeft(a, b) /\ ~AllRight(a, b)
  BY <1>1, <1>2, <1>3, <1>7 DEF RestTo, RestFrom, AllLeft, AllRight, Start, End
<1>8. QED
  BY <1>4, <1>5, <1>6, <1>7

\* getOldRange and getNewRange visit exactly the cells of one square that are
\* not in the other, each once, whatever the distance of the squares.
THEOREM DifferenceIsExact ==
  ASSUME NEW p \in Promised!Inner, NEW q \in Promised!Inner
  PROVE  /\ Vertical(p, q) \cup Horizontal(p, q) =
              Promised!Square(p) \ Promised!Square(q)
         /\ Vertical(p, q) \cup Horizontal(p, q) \subseteq Cell
<1> DEFINE X(r) == (r[1] - Radius)..(r[1] + Radius)
           Y(r) == (r[2] - Radius)..(r[2] + Radius)
<1>1. \A r \in {p, q} : /\ r[1] \in Radius..(NumSideCells - 1 - Radius)
                        /\ r[2] \in Radius..(NumSideCells - 1 - Radius)
                        /\ r[1] \in 0..(NumSideCells - 1)
                        /\ r[2] \in 0..(NumSideCells - 1)
  BY GridAssumption DEF Promised!Inner
<1>2. Low(p[2])..High(p[2]) = Y(p)
  BY <1>1, Ends
<1>3. \A x : /\ x \in Start(p[1], q[1])..(End(p[1], q[1]) - 1) <=> x \in X(p) \ X(q)
             /\ x \in RestFrom(p[1], q[1])..RestTo(p[1], q[1]) <=> x \in X(p) \cap X(q)
  BY <1>1, Columns
<1>4. \A y : y \in Start(p[2], q[2])..(End(p[2], q[2]) - 1) <=> y \in Y(p) \ Y(q)
  BY <1>1, Columns
<1>5. Vertical(p, q) = (X(p) \ X(q)) \X Y(p)
  <2>1. Start(p[1], q[1])..(End(p[1], q[1]) - 1) = X(p) \ X(q)
    BY <1>3, Zenon
  <2>2. QED
    BY <2>1, <1>2, Zenon DEF Vertical
<1>6. Horizontal(p, q) = (X(p) \cap X(q)) \X (Y(p) \ Y(q))
  <2>1. RestFrom(p[1], q[1])..RestTo(p[1], q[1]) = X(p) \cap X(q)
    BY <1>3, Zenon
  <2>2. Start(p[2], q[2])..(End(p[2], q[2]) - 1) = Y(p) \ Y(q)
    BY <1>4, Zenon
  <2>3. QED
    BY <2>1, <2>2, Zenon DEF Horizontal
<1>7. Promised!Square(p) = X(p) \X Y(p) /\ Promised!Square(q) = X(q) \X Y(q)
  BY DEF Promised!Square
<1>8. X(p) \subseteq 0..(NumSideCells - 1) /\ Y(p) \subseteq 0..(NumSideCells - 1)
  BY <1>1, GridAssumption
<1> HIDE DEF X, Y
<1>9. QED
  BY <1>5, <1>6, <1>7, <1>8 DEF Cell

\* getRange visits exactly the cells of the square.
THEOREM RangeIsExact ==
  ASSUME NEW p \in Promised!Inner
  PROVE  WholeRange(p) = Promised!Square(p) /\ WholeRange(p) \subseteq Cell
<1>1. \A i \in {1, 2} : /\ p[i] \in Radius..(NumSideCells - 1 - Radius)
                        /\ p[i] \in 0..(NumSideCells - 1)
  BY GridAssumption DEF Promised!Inner
<1>2. \A i \in {1, 2} : Low(p[i]) = p[i] - Radius /\ High(p[i]) = p[i] + Radius
  BY <1>1, Ends
<1>3. WholeRange(p) = Promised!Square(p)
  BY <1>2 DEF WholeRange, Promised!Square
<1>4. \A i \in {1, 2} : (p[i] - Radius)..(p[i] + Radius) \subseteq 0..(NumSideCells - 1)
  BY <1>1, GridAssumption
<1>5. QED
  BY <1>3, <1>4 DEF Promised!Square, Cell

-----------------------------------------------------------------------------
(* Sequences.                                                              *)

\* Pushing to the front and taking the front off.
LEMMA FrontFacts ==
  ASSUME NEW S, NEW q \in Seq(S), NEW e \in S
  PROVE  /\ << e >> \o q \in Seq(S)
         /\ Len(<< e >> \o q) = Len(q) + 1
         /\ (<< e >> \o q)[1] = e
         /\ \A k \in 1..Len(q) : (<< e >> \o q)[k + 1] = q[k]
<1>1. << e >> \in Seq(S) /\ Len(<< e >>) = 1 /\ << e >>[1] = e
  OBVIOUS
<1>2. QED
  BY <1>1, ConcatProperties

LEMMA TailFacts ==
  ASSUME NEW S, NEW q \in Seq(S), q # <<>>
  PROVE  /\ Head(q) = q[1] /\ Head(q) \in S /\ 1 \in 1..Len(q)
         /\ Tail(q) \in Seq(S)
         /\ Len(Tail(q)) = Len(q) - 1 /\ Len(q) - 1 \in Nat
         /\ \A k \in 1..(Len(q) - 1) : Tail(q)[k] = q[k + 1]
<1>1. Len(q) \in Nat \ {0}
  BY EmptySeq
<1>2. QED
  BY <1>1, HeadTailProperties

-----------------------------------------------------------------------------
(* The invariant.                                                          *)

\* ListsAccounted and the half of EmptyIsFree about the pool, of any pool.
AccountedFor(g, o, f) ==
  /\ \A i \in 1..Len(o) : (\E c \in Cell : g[c] = i) \/ (\E k \in 1..Len(f) : f[k] = i)
  /\ \A c \in Cell, k \in 1..Len(f) : g[c] # f[k]
  /\ \A c, d \in Cell : g[c] = g[d] /\ g[c] # None => c = d
  /\ \A j, k \in 1..Len(f) : f[j] = f[k] => j = k
  /\ \A k \in 1..Len(f) : o[f[k]] = {}

\* Everything is in at most one cell.
OneCellEach == \A d \in Data, b, c \in Cell : d \in At(b) /\ d \in At(c) => b = c

\* The inductive invariant of the stored lists.
IInv ==
  /\ TypeOK
  /\ ListsAccounted
  /\ EmptyIsFree
  /\ OneCellEach
  /\ Len(objects) > 0

\* The pool popObject takes the front of: a growth that is needed has happened.
LEMMA PoolReady ==
  ASSUME IInv
  PROVE  /\ Objects \in Seq(SUBSET Data)
         /\ Free \in Seq(1..Len(Objects))
         /\ Free # <<>>
         /\ Len(objects) \in Nat /\ Len(Objects) \in Nat
         /\ Len(objects) <= Len(Objects)
         /\ \A i \in 1..Len(objects) : Objects[i] = objects[i]
         /\ AccountedFor(grid, Objects, Free)
<1>1. CASE free # <<>>
  <2>1. Objects = objects /\ Free = free
    BY <1>1 DEF Objects, Free
  <2>2. QED
    BY <1>1, <2>1 DEF IInv, TypeOK, Index, ListsAccounted, EmptyIsFree, AccountedFor
<1>2. CASE free = <<>>
  <2> DEFINE n == Len(objects)
             g == GrowthNum
  <2>1. n \in Nat /\ n > 0
    BY DEF IInv, TypeOK
  <2>2. g \in Nat /\ g > 0
    <3>1. n * GrowthStep \in Nat /\ n * GrowthStep >= 1
      BY <2>1, PoolAssumption
    <3> DEFINE m == n * GrowthStep
    <3>2. GrowthNum = (m + 99) \div 100
      BY DEF GrowthNum
    <3> HIDE DEF m
    <3>3. (m + 99) \div 100 \in Nat /\ (m + 99) \div 100 > 0
      BY <3>1 DEF m
    <3>4. QED
      BY <3>2, <3>3
  <2> HIDE DEF n, g
  <2>3. Objects = objects \o [i \in 1..g |-> {}] /\ Free = [i \in 1..g |-> n + i]
    BY <1>2 DEF Objects, Free, n, g
  <2>4. /\ [i \in 1..g |-> {}] \in Seq(SUBSET Data)
        /\ Len([i \in 1..g |-> {}]) = g
    BY <2>2
  <2>5. /\ Objects \in Seq(SUBSET Data)
        /\ Len(Objects) = n + g
        /\ \A i \in 1..n : Objects[i] = objects[i]
        /\ \A i \in 1..g : Objects[n + i] = {}
    BY <2>1, <2>2, <2>3, <2>4, ConcatProperties DEF IInv, TypeOK, n
  <2>6. /\ Free \in Seq(1..(n + g)) /\ Len(Free) = g
        /\ \A k \in 1..g : Free[k] = n + k
    BY <2>1, <2>2, <2>3
  <2>7. /\ \A c \in Cell : grid[c] \in 0..n
        /\ \A i \in 1..n : \E c \in Cell : grid[c] = i
        /\ \A c, d \in Cell : grid[c] = grid[d] /\ grid[c] # None => c = d
    <3>1. Len(free) = 0
      BY <1>2
    <3>2. QED
      BY <2>1, <3>1 DEF IInv, TypeOK, ListsAccounted, Index, None, n
  <2>8. AccountedFor(grid, Objects, Free)
    <3>1. ASSUME NEW i \in 1..(n + g)
          PROVE  (\E c \in Cell : grid[c] = i) \/ (\E k \in 1..g : Free[k] = i)
      <4>1. CASE i \in 1..n
        BY <4>1, <2>7
      <4>2. CASE i \notin 1..n
        <5>1. i - n \in 1..g /\ Free[i - n] = i
          BY <4>2, <2>1, <2>2, <2>6
        <5>2. QED
          BY <5>1
      <4>3. QED
        BY <4>1, <4>2
    <3>2. \A c \in Cell, k \in 1..g : grid[c] # Free[k]
      BY <2>1, <2>2, <2>6, <2>7
    <3>3. \A j, k \in 1..g : Free[j] = Free[k] => j = k
      BY <2>1, <2>2, <2>6
    <3>4. \A k \in 1..g : Objects[Free[k]] = {}
      BY <2>5, <2>6
    <3>5. QED
      BY <2>5, <2>6, <2>7, <3>1, <3>2, <3>3, <3>4 DEF AccountedFor
  <2>9. QED
    BY <2>1, <2>2, <2>5, <2>6, <2>8 DEF n
<1>3. QED
  BY <1>1, <1>2

-----------------------------------------------------------------------------
(* Insertion and removal.                                                  *)

\* What an insertion or a removal leaves at every cell.
LEMMA InsertFacts ==
  ASSUME IInv, NEW d \in Data, NEW p \in Cell, Insert(d, p)
  PROVE  /\ IInv'
         /\ \A c \in Cell : At(c)' = IF c = p THEN At(c) \cup {d} ELSE At(c)
<1>1. /\ \A c \in Cell : d \notin At(c)
      /\ asked' = <<>> /\ found' = Nobody /\ undefined' = undefined
      /\ InsertInFresh(d, p) \/ InsertInList(d, p)
  BY DEF Insert
<1> DEFINE n == Len(objects)
<1>2. /\ objects \in Seq(SUBSET Data) /\ n \in Nat /\ n > 0
      /\ grid \in [Cell -> 0..n]
      /\ \A c \in Cell : grid[c] # None => grid[c] \in 1..n
      /\ free \in Seq(1..n)
      /\ asked' \in {<<>>} \cup {<< r >> : r \in Cell} \cup (Cell \X Cell)
      /\ found' \in [vertical : SUBSET Data, horizontal : SUBSET Data]
      /\ undefined' \in BOOLEAN
  BY <1>1 DEF IInv, TypeOK, Index, None, Nobody
<1>3. CASE InsertInFresh(d, p)
  <2> DEFINE o == Objects
             f == Free
             h == Head(Free)
  <2>1. /\ o \in Seq(SUBSET Data) /\ Len(o) \in Nat /\ n <= Len(o)
        /\ f \in Seq(1..Len(o)) /\ f # <<>>
        /\ \A i \in 1..n : o[i] = objects[i]
        /\ AccountedFor(grid, o, f)
    BY PoolReady
  <2>2. /\ grid[p] = None
        /\ grid' = [grid EXCEPT ![p] = h]
        /\ objects' = [o EXCEPT ![h] = @ \cup {d}]
        /\ free' = Tail(f)
    BY <1>3 DEF InsertInFresh
  <2> HIDE DEF o, f
  <2>3. /\ h = f[1] /\ h \in 1..Len(o) /\ 1 \in 1..Len(f)
        /\ Tail(f) \in Seq(1..Len(o))
        /\ Len(Tail(f)) = Len(f) - 1 /\ Len(f) - 1 \in Nat
        /\ \A k \in 1..(Len(f) - 1) : Tail(f)[k] = f[k + 1]
    BY <2>1, TailFacts DEF f
  <2>4. o[h] = {} /\ \A c \in Cell : grid[c] # h
    BY <2>1, <2>3 DEF AccountedFor
  <2> HIDE DEF h
  <2>5. /\ objects' \in Seq(SUBSET Data) /\ Len(objects') = Len(o)
        /\ \A i \in 1..Len(o) : objects'[i] = IF i = h THEN {d} ELSE o[i]
    BY <2>1, <2>2, <2>3, <2>4
  <2>6. \A c \in Cell : grid'[c] = IF c = p THEN h ELSE grid[c]
    BY <1>2, <2>2
  <2>7. \A c \in Cell : At(c)' = IF c = p THEN At(c) \cup {d} ELSE At(c)
    <3>1. \A c \in Cell : At(c)' = IF grid'[c] = None THEN {} ELSE objects'[grid'[c]]
      BY DEF At
    <3>2. At(p)' = {d} /\ At(p) = {}
      <4>1. grid'[p] = h /\ h # None /\ objects'[h] = {d}
        BY <2>1, <2>3, <2>5, <2>6 DEF None
      <4>2. QED
        BY <3>1, <4>1, <2>2 DEF At
    <3>3. ASSUME NEW c \in Cell, c # p
          PROVE  At(c)' = At(c)
      <4>1. CASE grid[c] = None
        BY <3>1, <3>3, <4>1, <2>6 DEF At
      <4>2. CASE grid[c] # None
        <5>1. grid[c] \in 1..n /\ grid[c] # h /\ grid'[c] = grid[c]
          BY <3>3, <4>2, <1>2, <2>4, <2>6
        <5>2. objects'[grid[c]] = objects[grid[c]]
          BY <5>1, <1>2, <2>1, <2>5
        <5>3. QED
          BY <3>1, <4>2, <5>1, <5>2 DEF At
      <4>3. QED
        BY <4>1, <4>2
    <3>4. QED
      BY <3>2, <3>3
  <2>8. TypeOK'
    BY <1>2, <2>1, <2>2, <2>3, <2>5 DEF TypeOK, Index, None
  <2>9. AccountedFor(grid', objects', free')
    <3>1. ASSUME NEW i \in 1..Len(objects')
          PROVE  (\E c \in Cell : grid'[c] = i) \/ (\E k \in 1..Len(free') : free'[k] = i)
      <4>1. CASE i = h
        BY <4>1, <2>6
      <4>2. CASE i # h /\ \E c \in Cell : grid[c] = i
        <5>1. PICK c \in Cell : grid[c] = i
          BY <4>2
        <5>2. c # p
          BY <5>1, <2>2, <2>5, <2>1 DEF None
        <5>3. QED
          BY <5>1, <5>2, <2>6
      <4>3. CASE i # h /\ \E k \in 1..Len(f) : f[k] = i
        <5>1. PICK k \in 1..Len(f) : f[k] = i
          BY <4>3
        <5>2. k # 1 /\ k - 1 \in 1..(Len(f) - 1) /\ Tail(f)[k - 1] = i
          BY <5>1, <4>3, <2>3
        <5>3. QED
          BY <5>2, <2>2, <2>3
      <4>4. QED
        BY <4>1, <4>2, <4>3, <2>1, <2>5 DEF AccountedFor
    <3>2. \A c \in Cell, k \in 1..Len(free') : grid'[c] # free'[k]
      BY <2>1, <2>2, <2>3, <2>6 DEF AccountedFor
    <3>3. \A b, c \in Cell : grid'[b] = grid'[c] /\ grid'[b] # None => b = c
      BY <2>1, <2>4, <2>6 DEF AccountedFor
    <3>4. \A j, k \in 1..Len(free') : free'[j] = free'[k] => j = k
      BY <2>1, <2>2, <2>3 DEF AccountedFor
    <3>5. \A k \in 1..Len(free') : objects'[free'[k]] = {}
      BY <2>1, <2>2, <2>3, <2>5 DEF AccountedFor
    <3>6. QED
      BY <3>1, <3>2, <3>3, <3>4, <3>5 DEF AccountedFor
  <2>10. \A c \in Cell : grid'[c] # None => objects'[grid'[c]] # {}
    <3>1. ASSUME NEW c \in Cell, c # p, grid[c] # None
          PROVE  objects'[grid[c]] # {}
      <4>1. grid[c] \in 1..n /\ objects[grid[c]] # {}
        BY <1>2, <3>1 DEF IInv, EmptyIsFree
      <4>2. QED
        BY <4>1, <2>1, <2>4, <2>5
    <3>2. QED
      BY <2>3, <2>5, <2>6, <3>1
  <2>11. ListsAccounted' /\ EmptyIsFree'
    BY <2>9, <2>10 DEF ListsAccounted, EmptyIsFree, AccountedFor, Index
  <2>12. OneCellEach'
    BY <1>1, <2>7 DEF IInv, OneCellEach
  <2>13. Len(objects') > 0
    BY <1>2, <2>1, <2>5
  <2>14. QED
    BY <2>7, <2>8, <2>11, <2>12, <2>13 DEF IInv
<1>4. CASE InsertInList(d, p)
  <2>1. /\ grid[p] \in 1..n
        /\ objects' = [objects EXCEPT ![grid[p]] = @ \cup {d}]
        /\ grid' = grid /\ free' = free
    BY <1>2, <1>4 DEF InsertInList
  <2>2. /\ objects' \in Seq(SUBSET Data) /\ Len(objects') = n
        /\ \A i \in 1..n : objects'[i] = IF i = grid[p] THEN objects[i] \cup {d}
                                                       ELSE objects[i]
    <3> DEFINE h == grid[p]
               e == objects[h] \cup {d}
    <3>1. h \in 1..Len(objects) /\ objects' = [objects EXCEPT ![h] = e]
      BY <2>1
    <3>2. e \in SUBSET Data
      BY <3>1, <1>2
    <3> HIDE DEF h, e
    <3>3. /\ objects' \in Seq(SUBSET Data) /\ Len(objects') = n
          /\ \A i \in 1..n : objects'[i] = IF i = h THEN e ELSE objects[i]
      BY <1>2, <3>1, <3>2, ExceptSeq
    <3>4. QED
      BY <3>3 DEF h, e
  <2>3. \A c \in Cell : At(c)' = IF c = p THEN At(c) \cup {d} ELSE At(c)
    <3>1. \A c \in Cell : c # p /\ grid[c] # None => grid[c] # grid[p]
      BY DEF IInv, ListsAccounted
    <3>2. \A c \in Cell : At(c)' = IF grid[c] = None THEN {} ELSE objects'[grid[c]]
      BY <2>1 DEF At
    <3>3. At(p)' = At(p) \cup {d}
      BY <3>2, <2>1, <2>2 DEF At, None
    <3>4. ASSUME NEW c \in Cell, c # p
          PROVE  At(c)' = At(c)
      BY <3>1, <3>2, <3>4, <1>2, <2>2 DEF At
    <3>5. QED
      BY <3>3, <3>4
  <2>4. TypeOK'
    BY <1>2, <2>1, <2>2 DEF TypeOK, Index, None
  <2>5. \A k \in 1..Len(free) : free[k] # grid[p] /\ free[k] \in 1..n
    BY <1>2 DEF IInv, ListsAccounted
  <2>6. EmptyIsFree'
    BY <1>2, <2>1, <2>2, <2>5 DEF IInv, EmptyIsFree
  <2>7. ListsAccounted'
    BY <2>1, <2>2 DEF IInv, ListsAccounted, Index
  <2>8. OneCellEach'
    BY <1>1, <2>3 DEF IInv, OneCellEach
  <2>9. Len(objects') > 0
    BY <1>2, <2>2
  <2>10. QED
    BY <2>3, <2>4, <2>6, <2>7, <2>8, <2>9 DEF IInv
<1>5. QED
  BY <1>1, <1>3, <1>4

LEMMA RemoveFacts ==
  ASSUME IInv, NEW d \in Data, NEW p \in Cell, Remove(d, p)
  PROVE  /\ IInv'
         /\ \A c \in Cell : At(c)' = IF c = p THEN At(c) \ {d} ELSE At(c)
<1>1. /\ asked' = <<>> /\ found' = Nobody /\ undefined' = undefined
      /\ RemoveLast(d, p) \/ RemoveEntry(d, p) \/ RemoveNothing(d, p)
  BY DEF Remove
<1> DEFINE n == Len(objects)
           h == grid[p]
<1>2. /\ objects \in Seq(SUBSET Data) /\ n \in Nat /\ n > 0
      /\ grid \in [Cell -> 0..n]
      /\ \A c \in Cell : grid[c] # None => grid[c] \in 1..n
      /\ free \in Seq(1..n) /\ Len(free) \in Nat
      /\ asked' \in {<<>>} \cup {<< r >> : r \in Cell} \cup (Cell \X Cell)
      /\ found' \in [vertical : SUBSET Data, horizontal : SUBSET Data]
      /\ undefined' \in BOOLEAN
  BY <1>1 DEF IInv, TypeOK, Index, None, Nobody
<1>3. /\ \A c \in Cell : c # p /\ grid[c] # None => grid[c] # h
      /\ \A k \in 1..Len(free) : free[k] # h /\ free[k] \in 1..n
  BY <1>2 DEF IInv, ListsAccounted
<1> HIDE DEF h
<1>4. CASE RemoveLast(d, p)
  <2>1. /\ h \in 1..n /\ objects[h] \subseteq {d}
        /\ objects' = [objects EXCEPT ![h] = {}]
        /\ free' = << h >> \o free
        /\ grid' = [grid EXCEPT ![p] = None]
    BY <1>2, <1>4 DEF RemoveLast, h
  <2>2. /\ objects' \in Seq(SUBSET Data) /\ Len(objects') = n
        /\ \A i \in 1..n : objects'[i] = IF i = h THEN {} ELSE objects[i]
    BY <1>2, <2>1, ExceptSeq
  <2>3. \A c \in Cell : grid'[c] = IF c = p THEN None ELSE grid[c]
    BY <1>2, <2>1
  <2>4. /\ free' \in Seq(1..n) /\ Len(free') = Len(free) + 1 /\ free'[1] = h
        /\ \A k \in 1..Len(free) : free'[k + 1] = free[k]
    BY <1>2, <2>1, FrontFacts
  <2>5. \A c \in Cell : At(c)' = IF c = p THEN At(c) \ {d} ELSE At(c)
    <3>1. \A c \in Cell : At(c)' = IF grid'[c] = None THEN {} ELSE objects'[grid'[c]]
      BY DEF At
    <3>2. At(p) = objects[h] /\ At(p)' = {}
      BY <3>1, <2>1, <2>3 DEF At, None, h
    <3>3. ASSUME NEW c \in Cell, c # p
          PROVE  At(c)' = At(c)
      BY <3>1, <3>3, <1>2, <1>3, <2>2, <2>3 DEF At
    <3>4. QED
      BY <3>2, <3>3, <2>1
  <2>6. TypeOK'
    BY <1>2, <2>1, <2>2, <2>4 DEF TypeOK, Index, None
  <2>7. ListsAccounted'
    <3>1. ASSUME NEW i \in 1..n
          PROVE  (\E c \in Cell : grid'[c] = i) \/ (\E k \in 1..Len(free') : free'[k] = i)
      <4>1. CASE i = h
        <5>1. 1 \in 1..Len(free')
          BY <1>2, <2>4
        <5>2. QED
          BY <4>1, <5>1, <2>4
      <4>2. CASE i # h /\ \E c \in Cell : grid[c] = i
        <5>1. PICK c \in Cell : grid[c] = i
          BY <4>2
        <5>2. c # p
          BY <5>1, <4>2 DEF h
        <5>3. QED
          BY <5>1, <5>2, <2>3
      <4>3. CASE i # h /\ \E k \in 1..Len(free) : free[k] = i
        <5>1. PICK k \in 1..Len(free) : free[k] = i
          BY <4>3
        <5>2. free'[k + 1] = i
          BY <5>1, <2>4
        <5>3. k + 1 \in 1..Len(free')
          BY <1>2, <2>4
        <5>4. QED
          BY <5>2, <5>3
      <4>4. QED
        BY <4>1, <4>2, <4>3 DEF IInv, ListsAccounted, Index
    <3>2. \A k \in 1..Len(free') : free'[k] = h \/ \E j \in 1..Len(free) : k = j + 1 /\ free'[k] = free[j]
      <4>1. ASSUME NEW k \in 1..Len(free'), k # 1
            PROVE  k - 1 \in 1..Len(free) /\ k = (k - 1) + 1
        BY <4>1, <1>2, <2>4
      <4>2. QED
        BY <4>1, <2>4
    <3>3. \A c \in Cell, k \in 1..Len(free') : grid'[c] # free'[k]
      <4>1. SUFFICES ASSUME NEW c \in Cell, NEW k \in 1..Len(free')
                     PROVE  grid'[c] # free'[k]
        OBVIOUS
      <4>2. free'[k] \in 1..n
        BY <1>3, <2>1, <3>2
      <4>3. CASE c = p
        BY <4>2, <4>3, <2>3 DEF None
      <4>4. CASE c # p
        <5>1. grid'[c] = grid[c] /\ \A j \in 1..Len(free) : grid[c] # free[j]
          BY <4>4, <2>3 DEF IInv, ListsAccounted
        <5>2. grid[c] # h
          BY <4>4, <1>3, <2>1 DEF None
        <5>3. QED
          BY <5>1, <5>2, <3>2
      <4>5. QED
        BY <4>3, <4>4
    <3>4. \A b, c \in Cell : grid'[b] = grid'[c] /\ grid'[b] # None => b = c
      BY <2>3 DEF IInv, ListsAccounted
    <3>5. \A j, k \in 1..Len(free') : free'[j] = free'[k] => j = k
      <4>1. \A k \in 1..Len(free') : k = 1 \/ free'[k] # h
        <5>1. ASSUME NEW k \in 1..Len(free'), k # 1
              PROVE  free'[k] # h
          <6>1. k - 1 \in 1..Len(free) /\ (k - 1) + 1 = k
            BY <5>1, <1>2, <2>4
          <6>2. free'[k] = free[k - 1]
            BY <6>1, <2>4
          <6>3. QED
            BY <6>1, <6>2, <1>3
        <5>2. QED
          BY <5>1
      <4>2. QED
        BY <4>1, <3>2, <2>4 DEF IInv, ListsAccounted
    <3>6. QED
      BY <3>1, <3>3, <3>4, <3>5, <2>2 DEF ListsAccounted, Index
  <2>8. EmptyIsFree'
    <3>1. \A k \in 1..Len(free') : objects'[free'[k]] = {}
      <4>1. SUFFICES ASSUME NEW k \in 1..Len(free')
                     PROVE  objects'[free'[k]] = {}
        OBVIOUS
      <4>2. CASE free'[k] = h
        BY <4>2, <2>1, <2>2
      <4>3. CASE free'[k] # h
        <5>1. k # 1
          BY <4>3, <2>4
        <5>2. k - 1 \in 1..Len(free) /\ (k - 1) + 1 = k
          BY <5>1, <1>2, <2>4
        <5>3. free'[k] = free[k - 1] /\ free[k - 1] \in 1..n /\ objects[free[k - 1]] = {}
          BY <5>2, <2>4, <1>3 DEF IInv, EmptyIsFree
        <5>4. QED
          BY <5>3, <2>2
      <4>4. QED
        BY <4>2, <4>3
    <3>2. \A c \in Cell : grid'[c] # None => objects'[grid'[c]] # {}
      BY <1>2, <1>3, <2>2, <2>3 DEF IInv, EmptyIsFree
    <3>3. QED
      BY <3>1, <3>2 DEF EmptyIsFree
  <2>9. OneCellEach'
    BY <2>5 DEF IInv, OneCellEach
  <2>10. QED
    BY <1>2, <2>2, <2>5, <2>6, <2>7, <2>8, <2>9 DEF IInv
<1>5. CASE RemoveEntry(d, p)
  <2> DEFINE e == objects[h] \ {d}
  <2>1. /\ h \in 1..n /\ e # {} /\ e \in SUBSET Data
        /\ objects' = [objects EXCEPT ![h] = e]
        /\ free' = free /\ grid' = grid
    BY <1>2, <1>5 DEF RemoveEntry, h
  <2> HIDE DEF e
  <2>2. /\ objects' \in Seq(SUBSET Data) /\ Len(objects') = n
        /\ \A i \in 1..n : objects'[i] = IF i = h THEN e ELSE objects[i]
    BY <1>2, <2>1, ExceptSeq
  <2>3. \A c \in Cell : At(c)' = IF c = p THEN At(c) \ {d} ELSE At(c)
    <3>1. \A c \in Cell : At(c)' = IF grid[c] = None THEN {} ELSE objects'[grid[c]]
      BY <2>1 DEF At
    <3>2. At(p) = objects[h] /\ At(p)' = e
      BY <3>1, <2>1, <2>2 DEF At, None, h
    <3>3. ASSUME NEW c \in Cell, c # p
          PROVE  At(c)' = At(c)
      BY <3>1, <3>3, <1>2, <1>3, <2>2 DEF At
    <3>4. QED
      BY <3>2, <3>3 DEF e
  <2>4. TypeOK'
    BY <1>2, <2>1, <2>2 DEF TypeOK, Index, None
  <2>5. ListsAccounted'
    BY <2>1, <2>2 DEF IInv, ListsAccounted, Index
  <2>6. EmptyIsFree'
    BY <1>2, <1>3, <2>1, <2>2 DEF IInv, EmptyIsFree
  <2>7. OneCellEach'
    BY <2>3 DEF IInv, OneCellEach
  <2>8. QED
    BY <1>2, <2>2, <2>3, <2>4, <2>5, <2>6, <2>7 DEF IInv
<1>6. CASE RemoveNothing(d, p)
  <2>1. grid' = grid /\ objects' = objects /\ free' = free
    BY <1>6 DEF RemoveNothing
  <2>2. \A c \in Cell : At(c)' = At(c)
    BY <2>1 DEF At
  <2>3. At(p) = {}
    BY <1>6 DEF RemoveNothing, At
  <2>4. TypeOK' /\ ListsAccounted' /\ EmptyIsFree' /\ OneCellEach'
    BY <1>2, <2>1, <2>2
       DEF IInv, TypeOK, ListsAccounted, EmptyIsFree, OneCellEach, Index, None
  <2>5. QED
    BY <2>1, <2>2, <2>3, <2>4 DEF IInv
<1>7. QED
  BY <1>1, <1>4, <1>5, <1>6

-----------------------------------------------------------------------------
(* Questions.                                                              *)

\* The invariant with what the last question found.
Invariant == IInv /\ FoundOnce /\ FoundIsAsked

\* What a question leaves, and what it finds when it is right.
LEMMA AskFacts ==
  ASSUME Invariant, NEW V, NEW H, NEW r, Ask(r, V, H),
         r \in {<< p >> : p \in Cell} \cup (Cell \X Cell),
         V \cap H = {}
  PROVE  /\ IInv' /\ FoundOnce'
         /\ asked' = r
         /\ \A c \in Cell : At(c)' = At(c)
         /\ ~undefined' => /\ V \cup H \subseteq Cell
                           /\ found'.vertical \cup found'.horizontal = Entries(V \cup H)
         /\ V \cup H \subseteq Cell => ~undefined'
<1>1. /\ asked' = r /\ grid' = grid /\ objects' = objects /\ free' = free
      /\ ~undefined
  BY DEF Ask
<1>2. \A c \in Cell : At(c)' = At(c) /\ At(c) \subseteq Data
  BY <1>1 DEF At, Invariant, IInv, TypeOK, Index
<1>3. CASE V \cup H \subseteq Cell
  <2>1. /\ found' = [vertical |-> Entries(V), horizontal |-> Entries(H)]
        /\ undefined' = FALSE
    BY <1>1, <1>3 DEF Ask
  <2>2. found'.vertical = Entries(V) /\ found'.horizontal = Entries(H)
    BY <2>1
  <2>3. Entries(V) \cup Entries(H) = Entries(V \cup H)
    BY DEF Entries
  <2>4. Entries(V) \in SUBSET Data /\ Entries(H) \in SUBSET Data
    BY <1>2, <1>3 DEF Entries
  <2>5. Entries(V) \cap Entries(H) = {}
    <3>1. SUFFICES ASSUME NEW d, d \in Entries(V), d \in Entries(H)
                   PROVE  FALSE
      OBVIOUS
    <3>2. PICK b \in V, c \in H : d \in At(b) /\ d \in At(c)
      BY <3>1 DEF Entries
    <3>3. b \in Cell /\ c \in Cell /\ d \in Data
      BY <1>2, <1>3, <3>2
    <3>4. b = c
      BY <3>2, <3>3 DEF Invariant, IInv, OneCellEach
    <3>5. QED
      BY <3>4
  <2>6. TypeOK'
    BY <1>1, <2>1, <2>4 DEF Invariant, IInv, TypeOK, Index, None
  <2>7. ListsAccounted' /\ EmptyIsFree' /\ OneCellEach' /\ Len(objects') > 0
    BY <1>1, <1>2 DEF Invariant, IInv, ListsAccounted, EmptyIsFree, OneCellEach, Index
  <2>8. QED
    BY <1>1, <1>2, <1>3, <2>1, <2>2, <2>3, <2>5, <2>6, <2>7 DEF IInv, FoundOnce
<1>4. CASE ~(V \cup H \subseteq Cell)
  <2>1. found' = Nobody /\ undefined' = TRUE
    BY <1>1, <1>4 DEF Ask
  <2>2. TypeOK'
    BY <1>1, <2>1 DEF Invariant, IInv, TypeOK, Index, None, Nobody
  <2>3. ListsAccounted' /\ EmptyIsFree' /\ OneCellEach' /\ Len(objects') > 0
    BY <1>1, <1>2 DEF Invariant, IInv, ListsAccounted, EmptyIsFree, OneCellEach, Index
  <2>4. FoundOnce'
    BY <2>1 DEF FoundOnce, Nobody
  <2>5. QED
    BY <1>1, <1>2, <1>4, <2>1, <2>2, <2>3, <2>4 DEF IInv
<1>5. QED
  BY <1>3, <1>4

\* The entries of cells of the grid are what the abstract grid finds in them.
LEMMA EntriesAreIn ==
  ASSUME IInv, NEW C \in SUBSET Cell
  PROVE  Entries(C) = Promised!In(C)
<1>1. \A c \in Cell : At(c) \subseteq Data
  BY DEF IInv, TypeOK, At, Index
<1>2. \A d \in Data, c \in Cell :
        << d, c >> \in {e \in Data \X Cell : e[1] \in At(e[2])} <=> d \in At(c)
  OBVIOUS
<1>3. Promised!In(C) = {d \in Data : \E c \in C : d \in At(c)}
  BY <1>2 DEF Promised!In
<1>4. QED
  BY <1>1, <1>3, Zenon DEF Entries

\* A question about one square.
LEMMA GetRangeFacts ==
  ASSUME Invariant, NEW p \in Cell, GetRange(p)
  PROVE  /\ Invariant'
         /\ \A c \in Cell : At(c)' = At(c)
         /\ p \in Promised!Inner =>
              found'.vertical \cup found'.horizontal = Promised!In(Promised!Square(p))
<1>1. Ask(<< p >>, WholeRange(p), {})
  BY DEF GetRange
<1>2. /\ IInv' /\ FoundOnce' /\ asked' = << p >>
      /\ \A c \in Cell : At(c)' = At(c)
      /\ ~undefined' => found'.vertical \cup found'.horizontal = Entries(WholeRange(p))
      /\ WholeRange(p) \subseteq Cell => ~undefined'
  <2>1. << p >> \in {<< q >> : q \in Cell} \cup (Cell \X Cell)
    OBVIOUS
  <2>2. WholeRange(p) \cup {} = WholeRange(p) /\ WholeRange(p) \cap {} = {}
    OBVIOUS
  <2>3. QED
    BY <1>1, <2>1, <2>2, AskFacts
<1>3. ASSUME p \in Promised!Inner
      PROVE  /\ ~undefined'
             /\ found'.vertical \cup found'.horizontal = Promised!In(Promised!Square(p))
  <2>1. WholeRange(p) = Promised!Square(p) /\ WholeRange(p) \subseteq Cell
    BY <1>3, RangeIsExact
  <2>2. Entries(WholeRange(p)) = Promised!In(Promised!Square(p))
    BY <2>1, EntriesAreIn DEF Invariant
  <2>3. QED
    BY <1>2, <2>1, <2>2
<1>4. Promised!In(Promised!Square(p))' = Promised!In(Promised!Square(p))
  BY <1>2 DEF Promised!In
<1>5. FoundIsAsked'
  <2>1. Len(asked') = 1 /\ asked'[1] = p /\ 1 \in 1..Len(asked')
    BY <1>2
  <2>2. AskedInside' => p \in Promised!Inner
    BY <2>1 DEF AskedInside
  <2>3. QED
    BY <1>3, <1>4, <2>1, <2>2 DEF FoundIsAsked
<1>6. QED
  BY <1>2, <1>3, <1>5 DEF Invariant

\* A question about a difference: getOldRange(p, q) and getNewRange(q, p).
LEMMA GetDifferenceFacts ==
  ASSUME Invariant, NEW p \in Cell, NEW q \in Cell,
         Ask(<< p, q >>, Vertical(p, q), Horizontal(p, q))
  PROVE  /\ Invariant'
         /\ \A c \in Cell : At(c)' = At(c)
         /\ p \in Promised!Inner /\ q \in Promised!Inner =>
              found'.vertical \cup found'.horizontal =
                Promised!In(Promised!Square(p) \ Promised!Square(q))
<1> DEFINE V == Vertical(p, q)
           H == Horizontal(p, q)
           D == Promised!Square(p) \ Promised!Square(q)
<1>1. V \cap H = {}
  <2>1. p[1] \in 0..(NumSideCells - 1) /\ q[1] \in 0..(NumSideCells - 1)
    BY DEF Cell
  <2>2. (Start(p[1], q[1])..(End(p[1], q[1]) - 1))
          \cap (RestFrom(p[1], q[1])..RestTo(p[1], q[1])) = {}
    BY <2>1, ColumnsApart
  <2>3. QED
    BY <2>2 DEF Vertical, Horizontal
<1>2. /\ IInv' /\ FoundOnce' /\ asked' = << p, q >>
      /\ \A c \in Cell : At(c)' = At(c)
      /\ ~undefined' => found'.vertical \cup found'.horizontal = Entries(V \cup H)
      /\ V \cup H \subseteq Cell => ~undefined'
  <2>1. << p, q >> \in {<< r >> : r \in Cell} \cup (Cell \X Cell)
    OBVIOUS
  <2>2. QED
    BY <1>1, <2>1, AskFacts
<1>3. ASSUME p \in Promised!Inner, q \in Promised!Inner
      PROVE  /\ ~undefined'
             /\ found'.vertical \cup found'.horizontal = Promised!In(D)
  <2>1. V \cup H = D /\ V \cup H \subseteq Cell
    BY <1>3, DifferenceIsExact
  <2>2. Entries(V \cup H) = Promised!In(D)
    BY <2>1, EntriesAreIn DEF Invariant
  <2>3. QED
    BY <1>2, <2>1, <2>2
<1>4. Promised!In(D)' = Promised!In(D)
  BY <1>2 DEF Promised!In
<1>5. FoundIsAsked'
  <2>1. /\ Len(asked') = 2 /\ asked'[1] = p /\ asked'[2] = q
        /\ 1 \in 1..Len(asked') /\ 2 \in 1..Len(asked')
    BY <1>2
  <2>2. AskedInside' => p \in Promised!Inner /\ q \in Promised!Inner
    BY <2>1 DEF AskedInside
  <2>3. QED
    BY <1>3, <1>4, <2>1, <2>2 DEF FoundIsAsked
<1>6. QED
  BY <1>2, <1>3, <1>5 DEF Invariant

-----------------------------------------------------------------------------
(* The invariant holds.                                                    *)

LEMMA InitInvariant ==
  ASSUME Init
  PROVE  Invariant
<1>1. /\ objects = [i \in 1..InitialSize |-> {}] /\ free = [i \in 1..InitialSize |-> i]
      /\ grid = [c \in Cell |-> None]
      /\ InitialSize \in Nat \ {0}
  BY PoolAssumption DEF Init
<1>2. /\ objects \in Seq(SUBSET Data) /\ Len(objects) = InitialSize
      /\ free \in Seq(1..InitialSize) /\ Len(free) = InitialSize
      /\ \A i \in 1..InitialSize : objects[i] = {} /\ free[i] = i
  BY <1>1
<1>3. TypeOK
  BY <1>1, <1>2 DEF Init, TypeOK, Index, None, Nobody
<1>4. ListsAccounted /\ EmptyIsFree
  BY <1>1, <1>2 DEF ListsAccounted, EmptyIsFree, Index, None
<1>5. OneCellEach
  BY <1>1 DEF OneCellEach, At
<1>6. FoundOnce /\ FoundIsAsked
  BY DEF Init, FoundOnce, FoundIsAsked, AskedInside, Nobody
<1>7. QED
  BY <1>1, <1>2, <1>3, <1>4, <1>5, <1>6 DEF Invariant, IInv

LEMMA NextInvariant ==
  ASSUME Invariant, [Next]_vars
  PROVE  Invariant'
<1>1. ASSUME asked' = <<>>, found' = Nobody, IInv'
      PROVE  Invariant'
  BY <1>1 DEF Invariant, FoundOnce, FoundIsAsked, AskedInside, Nobody
<1>2. ASSUME NEW d \in Data, NEW p \in Cell, Insert(d, p)
      PROVE  Invariant'
  BY <1>1, <1>2, InsertFacts DEF Invariant, Insert
<1>3. ASSUME NEW d \in Data, NEW p \in Cell, Remove(d, p)
      PROVE  Invariant'
  BY <1>1, <1>3, RemoveFacts DEF Invariant, Remove
<1>4. ASSUME NEW p \in Cell, GetRange(p)
      PROVE  Invariant'
  BY <1>4, GetRangeFacts
<1>5. ASSUME NEW old \in Cell, NEW new \in Cell, GetOldRange(old, new)
      PROVE  Invariant'
  BY <1>5, GetDifferenceFacts DEF GetOldRange
<1>6. ASSUME NEW old \in Cell, NEW new \in Cell, GetNewRange(old, new)
      PROVE  Invariant'
  BY <1>6, GetDifferenceFacts DEF GetNewRange
<1>7. CASE UNCHANGED vars
  <2>1. /\ grid' = grid /\ objects' = objects /\ free' = free /\ asked' = asked
        /\ found' = found /\ undefined' = undefined
    BY <1>7 DEF vars
  <2>2. \A c \in Cell : At(c)' = At(c)
    BY <2>1 DEF At
  <2>3. IInv'
    BY <2>1, <2>2
       DEF Invariant, IInv, TypeOK, ListsAccounted, EmptyIsFree, OneCellEach, Index
  <2>4. FoundOnce' /\ FoundIsAsked'
    BY <2>1, <2>2
       DEF Invariant, FoundOnce, FoundIsAsked, AskedInside, Promised!In
  <2>5. QED
    BY <2>3, <2>4 DEF Invariant
<1>8. QED
  BY <1>2, <1>3, <1>4, <1>5, <1>6, <1>7 DEF Next

\* Cells, lists and the pool agree after every insert, remove and question
\* (checkout, checkin).
THEOREM InvariantHolds == Spec => []Invariant
<1>1. Init => Invariant
  BY InitInvariant
<1>2. Invariant /\ [Next]_vars => Invariant'
  BY NextInvariant
<1>3. QED
  BY <1>1, <1>2, PTL DEF Spec

\* The variables of the grid and of its pool keep their types.
THEOREM TypeCorrect == Spec => []TypeOK
<1>1. Invariant => TypeOK
  BY DEF Invariant, IInv
<1>2. QED
  BY <1>1, InvariantHolds, PTL

\* No list of the pool is lost, shared, or handed out twice; one is in a cell
\* when it has entries and in the pool when it has none (checkout, checkin).
THEOREM PoolAccounted == Spec => []PoolSound
<1>1. Invariant => PoolSound
  BY DEF Invariant, IInv, PoolSound
<1>2. QED
  BY <1>1, InvariantHolds, PTL

\* Nobody is found by both loops of a question, and away from the border every
\* question is answered exactly (getRange, getOldRange, getNewRange).
THEOREM AnswersAreExact == Spec => []AnswersExact
<1>1. Invariant => AnswersExact
  BY DEF Invariant, AnswersExact
<1>2. QED
  BY <1>1, InvariantHolds, PTL

-----------------------------------------------------------------------------
(* The grid implements GridEntries.                                        *)

\* The entries the lists stand for.
Stored == {e \in Data \X Cell : e[1] \in At(e[2])}

LEMMA CellsAgree == Promised!Cell = Cell
BY DEF Promised!Cell, Cell

LEMMA InitImplements ==
  ASSUME Init
  PROVE  Promised!Init
<1>1. Stored = {}
  BY DEF Init, Stored, At
<1>2. found.vertical \cup found.horizontal = {}
  BY DEF Init, Nobody
<1>3. QED
  BY <1>1, <1>2 DEF Promised!Init, Stored

LEMMA NextImplements ==
  ASSUME Invariant, Invariant', [Next]_vars
  PROVE  [Promised!Next]_<< Stored, found.vertical \cup found.horizontal >>
<1> DEFINE answer == found.vertical \cup found.horizontal
<1>1. answer' \in SUBSET Data
  BY DEF Invariant, IInv, TypeOK
<1>2. ASSUME \A c \in Cell : At(c)' = At(c)
      PROVE  Stored' = Stored
  BY <1>2 DEF Stored
<1>3. ASSUME NEW d \in Data, NEW p \in Cell, Insert(d, p)
      PROVE  Promised!Insert(d, p)
  <2>1. \A c \in Cell : At(c)' = IF c = p THEN At(c) \cup {d} ELSE At(c)
    BY <1>3, InsertFacts DEF Invariant
  <2>2. Stored' = Stored \cup {<< d, p >>}
    BY <2>1 DEF Stored
  <2>3. answer' = {}
    BY <1>3 DEF Insert, Nobody
  <2>4. QED
    BY <2>2, <2>3 DEF Promised!Insert, Stored
<1>4. ASSUME NEW d \in Data, NEW p \in Cell, Remove(d, p)
      PROVE  Promised!Remove(d, p)
  <2>1. \A c \in Cell : At(c)' = IF c = p THEN At(c) \ {d} ELSE At(c)
    BY <1>4, RemoveFacts DEF Invariant
  <2>2. Stored' = Stored \ {<< d, p >>}
    BY <2>1 DEF Stored
  <2>3. answer' = {}
    BY <1>4 DEF Remove, Nobody
  <2>4. QED
    BY <2>2, <2>3 DEF Promised!Remove, Stored
<1>5. ASSUME NEW p \in Cell, GetRange(p)
      PROVE  Promised!Ask({p}, Promised!Square(p))
  <2>1. /\ \A c \in Cell : At(c)' = At(c)
        /\ p \in Promised!Inner => answer' = Promised!In(Promised!Square(p))
    BY <1>5, GetRangeFacts
  <2>2. QED
    BY <1>1, <1>2, <2>1 DEF Promised!Ask, Stored
<1>6. ASSUME NEW p \in Cell, NEW q \in Cell,
             Ask(<< p, q >>, Vertical(p, q), Horizontal(p, q))
      PROVE  Promised!Ask({p, q}, Promised!Square(p) \ Promised!Square(q))
  <2>1. /\ \A c \in Cell : At(c)' = At(c)
        /\ p \in Promised!Inner /\ q \in Promised!Inner =>
             answer' = Promised!In(Promised!Square(p) \ Promised!Square(q))
    BY <1>6, GetDifferenceFacts
  <2>2. QED
    BY <1>1, <1>2, <2>1 DEF Promised!Ask, Stored
<1>7. CASE UNCHANGED vars
  <2>1. Stored' = Stored /\ answer' = answer
    BY <1>7 DEF vars, Stored, At
  <2>2. QED
    BY <2>1
<1>8. ASSUME Next
      PROVE  Promised!Next
  <2>1. CASE \E d \in Data, p \in Cell : Insert(d, p) \/ Remove(d, p)
    BY <2>1, <1>3, <1>4, CellsAgree DEF Promised!Next
  <2>2. CASE \E p \in Cell : GetRange(p)
    BY <2>2, <1>5, CellsAgree DEF Promised!Next
  <2>3. CASE \E old, new \in Cell : GetOldRange(old, new)
    BY <2>3, <1>6, CellsAgree DEF Promised!Next, GetOldRange
  <2>4. CASE \E old, new \in Cell : GetNewRange(old, new)
    BY <2>4, <1>6, CellsAgree DEF Promised!Next, GetNewRange
  <2>5. QED
    BY <1>8, <2>1, <2>2, <2>3, <2>4 DEF Next
<1>9. QED
  BY <1>7, <1>8

\* The lists, the pool and the loops implement the relation of GridEntries.
THEOREM GridImplementsEntries == Spec => ImplementsEntries
<1>1. Init => Promised!Init
  BY InitImplements
<1>2. Invariant /\ Invariant' /\ [Next]_vars =>
        [Promised!Next]_<< Stored, found.vertical \cup found.horizontal >>
  BY NextImplements
<1>3. QED
  BY <1>1, <1>2, InvariantHolds, PTL DEF Spec, Promised!Spec, ImplementsEntries, Stored

=============================================================================
