-------------------------- MODULE TaskManagerProofs -------------------------
(***************************************************************************)
(* Machine-checked proofs about TaskManager, for every set of tasks, every *)
(* order and any number of operations.                                     *)
(***************************************************************************)
EXTENDS TaskManager, FiniteSetTheorems, SequenceTheorems, TLAPS

-----------------------------------------------------------------------------
(* Inserting and erasing a node.                                           *)

\* The elements of a concatenation.
LEMMA Concatenating ==
  ASSUME NEW a \in Seq(Task), NEW b \in Seq(Task)
  PROVE  /\ a \o b \in Seq(Task)
         /\ Len(a \o b) = Len(a) + Len(b)
         /\ \A i \in 1..Len(a) : (a \o b)[i] = a[i]
         /\ \A i \in 1..Len(b) : (a \o b)[Len(a) + i] = b[i]
  OBVIOUS

\* What inserting a node before another one does to a list.
LEMMA Inserting ==
  ASSUME NEW s \in Seq(Task), NEW t \in Task, NEW p \in 1..(Len(s) + 1)
  PROVE  /\ InsertAt(s, p, t) \in Seq(Task)
         /\ Len(InsertAt(s, p, t)) = Len(s) + 1
         /\ \A i \in 1..(p - 1) : InsertAt(s, p, t)[i] = s[i]
         /\ InsertAt(s, p, t)[p] = t
         /\ \A i \in p..Len(s) : InsertAt(s, p, t)[i + 1] = s[i]
<1> DEFINE a == SubSeq(s, 1, p - 1)
           b == SubSeq(s, p, Len(s))
<1>0. Len(s) \in Nat /\ p \in Nat /\ p >= 1 /\ p <= Len(s) + 1
  OBVIOUS
<1>1. a \in Seq(Task) /\ Len(a) = p - 1 /\ \A i \in 1..(p - 1) : a[i] = s[i]
  BY <1>0, SubSeqProperties
<1>2. /\ b \in Seq(Task) /\ Len(b) = Len(s) - p + 1
      /\ \A i \in 1..(Len(s) - p + 1) : b[i] = s[p + i - 1]
  BY <1>0, SubSeqProperties
<1> HIDE DEF a, b
<1> DEFINE c == a \o <<t>>
<1>3. /\ c \in Seq(Task) /\ Len(c) = p /\ c[p] = t
      /\ \A i \in 1..(p - 1) : c[i] = s[i]
  BY <1>0, <1>1
<1> HIDE DEF c
<1>4. /\ c \o b \in Seq(Task)
      /\ Len(c \o b) = Len(s) + 1
      /\ \A i \in 1..p : (c \o b)[i] = c[i]
      /\ \A i \in 1..(Len(s) - p + 1) : (c \o b)[p + i] = b[i]
  <2>1. c \in Seq(Task) /\ b \in Seq(Task) /\ Len(c) = p /\ Len(b) = Len(s) - p + 1
    BY <1>2, <1>3
  <2>2. /\ c \o b \in Seq(Task)
        /\ Len(c \o b) = Len(c) + Len(b)
        /\ \A i \in 1..Len(c) : (c \o b)[i] = c[i]
        /\ \A i \in 1..Len(b) : (c \o b)[Len(c) + i] = b[i]
    BY ONLY <2>1, Concatenating
  <2>3. p + (Len(s) - p + 1) = Len(s) + 1
    BY ONLY <1>0
  <2>4. QED
    BY ONLY <2>1, <2>2, <2>3
<1>5. \A i \in 1..(p - 1) : (c \o b)[i] = s[i]
  BY <1>0, <1>3, <1>4
<1>6. ASSUME NEW i \in p..Len(s) PROVE (c \o b)[i + 1] = s[i]
  <2>1. i - p + 1 \in 1..(Len(s) - p + 1) /\ p + (i - p + 1) = i + 1
        /\ p + (i - p + 1) - 1 = i
    BY <1>0
  <2>2. (c \o b)[p + (i - p + 1)] = b[i - p + 1]
    BY <1>4, <2>1
  <2>3. b[i - p + 1] = s[p + (i - p + 1) - 1]
    BY <1>2, <2>1
  <2>4. QED
    BY <2>1, <2>2, <2>3
<1>7. (c \o b)[p] = t
  BY <1>0, <1>3, <1>4
<1>8. InsertAt(s, p, t) = c \o b
  BY DEF InsertAt, a, b, c
<1>9. QED
  BY <1>4, <1>5, <1>6, <1>7, <1>8

\* What erasing a node does to a list.
LEMMA Erasing ==
  ASSUME NEW s \in Seq(Task), NEW k \in 1..Len(s)
  PROVE  /\ RemoveAt(s, k) \in Seq(Task)
         /\ Len(RemoveAt(s, k)) = Len(s) - 1
         /\ \A i \in 1..(k - 1) : RemoveAt(s, k)[i] = s[i]
         /\ \A i \in k..(Len(s) - 1) : RemoveAt(s, k)[i] = s[i + 1]
<1> DEFINE a == SubSeq(s, 1, k - 1)
           b == SubSeq(s, k + 1, Len(s))
<1>0. Len(s) \in Nat /\ k \in Nat /\ k >= 1 /\ k <= Len(s)
  OBVIOUS
<1>1. a \in Seq(Task) /\ Len(a) = k - 1 /\ \A i \in 1..(k - 1) : a[i] = s[i]
  BY <1>0, SubSeqProperties
<1>2. /\ b \in Seq(Task) /\ Len(b) = Len(s) - k
      /\ \A i \in 1..(Len(s) - k) : b[i] = s[k + 1 + i - 1]
  BY <1>0, SubSeqProperties
<1> HIDE DEF a, b
<1>3. /\ a \o b \in Seq(Task)
      /\ Len(a \o b) = Len(s) - 1
      /\ \A i \in 1..(k - 1) : (a \o b)[i] = a[i]
      /\ \A i \in 1..(Len(s) - k) : (a \o b)[k - 1 + i] = b[i]
  <2>1. a \in Seq(Task) /\ b \in Seq(Task) /\ Len(a) = k - 1 /\ Len(b) = Len(s) - k
    BY <1>1, <1>2
  <2>2. /\ a \o b \in Seq(Task)
        /\ Len(a \o b) = Len(a) + Len(b)
        /\ \A i \in 1..Len(a) : (a \o b)[i] = a[i]
        /\ \A i \in 1..Len(b) : (a \o b)[Len(a) + i] = b[i]
    BY <2>1, Concatenating
  <2>3. Len(a) + Len(b) = Len(s) - 1
    BY <1>0, <2>1
  <2>4. QED
    BY <2>1, <2>2, <2>3
<1>4. \A i \in 1..(k - 1) : (a \o b)[i] = s[i]
  BY <1>1, <1>3
<1>5. ASSUME NEW i \in k..(Len(s) - 1) PROVE (a \o b)[i] = s[i + 1]
  <2>1. i - k + 1 \in 1..(Len(s) - k) /\ k - 1 + (i - k + 1) = i
        /\ k + 1 + (i - k + 1) - 1 = i + 1
    BY <1>0
  <2>2. (a \o b)[k - 1 + (i - k + 1)] = b[i - k + 1]
    BY <1>3, <2>1
  <2>3. b[i - k + 1] = s[k + 1 + (i - k + 1) - 1]
    BY <1>2, <2>1
  <2>4. QED
    BY <2>1, <2>2, <2>3
<1>6. RemoveAt(s, k) = a \o b
  BY DEF RemoveAt, a, b
<1>7. QED
  BY <1>3, <1>4, <1>5, <1>6

\* Inserting a node adds its task and no other.
LEMMA InsertingMembers ==
  ASSUME NEW s \in Seq(Task), NEW t \in Task, NEW p \in 1..(Len(s) + 1)
  PROVE  Members(InsertAt(s, p, t)) = Members(s) \cup {t}
<1> DEFINE r == InsertAt(s, p, t)
<1>1. /\ r \in Seq(Task) /\ Len(r) = Len(s) + 1 /\ Len(s) \in Nat
      /\ \A i \in 1..(p - 1) : r[i] = s[i]
      /\ r[p] = t
      /\ \A i \in p..Len(s) : r[i + 1] = s[i]
  BY Inserting
<1> HIDE DEF r
<1>2. ASSUME NEW u \in Members(r) PROVE u \in Members(s) \cup {t}
  <2>1. PICK i \in 1..Len(r) : u = r[i]
    BY DEF Members
  <2>2. CASE i < p
    <3>1. i \in 1..Len(s) /\ u = s[i]
      BY <1>1, <2>1, <2>2
    <3>2. QED
      BY <3>1 DEF Members
  <2>3. CASE i > p
    <3>1. i - 1 \in p..Len(s) /\ i - 1 \in 1..Len(s) /\ (i - 1) + 1 = i
      BY <1>1, <2>1, <2>3
    <3>2. u = s[i - 1]
      BY <1>1, <2>1, <3>1
    <3>3. QED
      BY <3>1, <3>2 DEF Members
  <2>4. CASE i = p
    BY <1>1, <2>1, <2>4
  <2>5. QED
    BY <1>1, <2>1, <2>2, <2>3, <2>4
<1>3. ASSUME NEW u \in Members(s) PROVE u \in Members(r)
  <2>1. PICK i \in 1..Len(s) : u = s[i]
    BY DEF Members
  <2>2. i \in 1..Len(r) /\ i + 1 \in 1..Len(r)
    BY <1>1
  <2>3. i \in 1..(p - 1) \/ i \in p..Len(s)
    OBVIOUS
  <2>4. u = r[i] \/ u = r[i + 1]
    BY <1>1, <2>1, <2>3
  <2>5. QED
    BY <2>2, <2>4 DEF Members
<1>4. t \in Members(r)
  BY <1>1 DEF Members
<1>5. QED
  BY <1>2, <1>3, <1>4 DEF r

\* Erasing a node of t keeps every other task.
LEMMA ErasingMembers ==
  ASSUME NEW s \in Seq(Task), NEW t \in Task, NEW k \in Nodes(s, t)
  PROVE  /\ Members(RemoveAt(s, k)) \ {t} = Members(s) \ {t}
         /\ Members(RemoveAt(s, k)) \subseteq Members(s)
<1> DEFINE r == RemoveAt(s, k)
<1>0. k \in 1..Len(s) /\ s[k] = t
  BY DEF Nodes
<1>1. /\ r \in Seq(Task) /\ Len(r) = Len(s) - 1 /\ Len(s) \in Nat
      /\ \A i \in 1..(k - 1) : r[i] = s[i]
      /\ \A i \in k..(Len(s) - 1) : r[i] = s[i + 1]
  BY <1>0, Erasing
<1> HIDE DEF r
<1>2. ASSUME NEW u \in Members(r) PROVE u \in Members(s)
  <2>1. PICK i \in 1..Len(r) : u = r[i]
    BY DEF Members
  <2>2. i \in 1..Len(s) /\ i + 1 \in 1..Len(s)
    BY <1>1
  <2>3. i \in 1..(k - 1) \/ i \in k..(Len(s) - 1)
    BY <1>0, <1>1
  <2>4. u = s[i] \/ u = s[i + 1]
    BY <1>1, <2>1, <2>3
  <2>5. QED
    BY <2>2, <2>4 DEF Members
<1>3. ASSUME NEW u \in Members(s), u # t PROVE u \in Members(r)
  <2>1. PICK i \in 1..Len(s) : u = s[i]
    BY DEF Members
  <2>2. i # k
    BY <1>0, <1>3, <2>1
  <2>3. CASE i < k
    <3>1. i \in 1..Len(r) /\ i \in 1..(k - 1) /\ r[i] = s[i]
      BY <1>0, <1>1, <2>3
    <3>2. QED
      BY <2>1, <3>1 DEF Members
  <2>4. CASE i > k
    <3>0. i - 1 \in k..(Len(s) - 1) /\ (i - 1) + 1 = i
      BY <1>0, <1>1, <2>4
    <3>1. i - 1 \in 1..Len(r) /\ r[i - 1] = s[i]
      BY <1>0, <1>1, <3>0
    <3>2. QED
      BY <2>1, <3>1 DEF Members
  <2>5. QED
    BY <1>0, <2>2, <2>3, <2>4
<1>4. QED
  BY <1>2, <1>3 DEF r

\* A list has no node of t when t is not among its tasks.
LEMMA NoNodes ==
  ASSUME NEW s, NEW t
  PROVE  Nodes(s, t) = {} <=> t \notin Members(s)
BY DEF Nodes, Members

-----------------------------------------------------------------------------
(* The inductive invariant.                                                *)

\* Code of a task runs in the walks only, or before execute; the walk stands on
\* its node.
CodeInWalks ==
  /\ running => phase \in Walks
  /\ running /\ ~dangling => at <= Len(sorted)
  /\ calls # <<>> => running \/ phase = "start"

\* What the extracting loop has passed stays, and need not be removed.
PassedStays ==
  phase = "extract" /\ erasing = None =>
    \A i \in 1..Len(tasks) : i < at => ~extract[tasks[i]]

IInv == TypeOK /\ CodeInWalks /\ ListsAgree /\ Ordered /\ PassedStays

\* The second invariant, about counts of nodes, on top of the first.  What is
\* called back is called in a walk; a walk whose node was erased is in a task.
InWalks ==
  /\ erasing # None /\ phase \in Walks => running
  /\ dangling => running \/ undefined
  /\ erasing \notin steady

\* The nodes of t the update walk has come by.
Behind(t) == {i \in Nodes(sorted, t) : i < at \/ (i = at /\ running /\ ~dangling)}

\* Whoever was left alone so far ran as often as the walk has come by.
RanAsPassed ==
  phase = "update" =>
    \A t \in steady : execute[t] /\ ran[t] = Cardinality(Behind(t))

\* A task that is being removed, and was in the list once, is owed one release.
RemovedOnce ==
  ~undefined /\ erasing # None /\ erasing \notin raced => owed[erasing] = 1

\* The releasing loop starts when nothing is removed any more, from the back.
Releasing ==
  /\ phase \in {"release", "done"} => erasing = None
  /\ phase = "release" => at <= Len(tasks)

Counted == InWalks /\ RanAsPassed /\ Balanced /\ RemovedOnce /\ Releasing

LEMMA InitIInv == Init => IInv
<1> SUFFICES ASSUME Init PROVE IInv
  OBVIOUS
<1>1. TypeOK
  <2>1. tasks \in Seq(Task) /\ sorted \in Seq(Task) /\ calls \in Seq(Task)
    BY DEF Init
  <2>2. /\ execute \in [Task -> BOOLEAN] /\ extract \in [Task -> BOOLEAN]
        /\ owed \in [Task -> Int] /\ ran \in [Task -> Nat]
    BY DEF Init
  <2>3. /\ at \in Nat /\ at >= 1 /\ ops \in Nat
        /\ phase = "start" /\ "start" \notin Walks
    BY DEF Init, Walks
  <2>4. /\ exiting \in BOOLEAN /\ running \in BOOLEAN /\ dangling \in BOOLEAN
        /\ undefined \in BOOLEAN /\ erasing \in Task \cup {None}
        /\ raced \in SUBSET Task /\ steady \in SUBSET Task
    BY DEF Init
  <2>5. QED
    BY <2>1, <2>2, <2>3, <2>4 DEF TypeOK
<1>2. CodeInWalks /\ PassedStays
  BY DEF Init, CodeInWalks, PassedStays
<1>3. ListsAgree
  BY DEF Init, ListsAgree
<1>4. Ordered
  BY DEF Init, Ordered
<1>5. QED
  BY <1>1, <1>2, <1>3, <1>4 DEF IInv

\* A task put in its place leaves the list ordered.
LEMMA PlaceKeepsOrder ==
  ASSUME TypeOK, Ordered, NEW t \in Task, NEW p \in 1..(Len(sorted) + 1),
         IsPlace(sorted, t, p), sorted' = InsertAt(sorted, p, t)
  PROVE  Ordered'
<1>1. /\ sorted \in Seq(Task) /\ Len(sorted) \in Nat /\ p \in Nat
      /\ Order \in [Task -> Nat \cup {-1}]
  BY OrderAssumption DEF TypeOK, Bottom
<1>2. /\ sorted' \in Seq(Task)
      /\ Len(sorted') = Len(sorted) + 1
      /\ \A i \in 1..(p - 1) : sorted'[i] = sorted[i]
      /\ sorted'[p] = t
      /\ \A i \in p..Len(sorted) : sorted'[i + 1] = sorted[i]
  <2>1. /\ InsertAt(sorted, p, t) \in Seq(Task)
        /\ Len(InsertAt(sorted, p, t)) = Len(sorted) + 1
        /\ \A i \in 1..(p - 1) : InsertAt(sorted, p, t)[i] = sorted[i]
        /\ InsertAt(sorted, p, t)[p] = t
        /\ \A i \in p..Len(sorted) : InsertAt(sorted, p, t)[i + 1] = sorted[i]
    BY ONLY <1>1, p \in 1..(Len(sorted) + 1), t \in Task, Inserting
  <2>2. QED
    BY ONLY <2>1, sorted' = InsertAt(sorted, p, t)
<1> SUFFICES ASSUME NEW i \in 1..Len(sorted'), NEW j \in 1..Len(sorted'), i < j,
                    Order[sorted'[i]] # Bottom, Order[sorted'[j]] # Bottom
             PROVE  Order[sorted'[i]] <= Order[sorted'[j]]
  BY DEF Ordered
<1> DEFINE old(n) == IF n < p THEN n ELSE n - 1
<1>3. ASSUME NEW n \in 1..Len(sorted'), n # p
      PROVE  old(n) \in 1..Len(sorted) /\ sorted'[n] = sorted[old(n)]
  <2>1. CASE n < p
    BY <1>1, <1>2, <2>1
  <2>2. CASE n > p
    <3>1. n - 1 \in p..Len(sorted) /\ n - 1 \in 1..Len(sorted) /\ (n - 1) + 1 = n
      BY <1>1, <1>2, <2>2
    <3>2. QED
      BY <1>1, <1>2, <2>2, <3>1
  <2>3. QED
    BY <1>1, <1>2, <1>3, <2>1, <2>2
<1>4. CASE i # p /\ j # p
  <2>1. old(i) < old(j)
    BY <1>1, <1>2, <1>4
  <2>2. /\ old(i) \in 1..Len(sorted) /\ sorted'[i] = sorted[old(i)]
        /\ old(j) \in 1..Len(sorted) /\ sorted'[j] = sorted[old(j)]
    BY <1>3, <1>4
  <2> HIDE DEF old
  <2>3. QED
    BY <2>1, <2>2 DEF Ordered
<1>5. CASE j = p
  <2>0. i \in 1..(p - 1)
    BY <1>1, <1>2, <1>5
  <2>1. i \in 1..(p - 1) /\ sorted'[i] = sorted[i]
    BY <1>2, <2>0
  <2>2. Order[t] # Bottom
    BY <1>2, <1>5
  <2>3. QED
    BY <1>2, <1>5, <2>1, <2>2 DEF IsPlace
<1>6. CASE i = p
  <2>1. j > p /\ p <= Len(sorted) /\ Order[t] # Bottom
    BY <1>1, <1>2, <1>6
  <2>2. Order[sorted[p]] > Order[t]
    BY <2>1 DEF IsPlace
  <2>3. j - 1 \in 1..Len(sorted) /\ sorted'[j] = sorted[j - 1]
    BY <1>1, <1>3, <2>1
  <2>4. sorted[p] \in Task /\ sorted[j - 1] \in Task /\ p \in 1..Len(sorted)
    BY <1>1, <2>1, <2>3
  <2>5. Order[t] \in Nat /\ Order[sorted[p]] \in Nat /\ Order[sorted[j - 1]] \in Nat
    <3>1. Order[t] \in Nat
      BY <1>1, <2>1 DEF Bottom
    <3>2. Order[sorted[p]] \in Nat
      BY <1>1, <2>2, <2>4, <3>1
    <3>3. Order[sorted[j - 1]] \in Nat
      BY <1>1, <2>3, <2>4 DEF Bottom
    <3>4. QED
      BY <3>1, <3>2, <3>3
  <2>6. Order[sorted[p]] <= Order[sorted[j - 1]]
    <3>1. CASE j - 1 = p
      BY <2>5, <3>1
    <3>2. CASE p < j - 1
      BY <2>3, <2>4, <2>5, <3>2 DEF Ordered, Bottom
    <3>3. QED
      BY <1>1, <2>1, <2>3, <3>1, <3>2
  <2>7. QED
    BY <1>2, <1>6, <2>2, <2>3, <2>5, <2>6
<1>7. QED
  BY <1>4, <1>5, <1>6

\* Erasing a node leaves the list ordered.
LEMMA ErasingKeepsOrder ==
  ASSUME TypeOK, Ordered, NEW k \in 1..Len(sorted),
         sorted' = RemoveAt(sorted, k)
  PROVE  Ordered'
<1>1. sorted \in Seq(Task) /\ Len(sorted) \in Nat
  BY DEF TypeOK
<1>2. /\ Len(sorted') = Len(sorted) - 1
      /\ \A i \in 1..(k - 1) : sorted'[i] = sorted[i]
      /\ \A i \in k..(Len(sorted) - 1) : sorted'[i] = sorted[i + 1]
  BY <1>1, Erasing
<1> SUFFICES ASSUME NEW i \in 1..Len(sorted'), NEW j \in 1..Len(sorted'), i < j,
                    Order[sorted'[i]] # Bottom, Order[sorted'[j]] # Bottom
             PROVE  Order[sorted'[i]] <= Order[sorted'[j]]
  BY DEF Ordered
<1> DEFINE old(n) == IF n < k THEN n ELSE n + 1
<1>3. ASSUME NEW n \in 1..Len(sorted')
      PROVE  old(n) \in 1..Len(sorted) /\ sorted'[n] = sorted[old(n)]
  <2>1. CASE n < k
    BY <1>1, <1>2, <2>1
  <2>2. CASE n >= k
    <3>1. n \in k..(Len(sorted) - 1) /\ n + 1 \in 1..Len(sorted)
      BY <1>1, <1>2, <2>2
    <3>2. QED
      BY <1>2, <2>2, <3>1
  <2>3. QED
    BY <1>1, <1>2, <2>1, <2>2
<1>4. old(i) < old(j)
  BY <1>1, <1>2
<1> HIDE DEF old
<1>5. /\ old(i) \in 1..Len(sorted) /\ old(j) \in 1..Len(sorted)
      /\ sorted'[i] = sorted[old(i)] /\ sorted'[j] = sorted[old(j)]
  BY <1>3
<1>6. QED
  BY <1>4, <1>5 DEF Ordered

\* Calls of the manager and of the tasks by their code.
LEMMA CodeKeepsIInv ==
  ASSUME IInv, Code PROVE IInv'
<1> USE DEF IInv
<1>1. ASSUME NEW t \in Task, NEW b \in BOOLEAN, AddTask(t, b) PROVE IInv'
  <2> USE <1>1
  <2>1. PICK p \in 1..(Len(sorted) + 1) :
          /\ IsPlace(sorted, t, p)
          /\ sorted' = InsertAt(sorted, p, t)
          /\ at' = Shift(p)
    BY DEF AddTask
  <2>2. /\ sorted \in Seq(Task) /\ Len(sorted) \in Nat /\ tasks \in Seq(Task)
        /\ sorted' \in Seq(Task) /\ Len(sorted') = Len(sorted) + 1
    BY <2>1, Inserting DEF TypeOK
  <2>0. UNCHANGED <<exiting, phase, running, dangling, erasing, undefined, raced,
                    ran>>
    BY DEF AddTask
  <2>3. /\ at' \in Nat
        /\ phase' \notin {"release", "done"} => at' >= 1
        /\ phase' \in Walks => at' <= Len(sorted') + 1
    <3>1. /\ at \in Nat /\ (phase \notin {"release", "done"} => at >= 1)
          /\ (phase \in Walks => at <= Len(sorted) + 1)
      BY DEF TypeOK
    <3>2. phase' = phase /\ (at' = at \/ (phase \in Walks /\ at' = at + 1))
      BY <2>0, <2>1 DEF Shift
    <3>3. QED
      BY ONLY <2>2, <3>1, <3>2
  <2>4. TypeOK'
    <3>1. tasks' \in Seq(Task) /\ calls' \in Seq(Task)
      BY DEF TypeOK, AddTask
    <3>2. owed' \in [Task -> Int] /\ ops' \in Nat
      BY DEF TypeOK, AddTask
    <3>3. execute' \in [Task -> BOOLEAN] /\ extract' \in [Task -> BOOLEAN]
      BY DEF TypeOK, AddTask
    <3>4. steady' \in SUBSET Task
      BY DEF TypeOK, AddTask
    <3>5. QED
      BY <2>0, <2>2, <2>3, <3>1, <3>2, <3>3, <3>4 DEF TypeOK
  <2>5. CodeInWalks'
    <3>1. running \/ phase = "start"
      BY DEF AddTask, InCode, CodeInWalks
    <3>2. running /\ ~dangling => at' <= Len(sorted')
      BY <2>1, <2>2 DEF CodeInWalks, Shift, TypeOK
    <3>3. QED
      BY <2>0, <3>1, <3>2 DEF CodeInWalks
  <2>6. ListsAgree'
    <3>1. Members(sorted') = Members(sorted) \cup {t}
      BY <2>1, <2>2, InsertingMembers
    <3>2. Members(tasks') = Members(tasks) \cup {t}
      <4>1. tasks' = Append(tasks, t)
        BY DEF AddTask
      <4>2. QED
        BY <2>2, <4>1 DEF Members
    <3>3. erasing = None /\ erasing' = None
      BY DEF AddTask, InCode, Defined
    <3>4. QED
      BY <3>1, <3>2, <3>3 DEF ListsAgree
  <2>7. Ordered'
    BY <2>1, PlaceKeepsOrder
  <2>8. PassedStays'
    BY DEF AddTask, InCode, CodeInWalks, PassedStays, Walks
  <2>9. QED
    BY <2>4, <2>5, <2>6, <2>7, <2>8
<1>2. ASSUME /\ UNCHANGED <<lists, exiting, walk, stack>> \/ UNCHANGED <<lists, walk, stack>>
             /\ InCode /\ TypeOK'
      PROVE  IInv'
  <2>1. UNCHANGED <<tasks, sorted, phase, at, running, dangling, calls, erasing>>
    BY <1>2 DEF lists, walk, stack
  <2>2. CodeInWalks' /\ ListsAgree' /\ Ordered'
    BY <2>1 DEF CodeInWalks, ListsAgree, Ordered
  <2>3. PassedStays'
    BY <1>2, <2>1 DEF PassedStays, InCode, CodeInWalks, Walks
  <2>4. QED
    BY <1>2, <2>2, <2>3
<1>3. ASSUME NEW t \in Task, NEW b \in BOOLEAN, SetExecute(t, b) PROVE IInv'
  <2>1. TypeOK'
    BY <1>3 DEF SetExecute, TypeOK, lists, walk, stack
  <2>2. QED
    BY <1>2, <1>3, <2>1 DEF SetExecute
<1>4. ASSUME NEW t \in Task, MarkForRemoval(t) PROVE IInv'
  <2>1. TypeOK'
    BY <1>4 DEF MarkForRemoval, TypeOK, lists, walk, stack
  <2>2. QED
    BY <1>2, <1>4, <2>1 DEF MarkForRemoval
<1>5. CASE Exit
  <2>1. TypeOK'
    BY <1>5 DEF Exit, TypeOK, lists, walk, stack
  <2>2. QED
    BY <1>2, <1>5, <2>1 DEF Exit
<1>6. ASSUME NEW t \in Task, RemoveTask(t) PROVE IInv'
  <2>1. UNCHANGED <<tasks, sorted, extract, phase, at, running, dangling, calls>>
    BY <1>6 DEF RemoveTask, lists, flags, walk
  <2>2. TypeOK'
    <3>1. erasing' \in Task \cup {None} /\ undefined' \in BOOLEAN
      BY <1>6 DEF RemoveTask, TypeOK
    <3>2. raced' \in SUBSET Task /\ steady' \in SUBSET Task /\ ops' \in Nat
      BY <1>6 DEF RemoveTask, NotesRemoval, TypeOK
    <3>3. UNCHANGED <<execute, exiting, owed, ran>>
      BY <1>6 DEF RemoveTask, flags
    <3>4. QED
      BY <2>1, <3>1, <3>2, <3>3 DEF TypeOK
  <2>3. CodeInWalks' /\ Ordered'
    BY <2>1 DEF CodeInWalks, Ordered
  <2>4. ListsAgree'
    BY <1>6, <2>1 DEF ListsAgree, RemoveTask, InCode, Defined
  <2>5. PassedStays'
    BY <1>6, <2>1 DEF PassedStays, RemoveTask, InCode, CodeInWalks, Walks
  <2>6. QED
    BY <2>2, <2>3, <2>4, <2>5
<1>7. QED
  BY <1>1, <1>3, <1>4, <1>5, <1>6 DEF Code

\* Erasing nodes one by one.
LEMMA EraseKeepsIInv ==
  ASSUME IInv, Erase PROVE IInv'
<1> USE DEF IInv
<1>0. /\ tasks \in Seq(Task) /\ sorted \in Seq(Task) /\ Len(sorted) \in Nat
      /\ erasing \in Task
  BY DEF Erase, EraseFromTasks, EraseFromSorted, EraseEnds, TypeOK
<1>1. CASE EraseFromTasks
  <2> USE <1>1
  <2>1. PICK i \in Nodes(tasks, erasing) : tasks' = RemoveAt(tasks, i)
    BY DEF EraseFromTasks
  <2>2. i \in 1..Len(tasks)
    BY DEF Nodes
  <2>3. UNCHANGED <<sorted, flags, walk, stack, history>>
    BY DEF EraseFromTasks
  <2>4. TypeOK'
    <3>1. tasks' \in Seq(Task)
      BY <1>0, <2>1, <2>2, Erasing
    <3>2. QED
      BY <2>3, <3>1 DEF TypeOK, flags, walk, stack, history
  <2>5. CodeInWalks' /\ Ordered'
    BY <2>3 DEF CodeInWalks, Ordered, walk, stack
  <2>6. ListsAgree'
    <3>1. Members(tasks') \ {erasing} = Members(tasks) \ {erasing}
      BY <1>0, <2>1, ErasingMembers
    <3>2. erasing' = erasing /\ sorted' = sorted /\ erasing # None
      BY <2>3 DEF stack, EraseFromTasks
    <3>3. QED
      BY <3>1, <3>2 DEF ListsAgree
  <2>7. PassedStays'
    BY <2>3 DEF PassedStays, stack, EraseFromTasks
  <2>8. QED
    BY <2>4, <2>5, <2>6, <2>7
<1>2. CASE EraseFromSorted
  <2> USE <1>2
  <2>1. PICK i \in Nodes(sorted, erasing) :
          /\ sorted' = RemoveAt(sorted, i)
          /\ at' = AfterErase(i)
          /\ dangling' = (dangling \/ (phase \in Walks /\ i = at))
    BY DEF EraseFromSorted
  <2>2. i \in 1..Len(sorted)
    BY DEF Nodes
  <2>3. UNCHANGED <<tasks, flags, phase, running, stack, history>>
    BY DEF EraseFromSorted
  <2>4. TypeOK'
    <3>1. sorted' \in Seq(Task) /\ Len(sorted') = Len(sorted) - 1
      BY <1>0, <2>1, <2>2, Erasing
    <3>2. /\ at' \in Nat
          /\ phase' \notin {"release", "done"} => at' >= 1
          /\ phase' \in Walks => at' <= Len(sorted') + 1
      BY <1>0, <2>1, <2>2, <2>3, <3>1 DEF TypeOK, AfterErase
    <3>3. dangling' \in BOOLEAN
      BY <2>1 DEF TypeOK
    <3>4. QED
      BY <2>3, <3>1, <3>2, <3>3 DEF TypeOK, flags, stack, history
  <2>5. CodeInWalks'
    <3>1. Len(sorted') = Len(sorted) - 1
      BY <1>0, <2>2, <2>1, Erasing
    <3>2. ASSUME running, ~dangling' PROVE at' <= Len(sorted')
      <4>1. phase \in Walks /\ ~dangling /\ i # at /\ at <= Len(sorted)
        BY <2>1, <3>2 DEF CodeInWalks
      <4>2. QED
        BY <1>0, <2>1, <2>2, <3>1, <4>1 DEF AfterErase, TypeOK
    <3>3. QED
      BY <2>3, <3>2 DEF CodeInWalks, stack
  <2>6. Ordered'
    BY <2>1, <2>2, ErasingKeepsOrder
  <2>7. ListsAgree'
    <3>1. Members(sorted') \ {erasing} = Members(sorted) \ {erasing}
      BY <1>0, <2>1, ErasingMembers
    <3>2. erasing' = erasing /\ tasks' = tasks /\ erasing # None
      BY <2>3 DEF stack, EraseFromSorted
    <3>3. QED
      BY <3>1, <3>2 DEF ListsAgree
  <2>8. PassedStays'
    BY <2>3 DEF PassedStays, stack, EraseFromSorted
  <2>9. QED
    BY <2>4, <2>5, <2>6, <2>7, <2>8
<1>3. CASE EraseEnds
  <2> USE <1>3
  <2>1. UNCHANGED <<tasks, sorted, extract, phase, running, dangling, calls>>
    BY DEF EraseEnds, lists, flags
  <2>2. /\ at' = AfterErasing /\ at' \in Nat
        /\ phase \notin {"release", "done"} => at' >= 1
    BY DEF EraseEnds, AfterErasing, TypeOK
  <2>3. TypeOK'
    <3>1. owed' \in [Task -> Int]
      BY DEF EraseEnds, TypeOK
    <3>2. phase' \in Walks => at' <= Len(sorted') + 1
      BY <2>1, <2>2 DEF TypeOK, AfterErasing, Walks
    <3>3. QED
      BY <2>1, <2>2, <3>1, <3>2 DEF EraseEnds, TypeOK, lists, flags
  <2>4. CodeInWalks' /\ Ordered'
    BY <2>1, <2>2 DEF CodeInWalks, Ordered, AfterErasing, Walks
  <2>5. ListsAgree'
    <3>1. erasing \notin Members(tasks) /\ erasing \notin Members(sorted)
      BY NoNodes DEF EraseEnds, ErasedEverywhere
    <3>2. Members(tasks) = Members(sorted)
      BY <3>1 DEF ListsAgree
    <3>3. QED
      BY <2>1, <3>2 DEF ListsAgree
  <2>6. PassedStays'
    <3>1. phase = "extract" => at' = 1
      BY <2>2 DEF AfterErasing
    <3>2. QED
      BY <2>1, <3>1 DEF PassedStays
  <2>7. QED
    BY <2>3, <2>4, <2>5, <2>6
<1>4. QED
  BY <1>1, <1>2, <1>3 DEF Erase

\* The frame loop.
LEMMA FrameKeepsIInv ==
  ASSUME IInv, Frame \/ Returns \/ Execute PROVE IInv'
<1> USE DEF IInv
<1>1. ASSUME UNCHANGED <<lists, extract, erasing>>, TypeOK', CodeInWalks',
             PassedStays'
      PROVE  IInv'
  <2>1. ListsAgree' /\ Ordered'
    BY <1>1 DEF ListsAgree, Ordered, lists
  <2>2. QED
    BY <1>1, <2>1
<1>0. Len(sorted) \in Nat /\ Members(sorted) \subseteq Task
  BY DEF TypeOK, Members
<1>2. CASE Execute
  <2>1. steady' \in SUBSET Task /\ ran' \in [Task -> Nat]
    BY <1>0, <1>2 DEF Execute, BeginFrame
  <2>2. at' = 1 /\ phase' = "update" /\ exiting' = FALSE
    BY <1>2 DEF Execute, BeginFrame
  <2>3. UNCHANGED <<lists, execute, extract, running, dangling, stack, ops, owed,
                    raced>>
    BY <1>2 DEF Execute
  <2>4. TypeOK'
    <3>1. sorted' = sorted
      BY <2>3 DEF lists
    <3>2. at' \in Nat /\ at' >= 1 /\ at' <= Len(sorted') + 1
      BY <1>0, <2>2, <3>1
    <3>3. phase' = "update" /\ exiting' \in BOOLEAN
      BY <2>2
    <3>4. QED
      BY <2>1, <2>3, <3>2, <3>3 DEF TypeOK, lists, stack
  <2>5. CodeInWalks' /\ PassedStays'
    BY <1>2, <2>2, <2>3 DEF Execute, InLoop, CodeInWalks, PassedStays, lists,
       stack, Walks
  <2>6. QED
    BY <1>1, <2>3, <2>4, <2>5 DEF stack
<1>3. CASE RunTask
  <2>1. sorted[at] \in Task
    BY <1>3 DEF RunTask, TypeOK, Walks
  <2>2. ran' \in [Task -> Nat]
    <3>1. ran \in [Task -> Nat]
      BY DEF TypeOK
    <3>2. [ran EXCEPT ![sorted[at]] = @ + 1] \in [Task -> Nat]
      BY <2>1, <3>1
    <3>3. QED
      BY <1>3, <3>1, <3>2 DEF RunTask
  <2>3. TypeOK'
    BY <1>3, <2>2 DEF RunTask, TypeOK, lists, flags, stack
  <2>4. CodeInWalks' /\ PassedStays'
    BY <1>3 DEF RunTask, InLoop, CodeInWalks, PassedStays, Walks, lists, flags, stack
  <2>5. QED
    BY <1>1, <1>3, <2>3, <2>4 DEF RunTask, flags, stack
<1>4. CASE SkipTask
  <2>1. TypeOK'
    BY <1>4 DEF SkipTask, TypeOK, lists, flags, stack, history
  <2>2. CodeInWalks' /\ PassedStays'
    BY <1>4 DEF SkipTask, InLoop, CodeInWalks, PassedStays, Walks, lists, flags, stack
  <2>3. QED
    BY <1>1, <1>4, <2>1, <2>2 DEF SkipTask, flags, stack
<1>5. CASE EndUpdates
  <2>1. TypeOK'
    BY <1>5 DEF EndUpdates, TypeOK, lists, flags, stack, Walks
  <2>2. CodeInWalks' /\ PassedStays'
    BY <1>5 DEF EndUpdates, InLoop, CodeInWalks, PassedStays, Walks, lists, flags, stack
  <2>3. QED
    BY <1>1, <1>5, <2>1, <2>2 DEF EndUpdates, flags, stack
<1>6. CASE EndRenders
  <2>1. TypeOK'
    BY <1>6 DEF EndRenders, TypeOK, lists, flags, stack, history, Walks
  <2>2. CodeInWalks' /\ PassedStays'
    BY <1>6 DEF EndRenders, InLoop, CodeInWalks, PassedStays, Walks, lists, flags, stack
  <2>3. QED
    BY <1>1, <1>6, <2>1, <2>2 DEF EndRenders, flags, stack
<1>7. CASE ExtractTask
  <2>1. tasks[at] \in Task
    BY <1>7 DEF ExtractTask, TypeOK
  <2>2. /\ erasing' \in Task \cup {None} /\ undefined' \in BOOLEAN
        /\ raced' \in SUBSET Task /\ steady' \in SUBSET Task
        /\ erasing' # None \/ erasing' = erasing
    BY <1>7, <2>1, NoneAssumption DEF ExtractTask, NotesRemoval, TypeOK
  <2>3. UNCHANGED <<lists, flags, walk, calls, ops, owed, ran>>
    BY <1>7 DEF ExtractTask
  <2>4. TypeOK'
    BY <2>2, <2>3 DEF TypeOK, lists, flags, walk
  <2>5. CodeInWalks' /\ Ordered'
    BY <2>3 DEF CodeInWalks, Ordered, lists, walk
  <2>6. ListsAgree'
    BY <1>7, <2>2, <2>3 DEF ListsAgree, ExtractTask, InLoop, Defined, lists
  <2>7. PassedStays'
    BY <2>2, <2>3 DEF PassedStays, lists, flags, walk
  <2>8. QED
    BY <2>4, <2>5, <2>6, <2>7
<1>8. CASE KeepTask
  <2>1. TypeOK'
    BY <1>8 DEF KeepTask, TypeOK, lists, flags, stack, history, Walks
  <2>2. CodeInWalks'
    BY <1>8 DEF KeepTask, InLoop, CodeInWalks, Walks, lists, flags, stack
  <2>3. PassedStays'
    BY <1>8 DEF KeepTask, InLoop, Defined, PassedStays, lists, flags, stack, TypeOK
  <2>4. QED
    BY <1>1, <1>8, <2>1, <2>2, <2>3 DEF KeepTask, flags, stack
<1>9. CASE EndFrame
  <2>0. steady' \in SUBSET Task /\ ran' \in [Task -> Nat]
    BY <1>0, <1>9 DEF EndFrame, BeginFrame, TypeOK
  <2>1. TypeOK'
    BY <1>0, <1>9, <2>0 DEF EndFrame, BeginFrame, TypeOK, lists, flags, stack, Walks
  <2>2. CodeInWalks' /\ PassedStays'
    BY <1>9 DEF EndFrame, BeginFrame, InLoop, CodeInWalks, PassedStays, Walks, lists, flags, stack
  <2>3. QED
    BY <1>1, <1>9, <2>1, <2>2 DEF EndFrame, flags, stack
<1>10. CASE Release
  <2>1. owed' \in [Task -> Int]
    BY <1>10 DEF Release, TypeOK
  <2>2. TypeOK'
    BY <1>10, <2>1 DEF Release, TypeOK, lists, flags, stack, Walks
  <2>3. CodeInWalks' /\ PassedStays'
    BY <1>10 DEF Release, InLoop, CodeInWalks, PassedStays, Walks, lists, flags, stack
  <2>4. QED
    BY <1>1, <1>10, <2>2, <2>3 DEF Release, flags, stack
<1>11. CASE InitReturns
  <2>1. calls' \in Seq(Task)
    BY <1>11 DEF InitReturns, TypeOK
  <2>2. TypeOK'
    BY <1>11, <2>1 DEF InitReturns, TypeOK, lists, flags, walk, history
  <2>3. CodeInWalks' /\ PassedStays'
    BY <1>11 DEF InitReturns, Defined, CodeInWalks, PassedStays, lists, flags, walk
  <2>4. QED
    BY <1>1, <1>11, <2>2, <2>3 DEF InitReturns, flags
<1>12. CASE TaskReturns
  <2>1. TypeOK'
    <3>1. running' = FALSE /\ undefined' \in BOOLEAN
      BY <1>12 DEF TaskReturns, TypeOK
    <3>2. /\ at' \in Nat
          /\ phase' \notin {"release", "done"} => at' >= 1
          /\ phase' \in Walks => at' <= Len(sorted') + 1
      BY <1>0, <1>12 DEF TaskReturns, TypeOK, CodeInWalks, lists
    <3>3. QED
      BY <1>12, <3>1, <3>2 DEF TaskReturns, TypeOK, lists, flags, history
  <2>2. CodeInWalks' /\ PassedStays'
    BY <1>12 DEF TaskReturns, Defined, CodeInWalks, PassedStays, lists, flags, Walks
  <2>3. QED
    BY <1>1, <1>12, <2>1, <2>2 DEF TaskReturns, flags
<1>13. QED
  BY <1>2, <1>3, <1>4, <1>5, <1>6, <1>7, <1>8, <1>9, <1>10, <1>11, <1>12
     DEF Frame, Returns

\* Nothing changes when nothing happens.
LEMMA StutterKeepsIInv ==
  ASSUME IInv, UNCHANGED vars PROVE IInv'
<1>1. TypeOK'
  BY DEF IInv, TypeOK, vars, lists, flags, walk, stack, history
<1>2. CodeInWalks' /\ ListsAgree' /\ Ordered' /\ PassedStays'
  BY DEF IInv, CodeInWalks, ListsAgree, Ordered, PassedStays, vars, lists, flags,
         walk, stack
<1>3. QED
  BY <1>1, <1>2 DEF IInv

LEMMA IInvAlways == Spec => []IInv
<1>1. IInv /\ [Next]_vars => IInv'
  BY CodeKeepsIInv, EraseKeepsIInv, FrameKeepsIInv, StutterKeepsIInv DEF Next
<1>2. QED
  BY InitIInv, <1>1, PTL DEF Spec

-----------------------------------------------------------------------------
(* Counting nodes: the second invariant.                                   *)

LEMMA FiniteNodes ==
  ASSUME NEW s \in Seq(Task), NEW t, NEW A \in SUBSET Nodes(s, t)
  PROVE  IsFiniteSet(A) /\ Cardinality(A) \in Nat
<1>1. Len(s) \in Nat /\ A \in SUBSET (1..Len(s))
  BY DEF Nodes
<1>2. IsFiniteSet(1..Len(s))
  BY <1>1, FS_Interval
<1> QED
  BY <1>1, <1>2, FS_Subset, FS_CardinalityType

\* A set has as many elements as what a one-to-one map makes of it.
LEMMA SameCount ==
  ASSUME NEW A, IsFiniteSet(A), NEW B, NEW f \in [A -> B],
         \A i, j \in A : f[i] = f[j] => i = j,
         \A j \in B : \E i \in A : f[i] = j
  PROVE  Cardinality(B) = Cardinality(A)
<1>1. f \in Bijection(A, B)
  BY DEF Bijection, Injection, Surjection, IsInjective
<1> QED
  BY <1>1, FS_Bijection DEF ExistsBijection

\* Inserting a node of one task moves the nodes of another.
LEMMA InsertingCount ==
  ASSUME NEW s \in Seq(Task), NEW u \in Task, NEW t, t # u, NEW p \in 1..(Len(s) + 1),
         NEW A \in SUBSET Nodes(s, t), NEW B \in SUBSET Nodes(InsertAt(s, p, u), t),
         \A i \in Nodes(s, t) : i \in A <=> (IF i < p THEN i ELSE i + 1) \in B
  PROVE  Cardinality(B) = Cardinality(A)
<1> DEFINE r == InsertAt(s, p, u)
           f == [i \in A |-> IF i < p THEN i ELSE i + 1]
<1>1. /\ r \in Seq(Task) /\ Len(r) = Len(s) + 1 /\ Len(s) \in Nat
      /\ \A i \in 1..(p - 1) : r[i] = s[i]
      /\ r[p] = u
      /\ \A i \in p..Len(s) : r[i + 1] = s[i]
  BY Inserting
<1> HIDE DEF r
<1>2. A \subseteq 1..Len(s) /\ B \subseteq 1..Len(r) /\ \A j \in B : r[j] = t
  BY DEF Nodes, r
<1>3. f \in [A -> B] /\ \A i, j \in A : f[i] = f[j] => i = j
  BY <1>1, <1>2
<1>4. ASSUME NEW j \in B PROVE \E i \in A : f[i] = j
  <2>1. j # p /\ j \in 1..(Len(s) + 1)
    BY <1>1, <1>2
  <2>2. CASE j < p
    <3>1. j \in Nodes(s, t)
      BY <1>1, <1>2, <2>1, <2>2 DEF Nodes
    <3>2. j \in A
      BY <2>2, <3>1
    <3> QED
      BY <2>2, <3>2
  <2>3. CASE j > p
    <3>1. j - 1 \in p..Len(s) /\ (j - 1) + 1 = j /\ j - 1 \in 1..Len(s) /\ ~(j - 1 < p)
      BY <1>1, <2>1, <2>3
    <3>2. s[j - 1] = t
      BY <1>1, <1>2, <3>1
    <3>3. j - 1 \in Nodes(s, t)
      BY <3>1, <3>2 DEF Nodes
    <3>4. j - 1 \in A
      BY <3>1, <3>3
    <3> QED
      BY <3>1, <3>4
  <2> QED
    BY <2>1, <2>2, <2>3
<1>5. IsFiniteSet(A)
  BY FiniteNodes
<1> QED
  BY <1>3, <1>4, <1>5, SameCount

\* Erasing a node of one task moves the nodes of another.
LEMMA ErasingCount ==
  ASSUME NEW s \in Seq(Task), NEW t, NEW k \in 1..Len(s), s[k] # t,
         NEW A \in SUBSET Nodes(s, t), NEW B \in SUBSET Nodes(RemoveAt(s, k), t),
         \A i \in Nodes(s, t) : i \in A <=> (IF i < k THEN i ELSE i - 1) \in B
  PROVE  Cardinality(B) = Cardinality(A)
<1> DEFINE r == RemoveAt(s, k)
           f == [i \in A |-> IF i < k THEN i ELSE i - 1]
<1>1. /\ r \in Seq(Task) /\ Len(r) = Len(s) - 1 /\ Len(s) \in Nat
      /\ \A i \in 1..(k - 1) : r[i] = s[i]
      /\ \A i \in k..(Len(s) - 1) : r[i] = s[i + 1]
  BY Erasing
<1> HIDE DEF r
<1>2. /\ A \subseteq 1..Len(s) /\ B \subseteq 1..Len(r) /\ \A j \in B : r[j] = t
      /\ \A i \in A : i # k
  BY DEF Nodes, r
<1>3. f \in [A -> B] /\ \A i, j \in A : f[i] = f[j] => i = j
  BY <1>1, <1>2
<1>4. ASSUME NEW j \in B PROVE \E i \in A : f[i] = j
  <2>1. j \in 1..(Len(s) - 1)
    BY <1>1, <1>2
  <2>2. CASE j < k
    <3>0. j \in 1..(k - 1) /\ j \in 1..Len(s)
      BY <1>1, <2>1, <2>2
    <3>1. j \in Nodes(s, t)
      BY <1>1, <1>2, <3>0 DEF Nodes
    <3>2. j \in A
      BY <2>2, <3>1
    <3> QED
      BY <2>2, <3>2
  <2>3. CASE j >= k
    <3>1. j \in k..(Len(s) - 1) /\ (j + 1) - 1 = j /\ j + 1 \in 1..Len(s) /\ ~(j + 1 < k)
      BY <1>1, <2>1, <2>3
    <3>2. s[j + 1] = t
      BY <1>1, <1>2, <3>1
    <3>3. j + 1 \in Nodes(s, t)
      BY <3>1, <3>2 DEF Nodes
    <3>4. j + 1 \in A
      BY <3>1, <3>3
    <3> QED
      BY <3>1, <3>4
  <2> QED
    BY <2>1, <2>2, <2>3
<1>5. IsFiniteSet(A)
  BY FiniteNodes
<1> QED
  BY <1>3, <1>4, <1>5, SameCount

\* What code does that leaves the lists, the walk and the removals alone.
LEMMA LeavingKeepsCounts ==
  ASSUME IInv, Counted, steady' \subseteq steady,
         phase = "update" => \A t \in steady' : execute'[t],
         UNCHANGED <<tasks, sorted, phase, at, running, dangling, erasing, undefined,
                     owed, raced, ran>>
  PROVE  Counted'
<1>1. InWalks'
  BY DEF Counted, InWalks
<1>2. RanAsPassed'
  BY DEF Counted, RanAsPassed, Behind, Nodes
<1>3. Balanced' /\ RemovedOnce' /\ Releasing'
  BY DEF Counted, Balanced, RemovedOnce, Releasing, Nodes
<1> QED
  BY <1>1, <1>2, <1>3 DEF Counted

\* Code of main or of a task never runs while execute releases the tasks.
LEMMA CodeBeforeRelease ==
  ASSUME IInv, InCode
  PROVE  /\ phase \notin {"release", "done"} /\ erasing = None /\ ~undefined
         /\ phase = "update" => running
         /\ phase \in Walks => running
BY DEF IInv, InCode, Defined, CodeInWalks, Walks

\* add: the new node is behind the iterator, or moves it.
LEMMA AddKeepsCounts ==
  ASSUME IInv, Counted, NEW u \in Task, NEW b \in BOOLEAN, AddTask(u, b)
  PROVE  Counted'
<1>1. PICK p \in 1..(Len(sorted) + 1) :
        sorted' = InsertAt(sorted, p, u) /\ at' = Shift(p)
  BY DEF AddTask
<1>2. /\ tasks \in Seq(Task) /\ sorted \in Seq(Task) /\ at \in Nat
      /\ Len(tasks) \in Nat /\ Len(sorted) \in Nat /\ steady \subseteq Task
      /\ owed \in [Task -> Int] /\ None \notin Task
  BY NoneAssumption DEF IInv, TypeOK
<1>3. /\ phase \notin {"release", "done"} /\ erasing = None /\ ~undefined
      /\ phase \in Walks => running
  BY CodeBeforeRelease DEF AddTask
<1>4. /\ tasks' = Append(tasks, u) /\ steady' = steady \ {u}
      /\ execute' = [execute EXCEPT ![u] = b] /\ owed' = [owed EXCEPT ![u] = @ + 1]
      /\ UNCHANGED <<phase, running, dangling, erasing, undefined, raced, ran>>
  BY DEF AddTask
<1>5. InWalks' /\ RemovedOnce' /\ Releasing'
  BY <1>2, <1>3, <1>4 DEF Counted, InWalks, RemovedOnce, Releasing
<1>6. RanAsPassed'
  <2> SUFFICES ASSUME phase = "update", NEW t \in steady, t # u
               PROVE  execute'[t] /\ ran'[t] = Cardinality(Behind(t)')
    BY <1>4 DEF RanAsPassed, Behind
  <2>1. execute'[t] /\ ran[t] = Cardinality(Behind(t))
    BY <1>2, <1>4 DEF Counted, RanAsPassed, IInv, TypeOK
  <2> DEFINE B == {i \in Nodes(sorted', t) : i < at' \/ (i = at' /\ running /\ ~dangling)}
  <2>2. at' = IF p <= at THEN at + 1 ELSE at
    BY <1>1 DEF Shift, Walks
  <2>0. /\ Len(sorted') = Len(sorted) + 1
        /\ \A j \in 1..(p - 1) : sorted'[j] = sorted[j]
        /\ \A j \in p..Len(sorted) : sorted'[j + 1] = sorted[j]
    <3>1. /\ Len(InsertAt(sorted, p, u)) = Len(sorted) + 1
          /\ \A j \in 1..(p - 1) : InsertAt(sorted, p, u)[j] = sorted[j]
          /\ \A j \in p..Len(sorted) : InsertAt(sorted, p, u)[j + 1] = sorted[j]
      <4>1. sorted \in Seq(Task) /\ u \in Task /\ p \in 1..(Len(sorted) + 1)
        BY <1>1, <1>2
      <4> QED
        BY ONLY <4>1, Inserting
    <3> QED
      BY ONLY <1>1, <3>1
  <2>3. ASSUME NEW i \in Nodes(sorted, t)
        PROVE  i \in Behind(t) <=> (IF i < p THEN i ELSE i + 1) \in B
    <3>1. i \in 1..Len(sorted) /\ sorted[i] = t
      BY DEF Nodes
    <3>2. /\ Len(sorted') = Len(sorted) + 1
          /\ \A j \in 1..(p - 1) : sorted'[j] = sorted[j]
          /\ \A j \in p..Len(sorted) : sorted'[j + 1] = sorted[j]
      BY <2>0
    <3>3. (IF i < p THEN i ELSE i + 1) \in Nodes(sorted', t)
      <4>1. CASE i < p
        <5>1. i \in 1..(p - 1) /\ i \in 1..Len(sorted')
          BY <1>2, <3>1, <3>2, <4>1
        <5> QED
          BY <3>1, <3>2, <4>1, <5>1 DEF Nodes
      <4>2. CASE ~(i < p)
        <5>1. i \in p..Len(sorted) /\ i + 1 \in 1..Len(sorted')
          BY <1>2, <3>1, <3>2, <4>2
        <5> QED
          BY <3>1, <3>2, <4>2, <5>1 DEF Nodes
      <4> QED
        BY <4>1, <4>2
    <3> QED
      BY <1>2, <2>2, <3>1, <3>3 DEF Behind
  <2>4. Behind(t) \in SUBSET Nodes(sorted, t) /\ B \in SUBSET Nodes(InsertAt(sorted, p, u), t)
    BY <1>1 DEF Behind
  <2>5. Cardinality(B) = Cardinality(Behind(t))
    <3>1. t # u /\ u \in Task /\ sorted \in Seq(Task) /\ p \in 1..(Len(sorted) + 1)
      BY <1>1, <1>2
    <3> HIDE DEF B
    <3>2. \A i \in Nodes(sorted, t) : i \in Behind(t) <=> (IF i < p THEN i ELSE i + 1) \in B
      BY <2>3
    <3> QED
      BY ONLY <2>4, <3>1, <3>2, InsertingCount
  <2>6. Behind(t)' = B
    BY <1>4 DEF Behind, Nodes
  <2> QED
    BY <1>4, <2>1, <2>5, <2>6
<1>7. Balanced'
  <2> SUFFICES ASSUME NEW t \in Task, t \notin raced
               PROVE  owed'[t] = Cardinality(Nodes(tasks', t))
    BY <1>3, <1>4 DEF Balanced, Nodes
  <2>1. owed[t] = Cardinality(Nodes(tasks, t))
    <3>1. {i \in Nodes(tasks, t) : phase \in {"release", "done"} => i <= at} = Nodes(tasks, t)
      BY <1>3
    <3> QED
      BY <1>2, <1>3, <3>1 DEF Counted, Balanced
  <2>2. /\ Len(tasks') = Len(tasks) + 1 /\ tasks'[Len(tasks) + 1] = u
        /\ \A i \in 1..Len(tasks) : tasks'[i] = tasks[i]
    BY <1>2, <1>4
  <2>3. CASE t = u
    <3>1. Nodes(tasks', t) = Nodes(tasks, t) \cup {Len(tasks) + 1}
      BY <1>2, <2>2, <2>3 DEF Nodes
    <3>2. Len(tasks) + 1 \notin Nodes(tasks, t)
      BY <1>2 DEF Nodes
    <3>4. IsFiniteSet(Nodes(tasks, t)) /\ Cardinality(Nodes(tasks, t)) \in Nat
      BY <1>2, FiniteNodes
    <3>3. Cardinality(Nodes(tasks', t)) = Cardinality(Nodes(tasks, t)) + 1
      BY <3>1, <3>2, <3>4, FS_AddElement
    <3> QED
      BY <1>2, <1>4, <2>1, <2>3, <3>3
  <2>4. CASE t # u
    <3>1. Nodes(tasks', t) = Nodes(tasks, t)
      BY <1>2, <2>2, <2>4 DEF Nodes
    <3> QED
      BY <1>2, <1>4, <2>1, <2>4, <3>1
  <2> QED
    BY <2>3, <2>4
<1> QED
  BY <1>5, <1>6, <1>7 DEF Counted

\* remove is called.
LEMMA RemovalKeepsCounts ==
  ASSUME IInv, Counted, NEW t \in Task, NotesRemoval(t),
         phase \notin {"release", "done"}, erasing = None, ~undefined,
         phase \in Walks => running,
         \/ undefined' = TRUE /\ UNCHANGED erasing
         \/ erasing' = t /\ UNCHANGED undefined,
         UNCHANGED <<lists, flags, walk, owed, ran>>
  PROVE  Counted'
<1>1. UNCHANGED <<tasks, sorted, execute, phase, at, running, dangling, owed, ran>>
  BY DEF lists, flags, walk
<1>2. steady' = steady \ {t} /\ None \notin Task /\ steady \subseteq Task
  BY NoneAssumption DEF NotesRemoval, IInv, TypeOK
<1>3. InWalks' /\ Releasing'
  BY <1>1, <1>2 DEF Counted, InWalks, Releasing
<1>4. RanAsPassed'
  BY <1>1, <1>2 DEF Counted, RanAsPassed, Behind, Nodes
<1>5. raced \subseteq raced'
  BY DEF NotesRemoval
<1>6. Balanced'
  <2> SUFFICES ASSUME ~undefined', NEW u \in Task \ (raced' \cup {erasing'})
               PROVE  owed'[u] = Cardinality({i \in Nodes(tasks', u) :
                                     phase' \in {"release", "done"} => i <= at'})
    BY DEF Balanced, Nodes
  <2>1. u \in Task \ (raced \cup {erasing})
    BY <1>2, <1>5
  <2> QED
    BY <1>1, <2>1 DEF Counted, Balanced
<1>7. RemovedOnce'
  <2> SUFFICES ASSUME ~undefined', t \notin raced'
               PROVE  owed[t] = 1
    BY <1>1 DEF RemovedOnce
  <2>1. Cardinality(Nodes(tasks, t)) = 1 /\ t \notin raced
    BY <1>5 DEF NotesRemoval
  <2>2. {i \in Nodes(tasks, t) : phase \in {"release", "done"} => i <= at} = Nodes(tasks, t)
    OBVIOUS
  <2> QED
    BY <1>2, <2>1, <2>2 DEF Counted, Balanced
<1> QED
  BY <1>3, <1>4, <1>6, <1>7 DEF Counted

LEMMA CodeKeepsCounts ==
  ASSUME IInv, Counted, Code
  PROVE  Counted'
<1>1. /\ phase = "update" => \A t \in steady : execute[t]
      /\ execute \in [Task -> BOOLEAN] /\ steady \subseteq Task
  BY DEF Counted, RanAsPassed, IInv, TypeOK
<1>2. ASSUME NEW t \in Task, NEW b \in BOOLEAN, AddTask(t, b) PROVE Counted'
  BY <1>2, AddKeepsCounts
<1>3. ASSUME NEW t \in Task, NEW b \in BOOLEAN, SetExecute(t, b) PROVE Counted'
  <2>1. /\ execute' = [execute EXCEPT ![t] = b]
        /\ steady' = IF b THEN steady ELSE steady \ {t}
        /\ UNCHANGED <<tasks, sorted, phase, at, running, dangling, erasing, undefined,
                       owed, raced, ran>>
    BY <1>3 DEF SetExecute, lists, walk, stack
  <2>2. steady' \subseteq steady /\ (phase = "update" => \A u \in steady' : execute'[u])
    BY <1>1, <2>1
  <2> QED
    BY <2>1, <2>2, LeavingKeepsCounts
<1>4. ASSUME NEW t \in Task, MarkForRemoval(t) PROVE Counted'
  <2>1. /\ execute' = [execute EXCEPT ![t] = FALSE] /\ steady' = steady \ {t}
        /\ UNCHANGED <<tasks, sorted, phase, at, running, dangling, erasing, undefined,
                       owed, raced, ran>>
    BY <1>4 DEF MarkForRemoval, lists, walk, stack
  <2>2. steady' \subseteq steady /\ (phase = "update" => \A u \in steady' : execute'[u])
    BY <1>1, <2>1
  <2> QED
    BY <2>1, <2>2, LeavingKeepsCounts
<1>5. CASE Exit
  <2>1. UNCHANGED <<tasks, sorted, phase, at, running, dangling, erasing, undefined,
                    owed, raced, ran, execute, steady>>
    BY <1>5 DEF Exit, lists, walk, stack
  <2> QED
    BY <1>1, <2>1, LeavingKeepsCounts
<1>6. ASSUME NEW t \in Task, RemoveTask(t) PROVE Counted'
  <2>1. /\ NotesRemoval(t) /\ UNCHANGED <<lists, flags, walk, owed, ran>>
        /\ \/ undefined' = TRUE /\ UNCHANGED erasing
           \/ erasing' = t /\ UNCHANGED undefined
    BY <1>6 DEF RemoveTask
  <2>2. /\ phase \notin {"release", "done"} /\ erasing = None /\ ~undefined
        /\ phase \in Walks => running
    BY <1>6, CodeBeforeRelease DEF RemoveTask
  <2> QED
    BY <2>1, <2>2, RemovalKeepsCounts
<1> QED
  BY <1>2, <1>3, <1>4, <1>5, <1>6 DEF Code

\* The nodes of other tasks move when one is erased from m_Tasks ...
LEMMA EraseFromTasksKeepsCounts ==
  ASSUME IInv, Counted, EraseFromTasks
  PROVE  Counted'
<1>1. PICK k \in Nodes(tasks, erasing) : tasks' = RemoveAt(tasks, k)
  BY DEF EraseFromTasks
<1>2. /\ k \in 1..Len(tasks) /\ tasks[k] = erasing
      /\ tasks \in Seq(Task) /\ Len(tasks) \in Nat /\ erasing # None /\ ~undefined
  BY <1>1 DEF Nodes, EraseFromTasks, IInv, TypeOK
<1>3. UNCHANGED <<sorted, execute, phase, at, running, dangling, erasing, undefined,
                  owed, raced, steady, ran>>
  BY DEF EraseFromTasks, flags, walk, stack, history
<1>4. InWalks' /\ RemovedOnce'
  BY <1>3 DEF Counted, InWalks, RemovedOnce
<1>5. phase \notin {"release", "done"} /\ Releasing'
  BY <1>2, <1>3 DEF Counted, Releasing
<1>6. RanAsPassed'
  BY <1>3 DEF Counted, RanAsPassed, Behind, Nodes
<1>7. Balanced'
  <2> SUFFICES ASSUME NEW t \in Task \ (raced \cup {erasing})
               PROVE  owed[t] = Cardinality(Nodes(tasks', t))
    BY <1>3, <1>5 DEF Balanced, Nodes
  <2>1. {i \in Nodes(tasks, t) : phase \in {"release", "done"} => i <= at} = Nodes(tasks, t)
    BY <1>5
  <2>2. owed[t] = Cardinality(Nodes(tasks, t))
    BY <1>2, <2>1 DEF Counted, Balanced
  <2>3. /\ tasks' \in Seq(Task) /\ Len(tasks') = Len(tasks) - 1
        /\ \A i \in 1..(k - 1) : tasks'[i] = tasks[i]
        /\ \A i \in k..(Len(tasks) - 1) : tasks'[i] = tasks[i + 1]
    BY <1>1, <1>2, Erasing
  <2>4. ASSUME NEW i \in Nodes(tasks, t)
        PROVE  (IF i < k THEN i ELSE i - 1) \in Nodes(tasks', t)
    <3>1. i \in 1..Len(tasks) /\ tasks[i] = t /\ i # k
      BY <1>2 DEF Nodes
    <3>2. CASE i < k
      BY <1>2, <2>3, <3>1, <3>2 DEF Nodes
    <3>3. CASE ~(i < k)
      <4>1. i - 1 \in k..(Len(tasks) - 1) /\ (i - 1) + 1 = i /\ i - 1 \in 1..Len(tasks')
        BY <1>2, <2>3, <3>1, <3>3
      <4> QED
        BY <2>3, <3>1, <3>3, <4>1 DEF Nodes
    <3> QED
      BY <3>2, <3>3
  <2>5. Cardinality(Nodes(tasks', t)) = Cardinality(Nodes(tasks, t))
    BY <1>1, <1>2, <2>4, ErasingCount
  <2> QED
    BY <2>2, <2>5
<1> QED
  BY <1>4, <1>5, <1>6, <1>7 DEF Counted

\* ... and from m_OrderSortedTasks, where the iterator stays on its node.
LEMMA EraseFromSortedKeepsCounts ==
  ASSUME IInv, Counted, EraseFromSorted
  PROVE  Counted'
<1>1. PICK k \in Nodes(sorted, erasing) :
        /\ sorted' = RemoveAt(sorted, k)
        /\ at' = AfterErase(k)
        /\ dangling' = (dangling \/ (phase \in Walks /\ k = at))
  BY DEF EraseFromSorted
<1>2. /\ k \in 1..Len(sorted) /\ sorted[k] = erasing /\ at \in Nat
      /\ sorted \in Seq(Task) /\ Len(sorted) \in Nat /\ erasing # None /\ ~undefined
  BY <1>1 DEF Nodes, EraseFromSorted, IInv, TypeOK
<1>3. UNCHANGED <<tasks, execute, phase, running, erasing, undefined, owed, raced,
                  steady, ran>>
  BY DEF EraseFromSorted, flags, stack, history
<1>4. phase \notin {"release", "done"} /\ Releasing'
  BY <1>2, <1>3 DEF Counted, Releasing
<1>5. InWalks'
  BY <1>1, <1>2, <1>3 DEF Counted, InWalks
<1>6. RemovedOnce'
  BY <1>3 DEF Counted, RemovedOnce
<1>7. Balanced'
  <2> SUFFICES ASSUME NEW t \in Task \ (raced \cup {erasing})
               PROVE  owed[t] = Cardinality(Nodes(tasks, t))
    BY <1>3, <1>4 DEF Balanced, Nodes
  <2>1. {i \in Nodes(tasks, t) : phase \in {"release", "done"} => i <= at} = Nodes(tasks, t)
    BY <1>4
  <2> QED
    BY <1>2, <2>1 DEF Counted, Balanced
<1>8. RanAsPassed'
  <2> DEFINE B(t) == {i \in Nodes(sorted', t) : i < at' \/ (i = at' /\ running /\ ~dangling')}
  <2> SUFFICES ASSUME phase = "update", NEW t \in steady
               PROVE  execute[t] /\ ran[t] = Cardinality(B(t))
    BY <1>3 DEF RanAsPassed, Behind, Nodes
  <2>1. execute[t] /\ ran[t] = Cardinality(Behind(t)) /\ t # erasing
    BY DEF Counted, RanAsPassed, InWalks
  <2>2. /\ at' = IF k < at THEN at - 1 ELSE at
        /\ dangling \in BOOLEAN /\ (dangling' <=> dangling \/ k = at)
    BY <1>1 DEF AfterErase, Walks, IInv, TypeOK
  <2>3. /\ sorted' \in Seq(Task) /\ Len(sorted') = Len(sorted) - 1
        /\ \A i \in 1..(k - 1) : sorted'[i] = sorted[i]
        /\ \A i \in k..(Len(sorted) - 1) : sorted'[i] = sorted[i + 1]
    BY <1>1, <1>2, Erasing
  <2>4. ASSUME NEW i \in Nodes(sorted, t)
        PROVE  i \in Behind(t) <=> (IF i < k THEN i ELSE i - 1) \in B(t)
    <3>1. i \in 1..Len(sorted) /\ sorted[i] = t /\ i # k
      BY <1>2, <2>1 DEF Nodes
    <3>2. CASE i < k
      <4>1. i \in Nodes(sorted', t)
        BY <1>2, <2>3, <3>1, <3>2 DEF Nodes
      <4>2. i \in Behind(t) <=> i < at \/ (i = at /\ running /\ ~dangling)
        BY DEF Behind
      <4>3. i \in B(t) <=> i < at' \/ (i = at' /\ running /\ ~dangling')
        BY <4>1
      <4>4. k \in Nat /\ i \in Nat /\ at \in Nat
        BY <1>2, <3>1
      <4>5. i < at' <=> i < at
        BY ONLY <2>2, <3>2, <4>4
      <4>6. (i = at' /\ ~dangling') <=> (i = at /\ ~dangling)
        BY ONLY <2>2, <3>2, <4>4
      <4> QED
        BY <3>2, <4>2, <4>3, <4>5, <4>6
    <3>3. CASE ~(i < k)
      <4>1. i - 1 \in k..(Len(sorted) - 1) /\ (i - 1) + 1 = i /\ i - 1 \in 1..Len(sorted')
        BY <1>2, <2>3, <3>1, <3>3
      <4>2. i - 1 \in Nodes(sorted', t)
        BY <2>3, <3>1, <4>1 DEF Nodes
      <4>3. i \in Behind(t) <=> i < at \/ (i = at /\ running /\ ~dangling)
        BY DEF Behind
      <4>4. i - 1 \in B(t) <=> i - 1 < at' \/ (i - 1 = at' /\ running /\ ~dangling')
        BY <4>2
      <4>5. k \in Nat /\ i \in Nat /\ at \in Nat /\ k < i
        BY <1>2, <3>1, <3>3
      <4>6. i - 1 < at' <=> i < at
        BY ONLY <2>2, <4>5
      <4>7. (i - 1 = at' /\ ~dangling') <=> (i = at /\ ~dangling)
        BY ONLY <2>2, <4>5
      <4> QED
        BY <3>3, <4>3, <4>4, <4>6, <4>7
    <3> QED
      BY <3>2, <3>3
  <2>5. /\ Behind(t) \in SUBSET Nodes(sorted, t)
        /\ B(t) \in SUBSET Nodes(RemoveAt(sorted, k), t) /\ sorted[k] # t
    BY <1>1, <1>2, <2>1 DEF Behind
  <2> HIDE DEF B
  <2>6. Cardinality(B(t)) = Cardinality(Behind(t))
    BY <1>2, <2>4, <2>5, ErasingCount
  <2> QED
    BY <2>1, <2>6
<1> QED
  BY <1>4, <1>5, <1>6, <1>7, <1>8 DEF Counted

\* remove returns: its task has no node left, and owes nothing if it had one.
LEMMA EraseEndsKeepsCounts ==
  ASSUME IInv, Counted, EraseEnds
  PROVE  Counted'
<1>1. /\ erasing \in Task /\ erasing # None /\ ~undefined /\ erasing' = None
      /\ Nodes(tasks, erasing) = {} /\ at' = AfterErasing
      /\ owed' = [owed EXCEPT ![erasing] = @ - 1] /\ owed \in [Task -> Int]
      /\ None \notin Task /\ steady \subseteq Task
  BY NoneAssumption DEF EraseEnds, ErasedEverywhere, IInv, TypeOK
<1>2. UNCHANGED <<tasks, sorted, execute, phase, running, dangling, undefined, raced,
                  steady, ran>>
  BY DEF EraseEnds, lists, flags
<1>3. phase \notin {"release", "done"}
  BY <1>1 DEF Counted, Releasing
<1>4. InWalks' /\ RemovedOnce' /\ Releasing'
  BY <1>1, <1>2, <1>3 DEF Counted, InWalks, RemovedOnce, Releasing
<1>5. RanAsPassed'
  <2>1. phase = "update" => at' = at
    BY <1>1 DEF AfterErasing
  <2> QED
    BY <1>2, <2>1 DEF Counted, RanAsPassed, Behind, Nodes
<1>6. Balanced'
  <2> SUFFICES ASSUME NEW t \in Task \ raced
               PROVE  owed'[t] = Cardinality(Nodes(tasks, t))
    BY <1>1, <1>2, <1>3 DEF Balanced, Nodes
  <2>1. CASE t = erasing
    BY <1>1, <2>1, FS_EmptySet DEF Counted, RemovedOnce
  <2>2. CASE t # erasing
    <3>1. {i \in Nodes(tasks, t) : phase \in {"release", "done"} => i <= at} = Nodes(tasks, t)
      BY <1>3
    <3> QED
      BY <1>1, <2>2, <3>1 DEF Counted, Balanced
  <2> QED
    BY <2>1, <2>2
<1> QED
  BY <1>4, <1>5, <1>6 DEF Counted

\* A step that is no release, and removes nothing, leaves what is owed in balance.
LEMMA BalanceKept ==
  ASSUME Counted, UNCHANGED <<tasks, owed, raced, erasing>>, undefined => undefined',
         phase \notin {"release", "done"}, phase' \notin {"release", "done"}
  PROVE  Balanced' /\ RemovedOnce' /\ Releasing'
<1>1. RemovedOnce' /\ Releasing'
  BY DEF Counted, RemovedOnce, Releasing
<1>2. \A t : {i \in Nodes(tasks, t) : phase' \in {"release", "done"} => i <= at'}
             = {i \in Nodes(tasks, t) : phase \in {"release", "done"} => i <= at}
  OBVIOUS
<1>3. ASSUME ~undefined', NEW t \in Task \ (raced \cup {erasing})
      PROVE  owed[t] = Cardinality({i \in Nodes(tasks, t) :
                          phase' \in {"release", "done"} => i <= at'})
  BY <1>2, <1>3 DEF Counted, Balanced
<1>4. Balanced'
  BY <1>3 DEF Balanced, Nodes
<1> QED
  BY <1>1, <1>4

\* A new walk has come by nobody.
LEMMA BeginKeepsCounts ==
  ASSUME IInv, Counted, BeginFrame, InLoop, phase \notin {"release", "done"},
         UNCHANGED <<tasks, sorted, execute, running, dangling, erasing, undefined,
                     owed, raced>>
  PROVE  Counted'
<1>1. /\ phase' = "update" /\ at' = 1 /\ steady' = {t \in Members(sorted) : execute[t]}
      /\ ran' = [t \in Task |-> 0] /\ Len(sorted) \in Nat /\ Members(sorted) \subseteq Task
      /\ None \notin Task /\ erasing = None /\ ~running /\ ~undefined
  BY NoneAssumption DEF BeginFrame, IInv, TypeOK, Members, InLoop, Defined
<1>2. InWalks'
  BY <1>1 DEF Counted, InWalks
<1>3. RanAsPassed'
  <2> SUFFICES ASSUME NEW t \in steady'
               PROVE  execute[t] /\ ran'[t] = Cardinality(Behind(t)')
    BY DEF RanAsPassed
  <2>1. Behind(t)' = {}
    BY <1>1 DEF Behind, Nodes
  <2> QED
    BY <1>1, <2>1, FS_EmptySet
<1> QED
  BY <1>1, <1>2, <1>3, BalanceKept DEF Counted

\* The update walk calls one task and passes over another.
LEMMA RunKeepsCounts ==
  ASSUME IInv, Counted, RunTask
  PROVE  Counted'
<1>1. /\ phase \in Walks /\ at \in 1..Len(sorted) /\ ~running /\ ~dangling /\ ~undefined
      /\ erasing = None /\ sorted \in Seq(Task) /\ running' = TRUE
      /\ steady \subseteq Task /\ ran \in [Task -> Nat]
      /\ UNCHANGED <<tasks, sorted, execute, phase, at, dangling, erasing, undefined, owed,
                     raced, steady>>
  BY DEF RunTask, InLoop, Defined, IInv, TypeOK, Counted, InWalks, Walks, lists, flags, stack
<1>2. InWalks' /\ phase \notin {"release", "done"}
  BY <1>1 DEF Counted, InWalks, Walks
<1>3. RanAsPassed'
  <2> SUFFICES ASSUME phase = "update", NEW t \in steady
               PROVE  execute[t] /\ ran'[t] = Cardinality(Behind(t)')
    BY <1>1 DEF RanAsPassed
  <2>1. /\ execute[t] /\ ran[t] = Cardinality(Behind(t))
        /\ ran' = [ran EXCEPT ![sorted[at]] = @ + 1]
    BY DEF Counted, RanAsPassed, RunTask
  <2>2. CASE sorted[at] = t
    <3>1. Behind(t)' = Behind(t) \cup {at} /\ at \notin Behind(t)
      BY <1>1, <2>2 DEF Behind, Nodes
    <3>2. IsFiniteSet(Behind(t))
      BY <1>1, FiniteNodes DEF Behind
    <3>3. Cardinality(Behind(t)') = Cardinality(Behind(t)) + 1
      BY <3>1, <3>2, FS_AddElement
    <3> QED
      BY <1>1, <2>1, <2>2, <3>3
  <2>3. CASE sorted[at] # t
    <3>1. Behind(t)' = Behind(t)
      BY <1>1, <2>3 DEF Behind, Nodes
    <3> QED
      BY <1>1, <2>1, <2>3, <3>1
  <2> QED
    BY <2>2, <2>3
<1> QED
  BY <1>1, <1>2, <1>3, BalanceKept DEF Counted

LEMMA SkipKeepsCounts ==
  ASSUME IInv, Counted, SkipTask
  PROVE  Counted'
<1>1. /\ phase \in Walks /\ at \in 1..Len(sorted) /\ ~running /\ ~execute[sorted[at]]
      /\ sorted \in Seq(Task) /\ at' = at + 1
      /\ UNCHANGED <<tasks, sorted, execute, phase, running, dangling, erasing, undefined,
                     owed, raced, steady, ran>>
  BY DEF SkipTask, InLoop, Defined, IInv, TypeOK, Walks, lists, flags, stack, history
<1>2. InWalks' /\ phase \notin {"release", "done"}
  BY <1>1 DEF Counted, InWalks, Walks
<1>3. RanAsPassed'
  <2> SUFFICES ASSUME phase = "update", NEW t \in steady
               PROVE  execute[t] /\ ran[t] = Cardinality(Behind(t)')
    BY <1>1 DEF RanAsPassed
  <2>1. execute[t] /\ ran[t] = Cardinality(Behind(t)) /\ sorted[at] # t
    BY <1>1 DEF Counted, RanAsPassed
  <2>2. Behind(t)' = Behind(t)
    BY <1>1, <2>1 DEF Behind, Nodes
  <2> QED
    BY <2>1, <2>2
<1> QED
  BY <1>1, <1>2, <1>3, BalanceKept DEF Counted

LEMMA ReturnKeepsCounts ==
  ASSUME IInv, Counted, TaskReturns
  PROVE  Counted'
<1>1. /\ phase \in Walks /\ running /\ running' = FALSE /\ ~undefined /\ erasing = None
      /\ at \in Nat /\ sorted \in Seq(Task)
      /\ IF dangling THEN undefined' /\ at' = at ELSE at' = at + 1 /\ undefined' = undefined
      /\ UNCHANGED <<tasks, sorted, execute, phase, dangling, erasing, owed, raced, steady,
                     ran>>
  BY DEF TaskReturns, Defined, IInv, CodeInWalks, TypeOK, lists, flags, history
<1>2. InWalks' /\ phase \notin {"release", "done"} /\ (undefined => undefined')
  BY <1>1 DEF Counted, InWalks, Walks
<1>3. \A t : Behind(t)' = Behind(t)
  <2> SUFFICES ASSUME NEW t
               PROVE  Behind(t)' = Behind(t)
    OBVIOUS
  <2>1. \A i \in Nodes(sorted, t) : i \in Nat
    BY DEF Nodes
  <2>2. Behind(t)' = {i \in Nodes(sorted, t) : i < at' \/ (i = at' /\ running' /\ ~dangling)}
    BY <1>1 DEF Behind, Nodes
  <2> QED
    BY <1>1, <2>1, <2>2 DEF Behind
<1>4. RanAsPassed'
  BY <1>1, <1>3 DEF Counted, RanAsPassed
<1> QED
  BY <1>1, <1>2, <1>4, BalanceKept DEF Counted

\* The releasing loop pays what is owed for the last node that is left.
LEMMA ReleaseKeepsCounts ==
  ASSUME IInv, Counted, Release
  PROVE  Counted'
<1>1. /\ phase = "release" /\ erasing = None /\ ~undefined /\ tasks \in Seq(Task)
      /\ at \in Nat /\ at <= Len(tasks) /\ owed \in [Task -> Int] /\ Len(tasks) \in Nat
      /\ UNCHANGED <<tasks, sorted, running, dangling, erasing, undefined, raced, steady>>
  BY DEF Release, InLoop, Defined, IInv, TypeOK, Counted, Releasing, lists, stack
<1>2. \/ /\ at > 0 /\ owed' = [owed EXCEPT ![tasks[at]] = @ - 1] /\ at' = at - 1
         /\ phase' = phase
      \/ at = 0 /\ phase' = "done" /\ owed' = owed /\ at' = at
  BY <1>1 DEF Release
<1>3. InWalks' /\ RanAsPassed' /\ RemovedOnce' /\ Releasing'
  BY <1>1, <1>2 DEF Counted, InWalks, RanAsPassed, RemovedOnce, Releasing, Walks
<1>4. Balanced'
  <2> SUFFICES ASSUME NEW t \in Task \ (raced \cup {erasing})
               PROVE  owed'[t] = Cardinality({i \in Nodes(tasks, t) : i <= at'})
    BY <1>1, <1>2 DEF Balanced, Nodes
  <2> DEFINE A == {i \in Nodes(tasks, t) : i <= at}
  <2>1. owed[t] = Cardinality(A)
    <3>1. {i \in Nodes(tasks, t) : phase \in {"release", "done"} => i <= at} = A
      BY <1>1
    <3> QED
      BY <1>1, <3>1 DEF Counted, Balanced
  <2>2. CASE at > 0 /\ tasks[at] = t
    <3>1. {i \in Nodes(tasks, t) : i <= at'} = A \ {at} /\ at \in A
      BY <1>1, <1>2, <2>2 DEF Nodes
    <3>2. IsFiniteSet(A) /\ Cardinality(A) \in Nat
      BY <1>1, FiniteNodes
    <3>3. Cardinality(A \ {at}) = Cardinality(A) - 1
      BY <3>1, <3>2, FS_RemoveElement
    <3> QED
      BY <1>1, <1>2, <2>1, <2>2, <3>1, <3>3
  <2>3. CASE ~(at > 0 /\ tasks[at] = t)
    <3>1. {i \in Nodes(tasks, t) : i <= at'} = A
      BY <1>1, <1>2, <2>3 DEF Nodes
    <3>2. owed'[t] = owed[t]
      BY <1>1, <1>2, <2>3
    <3> QED
      BY <2>1, <3>1, <3>2
  <2> QED
    BY <2>2, <2>3
<1> QED
  BY <1>3, <1>4 DEF Counted

LEMMA FrameKeepsCounts ==
  ASSUME IInv, Counted, Frame \/ Returns \/ Execute
  PROVE  Counted'
<1>1. CASE Execute
  BY <1>1, BeginKeepsCounts DEF Execute, lists, stack
<1>2. CASE RunTask \/ SkipTask \/ TaskReturns \/ Release
  BY <1>2, RunKeepsCounts, SkipKeepsCounts, ReturnKeepsCounts, ReleaseKeepsCounts
<1>3. CASE EndUpdates \/ EndRenders
  <2>1. /\ phase \notin {"release", "done"} /\ phase' \in {"render", "extract"}
        /\ erasing = None /\ (steady' = {} \/ steady' = steady)
        /\ UNCHANGED <<tasks, owed, raced, erasing, undefined, running, dangling>>
    BY <1>3 DEF EndUpdates, EndRenders, InLoop, Defined, lists, stack, history
  <2>2. InWalks' /\ RanAsPassed'
    BY <2>1 DEF Counted, InWalks, RanAsPassed
  <2> QED
    BY <2>1, <2>2, BalanceKept DEF Counted
<1>4. CASE ExtractTask
  <2>1. tasks[at] \in Task
    BY <1>4 DEF ExtractTask, IInv, TypeOK
  <2>2. /\ NotesRemoval(tasks[at]) /\ phase = "extract" /\ erasing = None /\ ~undefined
        /\ \/ undefined' = TRUE /\ UNCHANGED erasing
           \/ erasing' = tasks[at] /\ UNCHANGED undefined
        /\ UNCHANGED <<lists, flags, walk, owed, ran>>
    BY <1>4 DEF ExtractTask, InLoop, Defined
  <2> QED
    BY <2>1, <2>2, RemovalKeepsCounts DEF Walks
<1>5. CASE KeepTask
  <2>1. /\ phase = "extract" /\ phase' = "extract"
        /\ UNCHANGED <<tasks, owed, raced, erasing, undefined, running, dangling, steady>>
    BY <1>5 DEF KeepTask, lists, stack, history
  <2>2. InWalks' /\ RanAsPassed'
    BY <2>1 DEF Counted, InWalks, RanAsPassed
  <2> QED
    BY <2>1, <2>2, BalanceKept DEF Counted
<1>6. CASE EndFrame
  <2>1. /\ phase = "extract" /\ InLoop /\ erasing = None
        /\ UNCHANGED <<tasks, sorted, execute, running, dangling, erasing, undefined,
                       owed, raced>>
    BY <1>6 DEF EndFrame, InLoop, Defined, lists, flags, stack
  <2>2. CASE exiting
    <3>1. phase' = "release" /\ at' = Len(tasks) /\ steady' = steady /\ Len(tasks) \in Nat
      BY <1>6, <2>2 DEF EndFrame, IInv, TypeOK
    <3>2. InWalks' /\ RanAsPassed' /\ RemovedOnce' /\ Releasing'
      BY <2>1, <3>1 DEF Counted, InWalks, RanAsPassed, RemovedOnce, Releasing, Walks
    <3>3. \A t : {i \in Nodes(tasks, t) : phase' \in {"release", "done"} => i <= at'}
                 = {i \in Nodes(tasks, t) : phase \in {"release", "done"} => i <= at}
      BY <2>1, <3>1 DEF Nodes
    <3>4. ASSUME ~undefined, NEW t \in Task \ (raced \cup {erasing})
          PROVE  owed[t] = Cardinality({i \in Nodes(tasks, t) :
                              phase' \in {"release", "done"} => i <= at'})
      BY <3>3, <3>4 DEF Counted, Balanced
    <3>5. Balanced'
      BY <2>1, <3>4 DEF Balanced, Nodes
    <3> QED
      BY <3>2, <3>5 DEF Counted
  <2>3. CASE ~exiting
    BY <1>6, <2>1, <2>3, BeginKeepsCounts DEF EndFrame
  <2> QED
    BY <2>2, <2>3
<1>7. CASE InitReturns
  <2>1. UNCHANGED <<tasks, sorted, execute, phase, at, running, dangling, erasing,
                    undefined, owed, raced, ran, steady>>
    BY <1>7 DEF InitReturns, lists, flags, walk, history
  <2> QED
    BY <2>1, LeavingKeepsCounts DEF Counted, RanAsPassed
<1> QED
  BY <1>1, <1>2, <1>3, <1>4, <1>5, <1>6, <1>7 DEF Frame, Returns

LEMMA InitCounted == Init => Counted
<1> SUFFICES ASSUME Init PROVE Counted
  OBVIOUS
<1>1. /\ tasks = <<>> /\ phase = "start" /\ erasing = None /\ dangling = FALSE
      /\ steady = {} /\ owed = [t \in Task |-> 0]
  BY DEF Init
<1>2. InWalks /\ RanAsPassed /\ RemovedOnce /\ Releasing
  BY <1>1 DEF InWalks, RanAsPassed, RemovedOnce, Releasing
<1>3. Balanced
  <2>1. \A t : {i \in Nodes(tasks, t) : phase \in {"release", "done"} => i <= at} = {}
    BY <1>1 DEF Nodes
  <2> QED
    BY <1>1, <2>1, FS_EmptySet DEF Balanced
<1> QED
  BY <1>2, <1>3 DEF Counted

LEMMA CountedAlways == Spec => []Counted
<1>1. IInv /\ Counted /\ [Next]_vars => Counted'
  <2> SUFFICES ASSUME IInv, Counted, [Next]_vars PROVE Counted'
    OBVIOUS
  <2>1. CASE UNCHANGED vars
    <3>1. UNCHANGED <<tasks, sorted, execute, phase, at, running, dangling, erasing,
                      undefined, owed, raced, ran, steady>>
      BY <2>1 DEF vars, lists, flags, walk, stack, history
    <3> QED
      BY <3>1, LeavingKeepsCounts DEF Counted, RanAsPassed
  <2>2. CASE Erase
    BY <2>2, EraseFromTasksKeepsCounts, EraseFromSortedKeepsCounts, EraseEndsKeepsCounts
       DEF Erase
  <2> QED
    BY <2>1, <2>2, CodeKeepsCounts, FrameKeepsCounts DEF Next
<1> QED
  BY InitCounted, IInvAlways, <1>1, PTL DEF Spec

-----------------------------------------------------------------------------
(* The theorems.                                                           *)

\* The lists hold tasks, and the iterators of the walks stay within them.
THEOREM TypeCorrect == Spec => []TypeOK
<1>1. IInv => TypeOK
  BY DEF IInv
<1>2. QED
  BY IInvAlways, <1>1, PTL

\* Whatever tasks do to the lists while they are walked, the two lists of
\* CTaskManager hold the same tasks when remove is not in the middle of its work.
THEOREM WalkedIsReleased == Spec => []ListsAgree
<1>1. IInv => ListsAgree
  BY DEF IInv
<1>2. QED
  BY IInvAlways, <1>1, PTL

\* The walks follow the orders of the tasks, for any number of additions and
\* removals.
THEOREM WalksInOrder == Spec => []Ordered
<1>1. IInv => Ordered
  BY DEF IInv
<1>2. QED
  BY IInvAlways, <1>1, PTL

\* When a frame ends, no task that asked for its removal is left.
THEOREM ExtractionIsComplete == Spec => []NoneLeft
<1>1. IInv => NoneLeft
  <2> SUFFICES ASSUME IInv, phase = "extract", at > Len(tasks), InLoop,
                      NEW t \in Members(tasks)
               PROVE  ~extract[t]
    BY DEF NoneLeft
  <2>1. PICK i \in 1..Len(tasks) : t = tasks[i]
    BY DEF Members
  <2>2. i < at /\ erasing = None
    BY DEF IInv, TypeOK, InLoop, Defined
  <2>3. QED
    BY <2>1, <2>2 DEF IInv, PassedStays
<1>2. QED
  BY IInvAlways, <1>1, PTL

\* An update walk runs every task that is left alone once for every time it is
\* in the list, although other tasks change the list under its iterator (the
\* update loop of execute, add, remove).
THEOREM EveryTaskRunsOnce == Spec => []OncePerFrame
<1>1. IInv /\ Counted => OncePerFrame
  <2> SUFFICES ASSUME IInv, Counted, phase = "update", at > Len(sorted), NEW t \in steady
               PROVE  ran[t] = Cardinality(Nodes(sorted, t))
    BY DEF OncePerFrame
  <2>1. Behind(t) = Nodes(sorted, t)
    <3>1. at \in Nat /\ Len(sorted) \in Nat
      BY DEF IInv, TypeOK
    <3> QED
      BY <3>1 DEF Behind, Nodes
  <2> QED
    BY <2>1 DEF Counted, RanAsPassed
<1>2. QED
  BY IInvAlways, CountedAlways, <1>1, PTL

\* What was initialised is released once, in remove or at the end of execute;
\* only removals of a task that was not in the list exactly once break that.
THEOREM InitialisedIsReleased == Spec => []Balanced
<1>1. Counted => Balanced
  BY DEF Counted
<1>2. QED
  BY CountedAlways, <1>1, PTL

=============================================================================
