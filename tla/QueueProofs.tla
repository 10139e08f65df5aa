----------------------------- MODULE QueueProofs -----------------------------
(***************************************************************************)
(* Machine-checked proofs about the event queue and what is built on it:    *)
(*  - the insertion loop of postEvent and the run of processEventQueue;      *)
(*  - EventServer, for every set of events, every bound on the clock and     *)
(*    every number of backward corrections;                                  *)
(*  - MotionSync, for every set of states and every bound on the changes.    *)
(***************************************************************************)
EXTENDS EventServer, MotionSync, FiniteSetTheorems, SequenceTheorems,
        WellFoundedInduction, TLAPS

-----------------------------------------------------------------------------
(* Recursion over the first numbers.                                       *)

Below == {p \in Nat \X Nat : p[1] < p[2]}

\* The order of the naturals is well-founded, as a relation.
LEMMA BelowWF == IsWellFoundedOn(Below, Nat)
  BY NatLessThanWellFounded, Zenon DEF OpToRel, Below

\* Induction up to n for a set of numbers (it needs no operator parameter).
LEMMA UpTo ==
  ASSUME NEW n \in Nat, NEW T, 0 \in T, \A i \in 0..(n - 1) : i \in T => i + 1 \in T
  PROVE  0..n \subseteq T
<1> DEFINE S == (0..n) \ T
<1> SUFFICES ASSUME S # {} PROVE FALSE
  OBVIOUS
<1>1. PICK x \in S : \A y \in S : ~(<<y, x>> \in Below)
  <2>1. S \in SUBSET Nat
    OBVIOUS
  <2>2. QED
    BY <2>1, BelowWF, WFMin
<1>2. x # 0 /\ x - 1 \in 0..(n - 1) /\ x - 1 \notin T
  <2>1. x \in 0..n /\ x \notin T
    OBVIOUS
  <2>2. x # 0
    BY <2>1
  <2>3. x - 1 \in S => <<x - 1, x>> \in Below
    BY <2>1, <2>2 DEF Below
  <2>4. x - 1 \notin S /\ x - 1 \in 0..n
    BY <1>1, <2>1, <2>2, <2>3
  <2>5. x - 1 \in T
    BY <2>4
  <2>6. x - 1 + 1 \in T
    BY <2>1, <2>2, <2>5
  <2>7. QED
    BY <2>1, <2>6
<1>3. x - 1 \in S
  BY <1>2
<1>4. <<x - 1, x>> \in Below
  BY <1>2 DEF Below
<1>5. QED
  BY <1>1, <1>3, <1>4

\* f is the recursive function over 0..n with that first value and that step.
Runs(f, first, step, n) ==
  \A i \in 0..n : f[i] = IF i = 0 THEN first ELSE step[<<f[i - 1], i>>]

\* There is such a function.
LEMMA Recursion ==
  ASSUME NEW n \in Nat, NEW S, NEW first \in S, NEW step \in [S \X (1..n) -> S]
  PROVE  \E f \in [0..n -> S] : Runs(f, first, step, n)
<1> DEFINE T == {m \in Nat : m <= n => \E f \in [0..m -> S] : Runs(f, first, step, m)}
<1>1. 0 \in T
  <2>1. [i \in 0..0 |-> first] \in [0..0 -> S] /\ Runs([i \in 0..0 |-> first], first, step, 0)
    BY DEF Runs
  <2>2. QED
    BY <2>1
<1>2. ASSUME NEW m \in 0..(n - 1), m \in T
      PROVE  m + 1 \in T
  <2>1. PICK g \in [0..m -> S] : Runs(g, first, step, m)
    BY <1>2
  <2> DEFINE f == [i \in 0..(m + 1) |-> IF i = m + 1 THEN step[<<g[m], m + 1>>] ELSE g[i]]
  <2>2. f \in [0..(m + 1) -> S]
    <3>1. g[m] \in S /\ m + 1 \in 1..n
      OBVIOUS
    <3>2. step[<<g[m], m + 1>>] \in S
      BY <3>1
    <3>3. QED
      BY <3>2
  <2>3. ASSUME NEW i \in 0..(m + 1)
        PROVE  f[i] = IF i = 0 THEN first ELSE step[<<f[i - 1], i>>]
    <3>1. CASE i = m + 1
      <4>1. f[i] = step[<<g[m], m + 1>>] /\ f[i - 1] = g[m] /\ i # 0
        BY <3>1
      <4>2. QED
        BY <3>1, <4>1
    <3>2. CASE i \in 0..m
      <4>1. g[i] = IF i = 0 THEN first ELSE step[<<g[i - 1], i>>]
        BY <2>1, <3>2 DEF Runs
      <4>2. f[i] = g[i] /\ (i # 0 => f[i - 1] = g[i - 1])
        BY <3>2
      <4>3. QED
        BY <4>1, <4>2
    <3>3. QED
      BY <3>1, <3>2
  <2>4. Runs(f, first, step, m + 1)
    BY <2>3 DEF Runs
  <2> HIDE DEF f
  <2>5. QED
    BY <2>2, <2>4
<1>3. n \in T
  <2> HIDE DEF T
  <2>1. QED
    BY <1>1, <1>2, UpTo
<1>4. QED
  BY <1>3

-----------------------------------------------------------------------------
(* The insertion loop of postEvent.                                        *)

\* What one round of the loop appends.
Round(q, e, later, i) == IF i \in later THEN <<e, q[i]>> ELSE <<q[i]>>

\* The entries of two queues put together.
LEMMA Joined ==
  ASSUME NEW E, NEW s \in Seq(E), NEW r \in Seq(E)
  PROVE  /\ s \o r \in Seq(E)
         /\ Len(s) \in Nat /\ Len(r) \in Nat /\ Len(s \o r) = Len(s) + Len(r)
         /\ \A k \in 1..Len(s) : k \in 1..Len(s \o r) /\ (s \o r)[k] = s[k]
         /\ \A k \in 1..Len(r) : Len(s) + k \in 1..Len(s \o r) /\ (s \o r)[Len(s) + k] = r[k]
         /\ \A k \in 1..Len(s \o r) :
              \/ k \in 1..Len(s) /\ (s \o r)[k] = s[k]
              \/ k - Len(s) \in 1..Len(r) /\ (s \o r)[k] = r[k - Len(s)]
  OBVIOUS

\* What a round appends: the entry passed, and before it perhaps the event.
LEMMA RoundIs ==
  ASSUME NEW E, NEW q \in Seq(E), NEW e \in E, NEW later, NEW i \in 1..Len(q)
  PROVE  LET r == Round(q, e, later, i)
         IN  /\ r \in Seq(E) /\ Len(r) \in Nat \ {0} /\ r[Len(r)] = q[i]
             /\ r[1] = IF i \in later THEN e ELSE q[i]
             /\ \A k \in 1..(Len(r) - 1) : r[k] = e
             /\ \A k \in 1..Len(r) : r[k] = e \/ r[k] = q[i]
<1>1. CASE i \in later
  <2>1. Round(q, e, later, i) = <<e, q[i]>>
    BY <1>1 DEF Round
  <2>2. QED
    BY <1>1, <2>1
<1>2. CASE i \notin later
  <2>1. Round(q, e, later, i) = <<q[i]>>
    BY <1>2 DEF Round
  <2>2. QED
    BY <1>2, <2>1
<1>3. QED
  BY <1>1, <1>2

\* The loop, round by round.
LEMMA LoopRuns ==
  ASSUME NEW E, NEW q \in Seq(E), NEW e \in E, NEW later
  PROVE  /\ \A i \in 0..Len(q) : Looped(q, e, later)[i] \in Seq(E)
         /\ Looped(q, e, later)[0] = <<>>
         /\ \A i \in 1..Len(q) :
              Looped(q, e, later)[i] = Looped(q, e, later)[i - 1] \o Round(q, e, later, i)
<1> DEFINE n     == Len(q)
           is(f) == f = [i \in 0..n |-> IF i = 0 THEN <<>>
                                        ELSE f[i - 1] \o Round(q, e, later, i)]
           step  == [p \in Seq(E) \X (1..n) |-> p[1] \o Round(q, e, later, p[2])]
           g     == Looped(q, e, later)
<1>1. n \in Nat /\ n = Len(q) /\ <<>> \in Seq(E) /\ 0 \in 0..n /\ \A i \in 1..n : i \in 0..n /\ i # 0
  OBVIOUS
<1>2. \A i \in 1..n : Round(q, e, later, i) \in Seq(E)
  BY DEF Round
<1> HIDE DEF n
<1>3. step \in [Seq(E) \X (1..n) -> Seq(E)]
  BY <1>2
<1>4. PICK f \in [0..n -> Seq(E)] :
        \A i \in 0..n : f[i] = IF i = 0 THEN <<>> ELSE step[<<f[i - 1], i>>]
  <2> DEFINE S == Seq(E)
             first == <<>>
  <2>1. n \in Nat /\ first \in S /\ step \in [S \X (1..n) -> S]
    BY <1>1, <1>3
  <2> HIDE DEF step, S, first
  <2>2. \E f \in [0..n -> S] : Runs(f, first, step, n)
    BY <2>1, Recursion
  <2>3. QED
    BY <2>2 DEF S, first, Runs
<1>5. is(f)
  <2>1. ASSUME NEW i \in 0..n
        PROVE  f[i] = IF i = 0 THEN <<>> ELSE f[i - 1] \o Round(q, e, later, i)
    <3>1. CASE i = 0
      BY <1>4, <3>1
    <3>2. CASE i # 0
      <4>1. i \in 1..n /\ f[i - 1] \in Seq(E)
        BY <1>1, <3>2
      <4>2. step[<<f[i - 1], i>>] = f[i - 1] \o Round(q, e, later, i)
        BY <4>1
      <4>3. QED
        BY <1>4, <3>2, <4>2
    <3>3. QED
      BY <3>1, <3>2
  <2>2. f = [i \in 0..n |-> f[i]]
    OBVIOUS
  <2> HIDE DEF step
  <2>3. QED
    BY <2>1, <2>2
<1>6. g = CHOOSE h : is(h)
  BY <1>1 DEF Looped, Round
<1>7. is(g)
  <2> HIDE DEF g, is
  <2>1. QED
    BY <1>5, <1>6
<1>8. /\ g[0] = <<>>
      /\ \A i \in 1..n : g[i] = g[i - 1] \o Round(q, e, later, i)
  <2> HIDE DEF g
  <2>1. ASSUME NEW i \in 0..n
        PROVE  g[i] = IF i = 0 THEN <<>> ELSE g[i - 1] \o Round(q, e, later, i)
    BY <1>7, Zenon
  <2>2. QED
    BY <1>1, <2>1
<1>9. \A i \in 0..n : g[i] \in Seq(E)
  <2> DEFINE T == {i \in 0..n : g[i] \in Seq(E)}
  <2> HIDE DEF g
  <2>1. 0 \in T
    BY <1>1, <1>8
  <2>2. ASSUME NEW i \in 0..(n - 1), i \in T
        PROVE  i + 1 \in T
    <3>1. i + 1 \in 1..n /\ i + 1 \in 0..n /\ (i + 1) - 1 = i
      BY <1>1
    <3>2. g[i + 1] = g[i] \o Round(q, e, later, i + 1)
      BY <1>8, <3>1
    <3>3. g[i] \in Seq(E) /\ Round(q, e, later, i + 1) \in Seq(E)
      BY <1>2, <2>2, <3>1
    <3>4. g[i + 1] \in Seq(E)
      BY <3>2, <3>3
    <3>5. QED
      BY <3>1, <3>4
  <2>3. 0..n \subseteq T
    <3> HIDE DEF T
    <3>1. QED
      BY <1>1, <2>1, <2>2, UpTo
  <2>4. QED
    BY <2>3
<1>10. QED
  BY <1>1, <1>8, <1>9

\* After i rounds: every entry passed is still there, the order is kept, and
\* nothing but the event posted has come in.
LEMMA LoopKeeps ==
  ASSUME NEW E, NEW q \in Seq(E), NEW e \in E, NEW later, NEW i \in 0..Len(q)
  PROVE  LET s == Looped(q, e, later)[i]
         IN  /\ \A j \in 1..i : \E k \in 1..Len(s) : s[k] = q[j]
             /\ \A k \in 1..Len(s) : s[k] = e \/ \E j \in 1..i : s[k] = q[j]
             /\ \A j \in 1..i : j \in later => \E k \in 1..Len(s) : s[k] = e
             /\ \A a, b \in 1..i :
                  a < b => \E k, l \in 1..Len(s) : k < l /\ s[k] = q[a] /\ s[l] = q[b]
<1> DEFINE L(m)     == Looped(q, e, later)[m]
           old(m)   == \A j \in 1..m : \E k \in 1..Len(L(m)) : L(m)[k] = q[j]
           only(m)  == \A k \in 1..Len(L(m)) : L(m)[k] = e \/ \E j \in 1..m : L(m)[k] = q[j]
           new(m)   == \A j \in 1..m : j \in later => \E k \in 1..Len(L(m)) : L(m)[k] = e
           order(m) == \A a, b \in 1..m :
                         a < b => \E k, l \in 1..Len(L(m)) :
                                    k < l /\ L(m)[k] = q[a] /\ L(m)[l] = q[b]
           T == {m \in 0..Len(q) : old(m) /\ only(m) /\ new(m) /\ order(m)}
<1>1. Len(q) \in Nat
  OBVIOUS
<1>2. 0 \in T
  <2>1. L(0) = <<>> /\ Len(L(0)) = 0
    BY LoopRuns
  <2> HIDE DEF L
  <2>2. QED
    BY <1>1, <2>1
<1>3. ASSUME NEW m \in 0..(Len(q) - 1), m \in T
      PROVE  m + 1 \in T
  <2> DEFINE s == L(m)
             r == Round(q, e, later, m + 1)
             t == L(m + 1)
  <2>1. m \in 0..Len(q) /\ m + 1 \in 1..Len(q) /\ m + 1 \in 0..Len(q) /\ (m + 1) - 1 = m
    BY <1>1
  <2>2. s \in Seq(E) /\ t = s \o r
    <3>1. s \in Seq(E)
      BY <2>1, LoopRuns
    <3>2. \A k \in 1..Len(q) : L(k) = L(k - 1) \o Round(q, e, later, k)
      BY ONLY q \in Seq(E), e \in E, LoopRuns DEF L
    <3> HIDE DEF L
    <3>3. QED
      BY <2>1, <3>1, <3>2
  <2>3. /\ r \in Seq(E) /\ Len(r) \in Nat \ {0} /\ r[Len(r)] = q[m + 1]
        /\ m + 1 \in later => r[1] = e
        /\ \A k \in 1..Len(r) : r[k] = e \/ r[k] = q[m + 1]
    BY <2>1, RoundIs
  <2>4. /\ Len(t) = Len(s) + Len(r) /\ Len(s) \in Nat /\ Len(r) \in Nat \ {0}
        /\ \A k \in 1..Len(s) : k \in 1..Len(t) /\ t[k] = s[k]
        /\ \A k \in 1..Len(r) : Len(s) + k \in 1..Len(t) /\ t[Len(s) + k] = r[k]
        /\ \A k \in 1..Len(t) : \/ k \in 1..Len(s) /\ t[k] = s[k]
                                \/ k - Len(s) \in 1..Len(r) /\ t[k] = r[k - Len(s)]
    <3> HIDE DEF L, r, s, t
    <3>1. s \in Seq(E) /\ r \in Seq(E) /\ t = s \o r
      BY <2>2, <2>3
    <3>2. /\ Len(s) \in Nat /\ Len(t) = Len(s) + Len(r)
          /\ \A k \in 1..Len(s) : k \in 1..Len(t) /\ t[k] = s[k]
          /\ \A k \in 1..Len(r) : Len(s) + k \in 1..Len(t) /\ t[Len(s) + k] = r[k]
          /\ \A k \in 1..Len(t) : \/ k \in 1..Len(s) /\ t[k] = s[k]
                                  \/ k - Len(s) \in 1..Len(r) /\ t[k] = r[k - Len(s)]
      BY ONLY <3>1, Joined
    <3>3. QED
      BY <2>3, <3>2
  <2>5. old(m) /\ only(m) /\ new(m) /\ order(m)
    BY <1>3
  <2>6. Len(t) \in 1..Len(t) /\ t[Len(t)] = q[m + 1]
    <3> HIDE DEF L, r
    <3>1. Len(r) \in 1..Len(r) /\ Len(s) + Len(r) = Len(t)
      BY <2>4
    <3>2. QED
      BY <2>3, <2>4, <3>1
  <2>7. old(m + 1)
    <3> SUFFICES ASSUME NEW j \in 1..(m + 1)
                 PROVE  \E k \in 1..Len(t) : t[k] = q[j]
      OBVIOUS
    <3> HIDE DEF L
    <3>1. CASE j = m + 1
      BY <2>6, <3>1
    <3>2. CASE j \in 1..m
      <4>1. PICK k \in 1..Len(s) : s[k] = q[j]
        BY <2>5, <3>2
      <4>2. QED
        BY <2>4, <4>1
    <3>3. QED
      BY <3>1, <3>2
  <2>8. only(m + 1)
    <3> SUFFICES ASSUME NEW k \in 1..Len(t)
                 PROVE  t[k] = e \/ \E j \in 1..(m + 1) : t[k] = q[j]
      OBVIOUS
    <3> HIDE DEF L, r
    <3>1. CASE k \in 1..Len(s) /\ t[k] = s[k]
      <4>1. s[k] = e \/ \E j \in 1..m : s[k] = q[j]
        BY <2>5, <3>1
      <4>2. \A j \in 1..m : j \in 1..(m + 1)
        OBVIOUS
      <4>3. QED
        BY <3>1, <4>1, <4>2
    <3>2. CASE k - Len(s) \in 1..Len(r) /\ t[k] = r[k - Len(s)]
      <4>1. t[k] = e \/ t[k] = q[m + 1]
        BY <2>3, <3>2
      <4>2. m + 1 \in 1..(m + 1)
        OBVIOUS
      <4>3. QED
        BY <4>1, <4>2
    <3>3. QED
      BY <2>4, <3>1, <3>2
  <2>9. new(m + 1)
    <3> SUFFICES ASSUME NEW j \in 1..(m + 1), j \in later
                 PROVE  \E k \in 1..Len(t) : t[k] = e
      OBVIOUS
    <3> HIDE DEF L, r
    <3>1. CASE j = m + 1
      <4>1. 1 \in 1..Len(r) /\ r[1] = e
        BY <2>3, <2>4, <3>1
      <4>2. QED
        BY <2>4, <4>1
    <3>2. CASE j \in 1..m
      <4>1. PICK k \in 1..Len(s) : s[k] = e
        BY <2>5, <3>2
      <4>2. QED
        BY <2>4, <4>1
    <3>3. QED
      BY <3>1, <3>2
  <2>10. order(m + 1)
    <3> SUFFICES ASSUME NEW a \in 1..(m + 1), NEW b \in 1..(m + 1), a < b
                 PROVE  \E k, l \in 1..Len(t) : k < l /\ t[k] = q[a] /\ t[l] = q[b]
      OBVIOUS
    <3> HIDE DEF L, r
    <3>1. CASE b = m + 1
      <4>1. a \in 1..m
        BY <3>1
      <4>2. PICK k \in 1..Len(s) : s[k] = q[a]
        BY <2>5, <4>1
      <4>3. k \in 1..Len(t) /\ t[k] = q[a] /\ k < Len(t)
        BY <2>4, <4>2
      <4>4. QED
        BY <2>6, <3>1, <4>3
    <3>2. CASE b \in 1..m
      <4>1. a \in 1..m
        BY <3>2
      <4>2. PICK k \in 1..Len(s), l \in 1..Len(s) : k < l /\ s[k] = q[a] /\ s[l] = q[b]
        BY <2>5, <3>2, <4>1
      <4>3. QED
        BY <2>4, <4>2
    <3>3. QED
      BY <3>1, <3>2
  <2>11. m + 1 \in 0..Len(q)
    BY <1>1
  <2> HIDE DEF old, only, new, order
  <2>12. QED
    BY <2>7, <2>8, <2>9, <2>10, <2>11
<1>4. i \in T
  <2> HIDE DEF T
  <2>1. 0..Len(q) \subseteq T
    BY <1>1, <1>2, <1>3, UpTo
  <2>2. QED
    BY <2>1
<1>5. QED
  BY <1>4

\* The first and the last entry after i rounds, and what is before the last.
LEMMA LoopEnds ==
  ASSUME NEW E, NEW q \in Seq(E), NEW e \in E, NEW later, NEW i \in 1..Len(q)
  PROVE  LET s == Looped(q, e, later)[i]
         IN  /\ Len(s) \in Nat \ {0}
             /\ s[1] = IF 1 \in later THEN e ELSE q[1]
             /\ s[Len(s)] = q[i]
             /\ \A k \in 1..(Len(s) - 1) : s[k] = e \/ \E j \in 1..(i - 1) : s[k] = q[j]
<1> DEFINE L(m) == Looped(q, e, later)[m]
           R(m) == Round(q, e, later, m)
           T == {m \in 0..Len(q) : m # 0 => /\ Len(L(m)) \in Nat \ {0}
                                            /\ L(m)[1] = IF 1 \in later THEN e ELSE q[1]}
<1>1. Len(q) \in Nat
  OBVIOUS
<1>2. \A m \in 1..Len(q) :
        /\ L(m - 1) \in Seq(E) /\ L(m) = L(m - 1) \o R(m)
        /\ R(m) \in Seq(E) /\ Len(R(m)) \in Nat \ {0} /\ R(m)[Len(R(m))] = q[m]
        /\ R(m)[1] = IF m \in later THEN e ELSE q[m]
        /\ \A k \in 1..(Len(R(m)) - 1) : R(m)[k] = e
  <2> SUFFICES ASSUME NEW m \in 1..Len(q)
               PROVE  /\ L(m - 1) \in Seq(E) /\ L(m) = L(m - 1) \o R(m)
                      /\ R(m) \in Seq(E) /\ Len(R(m)) \in Nat \ {0} /\ R(m)[Len(R(m))] = q[m]
                      /\ R(m)[1] = IF m \in later THEN e ELSE q[m]
                      /\ \A k \in 1..(Len(R(m)) - 1) : R(m)[k] = e
    OBVIOUS
  <2>1. m - 1 \in 0..Len(q)
    BY <1>1
  <2>2. L(m - 1) \in Seq(E) /\ L(m) = L(m - 1) \o R(m)
    BY <2>1, LoopRuns
  <2>3. QED
    BY <2>2, RoundIs
<1>3. L(0) = <<>>
  BY LoopRuns
<1> HIDE DEF L, R
<1>4. i \in T
  <2>1. 0 \in T
    BY <1>1
  <2>2. ASSUME NEW m \in 0..(Len(q) - 1), m \in T
        PROVE  m + 1 \in T
    <3>1. m + 1 \in 1..Len(q) /\ m + 1 \in 0..Len(q) /\ (m + 1) - 1 = m
      BY <1>1
    <3>2. /\ L(m) \in Seq(E) /\ R(m + 1) \in Seq(E) /\ L(m + 1) = L(m) \o R(m + 1)
          /\ Len(R(m + 1)) \in Nat \ {0}
          /\ R(m + 1)[1] = IF m + 1 \in later THEN e ELSE q[m + 1]
      BY <1>2, <3>1
    <3>3. Len(L(m + 1)) = Len(L(m)) + Len(R(m + 1)) /\ Len(L(m)) \in Nat
      BY <3>2
    <3>4. CASE m = 0
      <4>1. Len(L(m)) = 0
        BY <1>3, <3>4
      <4>2. L(m + 1)[1] = R(m + 1)[1]
        BY <3>2, <3>3, <4>1
      <4>3. QED
        BY <3>1, <3>2, <3>3, <3>4, <4>2
    <3>5. CASE m # 0
      <4>1. Len(L(m)) \in Nat \ {0} /\ L(m)[1] = IF 1 \in later THEN e ELSE q[1]
        BY <2>2, <3>5
      <4>2. L(m + 1)[1] = L(m)[1]
        BY <3>2, <3>3, <4>1
      <4>3. QED
        BY <3>1, <3>2, <3>3, <4>1, <4>2
    <3>6. QED
      BY <3>4, <3>5
  <2>3. 0..Len(q) \subseteq T
    <3> HIDE DEF T
    <3>1. QED
      BY <1>1, <2>1, <2>2, UpTo
  <2>4. QED
    BY <2>3
<1>5. /\ L(i - 1) \in Seq(E) /\ R(i) \in Seq(E) /\ L(i) = L(i - 1) \o R(i)
      /\ Len(R(i)) \in Nat \ {0} /\ R(i)[Len(R(i))] = q[i]
      /\ \A k \in 1..(Len(R(i)) - 1) : R(i)[k] = e
  BY <1>2
<1>6. /\ Len(L(i)) = Len(L(i - 1)) + Len(R(i)) /\ Len(L(i - 1)) \in Nat
      /\ \A k \in 1..Len(L(i - 1)) : L(i)[k] = L(i - 1)[k]
      /\ \A k \in 1..Len(R(i)) : L(i)[Len(L(i - 1)) + k] = R(i)[k]
  BY <1>5, Joined
<1>7. L(i)[Len(L(i))] = q[i]
  <2>1. Len(R(i)) \in 1..Len(R(i))
    BY ONLY <1>5
  <2>2. L(i)[Len(L(i - 1)) + Len(R(i))] = R(i)[Len(R(i))]
    BY <1>6, <2>1
  <2>3. QED
    BY <1>5, <1>6, <2>2
<1>8. ASSUME NEW k \in 1..(Len(L(i)) - 1)
      PROVE  L(i)[k] = e \/ \E j \in 1..(i - 1) : L(i)[k] = q[j]
  <2>1. CASE k \in 1..Len(L(i - 1))
    <3>1. i - 1 \in 0..Len(q)
      BY <1>1
    <3>2. \A l \in 1..Len(L(i - 1)) : L(i - 1)[l] = e \/ \E j \in 1..(i - 1) : L(i - 1)[l] = q[j]
      BY <3>1, LoopKeeps DEF L
    <3>3. QED
      BY <1>6, <2>1, <3>2
  <2>2. CASE k \notin 1..Len(L(i - 1))
    <3>1. /\ k - Len(L(i - 1)) \in 1..(Len(R(i)) - 1)
          /\ k - Len(L(i - 1)) \in 1..Len(R(i))
          /\ k = Len(L(i - 1)) + (k - Len(L(i - 1)))
      BY <1>5, <1>6, <2>2
    <3>2. L(i)[k] = R(i)[k - Len(L(i - 1))]
      BY <1>6, <3>1
    <3>3. QED
      BY <1>5, <3>1, <3>2
  <2>3. QED
    BY <2>1, <2>2
<1>9. Len(L(i)) \in Nat \ {0} /\ L(i)[1] = IF 1 \in later THEN e ELSE q[1]
  BY <1>4
<1>10. QED
  BY <1>7, <1>8, <1>9 DEF L

\* s is q with e: nothing is lost, e is in, the order is kept, and nothing else
\* has come in.
Gains(s, q, e) ==
  /\ Len(s) \in Nat \ {0}
  /\ \A j \in 1..Len(q) : \E k \in 1..Len(s) : s[k] = q[j]
  /\ \A k \in 1..Len(s) : s[k] = e \/ \E j \in 1..Len(q) : s[k] = q[j]
  /\ \E k \in 1..Len(s) : s[k] = e
  /\ \A a, b \in 1..Len(q) :
       a < b => \E k, l \in 1..Len(s) : k < l /\ s[k] = q[a] /\ s[l] = q[b]

\* What postEvent makes of a queue.
LEMMA InsertedKeeps ==
  ASSUME NEW E, NEW q \in Seq(E), NEW e \in E, NEW later,
         later = {} \/ \E j \in 1..Len(q) : j \in later
  PROVE  Inserted(q, e, later) \in Seq(E) /\ Gains(Inserted(q, e, later), q, e)
<1> DEFINE s == Inserted(q, e, later)
           n == Len(q)
<1>1. n \in Nat /\ n \in 0..n
  OBVIOUS
<1>2. CASE later = {}
  <2>1. s = Append(q, e)
    BY <1>2 DEF Inserted
  <2> HIDE DEF s
  <2>2. /\ s \in Seq(E) /\ Len(s) = n + 1 /\ s[n + 1] = e
        /\ \A k \in 1..n : k \in 1..Len(s) /\ s[k] = q[k]
    BY <1>1, <2>1
  <2>3. QED
    <3>1. \A a, b \in 1..n : a < b => /\ a \in 1..Len(s) /\ b \in 1..Len(s)
                                      /\ a < b /\ s[a] = q[a] /\ s[b] = q[b]
      BY <2>2
    <3>2. n + 1 \in 1..Len(s)
      BY <1>1, <2>2
    <3>3. \A k \in 1..Len(s) : s[k] = e \/ (k \in 1..n /\ s[k] = q[k])
      BY <1>1, <2>1, <2>2
    <3>4. QED
      BY <1>1, <2>2, <3>1, <3>2, <3>3 DEF s, Gains
<1>3. CASE later # {}
  <2> DEFINE t == Looped(q, e, later)[n]
  <2>1. s = t
    BY <1>3 DEF Inserted
  <2>2. /\ t \in Seq(E)
        /\ \A j \in 1..n : \E k \in 1..Len(t) : t[k] = q[j]
        /\ \A k \in 1..Len(t) : t[k] = e \/ \E j \in 1..n : t[k] = q[j]
        /\ \A j \in 1..n : j \in later => \E k \in 1..Len(t) : t[k] = e
        /\ \A a, b \in 1..n :
             a < b => \E k, l \in 1..Len(t) : k < l /\ t[k] = q[a] /\ t[l] = q[b]
    BY <1>1, LoopRuns, LoopKeeps
  <2> HIDE DEF t
  <2>3. PICK j \in 1..n : j \in later
    BY <1>3
  <2>4. PICK k \in 1..Len(t) : t[k] = e
    BY <2>2, <2>3
  <2>5. Len(t) \in Nat \ {0}
    BY <2>2, <2>4
  <2>6. Gains(t, q, e)
    BY <2>2, <2>4, <2>5 DEF Gains
  <2>7. QED
    BY <2>1, <2>2, <2>6
<1>4. QED
  BY <1>2, <1>3

\* Its ends, where the event overtakes something.
LEMMA InsertedEnds ==
  ASSUME NEW E, NEW q \in Seq(E), NEW e \in E, NEW later,
         \E j \in 1..Len(q) : j \in later
  PROVE  LET s == Inserted(q, e, later)
         IN  /\ s[1] = IF 1 \in later THEN e ELSE q[1]
             /\ s[Len(s)] = q[Len(q)]
             /\ \A k \in 1..(Len(s) - 1) :
                  s[k] = e \/ \E j \in 1..(Len(q) - 1) : s[k] = q[j]
<1>1. Len(q) \in 1..Len(q) /\ later # {}
  OBVIOUS
<1>2. Inserted(q, e, later) = Looped(q, e, later)[Len(q)]
  BY <1>1 DEF Inserted
<1>3. QED
  BY <1>1, <1>2, LoopEnds

-----------------------------------------------------------------------------
(* Queues of records with a Timestamp.                                     *)

\* The set E has only such records.
Stamped(E) == \A e \in E : e.ts \in Nat

\* Nothing in a queue has a later timestamp than its front.
FrontIsLatest(q) == \A i \in 1..Len(q) : q[i].ts <= q[1].ts

\* Entries of a queue.
LEMMA RangeIs ==
  ASSUME NEW E, NEW q \in Seq(E)
  PROVE  /\ Range(q) \subseteq E
         /\ \A i \in 1..Len(q) : q[i] \in Range(q)
         /\ \A x \in Range(q) : \E i \in 1..Len(q) : q[i] = x
  BY DEF Range

\* postEvent on a queue of such records.
LEMMA PostedKeeps ==
  ASSUME NEW E, Stamped(E), NEW q \in Seq(E), NEW e \in E
  PROVE  /\ Posted(q, e) \in Seq(E)
         /\ Range(Posted(q, e)) = Range(q) \cup {e}
         /\ FrontIsLatest(q) => FrontIsLatest(Posted(q, e))
         /\ e.ts = 0 => Posted(q, e) = Append(q, e)
         /\ Gains(Posted(q, e), q, e)
<1> DEFINE later == {i \in 1..Len(q) : q[i].ts < e.ts}
           s     == Posted(q, e)
<1>1. /\ s = Inserted(q, e, later)
      /\ later = {} \/ \E j \in 1..Len(q) : j \in later
  BY DEF Posted
<1>2. e.ts \in Nat /\ \A i \in 1..Len(q) : q[i] \in E /\ q[i].ts \in Nat
  BY DEF Stamped
<1>3. \A i \in 1..Len(q) : i \in later <=> q[i].ts < e.ts
  OBVIOUS
<1> HIDE DEF later
<1>4. s \in Seq(E) /\ Gains(s, q, e)
  BY <1>1, InsertedKeeps
<1>5. /\ s \in Seq(E) /\ Len(s) \in Nat \ {0}
      /\ \A j \in 1..Len(q) : \E k \in 1..Len(s) : s[k] = q[j]
      /\ \A k \in 1..Len(s) : s[k] = e \/ \E j \in 1..Len(q) : s[k] = q[j]
      /\ \E k \in 1..Len(s) : s[k] = e
  <2> HIDE DEF s
  <2>1. QED
    BY <1>4 DEF Gains
<1>6. later # {} => s[1] = IF 1 \in later THEN e ELSE q[1]
  BY <1>1, InsertedEnds
<1> HIDE DEF s
<1>7. Range(s) = Range(q) \cup {e}
  <2>1. Range(s) \subseteq Range(q) \cup {e}
    <3> SUFFICES ASSUME NEW x \in Range(s) PROVE x \in Range(q) \cup {e}
      OBVIOUS
    <3>1. PICK k \in 1..Len(s) : s[k] = x
      BY <1>5, RangeIs
    <3>2. QED
      BY <1>5, <3>1, RangeIs
  <2>2. Range(q) \subseteq Range(s)
    <3> SUFFICES ASSUME NEW x \in Range(q) PROVE x \in Range(s)
      OBVIOUS
    <3>1. PICK j \in 1..Len(q) : q[j] = x
      BY RangeIs
    <3>2. PICK k \in 1..Len(s) : s[k] = q[j]
      BY <1>5
    <3>3. QED
      BY <1>5, <3>1, <3>2, RangeIs
  <2>3. e \in Range(s)
    <3>1. PICK k \in 1..Len(s) : s[k] = e
      BY <1>5
    <3>2. QED
      BY <1>5, <3>1, RangeIs
  <2>4. QED
    BY <2>1, <2>2, <2>3
<1>8. later = {} => s = Append(q, e)
  BY <1>1 DEF Inserted
<1>9. ASSUME e.ts = 0
      PROVE  s = Append(q, e)
  <2>1. \A i \in 1..Len(q) : i \notin later
    BY <1>2, <1>3, <1>9
  <2>2. QED
    BY <1>1, <1>8, <2>1
<1>10. ASSUME FrontIsLatest(q)
       PROVE  FrontIsLatest(s)
  <2> SUFFICES ASSUME NEW k \in 1..Len(s) PROVE s[k].ts <= s[1].ts
    BY DEF FrontIsLatest
  <2>1. \A i \in 1..Len(q) : q[i].ts <= q[1].ts
    BY <1>10 DEF FrontIsLatest
  <2>2. CASE later = {}
    <3>1. s = Append(q, e) /\ \A i \in 1..Len(q) : e.ts <= q[i].ts
      BY <1>2, <1>3, <1>8, <2>2
    <3>2. CASE Len(q) = 0
      <4>1. k = 1
        BY <3>1, <3>2
      <4>2. s[1] = e
        BY <3>1, <3>2
      <4>3. QED
        BY <1>2, <4>1, <4>2
    <3>3. CASE Len(q) # 0
      <4>1. 1 \in 1..Len(q) /\ s[1] = q[1]
        BY <3>1, <3>3
      <4>2. s[k] = e \/ (k \in 1..Len(q) /\ s[k] = q[k])
        BY <3>1
      <4>3. QED
        BY <2>1, <3>1, <4>1, <4>2
    <3>4. QED
      BY <3>2, <3>3
  <2>3. CASE later # {}
    <3>1. s[1] = IF 1 \in later THEN e ELSE q[1]
      BY <1>6, <2>3
    <3>2. 1 \in 1..Len(q)
      <4>1. PICK j \in 1..Len(q) : j \in later
        BY <1>1, <2>3
      <4>2. QED
        BY <4>1
    <3>3. s[k] = e \/ \E j \in 1..Len(q) : s[k] = q[j]
      BY <1>5
    <3>4. CASE s[k] = e
      BY <1>2, <1>3, <3>1, <3>2, <3>4
    <3>5. CASE \E j \in 1..Len(q) : s[k] = q[j]
      <4>1. PICK j \in 1..Len(q) : s[k] = q[j]
        BY <3>5
      <4>2. q[j].ts <= q[1].ts
        BY <2>1
      <4>3. QED
        BY <1>2, <1>3, <3>1, <3>2, <4>1, <4>2
    <3>6. QED
      BY <3>3, <3>4, <3>5
  <2>4. QED
    BY <2>2, <2>3
<1>11. QED
  BY <1>4, <1>7, <1>9, <1>10 DEF s

\* An event with a later timestamp than the back leaves the back at the back.
LEMMA PostedBack ==
  ASSUME NEW E, Stamped(E), NEW q \in Seq(E), NEW e \in E, q # <<>>,
         q[Len(q)].ts < e.ts
  PROVE  LET s == Posted(q, e)
         IN  /\ s \in Seq(E) /\ s # <<>> /\ s[Len(s)] = q[Len(q)]
             /\ \A k \in 1..(Len(s) - 1) :
                  s[k] = e \/ \E j \in 1..(Len(q) - 1) : s[k] = q[j]
<1> DEFINE later == {i \in 1..Len(q) : q[i].ts < e.ts}
           s     == Posted(q, e)
<1>1. /\ s = Inserted(q, e, later)
      /\ later = {} \/ \E j \in 1..Len(q) : j \in later
  BY DEF Posted
<1>2. Len(q) \in later
  OBVIOUS
<1> HIDE DEF later
<1>3. s[Len(s)] = q[Len(q)]
      /\ \A k \in 1..(Len(s) - 1) : s[k] = e \/ \E j \in 1..(Len(q) - 1) : s[k] = q[j]
  BY <1>1, <1>2, InsertedEnds
<1>4. s \in Seq(E) /\ Len(s) # 0
  BY <1>1, InsertedKeeps DEF Gains
<1> HIDE DEF s
<1>5. s # <<>>
  BY <1>4
<1>6. QED
  BY <1>3, <1>4, <1>5 DEF s

-----------------------------------------------------------------------------
(* EventServer: postEvent there.                                           *)

\* The queue is a queue of events again, no entry is lost, and nothing but the
\* event posted has come in.
LEMMA EnqueueKeeps ==
  ASSUME NEW q \in Seq(Event), NEW e \in Event
  PROVE  /\ Enqueue(q, e) \in Seq(Event)
         /\ \A i \in 1..Len(q) :
              \E k \in 1..Len(Enqueue(q, e)) : Enqueue(q, e)[k] = q[i]
         /\ \A k \in 1..Len(Enqueue(q, e)) :
              \/ Enqueue(q, e)[k] = e
              \/ \E i \in 1..Len(q) : Enqueue(q, e)[k] = q[i]
<1>1. Overtaken(q, e) = {} \/ \E j \in 1..Len(q) : j \in Overtaken(q, e)
  BY DEF Overtaken
<1>2. Enqueue(q, e) \in Seq(Event) /\ Gains(Enqueue(q, e), q, e)
  BY ONLY <1>1, q \in Seq(Event), e \in Event, InsertedKeeps DEF Enqueue
<1>3. QED
  BY <1>2 DEF Gains

\* The event posted is itself in the queue afterwards.
LEMMA EnqueueAdds ==
  ASSUME NEW q \in Seq(Event), NEW e \in Event
  PROVE  \E k \in 1..Len(Enqueue(q, e)) : Enqueue(q, e)[k] = e
<1>1. Overtaken(q, e) = {} \/ \E j \in 1..Len(q) : j \in Overtaken(q, e)
  BY DEF Overtaken
<1>2. Gains(Enqueue(q, e), q, e)
  BY ONLY <1>1, q \in Seq(Event), e \in Event, InsertedKeeps DEF Enqueue
<1>3. QED
  BY <1>2 DEF Gains

\* An event with a later timestamp than the entry at the back never gets
\* behind that entry.
LEMMA EnqueueKeepsBack ==
  ASSUME NEW q \in Seq(Event), NEW e \in Event, q # <<>>,
         timestamp[q[Len(q)]] < timestamp[e]
  PROVE  /\ Enqueue(q, e) # <<>>
         /\ Enqueue(q, e)[Len(Enqueue(q, e))] = q[Len(q)]
<1>1. Len(q) \in Overtaken(q, e) /\ Len(q) \in 1..Len(q)
  BY DEF Overtaken
<1>2. Enqueue(q, e)[Len(Enqueue(q, e))] = q[Len(q)]
  BY ONLY <1>1, q \in Seq(Event), e \in Event, InsertedEnds DEF Enqueue
<1>3. Enqueue(q, e) # <<>>
  <2>1. \E k \in 1..Len(Enqueue(q, e)) : Enqueue(q, e)[k] = e
    BY EnqueueAdds
  <2>2. Enqueue(q, e) \in Seq(Event)
    BY EnqueueKeeps
  <2>3. QED
    BY <2>1, <2>2
<1>4. QED
  BY <1>2, <1>3

-----------------------------------------------------------------------------
(* The inductive invariant.                                                *)

\* The initial state satisfies it.
LEMMA InitIInv == Init => IInv
<1> SUFFICES ASSUME Init PROVE IInv
  OBVIOUS
<1>1. queue = <<>> /\ stack = <<>> /\ posted = {} /\ delivered = {}
  BY DEF Init
<1>2. Entries = {}
  BY <1>1 DEF Entries
<1>3. TypeOK
  <2>1. <<>> \in Seq(Event) /\ <<>> \in Seq([ev : Event, phase : Phase])
    OBVIOUS
  <2>2. 0 \in Time /\ 0 \in 0..MaxRewinds
    BY MaxTimeAssumption, RewindAssumption DEF Time
  <2>3. QED
    BY <2>1, <2>2 DEF Init, TypeOK
<1>4. BackIsCurrent /\ NeverEarly /\ NothingLost /\ DispatchInv
  BY <1>1, <1>2
  DEF Init, BackIsCurrent, NeverEarly, NothingLost, DispatchInv
<1>5. QED
  BY <1>3, <1>4 DEF IInv

\* postEvent queues e: whatever the queue held, it still holds, and e with it.
LEMMA EnqueueStep ==
  ASSUME TypeOK, NEW e \in Event, queue' = Enqueue(queue, e)
  PROVE  /\ queue' \in Seq(Event)
         /\ Entries' = Entries \cup {e}
<1>1. queue \in Seq(Event)
  BY DEF TypeOK
<1>2. queue' \in Seq(Event)
  BY <1>1, EnqueueKeeps
<1>3. /\ \A i \in 1..Len(queue) : \E k \in 1..Len(queue') : queue'[k] = queue[i]
      /\ \E k \in 1..Len(queue') : queue'[k] = e
      /\ \A k \in 1..Len(queue') :
           queue'[k] = e \/ \E i \in 1..Len(queue) : queue'[k] = queue[i]
  <2> DEFINE new == Enqueue(queue, e)
  <2>1. /\ \A i \in 1..Len(queue) : \E k \in 1..Len(new) : new[k] = queue[i]
        /\ \E k \in 1..Len(new) : new[k] = e
        /\ \A k \in 1..Len(new) :
             new[k] = e \/ \E i \in 1..Len(queue) : new[k] = queue[i]
    BY <1>1, EnqueueKeeps, EnqueueAdds
  <2>2. queue' = new
    OBVIOUS
  <2> HIDE DEF new
  <2>3. QED
    BY <2>1, <2>2
<1>4. Entries \subseteq Entries' /\ e \in Entries'
  <2>1. ASSUME NEW x \in Entries
        PROVE  x \in Entries'
    <3>1. PICK i \in 1..Len(queue) : x = queue[i]
      BY DEF Entries
    <3>2. PICK k \in 1..Len(queue') : queue'[k] = queue[i]
      BY <1>3
    <3>3. QED
      BY <3>1, <3>2 DEF Entries
  <2>2. PICK k \in 1..Len(queue') : queue'[k] = e
    BY <1>3
  <2>3. e \in Entries'
    BY <2>2 DEF Entries
  <2>4. QED
    BY <2>1, <2>3
<1>5. Entries' \subseteq Entries \cup {e}
  <2>1. ASSUME NEW x \in Entries'
        PROVE  x \in Entries \cup {e}
    <3>1. PICK k \in 1..Len(queue') : x = queue'[k]
      BY DEF Entries
    <3>2. CASE queue'[k] = e
      BY <3>1, <3>2
    <3>3. CASE \E i \in 1..Len(queue) : queue'[k] = queue[i]
      BY <3>1, <3>3 DEF Entries
    <3>4. QED
      BY <1>3, <3>2, <3>3
  <2>2. QED
    BY <2>1
<1>6. QED
  BY <1>2, <1>4, <1>5

\* A step that leaves the queue and the dispatches alone.
LEMMA ClockOrFlagStep ==
  ASSUME IInv, UpdateTime \/ RewindTime \/ BeginProcessing \/ EndProcessing
  PROVE  IInv'
<1> USE DEF IInv
<1>1. UNCHANGED <<timestamp, queue, stack, posted, delivered>>
  BY DEF UpdateTime, RewindTime, BeginProcessing, EndProcessing
<1>2. stack = <<>>
  BY DEF UpdateTime, RewindTime, BeginProcessing, EndProcessing, DispatchInv
<1>3. TypeOK'
  <2>1. now' \in Time /\ cutoff' \in Time /\ processing' \in BOOLEAN
    BY DEF UpdateTime, RewindTime, BeginProcessing, EndProcessing, TypeOK
  <2>2. rewinds' \in 0..MaxRewinds
    BY RewindAssumption
    DEF UpdateTime, RewindTime, BeginProcessing, EndProcessing, TypeOK
  <2>3. QED
    BY <1>1, <2>1, <2>2 DEF TypeOK
<1>4. BackIsCurrent'
  BY <1>1, <1>2 DEF BackIsCurrent
<1>5. NeverEarly'
  BY <1>1, <1>2 DEF NeverEarly
<1>6. NothingLost'
  BY <1>1 DEF NothingLost, Entries
<1>7. DispatchInv'
  <2>1. processing' => cutoff' = now'
    BY DEF UpdateTime, RewindTime, BeginProcessing, EndProcessing, TypeOK
  <2>2. QED
    BY <1>1, <1>2, <2>1 DEF DispatchInv, Entries
<1>8. QED
  BY <1>3, <1>4, <1>5, <1>6, <1>7

\* postEvent outside of a dispatch.
LEMMA PostOutsideStep ==
  ASSUME IInv, NEW e \in Event, PostOutside(e)
  PROVE  IInv'
<1> USE DEF IInv
<1>1. queue' \in Seq(Event) /\ Entries' = Entries \cup {e}
  BY EnqueueStep DEF PostOutside
<1>2. stack = <<>>
  BY DEF PostOutside, DispatchInv
<1>3. TypeOK'
  BY <1>1 DEF PostOutside, TypeOK
<1>4. BackIsCurrent' /\ NeverEarly'
  BY <1>2 DEF PostOutside, BackIsCurrent, NeverEarly
<1>5. NothingLost'
  BY <1>1 DEF PostOutside, NothingLost
<1>6. DispatchInv'
  BY <1>1, <1>2 DEF PostOutside, DispatchInv
<1>7. QED
  BY <1>3, <1>4, <1>5, <1>6

\* A handler posts an event of the future. The event at the back is due, so
\* the new one is put in front of it.
LEMMA PostDeferredStep ==
  ASSUME IInv, NEW e \in Event, PostDeferred(e)
  PROVE  IInv'
<1> USE DEF IInv
<1>1. queue' \in Seq(Event) /\ Entries' = Entries \cup {e}
  BY EnqueueStep DEF PostDeferred
<1>2. stack # <<>> /\ stack' = stack /\ queue # <<>> /\ stack[1].ev = Back
  BY DEF PostDeferred, BackIsCurrent
<1>3. timestamp[Back] < timestamp[e]
  <2>1. 1 \in 1..Len(stack)
    BY <1>2, EmptySeq DEF TypeOK
  <2>2. timestamp[Back] <= now
    BY <2>1, <1>2 DEF NeverEarly
  <2>3. Back \in Event
    BY <1>2, EmptySeq DEF TypeOK, Back
  <2>4. timestamp[Back] \in Nat /\ timestamp[e] \in Nat /\ now \in Nat
    BY <2>3 DEF TypeOK, Time
  <2>5. QED
    BY <2>2, <2>4 DEF PostDeferred
<1>4. queue' # <<>> /\ Back' = Back
  BY <1>2, <1>3, EnqueueKeepsBack DEF PostDeferred, TypeOK, Back
<1>5. TypeOK'
  BY <1>1 DEF PostDeferred, TypeOK
<1>6. BackIsCurrent'
  BY <1>2, <1>4 DEF BackIsCurrent
<1>7. NeverEarly'
  BY DEF PostDeferred, NeverEarly
<1>8. NothingLost'
  BY <1>1 DEF PostDeferred, NothingLost
<1>9. DispatchInv'
  BY <1>1 DEF PostDeferred, DispatchInv
<1>10. QED
  BY <1>5, <1>6, <1>7, <1>8, <1>9

\* processEventQueue begins with the entry at the back.
LEMMA DispatchBackStep ==
  ASSUME IInv, DispatchBack
  PROVE  IInv'
<1> USE DEF IInv
<1>1. Back \in Event /\ Back \in Entries
  BY EmptySeq DEF DispatchBack, TypeOK, Back, Entries
<1>2. stack' = <<[ev |-> Back, phase |-> "pre"]>>
  BY DEF DispatchBack
<1>3. TypeOK'
  <2>1. stack' \in Seq([ev : Event, phase : Phase])
    BY <1>1, <1>2 DEF Phase
  <2>2. delivered' \subseteq posted'
    BY <1>1 DEF DispatchBack, TypeOK, DispatchInv
  <2>3. QED
    BY <2>1, <2>2 DEF DispatchBack, TypeOK
<1>4. BackIsCurrent'
  BY <1>2 DEF DispatchBack, BackIsCurrent, Back
<1>5. NeverEarly'
  BY <1>2 DEF DispatchBack, NeverEarly, DispatchInv
<1>6. NothingLost'
  BY DEF DispatchBack, NothingLost, Entries
<1>7. DispatchInv'
  BY <1>2 DEF DispatchBack, DispatchInv, Entries
<1>8. QED
  BY <1>3, <1>4, <1>5, <1>6, <1>7

\* A handler posts and delivers an event at once.
LEMMA PostNestedStep ==
  ASSUME IInv, NEW e \in Event, PostNested(e)
  PROVE  IInv'
<1> USE DEF IInv
<1> DEFINE frame == [ev |-> e, phase |-> "pre"]
<1>1. stack' = Append(stack, frame) /\ frame \in [ev : Event, phase : Phase]
  BY DEF PostNested, Phase
<1>2. stack \in Seq([ev : Event, phase : Phase]) /\ Len(stack) \in Nat \ {0}
  BY EmptySeq DEF TypeOK, PostNested
<1>3. /\ Len(stack') = Len(stack) + 1
      /\ \A i \in 1..Len(stack) : stack'[i] = stack[i]
      /\ stack'[Len(stack) + 1] = frame
  BY <1>1, <1>2, AppendProperties
<1>4. TypeOK'
  BY <1>1, <1>2 DEF PostNested, TypeOK
<1>5. BackIsCurrent'
  <2>1. stack'[1] = stack[1]
    BY <1>2, <1>3
  <2>2. QED
    BY <2>1 DEF PostNested, BackIsCurrent, Back
<1>6. NeverEarly'
  <2>1. ASSUME NEW i \in 1..Len(stack')
        PROVE  timestamp[stack'[i].ev] <= now
    <3>1. CASE i \in 1..Len(stack)
      BY <3>1, <1>3 DEF NeverEarly
    <3>2. CASE i = Len(stack) + 1
      BY <3>2, <1>3 DEF PostNested
    <3>3. QED
      BY <3>1, <3>2, <1>2, <1>3
  <2>2. QED
    BY <2>1 DEF PostNested, NeverEarly
<1>7. NothingLost'
  BY DEF PostNested, NothingLost, Entries
<1>8. DispatchInv'
  <2>1. ASSUME NEW i \in 1..Len(stack')
        PROVE  stack'[i].ev \in delivered'
    <3>1. CASE i \in 1..Len(stack)
      BY <3>1, <1>3 DEF DispatchInv, PostNested
    <3>2. CASE i = Len(stack) + 1
      BY <3>2, <1>3 DEF PostNested
    <3>3. QED
      BY <3>1, <3>2, <1>2, <1>3
  <2>2. QED
    BY <2>1 DEF PostNested, DispatchInv, Entries
<1>9. QED
  BY <1>4, <1>5, <1>6, <1>7, <1>8

\* The next phase of the innermost dispatch is a phase of the same event: of
\* the outermost dispatch because the back of the queue has not moved.
LEMMA PhasePassesStep ==
  ASSUME IInv, PhasePasses
  PROVE  /\ IInv'
         /\ Len(stack') = Len(stack)
         /\ \A i \in 1..Len(stack) : stack'[i].ev = stack[i].ev
<1> USE DEF IInv
<1> DEFINE n     == Len(stack)
           frame == [ev    |-> IF n = 1 THEN Back ELSE stack[n].ev,
                     phase |-> NextPhase(stack[n].phase)]
<1>1. stack \in Seq([ev : Event, phase : Phase]) /\ n \in Nat \ {0}
  BY EmptySeq DEF TypeOK, PhasePasses
<1>2. stack' = [stack EXCEPT ![n] = frame]
  BY DEF PhasePasses
<1>3. frame.ev = stack[n].ev
  BY DEF PhasePasses, BackIsCurrent
<1>4. stack[n] \in [ev : Event, phase : Phase]
  <2>1. n \in 1..n
    BY <1>1
  <2>2. QED
    BY <1>1, <2>1, ElementOfSeq
<1>5. frame \in [ev : Event, phase : Phase]
  BY <1>3, <1>4 DEF NextPhase, Phase
<1> HIDE DEF frame
<1>6. stack' \in Seq([ev : Event, phase : Phase]) /\ Len(stack') = n
  BY <1>1, <1>2, <1>5, ExceptSeq
<1>7. \A i \in 1..n : stack'[i].ev = stack[i].ev
  BY <1>1, <1>2, <1>3
<1>8. UNCHANGED <<timestamp, now, rewinds, queue, processing, cutoff, posted, delivered>>
  BY DEF PhasePasses
<1>9. TypeOK'
  BY <1>6, <1>8 DEF TypeOK
<1>10. BackIsCurrent'
  BY <1>1, <1>7, <1>8 DEF BackIsCurrent, PhasePasses, Back
<1>11. NeverEarly'
  BY <1>6, <1>7, <1>8 DEF NeverEarly
<1>12. NothingLost'
  BY <1>8 DEF NothingLost, Entries
<1>13. DispatchInv'
  <2>1. processing
    BY DEF DispatchInv, PhasePasses
  <2>2. \A i \in 1..Len(stack') : stack'[i].ev \in delivered'
    BY <1>6, <1>7, <1>8 DEF DispatchInv
  <2>3. Entries' = Entries
    BY <1>8 DEF Entries
  <2>4. QED
    BY <1>8, <2>1, <2>2, <2>3 DEF DispatchInv
<1>14. QED
  BY <1>6, <1>7, <1>9, <1>10, <1>11, <1>12, <1>13

\* The nested dispatch ends.
LEMMA NestedEndsStep ==
  ASSUME IInv, NestedEnds
  PROVE  IInv'
<1> USE DEF IInv
<1>1. stack \in Seq([ev : Event, phase : Phase]) /\ Len(stack) \in Nat
  BY DEF TypeOK
<1>2. /\ stack' = SubSeq(stack, 1, Len(stack) - 1)
      /\ Len(stack) > 1
  BY DEF NestedEnds
<1>3. /\ stack' \in Seq([ev : Event, phase : Phase])
      /\ Len(stack') = Len(stack) - 1
      /\ \A i \in 1..Len(stack') : stack'[i] = stack[i]
  <2>1. \A i \in 1..(Len(stack) - 1) : stack[i] \in [ev : Event, phase : Phase]
    <3>1. ASSUME NEW i \in 1..(Len(stack) - 1)
          PROVE  stack[i] \in [ev : Event, phase : Phase]
      <4>1. i \in 1..Len(stack)
        BY <1>1
      <4>2. QED
        BY <1>1, <4>1, ElementOfSeq
    <3>2. QED
      BY <3>1
  <2> DEFINE top == Len(stack) - 1
  <2>2. top \in Int /\ 1 \in Int /\ 1 <= top
    BY <1>1, <1>2
  <2>3. /\ SubSeq(stack, 1, top) \in Seq([ev : Event, phase : Phase])
        /\ Len(SubSeq(stack, 1, top)) = top
        /\ \A i \in 1..top : SubSeq(stack, 1, top)[i] = stack[i]
    <3> HIDE DEF top
    <3>1. \A i \in 1..top : stack[i] \in [ev : Event, phase : Phase]
      BY <2>1 DEF top
    <3>2. QED
      BY <2>2, <3>1, SubSeqProperties
  <2>4. QED
    BY <1>2, <2>3
<1>4. UNCHANGED <<timestamp, now, rewinds, queue, processing, cutoff, posted, delivered>>
  BY DEF NestedEnds
<1>5. TypeOK'
  BY <1>3, <1>4 DEF TypeOK
<1>6. BackIsCurrent'
  <2>1. stack'[1] = stack[1] /\ stack # <<>>
    BY <1>1, <1>2, <1>3, EmptySeq
  <2>2. QED
    BY <2>1, <1>4 DEF BackIsCurrent, Back
<1>7. NeverEarly'
  BY <1>1, <1>3, <1>4 DEF NeverEarly
<1>8. NothingLost'
  BY <1>4 DEF NothingLost, Entries
<1>9. DispatchInv'
  <2>1. stack # <<>>
    BY <1>1, <1>2, EmptySeq
  <2>2. QED
    BY <1>1, <1>3, <1>4, <2>1 DEF DispatchInv, Entries
<1>10. QED
  BY <1>5, <1>6, <1>7, <1>8, <1>9

\* pop_back removes an entry of the event just dispatched.
LEMMA OutermostEndsStep ==
  ASSUME IInv, OutermostEnds
  PROVE  IInv'
<1> USE DEF IInv
<1>1. stack # <<>> /\ queue # <<>> /\ Back \in delivered
  <2>1. stack # <<>> /\ 1 \in 1..Len(stack)
    <3>1. Len(stack) = 1
      BY DEF OutermostEnds
    <3>2. stack # <<>>
      BY <3>1, EmptySeq
    <3>3. QED
      BY <3>1, <3>2
  <2>2. QED
    BY <2>1 DEF BackIsCurrent, DispatchInv
<1>2. queue \in Seq(Event) /\ Len(queue) \in Nat \ {0}
  BY <1>1, EmptySeq DEF TypeOK
<1>3. /\ stack' = <<>>
      /\ queue' = SubSeq(queue, 1, Len(queue) - 1)
      /\ UNCHANGED <<timestamp, now, rewinds, processing, cutoff, posted, delivered>>
  BY DEF OutermostEnds
<1>4. /\ queue' \in Seq(Event)
      /\ Len(queue') = Len(queue) - 1
      /\ \A i \in 1..Len(queue') : queue'[i] = queue[i]
  <2> DEFINE top == Len(queue) - 1
  <2>1. top \in Int /\ 1 \in Int /\ top \in Nat
    BY <1>2
  <2>2. \A i \in 1..top : queue[i] \in Event
    BY <1>2, ElementOfSeq
  <2> HIDE DEF top
  <2>3. /\ SubSeq(queue, 1, top) \in Seq(Event)
        /\ Len(SubSeq(queue, 1, top)) = top
        /\ \A i \in 1..top : SubSeq(queue, 1, top)[i] = queue[i]
    BY <2>1, <2>2, SubSeqProperties
  <2>4. QED
    BY <1>3, <2>3 DEF top
<1>5. Entries \subseteq Entries' \cup {Back} /\ Entries' \subseteq Entries
  BY <1>2, <1>4 DEF Entries, Back
<1>6. TypeOK'
  BY <1>3, <1>4 DEF TypeOK
<1>7. BackIsCurrent' /\ NeverEarly'
  BY <1>3 DEF BackIsCurrent, NeverEarly
<1>8. NothingLost'
  BY <1>1, <1>3, <1>5 DEF NothingLost
<1>9. DispatchInv'
  BY <1>3, <1>5 DEF DispatchInv
<1>10. QED
  BY <1>6, <1>7, <1>8, <1>9

\* Every step keeps the invariant.
LEMMA NextIInv == IInv /\ [Next]_vars => IInv'
<1> SUFFICES ASSUME IInv, [Next]_vars PROVE IInv'
  OBVIOUS
<1>1. CASE UpdateTime \/ RewindTime \/ BeginProcessing \/ EndProcessing
  BY <1>1, ClockOrFlagStep
<1>2. CASE \E e \in Event : PostOutside(e) \/ PostNested(e) \/ PostDeferred(e)
  BY <1>2, PostOutsideStep, PostNestedStep, PostDeferredStep
<1>3. CASE DispatchBack
  BY <1>3, DispatchBackStep
<1>4. CASE PhasePasses
  BY <1>4, PhasePassesStep
<1>5. CASE NestedEnds
  BY <1>5, NestedEndsStep
<1>6. CASE OutermostEnds
  BY <1>6, OutermostEndsStep
<1>7. CASE UNCHANGED vars
  BY <1>7 DEF vars, IInv, TypeOK, BackIsCurrent, Back, NeverEarly, NothingLost,
              DispatchInv, Entries
<1>8. QED
  BY <1>1, <1>2, <1>3, <1>4, <1>5, <1>6, <1>7 DEF Next

\* The invariant holds of every state of the event server.
THEOREM EventServerInvariant == Spec => []IInv
<1>1. QED
  BY InitIInv, NextIInv, PTL DEF Spec

-----------------------------------------------------------------------------
(* What follows from it.                                                   *)

\* Every variable keeps its shape (the fields of CGameEventServer and the
\* frames of its recursion).
THEOREM TypeCorrect == Spec => []TypeOK
<1>1. IInv => TypeOK
  BY DEF IInv
<1>2. QED
  BY <1>1, EventServerInvariant, PTL

\* The entry processEventQueue pops is the one it dispatched.
THEOREM PopsWhatItDispatched == Spec => []BackIsCurrent
<1>1. IInv => BackIsCurrent
  BY DEF IInv
<1>2. QED
  BY <1>1, EventServerInvariant, PTL

\* No listener sees an event before its Timestamp.
THEOREM NeverDispatchedEarly == Spec => []NeverEarly
<1>1. IInv => NeverEarly
  BY DEF IInv
<1>2. QED
  BY <1>1, EventServerInvariant, PTL

\* No posted event is lost.
THEOREM NoEventLost == Spec => []NothingLost
<1>1. IInv => NothingLost
  BY DEF IInv
<1>2. QED
  BY <1>1, EventServerInvariant, PTL

\* The outermost dispatch is of one event from its PRE to its POST phase,
\* although every phase reads the back of the queue afresh.
THEOREM PhasesAreOfOneEvent == Spec => OneEventThroughPhases
<1> DEFINE OneEvent == stack # <<>> /\ stack' # <<>> => stack'[1].ev = stack[1].ev
<1>1. IInv /\ [Next]_vars => [OneEvent]_vars
  <2> SUFFICES ASSUME IInv, Next, stack # <<>>, stack' # <<>>
               PROVE  stack'[1].ev = stack[1].ev
    OBVIOUS
  <2> USE DEF IInv
  <2>1. stack \in Seq([ev : Event, phase : Phase]) /\ Len(stack) \in Nat \ {0}
    BY EmptySeq DEF TypeOK
  <2>2. CASE UpdateTime \/ RewindTime \/ BeginProcessing \/ EndProcessing
    BY <2>2 DEF UpdateTime, RewindTime, BeginProcessing, EndProcessing
  <2>3. CASE \E e \in Event : PostOutside(e) \/ PostDeferred(e)
    BY <2>3 DEF PostOutside, PostDeferred
  <2>4. CASE \E e \in Event : PostNested(e)
    <3>1. PICK e \in Event : stack' = Append(stack, [ev |-> e, phase |-> "pre"])
      BY <2>4 DEF PostNested
    <3>2. [ev |-> e, phase |-> "pre"] \in [ev : Event, phase : Phase]
      BY DEF Phase
    <3>3. QED
      BY <2>1, <3>1, <3>2, AppendProperties
  <2>5. CASE DispatchBack
    BY <2>5 DEF DispatchBack
  <2>6. CASE PhasePasses
    BY <2>1, <2>6, PhasePassesStep
  <2>7. CASE NestedEnds
    <3> DEFINE top == Len(stack) - 1
    <3>1. top \in Nat \ {0} /\ stack' = SubSeq(stack, 1, top)
      BY <2>1, <2>7 DEF NestedEnds
    <3>2. ASSUME NEW i \in 1..top
          PROVE  stack[i] \in [ev : Event, phase : Phase]
      <4>1. i \in 1..Len(stack)
        BY <2>1
      <4>2. QED
        BY <2>1, <4>1, ElementOfSeq
    <3> HIDE DEF top
    <3>3. \A i \in 1..top : stack'[i] = stack[i]
      <4>1. top \in Int /\ 1 \in Int
        BY <3>1
      <4>2. \A i \in 1..(top - 1 + 1) : stack'[i] = stack[1 + i - 1]
        BY <3>1, <3>2, <4>1, SubSeqProperties
      <4>3. QED
        BY <3>1, <4>2
    <3>4. QED
      BY <3>1, <3>3
  <2>8. CASE OutermostEnds
    BY <2>8 DEF OutermostEnds
  <2>9. QED
    BY <2>2, <2>3, <2>4, <2>5, <2>6, <2>7, <2>8 DEF Next
<1>2. QED
  BY <1>1, EventServerInvariant, PTL DEF Spec, OneEventThroughPhases

-----------------------------------------------------------------------------
(* Refinement.                                                             *)

\* The queue with its misplaced and repeated entries, its phases and its
\* recursion still implements a mailbox that never delivers early.
THEOREM QueueImplementsMailbox == Spec => ImplementsMailbox
<1>1. Init => Mailbox!MailboxInit
  BY DEF Init, Mailbox!MailboxInit, Time
<1>2. IInv /\ [Next]_vars => [Mailbox!MailboxNext]_(Mailbox!mailboxVars)
  <2> SUFFICES ASSUME IInv, [Next]_vars
               PROVE  [Mailbox!MailboxNext]_(Mailbox!mailboxVars)
    OBVIOUS
  <2> USE DEF IInv
  <2>1. CASE UpdateTime \/ RewindTime
    BY <2>1 DEF UpdateTime, RewindTime, Mailbox!MailboxNext, Mailbox!Clock, Time
  <2>2. CASE \E e \in Event : PostOutside(e) \/ PostDeferred(e)
    BY <2>2 DEF PostOutside, PostDeferred, Mailbox!MailboxNext, Mailbox!Accept
  <2>3. CASE \E e \in Event : PostNested(e)
    BY <2>3 DEF PostNested, Mailbox!MailboxNext, Mailbox!AcceptAndDeliver
  <2>4. CASE DispatchBack
    <3>1. Back \in Event /\ Back \in posted
      BY <2>4, EmptySeq DEF DispatchBack, TypeOK, Back, DispatchInv, Entries
    <3>2. timestamp[Back] <= now
      BY <2>4 DEF DispatchBack, DispatchInv
    <3>3. Mailbox!Deliver(Back)
      BY <2>4, <3>1, <3>2 DEF DispatchBack, Mailbox!Deliver
    <3>4. QED
      BY <3>1, <3>3 DEF Mailbox!MailboxNext
  <2>5. CASE BeginProcessing \/ EndProcessing \/ PhasePasses \/ NestedEnds \/ OutermostEnds
    BY <2>5 DEF BeginProcessing, EndProcessing, PhasePasses, NestedEnds,
                OutermostEnds, Mailbox!mailboxVars
  <2>6. CASE UNCHANGED vars
    BY <2>6 DEF vars, Mailbox!mailboxVars
  <2>7. QED
    BY <2>1, <2>2, <2>3, <2>4, <2>5, <2>6 DEF Next
<1>3. QED
  BY <1>1, <1>2, EventServerInvariant, PTL
  DEF Spec, ImplementsMailbox, Mailbox!MailboxSafety

\* A run of processEventQueue: the entries kept are a front part of the queue,
\* the last of them is not due, and the others are all due.
LEMMA KeptIs ==
  ASSUME NEW E, Stamped(E), NEW q \in Seq(E), NEW time \in Nat
  PROVE  LET k == NumberKept(q, time)
         IN  /\ k \in 0..Len(q)
             /\ \A j \in (k + 1)..Len(q) : q[j].ts <= time
             /\ k # 0 => time < q[k].ts
             /\ Kept(q, time) \in Seq(E) /\ Len(Kept(q, time)) = k
             /\ \A i \in 1..k : Kept(q, time)[i] = q[i]
             /\ HandedOut(q, time) \in Seq(E) /\ Len(HandedOut(q, time)) = Len(q) - k
             /\ \A i \in 1..(Len(q) - k) : HandedOut(q, time)[i] = q[Len(q) + 1 - i]
<1> DEFINE k == NumberKept(q, time)
           F == FirstKept(q, time)
           n == Len(q)
<1>1. n \in Nat /\ \A i \in 1..n : q[i] \in E /\ q[i].ts \in Nat
  BY DEF Stamped
<1>2. n \in F /\ F \subseteq 0..n
  BY <1>1 DEF FirstKept
<1>3. \E i \in F : \A j \in F : i <= j
  <2>1. PICK x \in F : \A y \in F : ~(<<y, x>> \in Below)
    <3>1. F \in SUBSET Nat /\ F # {}
      BY <1>1, <1>2
    <3> HIDE DEF F
    <3>2. QED
      BY <3>1, BelowWF, WFMin
  <2>2. ASSUME NEW y \in F
        PROVE  x <= y
    <3>1. x \in Nat /\ y \in Nat
      BY <1>1, <1>2
    <3>2. ~(y < x)
      BY <2>1, <3>1 DEF Below
    <3>3. QED
      BY <3>1, <3>2
  <2>3. QED
    BY <2>2
<1>4. k \in F /\ \A j \in F : k <= j
  <2> HIDE DEF F
  <2>1. k = CHOOSE i \in F : \A j \in F : i <= j
    BY DEF NumberKept, F
  <2> HIDE DEF k
  <2>2. QED
    BY <1>3, <2>1
<1>5. k \in 0..n /\ \A j \in (k + 1)..n : q[j].ts <= time
  BY <1>4 DEF FirstKept, Due
<1>6. Kept(q, time) = SubSeq(q, 1, k)
  BY DEF Kept
<1>7. HandedOut(q, time) = [i \in 1..(n - k) |-> q[n + 1 - i]]
  BY DEF HandedOut
<1> HIDE DEF k
<1>8. ASSUME k # 0
      PROVE  time < q[k].ts
  <2>1. k - 1 \notin F
    BY <1>1, <1>4, <1>5, <1>8
  <2>2. k - 1 \in 0..n /\ k \in 1..n
    BY <1>1, <1>5, <1>8
  <2>3. PICK j \in ((k - 1) + 1)..n : ~(q[j].ts <= time)
    BY <2>1, <2>2 DEF FirstKept, Due
  <2>4. j = k
    BY <1>1, <1>5, <2>2, <2>3
  <2>5. QED
    BY <1>1, <2>2, <2>3, <2>4
<1>9. /\ SubSeq(q, 1, k) \in Seq(E) /\ Len(SubSeq(q, 1, k)) = k
      /\ \A i \in 1..k : SubSeq(q, 1, k)[i] = q[i]
  BY <1>1, <1>5
<1>10. /\ [i \in 1..(n - k) |-> q[n + 1 - i]] \in Seq(E)
       /\ Len([i \in 1..(n - k) |-> q[n + 1 - i]]) = n - k
  <2>1. n - k \in Nat
    BY <1>1, <1>5
  <2>2. \A i \in 1..(n - k) : n + 1 - i \in 1..n
    BY <1>1, <1>5
  <2>3. \A i \in 1..(n - k) : q[n + 1 - i] \in E
    BY <1>1, <2>2
  <2> HIDE DEF n
  <2>4. QED
    BY <2>1, <2>3
<1>11. QED
  BY <1>5, <1>6, <1>7, <1>8, <1>9, <1>10 DEF k

-----------------------------------------------------------------------------
(* The messages that reach a queue in a frame.                             *)

\* The queues after each of the messages.
PostsEach(after, q, channel, n) ==
  /\ after[0] = q
  /\ \A i \in 1..n : after[i] = Posted(after[i - 1], channel[i])
  /\ after[n] = Received(q, channel, n)

\* What Received is, message by message.
LEMMA ReceivedRuns ==
  ASSUME NEW E, Stamped(E), NEW q \in Seq(E), NEW channel \in Seq(E),
         NEW n \in 0..Len(channel)
  PROVE  \E after \in [0..n -> Seq(E)] : PostsEach(after, q, channel, n)
<1> DEFINE is(f) == f = [i \in 0..n |-> IF i = 0 THEN q ELSE Posted(f[i - 1], channel[i])]
           step  == [p \in Seq(E) \X (1..n) |-> Posted(p[1], channel[p[2]])]
<1>1. n \in Nat /\ \A i \in 1..n : channel[i] \in E
  OBVIOUS
<1>2. step \in [Seq(E) \X (1..n) -> Seq(E)]
  BY <1>1, PostedKeeps
<1>3. PICK f \in [0..n -> Seq(E)] : Runs(f, q, step, n)
  <2> DEFINE S == Seq(E)
  <2>1. q \in S /\ step \in [S \X (1..n) -> S]
    BY <1>2
  <2> HIDE DEF step, S
  <2>2. \E f \in [0..n -> S] : Runs(f, q, step, n)
    BY <1>1, <2>1, Recursion
  <2>3. QED
    BY <2>2 DEF S
<1>4. \A i \in 0..n : f[i] = IF i = 0 THEN q ELSE Posted(f[i - 1], channel[i])
  <2> SUFFICES ASSUME NEW i \in 0..n, i # 0
               PROVE  f[i] = Posted(f[i - 1], channel[i])
    BY <1>3 DEF Runs
  <2>1. i \in 1..n /\ f[i - 1] \in Seq(E)
    BY <1>1
  <2>2. step[<<f[i - 1], i>>] = Posted(f[i - 1], channel[i])
    BY <2>1
  <2> HIDE DEF step
  <2>3. QED
    BY <1>3, <2>2 DEF Runs
<1>5. is(f)
  <2>1. f = [i \in 0..n |-> f[i]]
    OBVIOUS
  <2>2. QED
    BY <1>4, <2>1
<1> DEFINE g == CHOOSE h : is(h)
<1>6. is(g)
  <2> HIDE DEF is
  <2>1. QED
    BY <1>5
<1>7. Received(q, channel, n) = g[n]
  BY DEF Received
<1> HIDE DEF g
<1>8. \A i \in 0..n : g[i] = IF i = 0 THEN q ELSE Posted(g[i - 1], channel[i])
  <2> SUFFICES ASSUME NEW i \in 0..n
               PROVE  g[i] = IF i = 0 THEN q ELSE Posted(g[i - 1], channel[i])
    OBVIOUS
  <2>1. QED
    BY <1>6, Zenon
<1>9. g \in [0..n -> Seq(E)]
  <2> DEFINE T == {i \in 0..n : g[i] \in Seq(E)}
  <2>1. 0 \in T
    BY <1>1, <1>8
  <2>2. ASSUME NEW i \in 0..(n - 1), i \in T
        PROVE  i + 1 \in T
    <3>1. i + 1 \in 1..n /\ i + 1 \in 0..n /\ (i + 1) - 1 = i /\ i + 1 # 0
      BY <1>1
    <3>2. g[i + 1] = Posted(g[i], channel[i + 1])
      BY <1>8, <3>1
    <3>3. g[i] \in Seq(E) /\ channel[i + 1] \in E
      BY <1>1, <2>2, <3>1
    <3>4. Posted(g[i], channel[i + 1]) \in Seq(E)
      BY <3>3, PostedKeeps
    <3>5. QED
      BY <3>1, <3>2, <3>4
  <2>3. 0..n \subseteq T
    <3> HIDE DEF T
    <3>1. QED
      BY <1>1, <2>1, <2>2, UpTo
  <2>4. g = [i \in 0..n |-> IF i = 0 THEN q ELSE Posted(g[i - 1], channel[i])]
    BY <1>6
  <2>5. DOMAIN g = 0..n /\ g = [i \in 0..n |-> g[i]]
    BY <1>8, <2>4, Zenon
  <2>6. QED
    BY <2>3, <2>5
<1>10. \A i \in 1..n : g[i] = Posted(g[i - 1], channel[i])
  BY <1>1, <1>8
<1>11. g[0] = q
  BY <1>1, <1>8
<1>12. QED
  BY <1>7, <1>9, <1>10, <1>11 DEF PostsEach

\* The entries of the queue once the messages are posted.
LEMMA ReceivedKeeps ==
  ASSUME NEW E, Stamped(E), NEW q \in Seq(E), NEW channel \in Seq(E),
         NEW n \in 0..Len(channel)
  PROVE  /\ Received(q, channel, n) \in Seq(E)
         /\ \A x \in Range(q) : x \in Range(Received(q, channel, n))
         /\ \A i \in 1..n : channel[i] \in Range(Received(q, channel, n))
         /\ \A x \in Range(Received(q, channel, n)) :
              x \in Range(q) \/ \E i \in 1..n : x = channel[i]
         /\ FrontIsLatest(q) => FrontIsLatest(Received(q, channel, n))
<1>1. PICK after \in [0..n -> Seq(E)] : PostsEach(after, q, channel, n)
  BY ReceivedRuns
<1>2. /\ after[0] = q
      /\ \A i \in 1..n : after[i] = Posted(after[i - 1], channel[i])
      /\ after[n] = Received(q, channel, n)
  BY <1>1 DEF PostsEach
<1> DEFINE old(i)  == \A x \in Range(q) : x \in Range(after[i])
           new(i)  == \A j \in 1..i : channel[j] \in Range(after[i])
           only(i) == \A x \in Range(after[i]) : x \in Range(q) \/ \E j \in 1..i : x = channel[j]
           front(i) == FrontIsLatest(q) => FrontIsLatest(after[i])
           T == {i \in 0..n : old(i) /\ new(i) /\ only(i) /\ front(i)}
<1>3. n \in Nat /\ \A i \in 1..n : channel[i] \in E
  OBVIOUS
<1>4. 0 \in T
  BY <1>2, <1>3
<1>5. ASSUME NEW i \in 0..(n - 1), i \in T
      PROVE  i + 1 \in T
  <2> DEFINE s == after[i]
             e == channel[i + 1]
             t == after[i + 1]
  <2>1. i + 1 \in 1..n /\ i + 1 \in 0..n /\ i \in 0..n /\ (i + 1) - 1 = i
    BY <1>3
  <2>2. s \in Seq(E) /\ e \in E /\ t = Posted(s, e)
    BY <1>2, <1>3, <2>1
  <2> HIDE DEF s, e, t
  <2>3. Range(t) = Range(s) \cup {e} /\ (FrontIsLatest(s) => FrontIsLatest(t))
    <3>1. Stamped(E) /\ s \in Seq(E) /\ e \in E
      BY <2>2
    <3>2. Range(Posted(s, e)) = Range(s) \cup {e}
      BY ONLY <3>1, PostedKeeps
    <3>3. FrontIsLatest(s) => FrontIsLatest(Posted(s, e))
      BY <2>2, PostedKeeps
    <3>4. QED
      BY <2>2, <3>2, <3>3
  <2>4. old(i) /\ new(i) /\ only(i) /\ front(i)
    BY <1>5
  <2>5. old(i + 1) /\ front(i + 1)
    BY <2>3, <2>4 DEF s, t
  <2>6. new(i + 1)
    <3> SUFFICES ASSUME NEW j \in 1..(i + 1) PROVE channel[j] \in Range(after[i + 1])
      OBVIOUS
    <3>1. CASE j = i + 1
      BY <2>3, <3>1 DEF e, t
    <3>2. CASE j \in 1..i
      BY <2>3, <2>4, <3>2 DEF s, t
    <3>3. QED
      BY <2>1, <3>1, <3>2
  <2>7. only(i + 1)
    <3> SUFFICES ASSUME NEW x \in Range(after[i + 1])
                 PROVE  x \in Range(q) \/ \E j \in 1..(i + 1) : x = channel[j]
      OBVIOUS
    <3>1. CASE x = e
      <4>1. i + 1 \in 1..(i + 1) /\ x = channel[i + 1]
        BY <2>1, <3>1 DEF e
      <4>2. QED
        BY <4>1
    <3>2. CASE x \in Range(after[i])
      <4>1. x \in Range(q) \/ \E j \in 1..i : x = channel[j]
        BY <2>4, <3>2
      <4>2. \A j \in 1..i : j \in 1..(i + 1)
        BY <2>1
      <4>3. QED
        BY <4>1, <4>2
    <3>3. QED
      BY <2>3, <3>1, <3>2 DEF s, t
  <2> HIDE DEF old, new, only, front
  <2>8. QED
    BY <2>1, <2>5, <2>6, <2>7
<1>6. n \in T
  <2> HIDE DEF T
  <2>1. 0..n \subseteq T
    BY <1>3, <1>4, <1>5, UpTo
  <2>2. QED
    BY <1>3, <2>1
<1>7. after[n] \in Seq(E)
  BY <1>3
<1>8. QED
  BY <1>2, <1>6, <1>7

\* Messages without a timestamp are appended as they come.
LEMMA ReceivedAtOnce ==
  ASSUME NEW E, Stamped(E), NEW q \in Seq(E), NEW channel \in Seq(E),
         NEW n \in 0..Len(channel), \A i \in 1..n : channel[i].ts = 0
  PROVE  /\ Received(q, channel, n) \in Seq(E)
         /\ Len(Received(q, channel, n)) = Len(q) + n
         /\ \A i \in 1..Len(q) : Received(q, channel, n)[i] = q[i]
         /\ \A i \in 1..n : Received(q, channel, n)[Len(q) + i] = channel[i]
<1>1. PICK after \in [0..n -> Seq(E)] : PostsEach(after, q, channel, n)
  BY ReceivedRuns
<1>2. /\ after[0] = q
      /\ \A i \in 1..n : after[i] = Posted(after[i - 1], channel[i])
      /\ after[n] = Received(q, channel, n)
  BY <1>1 DEF PostsEach
<1> DEFINE is(i) == /\ Len(after[i]) = Len(q) + i
                    /\ \A j \in 1..Len(q) : after[i][j] = q[j]
                    /\ \A j \in 1..i : after[i][Len(q) + j] = channel[j]
           T == {i \in 0..n : is(i)}
<1>3. n \in Nat /\ Len(q) \in Nat /\ \A i \in 1..n : channel[i] \in E
  OBVIOUS
<1>4. 0 \in T
  BY <1>2, <1>3
<1>5. ASSUME NEW i \in 0..(n - 1), i \in T
      PROVE  i + 1 \in T
  <2> DEFINE s == after[i]
             e == channel[i + 1]
             t == after[i + 1]
  <2>1. i + 1 \in 1..n /\ i + 1 \in 0..n /\ i \in 0..n /\ (i + 1) - 1 = i
    BY <1>3
  <2>2. s \in Seq(E) /\ e \in E /\ e.ts = 0 /\ t = Posted(s, e)
    BY <1>2, <1>3, <2>1
  <2>3. t = Append(s, e)
    <3> HIDE DEF s, e, t
    <3>1. QED
      BY <2>2, PostedKeeps
  <2>4. is(i)
    BY <1>5
  <2>5. is(i + 1)
    <3> HIDE DEF s, e, t
    <3>1. Len(s) = Len(q) + i
      BY <2>4 DEF s
    <3>2. /\ Len(t) = Len(s) + 1 /\ t[Len(s) + 1] = e
          /\ \A j \in 1..Len(s) : t[j] = s[j]
      BY <2>2, <2>3
    <3>3. Len(t) = Len(q) + (i + 1) /\ t[Len(q) + (i + 1)] = e
      BY <1>3, <2>1, <3>1, <3>2
    <3>4. \A j \in 1..Len(q) : t[j] = q[j]
      BY <1>3, <2>1, <2>4, <3>1, <3>2 DEF s
    <3>5. ASSUME NEW j \in 1..(i + 1)
          PROVE  t[Len(q) + j] = channel[j]
      <4>1. CASE j = i + 1
        BY <3>3, <4>1 DEF e
      <4>2. CASE j \in 1..i
        <5>1. Len(q) + j \in 1..Len(s)
          BY <1>3, <2>1, <3>1, <4>2
        <5>2. s[Len(q) + j] = channel[j]
          BY <2>4, <4>2 DEF s
        <5>3. QED
          BY <3>2, <5>1, <5>2
      <4>3. QED
        BY <2>1, <4>1, <4>2
    <3>6. QED
      BY <3>3, <3>4, <3>5 DEF t
  <2> HIDE DEF is
  <2>6. QED
    BY <2>1, <2>5
<1>6. n \in T
  <2> HIDE DEF T
  <2>1. 0..n \subseteq T
    BY <1>3, <1>4, <1>5, UpTo
  <2>2. QED
    BY <1>3, <2>1
<1>7. after[n] \in Seq(E)
  BY <1>3
<1>8. QED
  BY <1>2, <1>6, <1>7

-----------------------------------------------------------------------------
(* Where a request, an Add or a Remove sits in a queue.                    *)

\* Only the changes of E have a timestamp.
Timed(E) == \A e \in E : e.ts \in Nat /\ (e.kind = "change" <=> e.ts # 0)

\* The control c is at the back, and it is the only one.
AtBack(q, c) == q # <<>> /\ Controls(q) = {Len(q)} /\ q[Len(q)] = c

Several(q) == \E i, j \in Controls(q) : i < j

\* One event posted.
LEMMA PostedControls ==
  ASSUME NEW E, Timed(E), NEW q \in Seq(E), NEW e \in E
  PROVE  /\ e.kind = "change" /\ Controls(q) = {} => Controls(Posted(q, e)) = {}
         /\ \A c : e.kind = "change" /\ AtBack(q, c) => AtBack(Posted(q, e), c)
         /\ e.kind # "change" /\ Controls(q) = {} => AtBack(Posted(q, e), e)
         /\ e.kind # "change" /\ Controls(q) # {} => Several(Posted(q, e))
         /\ Several(q) => Several(Posted(q, e))
<1> DEFINE s == Posted(q, e)
<1>1. Stamped(E) /\ e.ts \in Nat
  BY DEF Stamped, Timed
<1>2. /\ s \in Seq(E) /\ Range(s) = Range(q) \cup {e}
      /\ e.ts = 0 => s = Append(q, e)
      /\ Gains(s, q, e)
  BY <1>1, PostedKeeps
<1>3. /\ s \in Seq(E) /\ Range(s) = Range(q) \cup {e}
      /\ e.ts = 0 => s = Append(q, e)
      /\ \A a, b \in 1..Len(q) :
           a < b => \E k, l \in 1..Len(s) : k < l /\ s[k] = q[a] /\ s[l] = q[b]
  <2> HIDE DEF s
  <2>1. QED
    BY <1>2 DEF Gains
<1>4. Len(q) \in Nat /\ Len(s) \in Nat
  BY <1>3
<1>5. q # <<>> /\ q[Len(q)].ts < e.ts =>
        /\ s # <<>> /\ s[Len(s)] = q[Len(q)]
        /\ \A k \in 1..(Len(s) - 1) : s[k] = e \/ \E j \in 1..(Len(q) - 1) : s[k] = q[j]
  BY <1>1, PostedBack
<1> HIDE DEF s
<1>6. e.kind # "change" => /\ Len(s) = Len(q) + 1 /\ s[Len(q) + 1] = e
                           /\ \A i \in 1..Len(q) : s[i] = q[i]
  <2> SUFFICES ASSUME e.kind # "change"
               PROVE  /\ Len(s) = Len(q) + 1 /\ s[Len(q) + 1] = e
                      /\ \A i \in 1..Len(q) : s[i] = q[i]
    OBVIOUS
  <2>1. e.ts = 0
    BY DEF Timed
  <2>2. s = Append(q, e)
    BY <1>3, <2>1
  <2>3. QED
    BY <2>2
<1>7. ASSUME e.kind = "change", Controls(q) = {}
      PROVE  Controls(s) = {}
  <2> SUFFICES ASSUME NEW k \in 1..Len(s) PROVE s[k].kind = "change"
    BY DEF Controls
  <2>1. s[k] \in Range(q) \cup {e}
    BY <1>3, RangeIs
  <2>2. \A i \in 1..Len(q) : q[i].kind = "change"
    BY <1>7 DEF Controls
  <2>3. QED
    BY <1>7, <2>1, <2>2, RangeIs
<1>8. ASSUME NEW c, e.kind = "change", AtBack(q, c)
      PROVE  AtBack(s, c)
  <2>1. q # <<>> /\ Len(q) \in 1..Len(q) /\ q[Len(q)] = c
        /\ q[Len(q)].kind # "change"
        /\ \A i \in 1..(Len(q) - 1) : q[i].kind = "change"
    BY <1>4, <1>8 DEF AtBack, Controls
  <2>2. q[Len(q)].ts = 0 /\ e.ts # 0
    BY <1>8, <2>1 DEF Timed
  <2>3. /\ s # <<>> /\ s[Len(s)] = q[Len(q)]
        /\ \A k \in 1..(Len(s) - 1) : s[k] = e \/ \E j \in 1..(Len(q) - 1) : s[k] = q[j]
    BY <1>1, <1>5, <2>1, <2>2
  <2>4. \A k \in 1..(Len(s) - 1) : s[k].kind = "change"
    BY <1>8, <2>1, <2>3
  <2>5. Len(s) \in 1..Len(s)
    BY <1>3, <2>3
  <2>6. Controls(s) = {Len(s)}
    BY <1>4, <2>1, <2>3, <2>4, <2>5 DEF Controls
  <2>7. QED
    BY <2>1, <2>3, <2>6 DEF AtBack
<1>9. ASSUME e.kind # "change", Controls(q) = {}
      PROVE  AtBack(s, e)
  <2>1. \A i \in 1..Len(q) : q[i].kind = "change"
    BY <1>9 DEF Controls
  <2>2. Controls(s) = {Len(s)}
    BY <1>4, <1>6, <1>9, <2>1 DEF Controls
  <2>3. s # <<>> /\ s[Len(s)] = e
    BY <1>4, <1>6, <1>9
  <2>4. QED
    BY <2>2, <2>3 DEF AtBack
<1>10. ASSUME e.kind # "change", Controls(q) # {}
       PROVE  Several(s)
  <2>1. PICK i \in 1..Len(q) : q[i].kind # "change"
    BY <1>10 DEF Controls
  <2>2. i \in Controls(s) /\ Len(q) + 1 \in Controls(s) /\ i < Len(q) + 1
    BY <1>4, <1>6, <1>10, <2>1 DEF Controls
  <2>3. QED
    BY <2>2 DEF Several
<1>11. ASSUME Several(q)
       PROVE  Several(s)
  <2>1. PICK a \in 1..Len(q), b \in 1..Len(q) :
          a < b /\ q[a].kind # "change" /\ q[b].kind # "change"
    BY <1>11 DEF Several, Controls
  <2>2. PICK k \in 1..Len(s), l \in 1..Len(s) : k < l /\ s[k] = q[a] /\ s[l] = q[b]
    BY <1>3, <2>1
  <2>3. k \in Controls(s) /\ l \in Controls(s)
    BY <2>1, <2>2 DEF Controls
  <2>4. QED
    BY <2>2, <2>3 DEF Several
<1>12. QED
  BY <1>7, <1>8, <1>9, <1>10, <1>11 DEF s

\* Changes leave the control at the back where it is.
LEMMA ReceivedBehind ==
  ASSUME NEW E, Timed(E), NEW q \in Seq(E), NEW channel \in Seq(E),
         NEW n \in 0..Len(channel), \A i \in 1..n : channel[i].kind = "change",
         NEW c, AtBack(q, c)
  PROVE  AtBack(Received(q, channel, n), c)
<1>1. Stamped(E)
  BY DEF Stamped, Timed
<1>2. PICK after \in [0..n -> Seq(E)] : PostsEach(after, q, channel, n)
  BY <1>1, ReceivedRuns
<1>3. /\ after[0] = q
      /\ \A i \in 1..n : after[i] = Posted(after[i - 1], channel[i])
      /\ after[n] = Received(q, channel, n)
  BY <1>2 DEF PostsEach
<1> DEFINE T == {i \in 0..n : AtBack(after[i], c)}
<1>4. n \in Nat /\ \A i \in 1..n : channel[i] \in E
  OBVIOUS
<1>5. 0 \in T
  BY <1>3, <1>4
<1>6. ASSUME NEW i \in 0..(n - 1), i \in T
      PROVE  i + 1 \in T
  <2>1. i + 1 \in 1..n /\ i + 1 \in 0..n /\ i \in 0..n /\ (i + 1) - 1 = i
    BY <1>4
  <2>2. /\ after[i] \in Seq(E) /\ channel[i + 1] \in E /\ channel[i + 1].kind = "change"
        /\ after[i + 1] = Posted(after[i], channel[i + 1]) /\ AtBack(after[i], c)
    BY <1>3, <1>4, <1>6, <2>1
  <2>3. AtBack(Posted(after[i], channel[i + 1]), c)
    BY ONLY <2>2, Timed(E), PostedControls
  <2>4. QED
    BY <2>1, <2>2, <2>3
<1>7. 0..n \subseteq T
  <2> HIDE DEF T
  <2>1. QED
    BY <1>4, <1>5, <1>6, UpTo
<1>8. QED
  BY <1>3, <1>4, <1>7

\* One control among the messages is at the back afterwards.
LEMMA ReceivedOne ==
  ASSUME NEW E, Timed(E), NEW q \in Seq(E), NEW channel \in Seq(E),
         NEW n \in 0..Len(channel), Controls(q) = {}, NEW m \in 1..n,
         \A i \in 1..n : channel[i].kind = "change" <=> i # m
  PROVE  AtBack(Received(q, channel, n), channel[m])
<1>1. Stamped(E)
  BY DEF Stamped, Timed
<1>2. PICK after \in [0..n -> Seq(E)] : PostsEach(after, q, channel, n)
  BY <1>1, ReceivedRuns
<1>3. /\ after[0] = q
      /\ \A i \in 1..n : after[i] = Posted(after[i - 1], channel[i])
      /\ after[n] = Received(q, channel, n)
  BY <1>2 DEF PostsEach
<1> DEFINE is(i) == IF i < m THEN Controls(after[i]) = {} ELSE AtBack(after[i], channel[m])
           T == {i \in 0..n : is(i)}
<1>4. n \in Nat /\ m \in Nat /\ m # 0 /\ m <= n /\ \A i \in 1..n : channel[i] \in E
  OBVIOUS
<1>5. 0 \in T
  BY <1>3, <1>4
<1>6. ASSUME NEW i \in 0..(n - 1), i \in T
      PROVE  i + 1 \in T
  <2>1. i + 1 \in 1..n /\ i + 1 \in 0..n /\ i \in 0..n /\ (i + 1) - 1 = i
    BY <1>4
  <2>2. /\ after[i] \in Seq(E) /\ channel[i + 1] \in E
        /\ after[i + 1] = Posted(after[i], channel[i + 1])
    BY <1>3, <1>4, <2>1
  <2>3. is(i)
    BY <1>6
  <2>4. CASE i + 1 < m
    <3>1. Controls(after[i]) = {} /\ channel[i + 1].kind = "change"
      BY <1>4, <2>1, <2>3, <2>4
    <3>2. Controls(Posted(after[i], channel[i + 1])) = {}
      BY ONLY <2>2, <3>1, Timed(E), PostedControls
    <3>3. QED
      BY <2>1, <2>2, <2>4, <3>2
  <2>5. CASE i + 1 = m
    <3>1. Controls(after[i]) = {} /\ channel[i + 1].kind # "change"
      BY <1>4, <2>1, <2>3, <2>5
    <3>2. AtBack(Posted(after[i], channel[i + 1]), channel[i + 1])
      BY ONLY <2>2, <3>1, Timed(E), PostedControls
    <3>3. AtBack(after[i + 1], channel[m]) /\ ~(i + 1 < m)
      BY <1>4, <2>2, <2>5, <3>2
    <3>4. QED
      BY <2>1, <3>3
  <2>6. CASE m < i + 1
    <3>1. AtBack(after[i], channel[m]) /\ channel[i + 1].kind = "change"
      BY <1>4, <2>1, <2>3, <2>6
    <3>2. AtBack(Posted(after[i], channel[i + 1]), channel[m])
      BY ONLY <2>2, <3>1, Timed(E), PostedControls
    <3>3. AtBack(after[i + 1], channel[m]) /\ ~(i + 1 < m)
      BY <1>4, <2>1, <2>2, <2>6, <3>2
    <3>4. QED
      BY <2>1, <3>3
  <2>7. QED
    BY <1>4, <2>1, <2>4, <2>5, <2>6
<1>7. 0..n \subseteq T
  <2> HIDE DEF T
  <2>1. QED
    BY <1>4, <1>5, <1>6, UpTo
<1>8. is(n)
  BY <1>4, <1>7
<1>9. QED
  BY <1>3, <1>4, <1>8

\* Several controls among the messages stay apart in the queue.
LEMMA ReceivedSeveral ==
  ASSUME NEW E, Timed(E), NEW q \in Seq(E), NEW channel \in Seq(E),
         NEW n \in 0..Len(channel), NEW a \in 1..n, NEW b \in 1..n, a < b,
         channel[a].kind # "change", channel[b].kind # "change"
  PROVE  Several(Received(q, channel, n))
<1>1. Stamped(E)
  BY DEF Stamped, Timed
<1>2. PICK after \in [0..n -> Seq(E)] : PostsEach(after, q, channel, n)
  BY <1>1, ReceivedRuns
<1>3. /\ after[0] = q
      /\ \A i \in 1..n : after[i] = Posted(after[i - 1], channel[i])
      /\ after[n] = Received(q, channel, n)
  BY <1>2 DEF PostsEach
<1> DEFINE is(i) == /\ a <= i => Controls(after[i]) # {}
                    /\ b <= i => Several(after[i])
           T == {i \in 0..n : is(i)}
<1>4. /\ n \in Nat /\ a \in Nat /\ b \in Nat /\ a # 0 /\ b # 0
      /\ \A i \in 1..n : channel[i] \in E
  OBVIOUS
<1>5. 0 \in T
  BY <1>3, <1>4
<1>6. ASSUME NEW i \in 0..(n - 1), i \in T
      PROVE  i + 1 \in T
  <2> DEFINE s == after[i]
             e == channel[i + 1]
             t == after[i + 1]
  <2>1. i + 1 \in 1..n /\ i + 1 \in 0..n /\ i \in 0..n /\ (i + 1) - 1 = i
    BY <1>4
  <2>2. s \in Seq(E) /\ e \in E /\ t = Posted(s, e)
    BY <1>3, <1>4, <2>1
  <2>3. is(i)
    BY <1>6
  <2>4. Controls(s) # {} => Controls(t) # {}
    <3>1. SUFFICES ASSUME Controls(s) # {} PROVE Controls(t) # {}
      OBVIOUS
    <3>2. PICK j \in 1..Len(s) : s[j].kind # "change"
      BY <3>1 DEF Controls
    <3>3. Stamped(E)
      BY <1>1
    <3> HIDE DEF s, e, t
    <3>4. Gains(Posted(s, e), s, e)
      BY ONLY <2>2, <3>3, PostedKeeps
    <3>5. PICK k \in 1..Len(t) : t[k] = s[j]
      BY <2>2, <3>4 DEF Gains
    <3>6. QED
      BY <3>2, <3>5 DEF Controls
  <2>5. e.kind # "change" => Controls(t) # {}
    <3>1. SUFFICES ASSUME e.kind # "change" PROVE Controls(t) # {}
      OBVIOUS
    <3>2. Stamped(E)
      BY <1>1
    <3> HIDE DEF s, e, t
    <3>3. Gains(Posted(s, e), s, e)
      BY ONLY <2>2, <3>2, PostedKeeps
    <3>4. PICK k \in 1..Len(t) : t[k] = e
      BY <2>2, <3>3 DEF Gains
    <3>5. QED
      BY <3>1, <3>4 DEF Controls
  <2>6. /\ Several(s) => Several(t)
        /\ e.kind # "change" /\ Controls(s) # {} => Several(t)
    <3> HIDE DEF s, e, t
    <3>1. Timed(E)
      OBVIOUS
    <3>2. /\ Several(s) => Several(Posted(s, e))
          /\ e.kind # "change" /\ Controls(s) # {} => Several(Posted(s, e))
      BY ONLY <2>2, <3>1, PostedControls
    <3>3. QED
      BY <2>2, <3>2
  <2>7. is(i + 1)
    <3> HIDE DEF s, t, e
    <3>1. a <= i + 1 => Controls(t) # {}
      <4>1. CASE a <= i
        BY <2>3, <2>4, <4>1 DEF s
      <4>2. CASE a = i + 1
        BY <2>5, <4>2 DEF e
      <4>3. QED
        BY <1>4, <2>1, <4>1, <4>2
    <3>2. b <= i + 1 => Several(t)
      <4>1. CASE b <= i
        BY <2>3, <2>6, <4>1 DEF s
      <4>2. CASE b = i + 1
        <5>1. Controls(s) # {}
          BY <1>4, <2>1, <2>3, <4>2 DEF s
        <5>2. QED
          BY <2>6, <4>2, <5>1 DEF e
      <4>3. QED
        BY <1>4, <2>1, <4>1, <4>2
    <3>3. QED
      BY <3>1, <3>2 DEF t
  <2> HIDE DEF is
  <2>8. QED
    BY <2>1, <2>7
<1>7. 0..n \subseteq T
  <2> HIDE DEF T
  <2>1. QED
    BY <1>4, <1>5, <1>6, UpTo
<1>8. is(n)
  BY <1>4, <1>7
<1>9. QED
  BY <1>3, <1>4, <1>8

-----------------------------------------------------------------------------
(* The events of MotionSync.                                               *)

Requests == [kind : {"request"}, state : State, ts : {0}]
Changes  == [kind : {"change"}, state : State, ts : Nat \ {0}]
Enters   == [kind : {"add"}, state : State, ts : {0}]

OwnEvents    == Changes \cup Requests
ServerEvents == Requests \cup Enters \cup {Leave}
OtherEvents  == Changes \cup Enters \cup {Leave}

\* Of all these only the changes have a timestamp.
LEMMA EventKinds ==
  /\ Timed(OwnEvents) /\ Timed(ServerEvents) /\ Timed(OtherEvents)
  /\ Stamped(OwnEvents) /\ Stamped(ServerEvents) /\ Stamped(OtherEvents)
<1> USE DEF Timed, Stamped, OwnEvents, ServerEvents, OtherEvents, Requests, Changes,
            Enters, Leave
<1>1. Timed(OwnEvents) /\ Stamped(OwnEvents)
  OBVIOUS
<1>2. Timed(ServerEvents) /\ Stamped(ServerEvents)
  OBVIOUS
<1>3. Timed(OtherEvents) /\ Stamped(OtherEvents)
  OBVIOUS
<1>4. QED
  BY <1>1, <1>2, <1>3

\* A state that may not follow is the one that is there.
LEMMA ChangedIs ==
  ASSUME NEW old, NEW new
  PROVE  Changed(old, new) = new
  BY SyncAssumption DEF Changed, CanFollow

\* What a run of the events makes of the copy of the player's client, and what
\* it sends, if only the first of the events can be a request.
LEMMA OwnRunIs ==
  ASSUME own \in State, NEW handed \in Seq(OwnEvents),
         \A i \in 2..Len(handed) : handed[i].kind = "change"
  PROVE  LET a == OwnRun(handed)[Len(handed)]
         IN  /\ a.copy = IF handed = <<>> THEN own ELSE handed[Len(handed)].state
             /\ a.sent = IF handed # <<>> /\ handed[1].kind = "request"
                           THEN <<handed[1]>> ELSE <<>>
<1> DEFINE n == Len(handed)
           S == [copy : State, sent : Seq(OwnEvents)]
           first == [copy |-> own, sent |-> <<>>]
           is(f) == f = [i \in 0..n |-> IF i = 0 THEN first ELSE OwnHandled(f[i - 1], handed[i])]
           step  == [p \in S \X (1..n) |-> OwnHandled(p[1], handed[p[2]])]
           g     == OwnRun(handed)
<1>1. n \in Nat /\ \A i \in 1..n : handed[i] \in OwnEvents
  OBVIOUS
<1>2. first \in S
  OBVIOUS
<1>3. ASSUME NEW a \in S, NEW i \in 1..n
      PROVE  OwnHandled(a, handed[i]) \in S
  <2>1. handed[i].state \in State
    BY <1>1 DEF OwnEvents, Changes, Requests
  <2>2. Append(a.sent, handed[i]) \in Seq(OwnEvents)
    BY <1>1
  <2>3. QED
    BY <2>1, <2>2, ChangedIs DEF OwnHandled
<1> HIDE DEF n, S, first
<1>4. step \in [S \X (1..n) -> S]
  BY <1>3
<1>5. PICK f \in [0..n -> S] : Runs(f, first, step, n)
  <2> HIDE DEF step
  <2>1. QED
    BY <1>1, <1>2, <1>4, Recursion
<1>6. \A i \in 0..n : f[i] = IF i = 0 THEN first ELSE OwnHandled(f[i - 1], handed[i])
  <2> SUFFICES ASSUME NEW i \in 0..n, i # 0
               PROVE  f[i] = OwnHandled(f[i - 1], handed[i])
    BY <1>5 DEF Runs
  <2>1. i \in 1..n /\ f[i - 1] \in S
    BY <1>1
  <2>2. step[<<f[i - 1], i>>] = OwnHandled(f[i - 1], handed[i])
    BY <2>1
  <2> HIDE DEF step
  <2>3. QED
    BY <1>5, <2>2 DEF Runs
<1>7. is(f)
  <2>1. f = [i \in 0..n |-> f[i]]
    OBVIOUS
  <2>2. QED
    BY <1>6, <2>1
<1>8. g = CHOOSE h : is(h)
  BY DEF OwnRun, n, first
<1>9. is(g)
  <2> HIDE DEF is, g
  <2>1. QED
    BY <1>7, <1>8
<1> HIDE DEF g
<1>10. \A i \in 0..n : g[i] = IF i = 0 THEN first ELSE OwnHandled(g[i - 1], handed[i])
  <2> SUFFICES ASSUME NEW i \in 0..n
               PROVE  g[i] = IF i = 0 THEN first ELSE OwnHandled(g[i - 1], handed[i])
    OBVIOUS
  <2>1. QED
    BY <1>9, Zenon
<1> DEFINE T == {i \in 0..n : /\ g[i].copy = IF i = 0 THEN own ELSE handed[i].state
                              /\ g[i].sent = IF i # 0 /\ handed[1].kind = "request"
                                               THEN <<handed[1]>> ELSE <<>>}
<1>11. 0 \in T
  BY <1>1, <1>10 DEF first
<1>12. ASSUME NEW i \in 0..(n - 1), i \in T
       PROVE  i + 1 \in T
  <2>1. i + 1 \in 0..n /\ (i + 1) - 1 = i /\ i + 1 # 0
    BY <1>1
  <2>2. g[i + 1] = OwnHandled(g[i], handed[i + 1])
    BY <1>10, <2>1
  <2>3. /\ g[i + 1].copy = handed[i + 1].state
        /\ g[i + 1].sent = IF handed[i + 1].kind = "request" THEN Append(g[i].sent, handed[i + 1])
                                                             ELSE g[i].sent
    BY <2>2, ChangedIs DEF OwnHandled
  <2>4. CASE i = 0
    <3>1. g[i].sent = <<>>
      BY <1>12, <2>4
    <3>2. QED
      BY <2>1, <2>3, <2>4, <3>1
  <2>5. CASE i # 0
    <3>1. handed[i + 1].kind = "change"
      BY <1>1, <2>5 DEF n
    <3>2. QED
      BY <1>12, <2>1, <2>3, <2>5, <3>1
  <2>6. QED
    BY <2>4, <2>5
<1>13. n \in T
  <2> HIDE DEF T
  <2>1. 0..n \subseteq T
    BY <1>1, <1>11, <1>12, UpTo
  <2>2. QED
    BY <1>1, <2>1
<1>14. n = 0 <=> handed = <<>>
  BY DEF n
<1>15. QED
  BY <1>13, <1>14 DEF g, n

\* The watcher's client, event by event.
LEMMA OtherRuns ==
  ASSUME other \in State \cup {None}, NEW handed \in Seq(OtherEvents)
  PROVE  /\ OtherRun(handed)[0] = other
         /\ \A i \in 1..Len(handed) :
              OtherRun(handed)[i] = HandledByOther(OtherRun(handed)[i - 1], handed[i])
         /\ \A i \in 0..Len(handed) : OtherRun(handed)[i] \in State \cup {None}
<1> DEFINE n == Len(handed)
           S == State \cup {None}
           is(f) == f = [i \in 0..n |-> IF i = 0 THEN other ELSE HandledByOther(f[i - 1], handed[i])]
           step  == [p \in S \X (1..n) |-> HandledByOther(p[1], handed[p[2]])]
           g     == OtherRun(handed)
<1>1. n \in Nat /\ \A i \in 1..n : handed[i] \in OtherEvents
  OBVIOUS
<1>2. other \in S
  OBVIOUS
<1>3. ASSUME NEW a \in S, NEW i \in 1..n
      PROVE  HandledByOther(a, handed[i]) \in S
  BY <1>1, ChangedIs
  DEF OtherEvents, Changes, Enters, Leave, HandledByOther, CopyOfAdd
<1> HIDE DEF n, S
<1>4. step \in [S \X (1..n) -> S]
  BY <1>3
<1>5. PICK f \in [0..n -> S] : Runs(f, other, step, n)
  <2> HIDE DEF step
  <2>1. QED
    BY <1>1, <1>2, <1>4, Recursion
<1>6. \A i \in 0..n : f[i] = IF i = 0 THEN other ELSE HandledByOther(f[i - 1], handed[i])
  <2> SUFFICES ASSUME NEW i \in 0..n, i # 0
               PROVE  f[i] = HandledByOther(f[i - 1], handed[i])
    BY <1>5 DEF Runs
  <2>1. i \in 1..n /\ f[i - 1] \in S
    BY <1>1
  <2>2. step[<<f[i - 1], i>>] = HandledByOther(f[i - 1], handed[i])
    BY <2>1
  <2> HIDE DEF step
  <2>3. QED
    BY <1>5, <2>2 DEF Runs
<1>7. is(f)
  <2>1. f = [i \in 0..n |-> f[i]]
    OBVIOUS
  <2>2. QED
    BY <1>6, <2>1
<1>8. g = CHOOSE h : is(h)
  BY DEF OtherRun, n
<1>9. is(g)
  <2> HIDE DEF is, g
  <2>1. QED
    BY <1>7, <1>8
<1> HIDE DEF g
<1>10. \A i \in 0..n : g[i] = IF i = 0 THEN other ELSE HandledByOther(g[i - 1], handed[i])
  <2> SUFFICES ASSUME NEW i \in 0..n
               PROVE  g[i] = IF i = 0 THEN other ELSE HandledByOther(g[i - 1], handed[i])
    OBVIOUS
  <2>1. QED
    BY <1>9, Zenon
<1> DEFINE T == {i \in 0..n : g[i] \in S}
<1>11. 0 \in T
  BY <1>1, <1>2, <1>10
<1>12. ASSUME NEW i \in 0..(n - 1), i \in T
       PROVE  i + 1 \in T
  <2>1. i + 1 \in 0..n /\ (i + 1) - 1 = i /\ i + 1 # 0 /\ i + 1 \in 1..n /\ g[i] \in S
    BY <1>1, <1>12
  <2>2. g[i + 1] = HandledByOther(g[i], handed[i + 1])
    BY <1>10, <2>1
  <2>3. QED
    BY <1>3, <2>1, <2>2
<1>13. 0..n \subseteq T
  <2> HIDE DEF T
  <2>1. QED
    BY <1>1, <1>11, <1>12, UpTo
<1>14. \A i \in 1..n : g[i] = HandledByOther(g[i - 1], handed[i])
  BY <1>1, <1>10
<1>15. g[0] = other
  BY <1>1, <1>10
<1>16. QED
  BY <1>13, <1>14, <1>15 DEF n, S, g

\* Where only the first event can be an Add or a Remove: once there is no copy
\* there is none to the end.
LEMMA OtherRunIs ==
  ASSUME other \in State \cup {None}, NEW handed \in Seq(OtherEvents),
         \A i \in 2..Len(handed) : handed[i].kind = "change"
  PROVE  LET n    == Len(handed)
             base == HandledByOther(other, handed[1])
         IN  OtherRun(handed)[n] =
               IF n = 0 THEN other
               ELSE IF base = None THEN None
               ELSE IF n = 1 THEN base ELSE handed[n].state
<1> DEFINE n == Len(handed)
           base == HandledByOther(other, handed[1])
           g     == OtherRun(handed)
<1>1. n \in Nat /\ \A i \in 1..n : handed[i] \in OtherEvents
  OBVIOUS
<1>2. /\ g[0] = other
      /\ \A i \in 1..n : g[i] = HandledByOther(g[i - 1], handed[i])
  BY OtherRuns
<1> HIDE DEF n, g
<1>3. \A i \in 0..n : g[i] = IF i = 0 THEN other ELSE HandledByOther(g[i - 1], handed[i])
  BY <1>1, <1>2
<1> DEFINE T == {i \in 0..n : g[i] = IF i = 0 THEN other
                                     ELSE IF base = None THEN None
                                     ELSE IF i = 1 THEN base ELSE handed[i].state}
<1>4. 0 \in T
  BY <1>1, <1>3
<1>5. ASSUME NEW i \in 0..(n - 1), i \in T
      PROVE  i + 1 \in T
  <2>1. i + 1 \in 0..n /\ (i + 1) - 1 = i /\ i + 1 # 0 /\ i + 1 \in 1..n
    BY <1>1
  <2>2. g[i + 1] = HandledByOther(g[i], handed[i + 1])
    BY <1>3, <2>1
  <2>3. CASE i = 0
    <3>1. g[i] = other
      BY <1>5, <2>3
    <3>2. g[i + 1] = base
      BY <2>2, <2>3, <3>1
    <3> HIDE DEF base
    <3>3. QED
      BY <2>1, <2>3, <3>2
  <2>4. CASE i # 0
    <3>1. handed[i + 1].kind = "change"
      BY <1>1, <2>4 DEF n
    <3>2. g[i + 1] = IF g[i] = None THEN None ELSE handed[i + 1].state
      BY <2>2, <3>1, ChangedIs DEF HandledByOther
    <3> HIDE DEF base
    <3>3. g[i] = IF base = None THEN None ELSE IF i = 1 THEN base ELSE handed[i].state
      BY <1>5, <2>4
    <3>4. i \in 1..n /\ i # 1 => handed[i].kind = "change"
      BY <1>1, <2>4 DEF n
    <3>5. i # 1 => handed[i].state # None
      BY <1>1, <2>4, <3>4, SyncAssumption DEF OtherEvents, Changes, Enters, Leave, State
    <3>6. g[i] = None <=> base = None
      BY <3>3, <3>5
    <3>7. g[i + 1] = IF base = None THEN None ELSE handed[i + 1].state
      BY <3>2, <3>6
    <3>8. QED
      BY <2>1, <2>4, <3>7
  <2>5. QED
    BY <2>3, <2>4
<1>6. n \in T
  <2> HIDE DEF T
  <2>1. 0..n \subseteq T
    BY <1>1, <1>4, <1>5, UpTo
  <2>2. QED
    BY <1>1, <2>1
<1>7. QED
  BY <1>6 DEF g, n

\* What ServerRun computes.
Progress == [state : State, watched : BOOLEAN, toOwn : Seq(Changes),
             toOther : Seq(OtherEvents), requests : Nat, unseen : BOOLEAN,
             missed : BOOLEAN]

\* The server, event by event.
LEMMA ServerRuns ==
  ASSUME server \in State, watched \in BOOLEAN, clock \in Nat,
         NEW handed \in Seq(ServerEvents)
  PROVE  /\ ServerRun(handed)[0] =
              [state |-> server, watched |-> watched, toOwn |-> <<>>,
               toOther |-> <<>>, requests |-> 0, unseen |-> FALSE, missed |-> FALSE]
         /\ \A i \in 1..Len(handed) :
              ServerRun(handed)[i] = Handled(ServerRun(handed)[i - 1], handed[i])
         /\ \A i \in 0..Len(handed) : ServerRun(handed)[i] \in Progress
<1> DEFINE n == Len(handed)
           S == Progress
           first == [state |-> server, watched |-> watched, toOwn |-> <<>>,
                     toOther |-> <<>>, requests |-> 0, unseen |-> FALSE, missed |-> FALSE]
           is(f) == f = [i \in 0..n |-> IF i = 0 THEN first ELSE Handled(f[i - 1], handed[i])]
           step  == [p \in S \X (1..n) |-> Handled(p[1], handed[p[2]])]
           g     == ServerRun(handed)
<1>1. n \in Nat /\ \A i \in 1..n : handed[i] \in ServerEvents
  OBVIOUS
<1>2. first \in S
  BY DEF Progress
<1>3. ASSUME NEW a \in S, NEW i \in 1..n
      PROVE  Handled(a, handed[i]) \in S
  <2> DEFINE e == handed[i]
  <2>1. e \in ServerEvents
    BY <1>1
  <2> HIDE DEF e
  <2>2. a.requests \in Nat /\ a.requests + 1 \in Nat
    BY DEF Progress
  <2>3. CASE e.kind = "request"
    <3>1. e.state \in State
      BY <2>1, <2>3 DEF ServerEvents, Requests, Enters, Leave
    <3>2. Change(e.state, clock + 1) \in Changes
      BY <3>1 DEF Change, Changes
    <3>3. Change(e.state, clock + 1) \in OtherEvents
      BY <3>2 DEF OtherEvents
    <3>4. /\ Append(a.toOwn, Change(e.state, clock + 1)) \in Seq(Changes)
          /\ Append(a.toOther, Change(e.state, clock + 1)) \in Seq(OtherEvents)
      BY <3>2, <3>3 DEF Progress
    <3>5. CASE CanFollow(a.state, e.state)
      <4> DEFINE c == Change(e.state, clock + 1)
      <4>1. Handled(a, e) = [a EXCEPT !.requests = @ + 1,
                                      !.state = e.state,
                                      !.toOwn = Append(@, c),
                                      !.toOther = IF a.watched THEN Append(@, c) ELSE @,
                                      !.unseen = ~a.watched]
        BY <2>3, <3>5 DEF Handled
      <4>2. Append(a.toOwn, c) \in Seq(Changes) /\ Append(a.toOther, c) \in Seq(OtherEvents)
        BY <3>4
      <4> HIDE DEF c
      <4> DEFINE more == a.requests + 1
      <4>3. more \in Nat
        BY <2>2
      <4> HIDE DEF more
      <4>4. [a EXCEPT !.requests = more,
                      !.state = e.state,
                      !.toOwn = Append(@, c),
                      !.toOther = IF a.watched THEN Append(@, c) ELSE @,
                      !.unseen = ~a.watched] \in S
        BY <3>1, <4>2, <4>3 DEF Progress
      <4>5. QED
        BY <4>1, <4>4 DEF e, more
    <3>6. CASE ~CanFollow(a.state, e.state)
      <4>1. Handled(a, e) = [a EXCEPT !.requests = @ + 1]
        BY <2>3, <3>6 DEF Handled
      <4> DEFINE more == a.requests + 1
      <4>2. more \in Nat
        BY <2>2
      <4> HIDE DEF more
      <4>3. [a EXCEPT !.requests = more] \in S
        BY <4>2 DEF Progress
      <4>4. QED
        BY <4>1, <4>3 DEF e, more
    <3>7. QED
      BY <3>5, <3>6
  <2>4. CASE e.kind = "add"
    <3>1. e \in OtherEvents
      BY <2>1, <2>4 DEF ServerEvents, OtherEvents, Requests, Enters, Leave
    <3>2. Append(a.toOther, e) \in Seq(OtherEvents)
      BY <3>1 DEF Progress
    <3>3. QED
      BY <2>4, <3>2 DEF Handled, e, Progress
  <2>5. CASE e.kind = "remove"
    <3>1. e \in OtherEvents
      BY <2>1, <2>5 DEF ServerEvents, OtherEvents, Requests, Enters, Leave
    <3>2. Append(a.toOther, e) \in Seq(OtherEvents)
      BY <3>1 DEF Progress
    <3>3. QED
      BY <2>5, <3>2 DEF Handled, e, Progress
  <2>6. QED
    BY <2>1, <2>3, <2>4, <2>5 DEF ServerEvents, Requests, Enters, Leave
<1> HIDE DEF n, S, first
<1>4. step \in [S \X (1..n) -> S]
  BY <1>3
<1>5. PICK f \in [0..n -> S] : Runs(f, first, step, n)
  <2> HIDE DEF step
  <2>1. QED
    BY <1>1, <1>2, <1>4, Recursion
<1>6. \A i \in 0..n : f[i] = IF i = 0 THEN first ELSE Handled(f[i - 1], handed[i])
  <2> SUFFICES ASSUME NEW i \in 0..n, i # 0
               PROVE  f[i] = Handled(f[i - 1], handed[i])
    BY <1>5 DEF Runs
  <2>1. i \in 1..n /\ f[i - 1] \in S
    BY <1>1
  <2>2. step[<<f[i - 1], i>>] = Handled(f[i - 1], handed[i])
    BY <2>1
  <2> HIDE DEF step
  <2>3. QED
    BY <1>5, <2>2 DEF Runs
<1>7. is(f)
  <2>1. f = [i \in 0..n |-> f[i]]
    OBVIOUS
  <2>2. QED
    BY <1>6, <2>1
<1>8. g = CHOOSE h : is(h)
  BY DEF ServerRun, n, first
<1>9. is(g)
  <2> HIDE DEF is, g
  <2>1. QED
    BY <1>7, <1>8
<1> HIDE DEF g
<1>10. \A i \in 0..n : g[i] = IF i = 0 THEN first ELSE Handled(g[i - 1], handed[i])
  <2> SUFFICES ASSUME NEW i \in 0..n
               PROVE  g[i] = IF i = 0 THEN first ELSE Handled(g[i - 1], handed[i])
    OBVIOUS
  <2>1. QED
    BY <1>9, Zenon
<1>11. g[0] = first /\ \A i \in 1..n : g[i] = Handled(g[i - 1], handed[i])
  BY <1>1, <1>10
<1> DEFINE T == {i \in 0..n : g[i] \in S}
<1>12. 0 \in T
  BY <1>1, <1>2, <1>11
<1>13. ASSUME NEW i \in 0..(n - 1), i \in T
       PROVE  i + 1 \in T
  <2>1. i + 1 \in 1..n /\ i + 1 \in 0..n /\ (i + 1) - 1 = i
    BY <1>1
  <2>2. g[i + 1] = Handled(g[i], handed[i + 1])
    BY <1>11, <2>1
  <2>3. Handled(g[i], handed[i + 1]) \in S
    BY <1>3, <1>13, <2>1
  <2>4. QED
    BY <2>1, <2>2, <2>3
<1>14. 0..n \subseteq T
  <2> HIDE DEF T
  <2>1. QED
    BY <1>1, <1>12, <1>13, UpTo
<1>15. QED
  BY <1>11, <1>14 DEF g, n, first, S

\* The requests of a frame: what the server sends for them carries the next
\* time, and the last change sent is what its copy is.
LEMMA RequestsRun ==
  ASSUME server \in State, watched \in BOOLEAN, clock \in Nat,
         NEW handed \in Seq(ServerEvents), NEW n \in 0..Len(handed),
         \A i \in 1..n : handed[i].kind = "request"
  PROVE  LET a == ServerRun(handed)[n]
         IN  /\ a.requests = n /\ a.watched = watched /\ a.missed = FALSE
             /\ \A k \in 1..Len(a.toOwn) : a.toOwn[k].ts = clock + 1
             /\ a.toOther = IF watched THEN a.toOwn ELSE <<>>
             /\ a.state = IF a.toOwn = <<>> THEN server ELSE a.toOwn[Len(a.toOwn)].state
             /\ a.unseen = (a.toOwn # <<>> /\ ~watched)
<1> DEFINE g == ServerRun(handed)
           is(a, i) == /\ a.requests = i /\ a.watched = watched /\ a.missed = FALSE
                       /\ \A k \in 1..Len(a.toOwn) : a.toOwn[k].ts = clock + 1
                       /\ a.toOther = IF watched THEN a.toOwn ELSE <<>>
                       /\ a.state = IF a.toOwn = <<>> THEN server
                                    ELSE a.toOwn[Len(a.toOwn)].state
                       /\ a.unseen = (a.toOwn # <<>> /\ ~watched)
           T == {i \in 0..n : is(g[i], i)}
<1>1. n \in Nat /\ Len(handed) \in Nat /\ n <= Len(handed)
  OBVIOUS
<1>2. /\ g[0] = [state |-> server, watched |-> watched, toOwn |-> <<>>, toOther |-> <<>>,
                 requests |-> 0, unseen |-> FALSE, missed |-> FALSE]
      /\ \A i \in 1..Len(handed) : g[i] = Handled(g[i - 1], handed[i])
      /\ \A i \in 0..Len(handed) : g[i] \in Progress
  BY ServerRuns
<1> HIDE DEF g
<1>3. 0 \in T
  <2> DEFINE a == g[0]
  <2>1. /\ a.requests = 0 /\ a.watched = watched /\ a.missed = FALSE /\ a.toOwn = <<>>
        /\ a.toOther = <<>> /\ a.state = server /\ a.unseen = FALSE
    BY <1>2
  <2> HIDE DEF a
  <2>2. \A k \in 1..Len(a.toOwn) : a.toOwn[k].ts = clock + 1
    BY <2>1
  <2>3. a.unseen = (a.toOwn # <<>> /\ ~watched)
    BY <2>1
  <2>4. is(a, 0)
    BY <2>1, <2>2, <2>3
  <2> HIDE DEF is
  <2>5. QED
    BY <1>1, <2>4 DEF a
<1>4. ASSUME NEW i \in 0..(n - 1), i \in T
      PROVE  i + 1 \in T
  <2> DEFINE a == g[i]
             b == g[i + 1]
             e == handed[i + 1]
             c == Change(e.state, clock + 1)
  <2>1. /\ i + 1 \in 1..n /\ i + 1 \in 0..n /\ (i + 1) - 1 = i /\ i \in Nat
        /\ i + 1 \in 1..Len(handed) /\ i \in 0..Len(handed)
    BY <1>1
  <2>2. b = Handled(a, e) /\ a \in Progress /\ e.kind = "request"
    BY <1>2, <2>1
  <2>3. is(a, i)
    BY <1>4
  <2>4. is(b, i + 1)
    <3> HIDE DEF a, b, e, c
    <3>1. CASE CanFollow(a.state, e.state)
      <4>1. b = [a EXCEPT !.requests = @ + 1,
                          !.state = e.state,
                          !.toOwn = Append(@, c),
                          !.toOther = IF a.watched THEN Append(@, c) ELSE @,
                          !.unseen = ~a.watched]
        BY <2>2, <3>1 DEF Handled, c
      <4>2. /\ b.requests = i + 1 /\ b.watched = watched /\ b.missed = FALSE
            /\ b.toOwn = Append(a.toOwn, c)
            /\ b.toOther = IF watched THEN Append(a.toOther, c) ELSE a.toOther
            /\ b.state = e.state /\ b.unseen = ~watched
        BY <2>2, <2>3, <4>1 DEF Progress
      <4>3. c.state = e.state /\ c.ts = clock + 1
        BY DEF c, Change
      <4>4. a.toOwn \in Seq(Changes)
        BY <2>2 DEF Progress
      <4>5. /\ Append(a.toOwn, c) # <<>> /\ Len(Append(a.toOwn, c)) = Len(a.toOwn) + 1
            /\ Append(a.toOwn, c)[Len(a.toOwn) + 1] = c
            /\ \A k \in 1..Len(a.toOwn) : Append(a.toOwn, c)[k] = a.toOwn[k]
            /\ Len(a.toOwn) \in Nat
        BY <4>4
      <4>6. \A k \in 1..Len(b.toOwn) : b.toOwn[k].ts = clock + 1
        BY <2>3, <4>2, <4>3, <4>5
      <4>7. b.toOther = IF watched THEN b.toOwn ELSE <<>>
        BY <2>3, <4>2
      <4>8. b.toOwn # <<>> /\ b.state = b.toOwn[Len(b.toOwn)].state
        BY <4>2, <4>3, <4>5
      <4>9. QED
        BY <4>2, <4>6, <4>7, <4>8
    <3>2. CASE ~CanFollow(a.state, e.state)
      <4>1. b = [a EXCEPT !.requests = @ + 1]
        BY <2>2, <3>2 DEF Handled
      <4>2. /\ b.requests = i + 1 /\ b.watched = a.watched /\ b.missed = a.missed
            /\ b.toOwn = a.toOwn /\ b.toOther = a.toOther /\ b.state = a.state
            /\ b.unseen = a.unseen
        BY <2>2, <2>3, <4>1 DEF Progress
      <4>3. QED
        BY <2>3, <4>2
    <3>3. QED
      BY <3>1, <3>2
  <2> HIDE DEF is
  <2>5. QED
    BY <2>1, <2>4
<1>5. n \in T
  <2> HIDE DEF T
  <2>1. 0..n \subseteq T
    BY <1>1, <1>3, <1>4, UpTo
  <2>2. QED
    BY <1>1, <2>1
<1>6. QED
  BY <1>5 DEF g

-----------------------------------------------------------------------------
(* A frame of a client: what it takes of its queue and of its connection.   *)

ChangesIn(s) == {e \in Range(s) : e.kind = "change"}

\* The changes of S that have its latest timestamp say state s.
LatestSays(S, s) ==
  \A e \in S : (\A f \in S : f.ts <= e.ts) => e.state = s

\* The changes on a connection are in the order of their timestamps, none is
\* older than what has reached the queue, and none is newer than the time.
InOrder(q, channel, time) ==
  /\ \A i, j \in 1..Len(channel) :
       i < j /\ channel[i].kind = "change" /\ channel[j].kind = "change" =>
         channel[i].ts <= channel[j].ts
  /\ \A x \in Range(q), y \in ChangesIn(channel) : x.ts <= y.ts
  /\ \A x \in Range(q) \cup Range(channel) : x.ts <= time

\* What is unread is the rest of the connection.
LEMMA UnreadIs ==
  ASSUME NEW E, NEW channel \in Seq(E), NEW n \in 0..Len(channel)
  PROVE  /\ Unread(channel, n) \in Seq(E)
         /\ Len(Unread(channel, n)) = Len(channel) - n
         /\ \A i \in 1..(Len(channel) - n) : Unread(channel, n)[i] = channel[i + n]
<1>1. n \in Nat /\ Len(channel) \in Nat /\ n <= Len(channel)
  OBVIOUS
<1>2. Unread(channel, n) = SubSeq(channel, n + 1, Len(channel))
  BY DEF Unread
<1>3. \A i \in (n + 1)..Len(channel) : channel[i] \in E
  BY <1>1
<1>4. /\ SubSeq(channel, n + 1, Len(channel)) \in Seq(E)
      /\ Len(SubSeq(channel, n + 1, Len(channel))) = Len(channel) - n
      /\ \A i \in 1..(Len(channel) - n) :
           SubSeq(channel, n + 1, Len(channel))[i] = channel[i + n]
  <2>1. SubSeq(channel, n + 1, Len(channel)) =
          [i \in 1..(Len(channel) - n) |-> channel[i + n]]
    BY <1>1
  <2>2. \A i \in 1..(Len(channel) - n) : channel[i + n] \in E
    BY <1>1, <1>3
  <2>3. Len(channel) - n \in Nat
    BY <1>1
  <2> DEFINE m == Len(channel) - n
  <2> HIDE DEF m
  <2>4. [i \in 1..m |-> channel[i + n]] \in Seq(E) /\ Len([i \in 1..m |-> channel[i + n]]) = m
    BY <2>2, <2>3 DEF m
  <2>5. QED
    BY <2>1, <2>4 DEF m
<1>5. QED
  BY <1>2, <1>4

\* Changes taken away leave the latest one, if they leave one that is as late.
LEMMA LatestStays ==
  ASSUME NEW E, Stamped(E), NEW S \in SUBSET E, NEW R \in SUBSET S, NEW s,
         LatestSays(S, s), \A e \in S : \E f \in R : e.ts <= f.ts
  PROVE  LatestSays(R, s)
<1> SUFFICES ASSUME NEW e \in R, \A f \in R : f.ts <= e.ts
             PROVE  e.state = s
  BY DEF LatestSays
<1>1. \A f \in S : f.ts \in Nat
  BY DEF Stamped
<1>2. ASSUME NEW f \in S
      PROVE  f.ts <= e.ts
  <2>1. PICK g \in R : f.ts <= g.ts
    OBVIOUS
  <2>2. g.ts <= e.ts /\ g \in S /\ e \in S
    OBVIOUS
  <2>3. QED
    BY <1>1, <2>1, <2>2
<1>3. QED
  BY <1>2 DEF LatestSays

\* What a frame of a client keeps, and what it hands out last: n messages of
\* the connection reach the queue q, and those due at that time are handed out.
FrameTakes(E, q, channel, n, time, limit) ==
  LET all    == Received(q, channel, n)
      kept   == Kept(all, time)
      handed == HandedOut(all, time)
      rest   == Unread(channel, n)
      before == ChangesIn(q) \cup ChangesIn(channel)
      after  == ChangesIn(kept) \cup ChangesIn(rest)
  IN  /\ all \in Seq(E) /\ kept \in Seq(E) /\ handed \in Seq(E) /\ rest \in Seq(E)
      /\ FrontIsLatest(kept) /\ InOrder(kept, rest, limit)
      /\ \A s : LatestSays(before, s) => LatestSays(after, s)
      /\ after = {} /\ before # {} =>
           /\ handed # <<>> /\ handed[Len(handed)] \in before
           /\ \A e \in before : e.ts <= handed[Len(handed)].ts
      /\ Controls(all) \subseteq {Len(all)} =>
           /\ Controls(kept) = {}
           /\ \A i \in 2..Len(handed) : handed[i].kind = "change"
      /\ \A c : AtBack(all, c) => handed # <<>> /\ handed[1] = c
      /\ Controls(all) = {} => \A i \in 1..Len(handed) : handed[i].kind = "change"
      /\ handed = <<>> => kept = all
      /\ after \subseteq before

\* All of it is so if the queue and the connection are in order.
LEMMA ClientFrame ==
  ASSUME NEW E, Timed(E), NEW q \in Seq(E), NEW channel \in Seq(E),
         NEW n \in 0..Len(channel), NEW time \in Nat, NEW limit \in Nat,
         FrontIsLatest(q), InOrder(q, channel, limit)
  PROVE  FrameTakes(E, q, channel, n, time, limit)
<1> DEFINE all    == Received(q, channel, n)
           kept   == Kept(all, time)
           handed == HandedOut(all, time)
           rest   == Unread(channel, n)
           before == ChangesIn(q) \cup ChangesIn(channel)
           after  == ChangesIn(kept) \cup ChangesIn(rest)
           k      == NumberKept(all, time)
<1>1. Stamped(E)
  BY DEF Stamped, Timed
<1>2. /\ all \in Seq(E)
      /\ \A x \in Range(q) : x \in Range(all)
      /\ \A i \in 1..n : channel[i] \in Range(all)
      /\ \A x \in Range(all) : x \in Range(q) \/ \E i \in 1..n : x = channel[i]
      /\ FrontIsLatest(all)
  BY <1>1, ReceivedKeeps
<1> HIDE DEF all
<1>3. /\ k \in 0..Len(all)
      /\ \A j \in (k + 1)..Len(all) : all[j].ts <= time
      /\ k # 0 => time < all[k].ts
      /\ kept \in Seq(E) /\ Len(kept) = k
      /\ \A i \in 1..k : kept[i] = all[i]
      /\ handed \in Seq(E) /\ Len(handed) = Len(all) - k
      /\ \A i \in 1..(Len(all) - k) : handed[i] = all[Len(all) + 1 - i]
  BY <1>1, <1>2, KeptIs
<1>4. /\ rest \in Seq(E) /\ Len(rest) = Len(channel) - n
      /\ \A i \in 1..(Len(channel) - n) : rest[i] = channel[i + n]
  BY UnreadIs
<1> HIDE DEF kept, handed, rest, k
<1>5. /\ n \in Nat /\ Len(all) \in Nat /\ Len(channel) \in Nat /\ k \in Nat /\ k <= Len(all)
      /\ n <= Len(channel)
  BY <1>2, <1>3
<1>6. \A e \in E : e.ts \in Nat /\ (e.kind = "change" <=> e.ts # 0)
  BY DEF Timed
<1>7. /\ \A i \in 1..Len(all) : all[i] \in E /\ all[i].ts <= all[1].ts
      /\ \A i \in 1..Len(channel) : channel[i] \in E /\ channel[i] \in Range(channel)
      /\ Range(q) \subseteq E /\ Range(all) \subseteq E /\ Range(channel) \subseteq E
  BY <1>2, RangeIs DEF FrontIsLatest
<1>8. /\ \A x \in Range(kept) : \E i \in 1..k : x = all[i]
      /\ \A i \in 1..k : all[i] \in Range(kept)
      /\ Range(kept) \subseteq Range(all)
  <2>1. \A x \in Range(kept) : \E i \in 1..Len(kept) : kept[i] = x
    BY <1>3, RangeIs
  <2>2. \A i \in 1..k : kept[i] \in Range(kept)
    BY <1>3, RangeIs
  <2>3. \A i \in 1..k : all[i] \in Range(all)
    BY <1>2, <1>5, RangeIs
  <2>4. \A x \in Range(kept) : \E i \in 1..k : x = all[i]
    BY <1>3, <2>1
  <2>5. \A i \in 1..k : all[i] \in Range(kept)
    BY <1>3, <2>2
  <2>6. Range(kept) \subseteq Range(all)
    BY <2>3, <2>4
  <2>7. QED
    BY <2>4, <2>5, <2>6
<1>9. /\ \A x \in Range(rest) : \E i \in (n + 1)..Len(channel) : x = channel[i]
      /\ \A i \in (n + 1)..Len(channel) : channel[i] \in Range(rest)
  <2>1. ASSUME NEW x \in Range(rest)
        PROVE  \E i \in (n + 1)..Len(channel) : x = channel[i]
    <3>1. PICK i \in 1..Len(rest) : rest[i] = x
      BY <1>4, RangeIs
    <3>2. i + n \in (n + 1)..Len(channel) /\ x = channel[i + n]
      BY <1>4, <1>5, <3>1
    <3>3. QED
      BY <3>2
  <2>2. ASSUME NEW i \in (n + 1)..Len(channel)
        PROVE  channel[i] \in Range(rest)
    <3>1. i - n \in 1..Len(rest) /\ (i - n) + n = i
      BY <1>4, <1>5
    <3>2. rest[i - n] = channel[i]
      BY <1>4, <3>1
    <3>3. QED
      BY <1>4, <3>1, <3>2, RangeIs
  <2>3. QED
    BY <2>1, <2>2
<1>10. \A x \in Range(all) : x \in Range(q) \cup Range(channel)
  BY <1>2, <1>5, <1>7
<1>11. after \subseteq before
  <2>1. ChangesIn(kept) \subseteq before
    BY <1>8, <1>10 DEF ChangesIn
  <2>2. ChangesIn(rest) \subseteq before
    BY <1>5, <1>7, <1>9 DEF ChangesIn
  <2>3. QED
    BY <2>1, <2>2
<1>12. FrontIsLatest(kept)
  <2> SUFFICES ASSUME NEW i \in 1..Len(kept) PROVE kept[i].ts <= kept[1].ts
    BY DEF FrontIsLatest
  <2>1. i \in 1..k /\ 1 \in 1..k /\ i \in 1..Len(all)
    BY <1>3, <1>5
  <2>2. QED
    BY <1>3, <1>7, <2>1
<1>13. InOrder(kept, rest, limit)
  <2>1. /\ \A i, j \in 1..Len(channel) :
             i < j /\ channel[i].kind = "change" /\ channel[j].kind = "change" =>
               channel[i].ts <= channel[j].ts
        /\ \A x \in Range(q), y \in ChangesIn(channel) : x.ts <= y.ts
        /\ \A x \in Range(q) \cup Range(channel) : x.ts <= limit
    BY DEF InOrder
  <2>2. \A i, j \in 1..Len(rest) :
          i < j /\ rest[i].kind = "change" /\ rest[j].kind = "change" =>
            rest[i].ts <= rest[j].ts
    <3> SUFFICES ASSUME NEW i \in 1..Len(rest), NEW j \in 1..Len(rest), i < j,
                        rest[i].kind = "change", rest[j].kind = "change"
                 PROVE  rest[i].ts <= rest[j].ts
      OBVIOUS
    <3>1. /\ i + n \in 1..Len(channel) /\ j + n \in 1..Len(channel) /\ i + n < j + n
          /\ rest[i] = channel[i + n] /\ rest[j] = channel[j + n]
      <4>1. i \in 1..(Len(channel) - n) /\ j \in 1..(Len(channel) - n) /\ i \in Nat /\ j \in Nat
        BY <1>4
      <4>2. rest[i] = channel[i + n] /\ rest[j] = channel[j + n]
        BY <1>4, <4>1
      <4>3. QED
        BY <1>5, <4>1, <4>2
    <3>2. QED
      BY <2>1, <3>1
  <2>3. \A x \in Range(kept), y \in ChangesIn(rest) : x.ts <= y.ts
    <3> SUFFICES ASSUME NEW x \in Range(kept), NEW y \in ChangesIn(rest)
                 PROVE  x.ts <= y.ts
      OBVIOUS
    <3>1. PICK j \in (n + 1)..Len(channel) : y = channel[j]
      BY <1>9 DEF ChangesIn
    <3>2. y \in ChangesIn(channel) /\ j \in 1..Len(channel) /\ y.kind = "change"
      BY <1>5, <1>7, <3>1 DEF ChangesIn
    <3>3. CASE x \in Range(q)
      BY <2>1, <3>2, <3>3
    <3>4. CASE \E i \in 1..n : x = channel[i]
      <4>1. PICK i \in 1..n : x = channel[i]
        BY <3>4
      <4>2. i \in 1..Len(channel) /\ i < j
        BY <1>5, <3>1
      <4>3. CASE x.kind = "change"
        BY <2>1, <3>1, <3>2, <4>1, <4>2, <4>3
      <4>4. CASE x.kind # "change"
        <5>1. x.ts = 0 /\ y.ts \in Nat
          BY <1>6, <1>7, <3>1, <3>2, <4>1, <4>2, <4>4
        <5>2. QED
          BY <5>1
      <4>5. QED
        BY <4>3, <4>4
    <3>5. QED
      BY <1>2, <1>8, <3>3, <3>4
  <2>4. \A x \in Range(kept) \cup Range(rest) : x.ts <= limit
    <3>1. \A x \in Range(rest) : x \in Range(channel)
      BY <1>5, <1>7, <1>9
    <3>2. QED
      BY <1>8, <1>10, <2>1, <3>1
  <2>5. QED
    BY <2>2, <2>3, <2>4 DEF InOrder
<1>14. \A e \in before : e \in E /\ e.kind = "change" /\ e.ts \in Nat \ {0}
  BY <1>6, <1>7 DEF ChangesIn
<1>15. \A e \in before : e \in Range(all) \/ e \in after
  <2> SUFFICES ASSUME NEW e \in before, e \notin Range(all) PROVE e \in after
    OBVIOUS
  <2>1. e \in Range(channel) /\ e.kind = "change"
    BY <1>2 DEF ChangesIn
  <2>2. PICK j \in 1..Len(channel) : e = channel[j]
    BY <2>1, RangeIs
  <2>3. j \in (n + 1)..Len(channel)
    BY <1>2, <1>5, <2>2
  <2>4. QED
    BY <1>9, <2>1, <2>2, <2>3 DEF ChangesIn
<1>16. ASSUME NEW e \in before, e \in Range(all)
       PROVE  /\ 1 \in 1..Len(all) /\ all[1] \in before /\ e.ts <= all[1].ts
              /\ k # 0 => all[1] \in after
  <2>1. PICK i \in 1..Len(all) : e = all[i]
    BY <1>2, <1>16, RangeIs
  <2>2. 1 \in 1..Len(all) /\ e.ts <= all[1].ts
    BY <1>5, <1>7, <2>1
  <2>3. all[1] \in E /\ all[1].kind = "change" /\ all[1] \in Range(all)
    <3>1. all[1] \in E /\ all[1].ts \in Nat /\ e.ts \in Nat \ {0}
      BY <1>6, <1>7, <1>14, <2>2
    <3>2. all[1].ts # 0
      BY <2>2, <3>1
    <3>3. QED
      BY <1>2, <1>6, <2>2, <3>1, <3>2, RangeIs
  <2>4. all[1] \in before
    BY <1>10, <2>3 DEF ChangesIn
  <2>5. k # 0 => all[1] \in after
    BY <1>5, <1>8, <2>3 DEF ChangesIn
  <2>6. QED
    BY <2>2, <2>4, <2>5
<1>17. ASSUME NEW s, LatestSays(before, s)
       PROVE  LatestSays(after, s)
  <2>1. CASE after = {}
    BY <2>1 DEF LatestSays
  <2>2. CASE after # {}
    <3>1. ASSUME NEW e \in before
          PROVE  \E f \in after : e.ts <= f.ts
      <4>1. CASE e \in after
        BY <1>14, <4>1
      <4>2. CASE e \notin after /\ ChangesIn(rest) # {}
        <5>1. PICK y \in ChangesIn(rest) : TRUE
          BY <4>2
        <5>2. PICK j \in (n + 1)..Len(channel) : y = channel[j]
          BY <1>9 DEF ChangesIn
        <5>3. j \in 1..Len(channel) /\ y.kind = "change" /\ y \in ChangesIn(channel) /\ y \in after
          BY <1>5, <1>7, <5>2 DEF ChangesIn
        <5>4. CASE e \in Range(q)
          BY <5>3, <5>4 DEF InOrder
        <5>5. CASE e \in Range(channel)
          <6>1. PICK i \in 1..Len(channel) : e = channel[i]
            BY <5>5, RangeIs
          <6>2. e.kind = "change"
            BY <1>14
          <6>3. i \notin (n + 1)..Len(channel)
            BY <1>9, <4>2, <6>1, <6>2 DEF ChangesIn
          <6>4. i < j
            BY <1>5, <5>2, <6>3
          <6>5. e.ts <= y.ts
            BY <5>2, <5>3, <6>1, <6>2, <6>4 DEF InOrder
          <6>6. QED
            BY <5>3, <6>5
        <5>6. QED
          BY <5>4, <5>5 DEF ChangesIn
      <4>3. CASE e \notin after /\ ChangesIn(rest) = {}
        <5>1. ChangesIn(kept) # {}
          BY <2>2, <4>3
        <5>2. k # 0
          BY <1>5, <1>8, <5>1 DEF ChangesIn
        <5>3. e \in Range(all)
          BY <1>15, <4>3
        <5>4. all[1] \in after /\ e.ts <= all[1].ts
          BY <1>16, <5>2, <5>3
        <5>5. QED
          BY <5>4
      <4>4. QED
        BY <4>1, <4>2, <4>3
    <3>2. before \in SUBSET E /\ after \in SUBSET before
      BY <1>11, <1>14
    <3> HIDE DEF before, after
    <3>3. QED
      BY ONLY <1>1, <1>17, <3>1, <3>2, LatestStays
  <2>3. QED
    BY <2>1, <2>2
<1>18. ASSUME after = {}, before # {}
       PROVE  /\ handed # <<>> /\ handed[Len(handed)] \in before
              /\ \A e \in before : e.ts <= handed[Len(handed)].ts
  <2>1. \A e \in before : e \in Range(all)
    BY <1>15, <1>18
  <2>2. PICK e \in before : TRUE
    BY <1>18
  <2>3. 1 \in 1..Len(all) /\ all[1] \in before /\ k = 0
    BY <1>16, <1>18, <2>1, <2>2
  <2>4. Len(handed) = Len(all) /\ Len(handed) \in 1..(Len(all) - k)
    BY <1>3, <1>5, <2>3
  <2>5. handed[Len(handed)] = all[1]
    <3>1. handed[Len(all)] = all[Len(all) + 1 - Len(all)]
      BY <1>3, <1>5, <2>3
    <3>2. Len(all) + 1 - Len(all) = 1
      BY <1>5
    <3>3. QED
      BY <2>4, <3>1, <3>2
  <2>6. handed # <<>>
    BY <1>5, <2>3, <2>4
  <2>7. \A f \in before : f.ts <= all[1].ts
    BY <1>16, <2>1
  <2>8. QED
    BY <2>3, <2>5, <2>6, <2>7
<1>19. ASSUME Controls(all) \subseteq {Len(all)}
       PROVE  /\ Controls(kept) = {}
              /\ \A i \in 2..Len(handed) : handed[i].kind = "change"
  <2>1. \A i \in 1..(Len(all) - 1) : all[i].kind = "change"
    BY <1>5, <1>19 DEF Controls
  <2>2. \A i \in 1..k : all[i].kind = "change"
    <3> SUFFICES ASSUME NEW i \in 1..k PROVE all[i].kind = "change"
      OBVIOUS
    <3>1. CASE i < Len(all)
      BY <1>5, <2>1, <3>1
    <3>2. CASE i = Len(all)
      <4>1. i = k /\ k # 0 /\ k \in 1..Len(all)
        BY <1>5, <3>2
      <4>2. all[k].ts # 0 /\ all[k] \in E
        BY <1>3, <1>6, <1>7, <4>1
      <4>3. QED
        BY <1>6, <4>1, <4>2
    <3>3. QED
      BY <1>5, <3>1, <3>2
  <2>3. Controls(kept) = {}
    BY <1>3, <2>2 DEF Controls
  <2>4. ASSUME NEW i \in 2..Len(handed)
        PROVE  handed[i].kind = "change"
    <3>1. i \in 1..(Len(all) - k) /\ Len(all) + 1 - i \in 1..(Len(all) - 1)
      BY <1>3, <1>5
    <3>2. QED
      BY <1>3, <2>1, <3>1
  <2>5. QED
    BY <2>3, <2>4
<1>20. ASSUME NEW c, AtBack(all, c)
       PROVE  handed # <<>> /\ handed[1] = c
  <2>1. Len(all) # 0 /\ Len(all) \in 1..Len(all) /\ all[Len(all)] = c /\ c.kind # "change"
    BY <1>2, <1>5, <1>20 DEF AtBack, Controls
  <2>2. k # Len(all)
    BY <1>3, <1>6, <1>7, <2>1
  <2>3. 1 \in 1..(Len(all) - k) /\ Len(all) + 1 - 1 = Len(all) /\ Len(handed) # 0
    BY <1>3, <1>5, <2>2
  <2>4. QED
    BY <1>3, <2>1, <2>3
<1>21. ASSUME handed = <<>>
       PROVE  kept = all
  <2>1. k = Len(all)
    BY <1>3, <1>5, <1>21
  <2>2. \A i \in 1..Len(all) : kept[i] = all[i]
    BY <1>3, <2>1
  <2>3. QED
    BY <1>2, <1>3, <2>1, <2>2, SeqEqual
<1>22. ASSUME Controls(all) = {}, NEW i \in 1..Len(handed)
       PROVE  handed[i].kind = "change"
  <2>1. i \in 1..(Len(all) - k) /\ Len(all) + 1 - i \in 1..Len(all)
    BY <1>3, <1>5
  <2>2. QED
    BY <1>3, <1>22, <2>1 DEF Controls
<1>23. QED
  BY <1>2, <1>3, <1>4, <1>11, <1>12, <1>13, <1>17, <1>18, <1>19, <1>20, <1>21, <1>22
  DEF FrameTakes, all, kept, handed, rest

-----------------------------------------------------------------------------
(* The inductive invariant of MotionSync.                                  *)

SyncTypeOK ==
  /\ key \in State /\ own \in State /\ server \in State
  /\ other \in State \cup {None}
  /\ ownQ \in Seq(OwnEvents)
  /\ otherQ \in Seq(OtherEvents)
  /\ toServer \in Seq(Requests) /\ toOwn \in Seq(Changes)
  /\ toOther \in Seq(OtherEvents)
  /\ clock \in Nat
  /\ near \in BOOLEAN /\ watched \in BOOLEAN
  /\ raced \in BOOLEAN /\ stale \in BOOLEAN /\ swapped \in BOOLEAN

\* The request of this frame's keys waits at the back of the client's queue.
Asking == ownQ # <<>> /\ ownQ[Len(ownQ)].kind = "request"

\* The requests on their way alternate, up to what the keys say, and unless
\* requests raced the first of them differs from the server's copy.
Asked ==
  /\ Controls(ownQ) \subseteq {Len(ownQ)}
  /\ Asking => ownQ[Len(ownQ)].state = key
  /\ toServer # <<>> => (Asking <=> toServer[Len(toServer)].state # key)
  /\ \A i \in 1..(Len(toServer) - 1) : toServer[i].state # toServer[i + 1].state
  /\ ~raced => IF toServer # <<>> THEN toServer[1].state # server
                                  ELSE Asking <=> key # server

OwnOrdered   == FrontIsLatest(ownQ) /\ InOrder(ownQ, toOwn, clock)
OtherOrdered == FrontIsLatest(otherQ) /\ InOrder(otherQ, toOther, clock)

OwnPending   == ChangesIn(ownQ) \cup ChangesIn(toOwn)
OtherPending == ChangesIn(otherQ) \cup ChangesIn(toOther)

\* The latest change on its way to the player says what the server's copy is,
\* and so does the player's own copy when there is none and nothing asked.
OwnFollows ==
  ~raced => /\ LatestSays(OwnPending, server)
            /\ OwnPending = {} /\ ~Asking /\ toServer = <<>> => own = server

\* What the grid says, the Add or Remove that waits and the listening view
\* agree; Adds and Removes alternate on the connection.
Watching ==
  /\ \/ serverQ = <<>> /\ watched = near
     \/ serverQ = <<Enter(server)>> /\ near /\ ~watched
     \/ serverQ = <<Leave>> /\ ~near /\ watched
  /\ \A i \in 1..(Len(toOther) - 1) :
       toOther[i].kind = "remove" <=> toOther[i + 1].kind = "add"
  /\ toOther # <<>> => (watched <=> toOther[Len(toOther)].kind # "remove")

\* What is sent after the i-th message.
Behind(i) == {toOther[j] : j \in (i + 1)..Len(toOther)}

\* The last Add on the connection, with what follows it, says what the server's
\* copy is.
Snapshot ==
  \A i \in Controls(toOther) :
    (\A j \in Controls(toOther) : j <= i) /\ toOther[i].kind = "add" /\ ~stale =>
      IF i = Len(toOther) THEN toOther[i].state = server
                          ELSE ~raced => LatestSays(Behind(i), server)

\* With no Add or Remove on the way, the watcher has a copy just if it is
\* listened for, and the latest change says what the server's copy is.
OtherFollows ==
  ~swapped =>
    /\ Controls(otherQ) = {}
    /\ Controls(toOther) = {} =>
         /\ other = None <=> ~watched
         /\ watched /\ ~raced /\ ~stale =>
              /\ LatestSays(OtherPending, server)
              /\ OtherPending = {} => other = server

SyncInv ==
  /\ SyncTypeOK
  /\ Asked
  /\ OwnOrdered
  /\ OtherOrdered
  /\ OwnFollows
  /\ Watching
  /\ Snapshot
  /\ OtherFollows

\* The initial state satisfies it.
LEMMA InitSync == SyncInit => SyncInv
<1> SUFFICES ASSUME SyncInit PROVE SyncInv
  OBVIOUS
<1> USE DEF SyncInit
<1>1. SyncTypeOK
  <2>1. /\ <<>> \in Seq(OwnEvents) /\ <<>> \in Seq(OtherEvents) /\ <<>> \in Seq(Requests)
        /\ <<>> \in Seq(Changes)
    OBVIOUS
  <2>2. QED
    BY <2>1 DEF SyncTypeOK, State
<1>2. Controls(<<>>) = {} /\ Range(<<>>) = {} /\ ChangesIn(<<>>) = {}
  BY DEF Controls, Range, ChangesIn
<1>3. Asked
  BY <1>2 DEF Asked, Asking
<1>4. OwnOrdered /\ OtherOrdered
  BY <1>2 DEF OwnOrdered, OtherOrdered, FrontIsLatest, InOrder
<1>5. OwnFollows
  BY <1>2 DEF OwnFollows, OwnPending, LatestSays
<1>6. Watching
  <2>1. Len(toOther) = 0 /\ 1..(Len(toOther) - 1) = {}
    OBVIOUS
  <2>2. serverQ = <<>> /\ watched = near /\ toOther = <<>>
    OBVIOUS
  <2>3. QED
    BY ONLY <2>1, <2>2 DEF Watching
<1>7. Snapshot
  BY <1>2 DEF Snapshot
<1>8. OtherFollows
  BY <1>2 DEF OtherFollows, OtherPending, LatestSays
<1>9. QED
  BY <1>1, <1>3, <1>4, <1>5, <1>6, <1>7, <1>8 DEF SyncInv

\* An invariant that a quiet state satisfies is the property.
LEMMA QuietStates == SyncInv => KeysObeyed /\ WatcherAgrees
<1> SUFFICES ASSUME SyncInv, Quiet PROVE KeysObeyed /\ WatcherAgrees
  BY DEF KeysObeyed, WatcherAgrees
<1>1. Controls(<<>>) = {} /\ Range(<<>>) = {} /\ ChangesIn(<<>>) = {}
  BY DEF Controls, Range, ChangesIn
<1>2. ~Asking
  BY DEF Quiet, Asking
<1>3. KeysObeyed
  BY <1>1, <1>2 DEF SyncInv, Asked, OwnFollows, OwnPending, KeysObeyed, Quiet
<1>4. WatcherAgrees
  BY <1>1 DEF SyncInv, OtherFollows, OtherPending, WatcherAgrees, Quiet
<1>5. QED
  BY <1>3, <1>4

-----------------------------------------------------------------------------
(* The steps.                                                              *)

\* What a step that leaves a player's connections alone leaves of the invariant.
LEMMA OwnSame ==
  ASSUME SyncInv, UNCHANGED <<ownVars, srvVars, toServer, toOwn>>
  PROVE  Asked' /\ OwnOrdered' /\ OwnFollows'
<1> USE DEF SyncInv, ownVars, srvVars
<1>1. Asked'
  BY DEF Asked, Asking
<1>2. OwnOrdered'
  BY DEF OwnOrdered
<1>3. OwnFollows'
  BY DEF OwnFollows, OwnPending, Asking
<1>4. QED
  BY <1>1, <1>2, <1>3

\* And what a step leaves that leaves the server and the watcher alone.
LEMMA OtherSame ==
  ASSUME SyncInv, UNCHANGED <<srvVars, otherVars, toOther, stale>>
  PROVE  OtherOrdered' /\ Watching' /\ Snapshot' /\ OtherFollows'
<1> USE DEF SyncInv, otherVars, srvVars
<1>1. OtherOrdered'
  BY DEF OtherOrdered
<1>2. Watching'
  BY DEF Watching
<1>3. Snapshot'
  <2>1. toOther' = toOther /\ stale' = stale /\ raced' = raced /\ server' = server
    OBVIOUS
  <2>2. \A i : Behind(i)' = Behind(i)
    BY ONLY <2>1 DEF Behind
  <2>3. Snapshot
    OBVIOUS
  <2>4. QED
    BY ONLY <2>1, <2>2, <2>3 DEF Snapshot
<1>4. OtherFollows'
  BY DEF OtherFollows, OtherPending
<1>5. QED
  BY <1>1, <1>2, <1>3, <1>4

\* An event that holds no change, at the end of a queue.
LEMMA RequestLast ==
  ASSUME NEW kept \in Seq(OwnEvents), FrontIsLatest(kept), Controls(kept) = {},
         NEW rest \in Seq(Changes), InOrder(kept, rest, clock), clock \in Nat, NEW s \in State
  PROVE  LET q == Posted(kept, Request(s))
         IN  /\ q \in Seq(OwnEvents) /\ q # <<>> /\ q[Len(q)] = Request(s)
             /\ Controls(q) = {Len(q)} /\ FrontIsLatest(q)
             /\ ChangesIn(q) = ChangesIn(kept) /\ InOrder(q, rest, clock)
<1> DEFINE q == Posted(kept, Request(s))
<1>1. Request(s) \in OwnEvents /\ Request(s).kind = "request" /\ Request(s).ts = 0
  BY DEF OwnEvents, Requests, Request
<1>2. /\ q \in Seq(OwnEvents) /\ Range(q) = Range(kept) \cup {Request(s)}
      /\ FrontIsLatest(q)
  BY <1>1, EventKinds, PostedKeeps
<1>3. AtBack(q, Request(s))
  BY <1>1, EventKinds, PostedControls
<1>4. ChangesIn(q) = ChangesIn(kept)
  BY <1>1, <1>2 DEF ChangesIn
<1>5. InOrder(q, rest, clock)
  <2>1. \A y \in ChangesIn(rest) : Request(s).ts <= y.ts
    <3>1. \A y \in ChangesIn(rest) : y \in Changes
      BY RangeIs DEF ChangesIn
    <3>2. QED
      BY <1>1, <3>1 DEF Changes
  <2>2. Request(s).ts <= clock
    BY <1>1
  <2>3. QED
    BY <1>2, <2>1, <2>2 DEF InOrder
<1>6. QED
  BY <1>2, <1>3, <1>4, <1>5 DEF AtBack, q

\* What the player's client takes of its queue in a frame: a request waits at the
\* back or not at all, and is handed out and sent before everything else.
LEMMA OwnTakes ==
  ASSUME SyncInv, NEW n \in 0..Len(toOwn), NEW time \in Nat
  PROVE  LET all    == Received(ownQ, toOwn, n)
             kept   == Kept(all, time)
             handed == HandedOut(all, time)
             a      == OwnRun(handed)[Len(handed)]
             after  == ChangesIn(kept) \cup ChangesIn(Unread(toOwn, n))
         IN  /\ kept \in Seq(OwnEvents) /\ Unread(toOwn, n) \in Seq(Changes)
             /\ FrontIsLatest(kept) /\ InOrder(kept, Unread(toOwn, n), clock)
             /\ Controls(kept) = {}
             /\ \A s : LatestSays(OwnPending, s) => LatestSays(after, s)
             /\ a.copy \in State
             /\ a.sent = IF Asking THEN <<ownQ[Len(ownQ)]>> ELSE <<>>
             /\ after = {} /\ ~Asking =>
                  IF OwnPending = {} THEN a.copy = own
                  ELSE \A s : LatestSays(OwnPending, s) => a.copy = s
<1> DEFINE all    == Received(ownQ, toOwn, n)
           kept   == Kept(all, time)
           handed == HandedOut(all, time)
           a      == OwnRun(handed)[Len(handed)]
           rest   == Unread(toOwn, n)
           after  == ChangesIn(kept) \cup ChangesIn(rest)
           last   == ownQ[Len(ownQ)]
<1>1. /\ ownQ \in Seq(OwnEvents) /\ toOwn \in Seq(Changes) /\ clock \in Nat /\ own \in State
      /\ FrontIsLatest(ownQ) /\ InOrder(ownQ, toOwn, clock)
      /\ Controls(ownQ) \subseteq {Len(ownQ)}
  BY DEF SyncInv, SyncTypeOK, OwnOrdered, Asked
<1>2. toOwn \in Seq(OwnEvents) /\ Timed(OwnEvents) /\ Stamped(OwnEvents)
  BY <1>1, EventKinds DEF OwnEvents
<1>3. \A i \in 1..Len(toOwn) : toOwn[i] \in Changes /\ toOwn[i].kind = "change"
  <2>1. \A i \in 1..Len(toOwn) : toOwn[i] \in Changes
    BY <1>1
  <2>2. \A e \in Changes : e.kind = "change"
    BY DEF Changes
  <2>3. QED
    BY <2>1, <2>2
<1>4. \A e \in OwnEvents : e.kind = "change" \/ e.kind = "request"
  BY DEF OwnEvents, Changes, Requests
<1> HIDE DEF all, kept, handed, a, rest, after, last
<1>5. /\ all \in Seq(OwnEvents) /\ kept \in Seq(OwnEvents) /\ handed \in Seq(OwnEvents)
      /\ FrontIsLatest(kept) /\ InOrder(kept, rest, clock)
      /\ \A s : LatestSays(OwnPending, s) => LatestSays(after, s)
      /\ after = {} /\ OwnPending # {} =>
           /\ handed # <<>> /\ handed[Len(handed)] \in OwnPending
           /\ \A e \in OwnPending : e.ts <= handed[Len(handed)].ts
      /\ Controls(all) \subseteq {Len(all)} =>
           /\ Controls(kept) = {}
           /\ \A i \in 2..Len(handed) : handed[i].kind = "change"
      /\ \A c : AtBack(all, c) => handed # <<>> /\ handed[1] = c
      /\ Controls(all) = {} => \A i \in 1..Len(handed) : handed[i].kind = "change"
  <2>1. n \in 0..Len(toOwn) /\ time \in Nat
    OBVIOUS
  <2>2. FrameTakes(OwnEvents, ownQ, toOwn, n, time, clock)
    BY ONLY <1>1, <1>2, <2>1, ClientFrame
  <2>3. QED
    BY ONLY <2>2 DEF FrameTakes, all, kept, handed, rest, after, OwnPending
<1>6. rest \in Seq(Changes)
  BY <1>1, UnreadIs DEF rest
<1>7. /\ \A x \in Range(all) : x \in Range(ownQ) \/ \E i \in 1..n : x = toOwn[i]
  BY <1>1, <1>2, ReceivedKeeps DEF all
<1>8. ASSUME Asking
      PROVE  AtBack(all, last) /\ last.kind = "request"
  <2>1. ownQ # <<>> /\ last.kind = "request" /\ Len(ownQ) \in 1..Len(ownQ)
    BY <1>1, <1>8 DEF Asking, last
  <2>2. AtBack(ownQ, last)
    BY <1>1, <2>1 DEF AtBack, Controls, last
  <2>3. \A i \in 1..n : toOwn[i].kind = "change"
    BY <1>1, <1>3
  <2>4. AtBack(all, last)
    BY <1>1, <1>2, <2>2, <2>3, ReceivedBehind DEF all
  <2>5. QED
    BY <2>1, <2>4
<1>9. ASSUME ~Asking
      PROVE  Controls(ownQ) = {} /\ Controls(all) = {}
  <2>1. Controls(ownQ) = {}
    <3>1. ASSUME NEW i \in Controls(ownQ) PROVE FALSE
      <4>1. i = Len(ownQ) /\ i \in 1..Len(ownQ) /\ ownQ[i].kind # "change"
        BY <1>1, <3>1 DEF Controls
      <4>2. ownQ[i] \in OwnEvents /\ ownQ # <<>>
        BY <1>1, <4>1
      <4>3. QED
        BY <1>4, <1>9, <4>1, <4>2 DEF Asking
    <3>2. QED
      BY <3>1
  <2>2. \A x \in Range(ownQ) : x.kind = "change"
    BY <1>1, <2>1, RangeIs DEF Controls
  <2>3. \A x \in Range(all) : x.kind = "change"
    BY <1>1, <1>3, <1>7, <2>2
  <2>4. \A i \in 1..Len(all) : all[i] \in Range(all)
    BY <1>5, RangeIs
  <2>5. QED
    BY <2>1, <2>3, <2>4 DEF Controls
<1>10. Controls(all) \subseteq {Len(all)}
  BY <1>8, <1>9 DEF AtBack
<1>11. Controls(kept) = {} /\ \A i \in 2..Len(handed) : handed[i].kind = "change"
  BY <1>5, <1>10
<1>12. /\ a.copy = IF handed = <<>> THEN own ELSE handed[Len(handed)].state
       /\ a.sent = IF handed # <<>> /\ handed[1].kind = "request"
                     THEN <<handed[1]>> ELSE <<>>
  BY <1>1, <1>5, <1>11, OwnRunIs DEF a
<1>13. a.copy \in State
  <2>1. CASE handed = <<>>
    BY <1>1, <1>12, <2>1
  <2>2. CASE handed # <<>>
    <3>1. handed[Len(handed)] \in OwnEvents
      BY <1>5, <2>2
    <3>2. handed[Len(handed)].state \in State
      BY <3>1 DEF OwnEvents, Changes, Requests
    <3>3. QED
      BY <1>12, <2>2, <3>2
  <2>3. QED
    BY <2>1, <2>2
<1>14. a.sent = IF Asking THEN <<last>> ELSE <<>>
  <2>1. CASE Asking
    BY <1>5, <1>8, <1>12, <2>1
  <2>2. CASE ~Asking
    <3>1. handed # <<>> => 1 \in 1..Len(handed)
      BY <1>5
    <3>2. handed # <<>> => handed[1].kind = "change"
      BY <1>5, <1>9, <2>2, <3>1
    <3>3. QED
      BY <1>12, <2>2, <3>2
  <2>3. QED
    BY <2>1, <2>2
<1>15. ASSUME after = {}, ~Asking
       PROVE  IF OwnPending = {} THEN a.copy = own
              ELSE \A s : LatestSays(OwnPending, s) => a.copy = s
  <2>1. CASE OwnPending = {}
    <3>1. ASSUME NEW x \in Range(all) PROVE FALSE
      <4>1. CASE x \in Range(ownQ)
        <5>1. x.kind = "change"
          BY <1>1, <1>9, <1>15, <4>1, RangeIs DEF Controls
        <5>2. x \in OwnPending
          BY <4>1, <5>1 DEF OwnPending, ChangesIn
        <5>3. QED
          BY <2>1, <5>2
      <4>2. CASE \E i \in 1..n : x = toOwn[i]
        <5>1. x \in Range(toOwn) /\ x.kind = "change"
          BY <1>1, <1>3, <4>2, RangeIs
        <5>2. x \in OwnPending
          BY <5>1 DEF OwnPending, ChangesIn
        <5>3. QED
          BY <2>1, <5>2
      <4>3. QED
        BY <1>7, <4>1, <4>2
    <3>2. Len(all) = 0
      <4>1. Len(all) \in Nat /\ (Len(all) # 0 => 1 \in 1..Len(all))
        BY <1>5
      <4>2. QED
        BY <1>5, <3>1, <4>1, RangeIs
    <3>3. NumberKept(all, time) \in 0..Len(all)
          /\ Len(handed) = Len(all) - NumberKept(all, time)
      BY <1>2, <1>5, KeptIs DEF handed
    <3>4. handed = <<>>
      BY <1>5, <3>2, <3>3
    <3>5. QED
      BY <1>12, <2>1, <3>4
  <2>2. CASE OwnPending # {}
    <3>1. /\ handed # <<>> /\ handed[Len(handed)] \in OwnPending
          /\ \A e \in OwnPending : e.ts <= handed[Len(handed)].ts
      BY <1>5, <1>15, <2>2
    <3>2. \A s : LatestSays(OwnPending, s) => handed[Len(handed)].state = s
      BY <3>1 DEF LatestSays
    <3>3. QED
      BY <1>12, <2>2, <3>1, <3>2
  <2>3. QED
    BY <2>1, <2>2
<1>16. QED
  BY <1>5, <1>6, <1>11, <1>13, <1>14, <1>15 DEF all, kept, handed, a, rest, after, last

\* A frame of the player's client keeps the invariant.
LEMMA OwnFrameKeeps ==
  ASSUME SyncInv, NEW n \in 0..Len(toOwn), NEW time \in 0..clock, NEW k \in State,
         OwnFrame(n, time, k)
  PROVE  SyncInv'
<1> DEFINE all    == Received(ownQ, toOwn, n)
           kept   == Kept(all, time)
           handed == HandedOut(all, time)
           a      == OwnRun(handed)[Len(handed)]
           rest   == Unread(toOwn, n)
           after  == ChangesIn(kept) \cup ChangesIn(rest)
           last   == ownQ[Len(ownQ)]
<1>1. /\ key' = k /\ own' = a.copy /\ toServer' = toServer \o a.sent
      /\ ownQ' = IF k # key THEN Posted(kept, Request(k)) ELSE kept
      /\ toOwn' = rest
      /\ UNCHANGED <<srvVars, otherVars, toOther, stale>>
  BY DEF OwnFrame
<1>2. SyncTypeOK /\ Asked /\ OwnFollows
  BY DEF SyncInv
<1>3. time \in Nat /\ clock \in Nat /\ clock' = clock /\ server' = server /\ raced' = raced
  BY <1>1, <1>2 DEF SyncTypeOK, srvVars
<1>4. /\ kept \in Seq(OwnEvents) /\ rest \in Seq(Changes)
      /\ FrontIsLatest(kept) /\ InOrder(kept, rest, clock)
      /\ Controls(kept) = {}
      /\ \A s : LatestSays(OwnPending, s) => LatestSays(after, s)
      /\ a.copy \in State
      /\ a.sent = IF Asking THEN <<last>> ELSE <<>>
      /\ after = {} /\ ~Asking =>
           IF OwnPending = {} THEN a.copy = own
           ELSE \A s : LatestSays(OwnPending, s) => a.copy = s
  BY <1>3, OwnTakes
<1> HIDE DEF all, kept, handed, a, rest, after, last
<1>5. /\ ownQ' \in Seq(OwnEvents) /\ FrontIsLatest(ownQ')
      /\ ChangesIn(ownQ') = ChangesIn(kept) /\ InOrder(ownQ', rest, clock)
      /\ Controls(ownQ') \subseteq {Len(ownQ')}
      /\ Asking' <=> k # key
      /\ Asking' => ownQ'[Len(ownQ')].state = k
  <2>1. CASE k # key
    <3>1. ownQ' = Posted(kept, Request(k))
      BY <1>1, <2>1
    <3>2. /\ ownQ' \in Seq(OwnEvents) /\ ownQ' # <<>> /\ ownQ'[Len(ownQ')] = Request(k)
          /\ Controls(ownQ') = {Len(ownQ')} /\ FrontIsLatest(ownQ')
          /\ ChangesIn(ownQ') = ChangesIn(kept) /\ InOrder(ownQ', rest, clock)
      BY ONLY k \in State, <1>3, <1>4, <3>1, RequestLast
    <3>3. Request(k).kind = "request" /\ Request(k).state = k
      BY DEF Request
    <3>4. Asking'
      BY <3>2, <3>3 DEF Asking
    <3>5. QED
      BY <2>1, <3>2, <3>3, <3>4
  <2>2. CASE k = key
    <3>1. ownQ' = kept
      BY <1>1, <2>2
    <3>2. ~Asking'
      <4>1. ASSUME kept # <<>> PROVE kept[Len(kept)].kind = "change"
        <5>1. Len(kept) \in 1..Len(kept)
          BY <1>4, <4>1
        <5>2. QED
          BY <1>4, <5>1 DEF Controls
      <4>2. QED
        BY <3>1, <4>1 DEF Asking
    <3>3. QED
      BY <1>4, <2>2, <3>1, <3>2
  <2>3. QED
    BY <2>1, <2>2
<1>6. /\ toServer \in Seq(Requests)
      /\ Asking => last \in Requests /\ last.state = key
  <2>1. toServer \in Seq(Requests) /\ ownQ \in Seq(OwnEvents)
    BY <1>2 DEF SyncTypeOK
  <2>2. ASSUME Asking PROVE last \in Requests /\ last.state = key
    <3>1. last \in OwnEvents /\ last.kind = "request"
      BY <2>1, <2>2 DEF Asking, last
    <3>2. last \in Requests
      BY <3>1 DEF OwnEvents, Changes
    <3>3. QED
      BY <1>2, <2>2, <3>2 DEF Asked, last
  <2>3. QED
    BY <2>1, <2>2
<1>7. Asking => toServer' = Append(toServer, last)
  BY <1>1, <1>4, <1>6
<1>8. ~Asking => toServer' = toServer
  BY <1>1, <1>4, <1>6
<1>9. toServer' \in Seq(Requests)
  BY <1>6, <1>7, <1>8
<1>10. SyncTypeOK'
  <2>1. Changes \subseteq OwnEvents
    BY DEF OwnEvents
  <2>2. toOwn' \in Seq(Changes) /\ key' \in State /\ own' \in State
    BY <1>1, <1>4
  <2>3. QED
    BY <1>1, <1>2, <1>5, <1>9, <2>2 DEF SyncTypeOK, srvVars, otherVars
<1>11. Asked'
  <2>1. Controls(ownQ)' \subseteq {Len(ownQ)}'
    BY <1>5 DEF Controls
  <2>2. (Asking => ownQ[Len(ownQ)].state = key)'
    BY <1>1, <1>5
  <2>3. CASE Asking
    <3>1. /\ Len(toServer') = Len(toServer) + 1 /\ toServer' # <<>>
          /\ toServer'[Len(toServer')] = last
          /\ \A i \in 1..Len(toServer) : toServer'[i] = toServer[i]
          /\ Len(toServer) \in Nat
          /\ toServer # <<>> <=> Len(toServer) # 0
      BY <1>6, <1>7, <2>3
    <3>2. \A i \in 1..(Len(toServer) - 1) : toServer[i].state # toServer[i + 1].state
      BY <1>2 DEF Asked
    <3>3. toServer # <<>> => toServer[Len(toServer)].state # last.state
      BY <1>2, <1>6, <2>3 DEF Asked
    <3>4. \A i \in 1..(Len(toServer') - 1) : toServer'[i].state # toServer'[i + 1].state
      <4> SUFFICES ASSUME NEW i \in 1..Len(toServer)
                   PROVE  toServer'[i].state # toServer'[i + 1].state
        BY <3>1
      <4>1. CASE i = Len(toServer)
        BY <3>1, <3>3, <4>1
      <4>2. CASE i < Len(toServer)
        <5>1. i \in 1..(Len(toServer) - 1) /\ i + 1 \in 1..Len(toServer)
          BY <3>1, <4>2
        <5>2. QED
          BY <3>1, <3>2, <5>1
      <4>3. QED
        BY <3>1, <4>1, <4>2
    <3>5. Asking' <=> toServer'[Len(toServer')].state # key'
      BY <1>1, <1>5, <1>6, <2>3, <3>1
    <3>6. ~raced => toServer'[1].state # server
      <4>1. CASE toServer = <<>>
        <5>1. toServer'[1] = last
          BY <3>1, <4>1
        <5>2. QED
          BY <1>2, <1>6, <2>3, <4>1, <5>1 DEF Asked
      <4>2. CASE toServer # <<>>
        <5>1. toServer'[1] = toServer[1]
          BY <3>1, <4>2
        <5>2. QED
          BY <1>2, <4>2, <5>1 DEF Asked
      <4>3. QED
        BY <4>1, <4>2
    <3>7. QED
      BY <1>3, <2>1, <2>2, <3>1, <3>4, <3>5, <3>6 DEF Asked
  <2>4. CASE ~Asking
    <3>1. toServer' = toServer
      BY <1>8, <2>4
    <3>2. toServer # <<>> => (Asking' <=> toServer[Len(toServer)].state # key')
      BY <1>1, <1>2, <1>5, <2>4 DEF Asked
    <3>3. ~raced /\ toServer = <<>> => (Asking' <=> key' # server)
      BY <1>1, <1>2, <1>5, <2>4 DEF Asked
    <3>4. \A i \in 1..(Len(toServer) - 1) : toServer[i].state # toServer[i + 1].state
      BY <1>2 DEF Asked
    <3>5. ~raced /\ toServer # <<>> => toServer[1].state # server
      BY <1>2 DEF Asked
    <3>6. QED
      BY <1>3, <2>1, <2>2, <3>1, <3>2, <3>3, <3>4, <3>5 DEF Asked
  <2>5. QED
    BY <2>3, <2>4
<1>12. OwnOrdered'
  <2>1. FrontIsLatest(ownQ') /\ InOrder(ownQ', toOwn', clock')
    BY <1>1, <1>3, <1>5
  <2>2. QED
    BY <2>1 DEF OwnOrdered, FrontIsLatest, InOrder, ChangesIn, Range
<1>13. OwnFollows'
  <2>1. OwnPending' = after
    <3>1. ChangesIn(ownQ') = ChangesIn(kept) /\ ChangesIn(toOwn') = ChangesIn(rest)
      BY <1>1, <1>5
    <3>2. QED
      BY <3>1 DEF OwnPending, after, ChangesIn, Range
  <2>2. ASSUME ~raced PROVE LatestSays(after, server)
    BY <1>2, <1>4, <2>2 DEF OwnFollows
  <2>3. ASSUME ~raced, after = {}, ~Asking', toServer' = <<>>
        PROVE  a.copy = server
    <3>1. ~Asking /\ toServer = <<>>
      <4>1. toServer' # <<>> \/ ~Asking
        BY <1>6, <1>7
      <4>2. QED
        BY <1>8, <2>3, <4>1
    <3>2. QED
      BY <1>2, <1>4, <2>3, <3>1 DEF OwnFollows
  <2>4. QED
    BY <1>1, <1>3, <2>1, <2>2, <2>3 DEF OwnFollows, LatestSays
<1>14. OtherOrdered' /\ Watching' /\ Snapshot' /\ OtherFollows'
  BY <1>1, OtherSame
<1>15. QED
  BY <1>10, <1>11, <1>12, <1>13, <1>14 DEF SyncInv

\* The entries of two queues put together, as sets.
LEMMA JoinedRange ==
  ASSUME NEW E, NEW s \in Seq(E), NEW r \in Seq(E)
  PROVE  /\ Range(s \o r) = Range(s) \cup Range(r)
         /\ ChangesIn(s \o r) = ChangesIn(s) \cup ChangesIn(r)
<1>1. Range(s \o r) \subseteq Range(s) \cup Range(r)
  <2> SUFFICES ASSUME NEW x \in Range(s \o r) PROVE x \in Range(s) \cup Range(r)
    OBVIOUS
  <2>1. PICK k \in 1..Len(s \o r) : (s \o r)[k] = x
    BY Joined, RangeIs
  <2>2. CASE k \in 1..Len(s) /\ (s \o r)[k] = s[k]
    BY <2>1, <2>2, RangeIs
  <2>3. CASE k - Len(s) \in 1..Len(r) /\ (s \o r)[k] = r[k - Len(s)]
    BY <2>1, <2>3, RangeIs
  <2>4. QED
    BY <2>1, <2>2, <2>3, Joined
<1>2. Range(s) \subseteq Range(s \o r)
  <2> SUFFICES ASSUME NEW x \in Range(s) PROVE x \in Range(s \o r)
    OBVIOUS
  <2>1. PICK k \in 1..Len(s) : s[k] = x
    BY RangeIs
  <2>2. k \in 1..Len(s \o r) /\ (s \o r)[k] = x
    BY <2>1, Joined
  <2>3. QED
    BY <2>2, Joined, RangeIs
<1>3. Range(r) \subseteq Range(s \o r)
  <2> SUFFICES ASSUME NEW x \in Range(r) PROVE x \in Range(s \o r)
    OBVIOUS
  <2>1. PICK k \in 1..Len(r) : r[k] = x
    BY RangeIs
  <2>2. Len(s) + k \in 1..Len(s \o r) /\ (s \o r)[Len(s) + k] = x
    BY <2>1, Joined
  <2>3. QED
    BY <2>2, Joined, RangeIs
<1>4. Range(s \o r) = Range(s) \cup Range(r)
  BY <1>1, <1>2, <1>3
<1>5. QED
  BY <1>4 DEF ChangesIn

\* What a frame of the server sends: changes of the next time, and an Add or a
\* Remove behind them.
LEMMA MoreInOrder ==
  ASSUME NEW E, Timed(E), NEW q \in Seq(E), NEW channel \in Seq(E), NEW y \in Seq(E),
         NEW limit \in Nat, NEW next \in {limit, limit + 1}, InOrder(q, channel, limit),
         \A k \in 1..Len(y) : y[k].kind = "change" => y[k].ts = limit + 1 /\ next = limit + 1
  PROVE  InOrder(q, channel \o y, next)
<1> DEFINE s == channel \o y
<1>1. /\ \A i, j \in 1..Len(channel) :
           i < j /\ channel[i].kind = "change" /\ channel[j].kind = "change" =>
             channel[i].ts <= channel[j].ts
      /\ \A x \in Range(q), z \in ChangesIn(channel) : x.ts <= z.ts
      /\ \A x \in Range(q) \cup Range(channel) : x.ts <= limit
  BY DEF InOrder
<1>2. \A e \in E : e.ts \in Nat /\ (e.kind = "change" <=> e.ts # 0)
  BY DEF Timed
<1>3. /\ s \in Seq(E) /\ Len(channel) \in Nat /\ Len(y) \in Nat
      /\ Len(s) = Len(channel) + Len(y)
      /\ \A k \in 1..Len(s) :
           \/ k \in 1..Len(channel) /\ s[k] = channel[k]
           \/ k - Len(channel) \in 1..Len(y) /\ s[k] = y[k - Len(channel)]
  BY Joined
<1>4. /\ \A i \in 1..Len(channel) : channel[i] \in E /\ channel[i].ts <= limit
      /\ \A k \in 1..Len(y) : y[k] \in E
  BY <1>1, RangeIs
<1>5. Range(s) = Range(channel) \cup Range(y)
  BY JoinedRange
<1>6. \A x \in Range(y) : \E k \in 1..Len(y) : y[k] = x
  BY RangeIs
<1>7. \A x \in Range(q) \cup Range(channel) : x \in E
  BY RangeIs
<1> HIDE DEF s
<1>8. ASSUME NEW i \in 1..Len(s), NEW j \in 1..Len(s), i < j,
             s[i].kind = "change", s[j].kind = "change"
      PROVE  s[i].ts <= s[j].ts
  <2>1. CASE j \in 1..Len(channel) /\ s[j] = channel[j]
    <3>1. i \in 1..Len(channel) /\ s[i] = channel[i]
      BY <1>3, <1>8, <2>1
    <3>2. QED
      BY <1>1, <1>8, <2>1, <3>1
  <2>2. CASE j - Len(channel) \in 1..Len(y) /\ s[j] = y[j - Len(channel)]
    <3>1. s[j].ts = limit + 1
      BY <1>8, <2>2
    <3>2. CASE i \in 1..Len(channel) /\ s[i] = channel[i]
      <4>1. s[i].ts <= limit /\ s[i].ts \in Nat
        BY <1>2, <1>4, <3>2
      <4>2. QED
        BY <3>1, <4>1
    <3>3. CASE i - Len(channel) \in 1..Len(y) /\ s[i] = y[i - Len(channel)]
      <4>1. s[i].ts = limit + 1
        BY <1>8, <3>3
      <4>2. QED
        BY <3>1, <4>1
    <3>4. QED
      BY <1>3, <3>2, <3>3
  <2>3. QED
    BY <1>3, <2>1, <2>2
<1>9. ASSUME NEW x \in Range(q), NEW z \in ChangesIn(s)
      PROVE  x.ts <= z.ts
  <2>1. z \in Range(s) /\ z.kind = "change" /\ x \in E
    BY <1>7 DEF ChangesIn
  <2>2. CASE z \in Range(channel)
    BY <1>1, <2>1, <2>2 DEF ChangesIn
  <2>3. CASE z \in Range(y)
    <3>1. PICK k \in 1..Len(y) : y[k] = z
      BY <1>6, <2>3
    <3>2. z.ts = limit + 1
      BY <2>1, <3>1
    <3>3. x.ts <= limit /\ x.ts \in Nat
      BY <1>1, <1>2, <2>1
    <3>4. QED
      BY <3>2, <3>3
  <2>4. QED
    BY <1>5, <2>1, <2>2, <2>3
<1>10. ASSUME NEW x \in Range(q) \cup Range(s)
       PROVE  x.ts <= next
  <2>1. next \in Nat /\ limit <= next
    OBVIOUS
  <2>2. CASE x \in Range(q) \cup Range(channel)
    <3>1. x.ts <= limit /\ x.ts \in Nat
      BY <1>1, <1>2, <1>7, <2>2
    <3>2. QED
      BY <2>1, <3>1
  <2>3. CASE x \in Range(y)
    <3>1. PICK k \in 1..Len(y) : y[k] = x
      BY <1>6, <2>3
    <3>2. CASE x.kind = "change"
      <4>1. x.ts = next /\ next \in Nat
        BY <3>1, <3>2
      <4>2. QED
        BY <4>1
    <3>3. CASE x.kind # "change"
      <4>1. x.ts = 0
        BY <1>2, <1>4, <3>1, <3>3
      <4>2. QED
        BY <2>1, <4>1
    <3>4. QED
      BY <3>2, <3>3
  <2>4. QED
    BY <1>5, <2>2, <2>3
<1>11. InOrder(q, s, next)
  BY <1>8, <1>9, <1>10 DEF InOrder
<1>12. QED
  BY <1>11 DEF s

\* A change of the next time is the latest.
LEMMA NewestSays ==
  ASSUME NEW S, NEW limit \in Nat, \A e \in S : e.ts \in Nat /\ e.ts <= limit,
         NEW c, c.ts = limit + 1
  PROVE  LatestSays(S \cup {c}, c.state)
<1> SUFFICES ASSUME NEW e \in S \cup {c}, \A f \in S \cup {c} : f.ts <= e.ts
             PROVE  e.state = c.state
  BY DEF LatestSays
<1>1. c.ts <= e.ts
  OBVIOUS
<1>2. e \notin S
  BY <1>1
<1>3. QED
  BY <1>2

\* An Add follows every Remove of s, and nothing else.
Alternate(s) ==
  \A i \in 1..(Len(s) - 1) : s[i].kind = "remove" <=> s[i + 1].kind = "add"

\* They do so in two connections put together if they do where these meet.
LEMMA AlternateJoin ==
  ASSUME NEW E, NEW s \in Seq(E), NEW y \in Seq(E), Alternate(s), Alternate(y),
         s # <<>> /\ y # <<>> => (s[Len(s)].kind = "remove" <=> y[1].kind = "add")
  PROVE  Alternate(s \o y)
<1> DEFINE t == s \o y
<1>1. /\ Len(s) \in Nat /\ Len(y) \in Nat /\ Len(t) = Len(s) + Len(y)
      /\ \A k \in 1..Len(s) : t[k] = s[k]
      /\ \A k \in 1..Len(y) : t[Len(s) + k] = y[k]
  BY Joined
<1>2. (Len(s) # 0 => s # <<>>) /\ (Len(y) # 0 => y # <<>>)
  OBVIOUS
<1> HIDE DEF t
<1>3. ASSUME NEW i \in 1..(Len(t) - 1)
      PROVE  t[i].kind = "remove" <=> t[i + 1].kind = "add"
  <2>1. CASE i < Len(s)
    <3>1. i \in 1..(Len(s) - 1) /\ i \in 1..Len(s) /\ i + 1 \in 1..Len(s)
      BY <1>1, <2>1
    <3>2. t[i] = s[i] /\ t[i + 1] = s[i + 1]
      BY <1>1, <3>1
    <3>3. QED
      BY <3>1, <3>2 DEF Alternate
  <2>2. CASE i = Len(s)
    <3>1. Len(s) # 0 /\ Len(y) # 0 /\ Len(s) \in 1..Len(s) /\ 1 \in 1..Len(y)
      BY <1>1, <2>2
    <3>2. t[i] = s[Len(s)] /\ t[i + 1] = y[1]
      BY <1>1, <2>2, <3>1
    <3>3. QED
      BY <1>2, <3>1, <3>2
  <2>3. CASE i > Len(s)
    <3>1. i - Len(s) \in 1..(Len(y) - 1) /\ i - Len(s) \in 1..Len(y)
          /\ (i - Len(s)) + 1 \in 1..Len(y)
          /\ Len(s) + (i - Len(s)) = i /\ Len(s) + ((i - Len(s)) + 1) = i + 1
      BY <1>1, <2>3
    <3>2. t[i] = y[i - Len(s)] /\ t[i + 1] = y[(i - Len(s)) + 1]
      BY <1>1, <3>1
    <3>3. QED
      BY <3>1, <3>2 DEF Alternate
  <2>4. QED
    BY <1>1, <2>1, <2>2, <2>3
<1>4. Alternate(t)
  BY <1>3 DEF Alternate
<1>5. QED
  BY <1>4 DEF t

\* A frame of the server hands out everything: the requests, newest first, and
\* then the Add or the Remove that waited.
LEMMA ServerTakes ==
  ASSUME SyncInv, NEW n \in 0..Len(toServer)
  PROVE  LET all    == Received(serverQ, toServer, n)
             handed == HandedOut(all, clock + 1)
         IN  /\ serverQ \in Seq(ServerEvents) /\ Len(serverQ) \in 0..1
             /\ Kept(all, clock + 1) = <<>>
             /\ handed \in Seq(ServerEvents) /\ Len(handed) = Len(serverQ) + n
             /\ \A i \in 1..n : handed[i] = toServer[n + 1 - i]
             /\ \A i \in 1..n : handed[i].kind = "request"
             /\ serverQ # <<>> => handed[Len(handed)] = serverQ[1]
<1> DEFINE all    == Received(serverQ, toServer, n)
           handed == HandedOut(all, clock + 1)
           m      == Len(serverQ)
<1>1. /\ server \in State /\ clock \in Nat /\ clock + 1 \in Nat
      /\ toServer \in Seq(Requests) /\ n \in Nat
  BY DEF SyncInv, SyncTypeOK
<1>2. Enter(server) \in ServerEvents /\ Leave \in ServerEvents
  BY <1>1 DEF ServerEvents, Enters, Enter, Leave
<1>3. Enter(server).ts = 0 /\ Leave.ts = 0
  BY DEF Enter, Leave
<1>4. \/ serverQ = <<>>
      \/ serverQ = <<Enter(server)>>
      \/ serverQ = <<Leave>>
  BY DEF SyncInv, Watching
<1>5. /\ serverQ \in Seq(ServerEvents) /\ m \in 0..1
      /\ (serverQ # <<>> => m = 1)
      /\ \A i \in 1..m : serverQ[i].ts = 0
  <2>1. CASE serverQ = <<>>
    BY <2>1
  <2>2. ASSUME NEW c \in ServerEvents, c.ts = 0, serverQ = <<c>>
        PROVE  /\ serverQ \in Seq(ServerEvents) /\ m \in 0..1 /\ m = 1
               /\ \A i \in 1..m : serverQ[i].ts = 0
    BY <2>2
  <2>3. QED
    BY <1>2, <1>3, <1>4, <2>1, <2>2
<1>6. \A e \in Requests : e.ts = 0 /\ e.kind = "request" /\ e \in ServerEvents
  BY DEF Requests, ServerEvents
<1>7. \A i \in 1..n : i \in 1..Len(toServer) /\ toServer[i] \in Requests
  BY <1>1
<1>8. toServer \in Seq(ServerEvents)
  BY <1>1, <1>6
<1>9. \A i \in 1..n : toServer[i].ts = 0
  BY <1>6, <1>7
<1>10. Stamped(ServerEvents)
  BY EventKinds
<1> HIDE DEF all, handed, m
<1>11. n \in 0..Len(toServer)
  OBVIOUS
<1>12. /\ all \in Seq(ServerEvents) /\ Len(all) = m + n
       /\ \A i \in 1..m : all[i] = serverQ[i]
       /\ \A i \in 1..n : all[m + i] = toServer[i]
  BY ONLY <1>5, <1>8, <1>9, <1>10, <1>11, ReceivedAtOnce DEF all, m
<1>13. \A i \in 1..(m + n) : all[i].ts = 0
  <2> SUFFICES ASSUME NEW i \in 1..(m + n) PROVE all[i].ts = 0
    OBVIOUS
  <2>1. CASE i <= m
    BY <1>5, <1>12, <2>1
  <2>2. CASE i > m
    <3>1. i - m \in 1..n /\ m + (i - m) = i
      BY <1>1, <1>5, <2>2
    <3>2. QED
      BY <1>9, <1>12, <3>1
  <2>3. QED
    BY <1>1, <1>5, <2>1, <2>2
<1>14. LET k == NumberKept(all, clock + 1)
       IN  /\ k \in 0..(m + n)
           /\ k # 0 => clock + 1 < all[k].ts
           /\ Kept(all, clock + 1) \in Seq(ServerEvents) /\ Len(Kept(all, clock + 1)) = k
           /\ handed \in Seq(ServerEvents) /\ Len(handed) = (m + n) - k
           /\ \A i \in 1..((m + n) - k) : handed[i] = all[(m + n) + 1 - i]
  <2>1. LET k == NumberKept(all, clock + 1)
        IN  /\ k \in 0..Len(all)
            /\ k # 0 => clock + 1 < all[k].ts
            /\ Kept(all, clock + 1) \in Seq(ServerEvents) /\ Len(Kept(all, clock + 1)) = k
            /\ HandedOut(all, clock + 1) \in Seq(ServerEvents)
            /\ Len(HandedOut(all, clock + 1)) = Len(all) - k
            /\ \A i \in 1..(Len(all) - k) :
                 HandedOut(all, clock + 1)[i] = all[Len(all) + 1 - i]
    <3> DEFINE soon == clock + 1
    <3>1. soon \in Nat /\ all \in Seq(ServerEvents)
      BY <1>1, <1>12
    <3> HIDE DEF soon
    <3>2. LET k == NumberKept(all, soon)
          IN  /\ k \in 0..Len(all)
              /\ \A j \in (k + 1)..Len(all) : all[j].ts <= soon
              /\ k # 0 => soon < all[k].ts
              /\ Kept(all, soon) \in Seq(ServerEvents) /\ Len(Kept(all, soon)) = k
              /\ \A i \in 1..k : Kept(all, soon)[i] = all[i]
              /\ HandedOut(all, soon) \in Seq(ServerEvents)
              /\ Len(HandedOut(all, soon)) = Len(all) - k
              /\ \A i \in 1..(Len(all) - k) : HandedOut(all, soon)[i] = all[Len(all) + 1 - i]
      BY ONLY <1>10, <3>1, KeptIs
    <3>3. QED
      BY ONLY <3>2 DEF soon
  <2>2. Len(all) = m + n
    BY <1>12
  <2>3. QED
    BY ONLY <2>1, <2>2 DEF handed
<1>15. NumberKept(all, clock + 1) = 0
  BY <1>1, <1>5, <1>13, <1>14
<1>16. /\ Kept(all, clock + 1) = <<>> /\ handed \in Seq(ServerEvents) /\ Len(handed) = m + n
       /\ \A i \in 1..(m + n) : handed[i] = all[(m + n) + 1 - i]
  BY <1>1, <1>5, <1>14, <1>15
<1>17. ASSUME NEW i \in 1..n
       PROVE  handed[i] = toServer[n + 1 - i] /\ handed[i].kind = "request"
  <2>1. i \in 1..(m + n) /\ n + 1 - i \in 1..n /\ (m + n) + 1 - i = m + (n + 1 - i)
    BY <1>1, <1>5
  <2>2. handed[i] = toServer[n + 1 - i]
    BY <1>12, <1>16, <2>1
  <2>3. QED
    BY <1>6, <1>7, <2>1, <2>2
<1>18. ASSUME serverQ # <<>>
       PROVE  handed[Len(handed)] = serverQ[1]
  <2>1. m = 1 /\ m + n \in 1..(m + n) /\ (m + n) + 1 - (m + n) = 1 /\ 1 \in 1..m
    BY <1>1, <1>5, <1>18
  <2>2. QED
    BY <1>12, <1>16, <2>1
<1>19. QED
  BY <1>5, <1>16, <1>17, <1>18 DEF all, handed, m

\* What a frame of the server does: it sends the changes it accepts, to the
\* player and to a watcher it listens for, then the Add or the Remove.
LEMMA ServerDoes ==
  ASSUME SyncInv, NEW n \in 0..Len(toServer)
  PROVE  LET all    == Received(serverQ, toServer, n)
             handed == HandedOut(all, clock + 1)
             a      == ServerRun(handed)[Len(handed)]
             x      == a.toOwn
         IN  /\ x \in Seq(Changes) /\ \A i \in 1..Len(x) : x[i].ts = clock + 1
             /\ x # <<>> => handed # <<>>
             /\ a.state = IF x = <<>> THEN server ELSE x[Len(x)].state
             /\ a.toOther = (IF watched THEN x ELSE <<>>) \o serverQ
             /\ a.requests = n /\ a.watched = near
             /\ a.unseen = (x # <<>> /\ ~watched)
             /\ a.missed = (serverQ = <<Enter(server)>> /\ x # <<>>)
             /\ n = 0 => x = <<>>
             /\ n = 1 => x = IF CanFollow(server, toServer[1].state)
                               THEN <<Change(toServer[1].state, clock + 1)>>
                               ELSE <<>>
<1> DEFINE all    == Received(serverQ, toServer, n)
           handed == HandedOut(all, clock + 1)
           a      == ServerRun(handed)[Len(handed)]
           b      == ServerRun(handed)[n]
           x      == b.toOwn
<1>1. /\ server \in State /\ clock \in Nat /\ watched \in BOOLEAN /\ near \in BOOLEAN
      /\ toServer \in Seq(Requests) /\ n \in Nat
  BY DEF SyncInv, SyncTypeOK
<1>2. /\ serverQ \in Seq(ServerEvents) /\ Len(serverQ) \in 0..1
      /\ handed \in Seq(ServerEvents) /\ Len(handed) = Len(serverQ) + n
      /\ \A i \in 1..n : handed[i] = toServer[n + 1 - i]
      /\ \A i \in 1..n : handed[i].kind = "request"
      /\ serverQ # <<>> => handed[Len(handed)] = serverQ[1]
  BY ServerTakes
<1>3. \/ serverQ = <<>> /\ watched = near
      \/ serverQ = <<Enter(server)>> /\ near /\ ~watched
      \/ serverQ = <<Leave>> /\ ~near /\ watched
  BY DEF SyncInv, Watching
<1> HIDE DEF all, handed, a, b, x
<1>4. n \in 0..Len(handed) /\ Len(handed) \in 0..Len(handed)
  BY <1>1, <1>2
<1>5. /\ b.requests = n /\ b.watched = watched /\ b.missed = FALSE
      /\ \A k \in 1..Len(x) : x[k].ts = clock + 1
      /\ b.toOther = IF watched THEN x ELSE <<>>
      /\ b.state = IF x = <<>> THEN server ELSE x[Len(x)].state
      /\ b.unseen = (x # <<>> /\ ~watched)
  BY ONLY <1>1, <1>2, <1>4, RequestsRun DEF b, x
<1>6. /\ ServerRun(handed)[0] =
           [state |-> server, watched |-> watched, toOwn |-> <<>>,
            toOther |-> <<>>, requests |-> 0, unseen |-> FALSE, missed |-> FALSE]
      /\ \A i \in 1..Len(handed) :
           ServerRun(handed)[i] = Handled(ServerRun(handed)[i - 1], handed[i])
      /\ \A i \in 0..Len(handed) : ServerRun(handed)[i] \in Progress
  BY ONLY <1>1, <1>2, ServerRuns
<1>7. b \in Progress
  BY <1>4, <1>6 DEF b
<1>8. x \in Seq(Changes) /\ b.toOther \in Seq(OtherEvents)
  BY <1>7 DEF Progress, x
<1>9. n = 0 => x = <<>>
  BY <1>6 DEF b, x
<1>10. ASSUME n = 1
       PROVE  x = IF CanFollow(server, toServer[1].state)
                    THEN <<Change(toServer[1].state, clock + 1)>> ELSE <<>>
  <2>1. 1 \in 1..Len(handed) /\ 1 \in 1..n /\ n + 1 - 1 = 1 /\ 1 - 1 = 0
    BY <1>2, <1>10
  <2>2. handed[1] = toServer[1] /\ handed[1].kind = "request"
    BY <1>2, <1>10, <2>1
  <2>3. b = Handled(ServerRun(handed)[0], toServer[1])
    BY <1>6, <1>10, <2>1, <2>2 DEF b
  <2> DEFINE s == ServerRun(handed)[0]
  <2>4. /\ s.toOwn = <<>> /\ s.state = server /\ toServer[1].kind = "request"
        /\ s \in Progress
    <3>1. 0 \in 0..Len(handed)
      BY <1>4
    <3>2. QED
      BY <1>6, <2>2, <3>1
  <2> HIDE DEF s
  <2>5. b = Handled(s, toServer[1])
    BY <2>3 DEF s
  <2>6. CASE CanFollow(server, toServer[1].state)
    <3>1. b = [s EXCEPT !.requests = @ + 1,
                        !.state = toServer[1].state,
                        !.toOwn = Append(@, Change(toServer[1].state, clock + 1)),
                        !.toOther = IF s.watched THEN Append(@, Change(toServer[1].state, clock + 1))
                                                 ELSE @,
                        !.unseen = ~s.watched]
      BY ONLY <2>6, <2>4, <2>5 DEF Handled
    <3>2. b.toOwn = Append(s.toOwn, Change(toServer[1].state, clock + 1))
      BY ONLY <2>4, <3>1 DEF Progress
    <3>3. x = Append(<<>>, Change(toServer[1].state, clock + 1))
      BY ONLY <2>4, <3>2 DEF x
    <3>4. QED
      BY <2>6, <3>3
  <2>7. CASE ~CanFollow(server, toServer[1].state)
    <3>1. b = [s EXCEPT !.requests = @ + 1]
      BY ONLY <2>7, <2>4, <2>5 DEF Handled
    <3>2. b.toOwn = <<>>
      BY ONLY <2>4, <3>1 DEF Progress
    <3>3. QED
      BY <2>7, <3>2 DEF x
  <2>8. QED
    BY <2>6, <2>7
<1>11. x # <<>> => handed # <<>>
  <2>1. handed = <<>> => n = 0
    BY <1>1, <1>2
  <2>2. QED
    BY <1>9, <2>1
<1>12. CASE serverQ = <<>>
  <2>1. a = b /\ watched = near /\ Len(serverQ) = 0
    <3>1. Len(handed) = n
      BY <1>1, <1>2, <1>12
    <3>2. watched = near
      BY <1>3, <1>12
    <3>3. QED
      BY <1>12, <3>1, <3>2 DEF a, b
  <2>2. a.toOther = (IF watched THEN x ELSE <<>>) \o serverQ
    BY <1>5, <1>8, <1>12, <2>1
  <2>3. a.missed = (serverQ = <<Enter(server)>> /\ x # <<>>)
    BY <1>5, <1>12, <2>1
  <2>4. /\ a.toOwn = x /\ a.state = b.state /\ a.requests = b.requests
        /\ a.unseen = b.unseen /\ a.watched = near
    BY <1>5, <2>1 DEF x
  <2>5. QED
    BY ONLY <1>5, <1>8, <1>9, <1>10, <1>11, <2>2, <2>3, <2>4 DEF all, handed, a, b, x
<1>13. CASE serverQ # <<>>
  <2>1. /\ Len(handed) = n + 1 /\ n + 1 \in 1..Len(handed) /\ (n + 1) - 1 = n
        /\ handed[n + 1] = serverQ[1] /\ serverQ = <<serverQ[1]>>
    <3>1. Len(serverQ) = 1 /\ serverQ = <<serverQ[1]>>
      BY <1>3, <1>13
    <3>2. Len(handed) = n + 1
      BY <1>1, <1>2, <3>1
    <3>3. handed[Len(handed)] = serverQ[1]
      BY <1>2, <1>13
    <3>4. n + 1 \in 1..(n + 1) /\ (n + 1) - 1 = n
      BY <1>1
    <3>5. QED
      BY <3>1, <3>2, <3>3, <3>4
  <2>2. a = Handled(b, serverQ[1])
    BY <1>6, <2>1 DEF a, b
  <2>3. CASE serverQ = <<Enter(server)>>
    <3>1. /\ serverQ[1] = Enter(server) /\ Enter(server).kind = "add"
          /\ near = TRUE /\ watched = FALSE
      BY <1>1, <1>3, <2>3 DEF Enter, Leave
    <3>2. a = [b EXCEPT !.watched = TRUE, !.toOther = Append(@, serverQ[1]),
                        !.missed = b.unseen]
      BY <2>2, <3>1 DEF Handled
    <3>3. a.toOther = Append(b.toOther, serverQ[1]) /\ b.toOther = <<>>
      BY <1>5, <1>7, <3>1, <3>2 DEF Progress
    <3>4. a.toOther = (IF watched THEN x ELSE <<>>) \o serverQ
      BY <1>8, <2>1, <3>1, <3>3
    <3>5. /\ a.toOwn = x /\ a.state = b.state /\ a.requests = b.requests
          /\ a.unseen = b.unseen /\ a.watched = TRUE /\ a.missed = b.unseen
      BY <1>7, <3>2 DEF Progress, x
    <3>6. a.missed = (serverQ = <<Enter(server)>> /\ x # <<>>)
      BY <1>5, <2>3, <3>1, <3>5
    <3>7. a.watched = near
      BY <3>1, <3>5
    <3>8. QED
      BY ONLY <1>5, <1>8, <1>9, <1>10, <1>11, <3>4, <3>5, <3>6, <3>7 DEF all, handed, a, b, x
  <2>4. CASE serverQ = <<Leave>>
    <3>1. /\ serverQ[1] = Leave /\ Leave.kind = "remove"
          /\ near = FALSE /\ watched = TRUE /\ serverQ # <<Enter(server)>>
      BY <1>1, <1>3, <2>4 DEF Enter, Leave
    <3>2. a = [b EXCEPT !.watched = FALSE, !.toOther = Append(@, serverQ[1])]
      BY <2>2, <3>1 DEF Handled
    <3>3. a.toOther = Append(b.toOther, serverQ[1]) /\ b.toOther = x
      BY <1>5, <1>7, <3>1, <3>2 DEF Progress
    <3>4. a.toOther = (IF watched THEN x ELSE <<>>) \o serverQ
      <4>1. x \in Seq(OtherEvents) /\ Leave \in OtherEvents
        BY <1>8, <3>3 DEF OtherEvents
      <4>2. Append(x, Leave) = x \o <<Leave>>
        BY ONLY <4>1, AppendIsConcat
      <4>3. a.toOther = Append(x, Leave)
        BY <3>1, <3>3
      <4>4. (IF watched THEN x ELSE <<>>) \o serverQ = x \o <<Leave>>
        BY <2>4, <3>1
      <4>5. QED
        BY ONLY <4>2, <4>3, <4>4
    <3>5. /\ a.toOwn = x /\ a.state = b.state /\ a.requests = b.requests
          /\ a.unseen = b.unseen /\ a.watched = FALSE /\ a.missed = b.missed
      BY <1>7, <3>2 DEF Progress, x
    <3>6. a.missed = (serverQ = <<Enter(server)>> /\ x # <<>>)
      BY <1>5, <3>1, <3>5
    <3>7. a.watched = near
      BY <3>1, <3>5
    <3>8. QED
      BY ONLY <1>5, <1>8, <1>9, <1>10, <1>11, <3>4, <3>5, <3>6, <3>7 DEF all, handed, a, b, x
  <2>5. QED
    BY <1>3, <1>13, <2>3, <2>4
<1>14. QED
  BY <1>12, <1>13 DEF all, handed, a, b, x

\* What a frame of the server changes: x are the changes it sends, y is what it
\* sends to the watcher.
ServerEffect(n, near2, x, y) ==
  /\ x \in Seq(Changes) /\ (\A i \in 1..Len(x) : x[i].ts = clock + 1)
  /\ y = (IF watched THEN x ELSE <<>>) \o serverQ
  /\ server' = IF x = <<>> THEN server ELSE x[Len(x)].state
  /\ watched' = near
  /\ near' = near2 /\ serverQ' = RangeEvent(near2, server')
  /\ toOwn' = toOwn \o x /\ toOther' = toOther \o y /\ toServer' = Unread(toServer, n)
  /\ clock' \in {clock, clock + 1} /\ (x # <<>> => clock' = clock + 1)
  /\ raced' = (n >= 2 \/ (raced /\ ~(n = 1 /\ x # <<>>)))
  /\ stale' = \/ serverQ = <<Enter(server)>> /\ x # <<>>
              \/ stale /\ ~(n = 1 /\ x # <<>> /\ watched)
  /\ n = 0 => x = <<>>
  /\ n = 1 => x = IF CanFollow(server, toServer[1].state)
                    THEN <<Change(toServer[1].state, clock + 1)>> ELSE <<>>
  /\ key' = key /\ own' = own /\ ownQ' = ownQ
  /\ other' = other /\ otherQ' = otherQ /\ swapped' = swapped

\* Every frame of the server has such an effect.
LEMMA ServerFrameDoes ==
  ASSUME SyncInv, NEW n \in 0..Len(toServer), NEW near2 \in BOOLEAN, ServerFrame(n, near2)
  PROVE  \E x, y : ServerEffect(n, near2, x, y)
<1> DEFINE all    == Received(serverQ, toServer, n)
           handed == HandedOut(all, clock + 1)
           a      == ServerRun(handed)[Len(handed)]
           x      == a.toOwn
           one    == a.requests = 1 /\ a.toOwn # <<>>
<1>1. /\ near' = near2 /\ server' = a.state /\ watched' = a.watched
      /\ toOwn' = toOwn \o a.toOwn /\ toOther' = toOther \o a.toOther
      /\ serverQ' = Kept(all, clock + 1) \o RangeEvent(near2, a.state)
      /\ clock' = IF handed = <<>> THEN clock ELSE clock + 1
      /\ raced' = (a.requests >= 2 \/ (raced /\ ~one))
      /\ stale' = \/ a.missed
                  \/ stale /\ ~(one /\ ~a.unseen)
      /\ toServer' = Unread(toServer, n)
      /\ UNCHANGED <<ownVars, otherVars>>
  BY DEF ServerFrame
<1>2. /\ x \in Seq(Changes) /\ \A i \in 1..Len(x) : x[i].ts = clock + 1
      /\ x # <<>> => handed # <<>>
      /\ a.state = IF x = <<>> THEN server ELSE x[Len(x)].state
      /\ a.toOther = (IF watched THEN x ELSE <<>>) \o serverQ
      /\ a.requests = n /\ a.watched = near
      /\ a.unseen = (x # <<>> /\ ~watched)
      /\ a.missed = (serverQ = <<Enter(server)>> /\ x # <<>>)
      /\ n = 0 => x = <<>>
      /\ n = 1 => x = IF CanFollow(server, toServer[1].state)
                        THEN <<Change(toServer[1].state, clock + 1)>>
                        ELSE <<>>
  BY ServerDoes
<1>3. Kept(all, clock + 1) = <<>>
  BY ServerTakes
<1> HIDE DEF all, handed, a
<1>4. serverQ' = RangeEvent(near2, server')
  <2> DEFINE S == {Enter(a.state), Leave}
  <2>1. /\ <<>> \in Seq(S) /\ <<Enter(a.state)>> \in Seq(S) /\ <<Leave>> \in Seq(S)
    <3>1. \A c \in S : <<c>> \in Seq(S)
      OBVIOUS
    <3>2. QED
      BY <3>1
  <2>2. \/ RangeEvent(near2, a.state) = <<>>
        \/ RangeEvent(near2, a.state) = <<Enter(a.state)>>
        \/ RangeEvent(near2, a.state) = <<Leave>>
    <3>1. near \in BOOLEAN
      BY DEF SyncInv, SyncTypeOK
    <3>2. QED
      BY <3>1 DEF RangeEvent
  <2>3. RangeEvent(near2, a.state) \in Seq(S)
    BY <2>1, <2>2
  <2> HIDE DEF S
  <2>4. <<>> \o RangeEvent(near2, a.state) = RangeEvent(near2, a.state)
    BY <2>3
  <2>5. QED
    BY <1>1, <1>3, <2>4
<1>5. clock' \in {clock, clock + 1} /\ (x # <<>> => clock' = clock + 1)
  BY <1>1, <1>2
<1>6. stale' = \/ serverQ = <<Enter(server)>> /\ x # <<>>
               \/ stale /\ ~(n = 1 /\ x # <<>> /\ watched)
  <2>1. one /\ ~a.unseen <=> n = 1 /\ x # <<>> /\ watched
    BY <1>2
  <2>2. QED
    BY <1>1, <1>2, <2>1
<1>7. raced' = (n >= 2 \/ (raced /\ ~(n = 1 /\ x # <<>>)))
  BY <1>1, <1>2
<1>8. /\ key' = key /\ own' = own /\ ownQ' = ownQ
      /\ other' = other /\ otherQ' = otherQ /\ swapped' = swapped
  BY <1>1 DEF ownVars, otherVars
<1> HIDE DEF x, one
<1>9. toOwn' = toOwn \o x
  BY <1>1 DEF x
<1>10. ServerEffect(n, near2, x, (IF watched THEN x ELSE <<>>) \o serverQ)
  BY ONLY <1>1, <1>2, <1>4, <1>5, <1>6, <1>7, <1>8, <1>9 DEF ServerEffect
<1>11. QED
  BY <1>10

\* What the server sends to the watcher: changes, if it listens, and an Add or a
\* Remove where the other one was last.
LEMMA WatcherSent ==
  ASSUME SyncInv, NEW n, NEW near2, NEW x, NEW y, ServerEffect(n, near2, x, y)
  PROVE  /\ y \in Seq(OtherEvents) /\ Alternate(y)
         /\ y # <<>> => /\ y[1].kind = "add" <=> ~watched
                        /\ y[Len(y)].kind = "remove" <=> ~watched'
         /\ y = <<>> => watched' = watched
         /\ \A k \in 1..Len(y) :
              y[k].kind = "change" => y[k].ts = clock + 1 /\ clock' = clock + 1
         /\ IF serverQ = <<>> THEN y = (IF watched THEN x ELSE <<>>) /\ watched' = watched
            ELSE /\ y # <<>> /\ y[Len(y)] = serverQ[1]
                 /\ serverQ = <<Enter(server)>> \/ serverQ = <<Leave>>
                 /\ y[Len(y)].kind # "change"
<1>1. /\ x \in Seq(Changes) /\ (\A i \in 1..Len(x) : x[i].ts = clock + 1)
      /\ y = (IF watched THEN x ELSE <<>>) \o serverQ
      /\ watched' = near
      /\ x # <<>> => clock' = clock + 1
  BY DEF ServerEffect
<1>2. server \in State /\ watched \in BOOLEAN /\ near \in BOOLEAN
  BY DEF SyncInv, SyncTypeOK
<1>3. \/ serverQ = <<>> /\ watched = near
      \/ serverQ = <<Enter(server)>> /\ near /\ ~watched
      \/ serverQ = <<Leave>> /\ ~near /\ watched
  BY DEF SyncInv, Watching
<1>4. /\ Enter(server) \in OtherEvents /\ Leave \in OtherEvents
      /\ Enter(server).kind = "add" /\ Leave.kind = "remove"
  BY <1>2 DEF OtherEvents, Enters, Enter, Leave
<1>5. /\ x \in Seq(OtherEvents) /\ Len(x) \in Nat /\ (x # <<>> <=> Len(x) # 0)
      /\ \A i \in 1..Len(x) : x[i].kind = "change"
  <2>1. \A e \in Changes : e \in OtherEvents /\ e.kind = "change"
    BY DEF OtherEvents, Changes
  <2>2. \A i \in 1..Len(x) : x[i] \in Changes
    BY <1>1
  <2>3. QED
    BY <1>1, <2>1, <2>2
<1>6. "change" # "add" /\ "change" # "remove" /\ "add" # "remove"
  OBVIOUS
<1>7. CASE serverQ = <<>> /\ watched
  <2>1. y = x /\ watched' = watched
    <3>1. x \o <<>> = x
      BY ONLY <1>5
    <3>2. y = x
      BY <1>1, <1>7, <3>1
    <3>3. watched' = watched
      BY <1>1, <1>2, <1>3, <1>7
    <3>4. QED
      BY <3>2, <3>3
  <2>2. \A i \in 1..(Len(x) - 1) : i \in 1..Len(x) /\ i + 1 \in 1..Len(x)
    BY <1>5
  <2>3. Alternate(x)
    BY <1>5, <1>6, <2>2 DEF Alternate
  <2>4. x # <<>> => 1 \in 1..Len(x) /\ Len(x) \in 1..Len(x)
    BY <1>5
  <2>5. QED
    BY <1>1, <1>2, <1>5, <1>6, <1>7, <2>1, <2>3, <2>4
<1>8. CASE serverQ = <<>> /\ ~watched
  <2>1. y = <<>> /\ watched' = watched /\ Len(y) = 0
    BY <1>1, <1>2, <1>3, <1>8
  <2>2. Alternate(y)
    BY <2>1 DEF Alternate
  <2>3. y \in Seq(OtherEvents)
    BY <2>1
  <2>4. QED
    BY <1>8, <2>1, <2>2, <2>3
<1>9. CASE serverQ = <<Enter(server)>>
  <2>1. ~watched /\ watched' = TRUE /\ serverQ # <<>>
    <3>1. serverQ # <<>> /\ serverQ # <<Leave>>
      BY <1>9 DEF Enter, Leave
    <3>2. QED
      BY <1>1, <1>2, <1>3, <3>1
  <2>2. y = serverQ /\ y # <<>>
    BY <1>1, <1>9, <2>1
  <2>3. y \in Seq(OtherEvents) /\ Len(y) = 1 /\ y[1] = Enter(server) /\ serverQ[1] = y[1]
    BY <1>4, <1>9, <2>2
  <2>4. Alternate(y)
    BY <2>3 DEF Alternate
  <2>5. QED
    BY <1>4, <1>6, <1>9, <2>1, <2>2, <2>3, <2>4
<1>10. CASE serverQ = <<Leave>>
  <2>1. watched /\ watched' = FALSE /\ serverQ # <<>>
    <3>1. serverQ # <<>> /\ serverQ # <<Enter(server)>>
      BY <1>10 DEF Enter, Leave
    <3>2. QED
      BY <1>1, <1>2, <1>3, <3>1
  <2>2. y = x \o <<Leave>>
    BY <1>1, <1>10, <2>1
  <2> DEFINE l == <<Leave>>
  <2>3. /\ l \in Seq(OtherEvents) /\ Len(l) = 1 /\ l[1] = Leave /\ serverQ[1] = Leave
        /\ Len(l) \in 1..Len(l)
    BY <1>4, <1>10
  <2>4. l # <<>>
    OBVIOUS
  <2> HIDE DEF l
  <2>5. /\ y \in Seq(OtherEvents) /\ Len(y) = Len(x) + Len(l)
        /\ \A k \in 1..Len(x) : y[k] = x[k]
        /\ \A k \in 1..Len(l) : y[Len(x) + k] = l[k]
    BY <1>5, <2>2, <2>3, Joined DEF l
  <2>6. Len(y) = Len(x) + 1 /\ y[Len(y)] = Leave /\ y # <<>>
    BY <1>5, <2>3, <2>5
  <2>7. \A k \in 1..Len(y) : k \in 1..Len(x) \/ k = Len(y)
    BY <1>5, <2>6
  <2>8. \A k \in 1..(Len(y) - 1) : k \in 1..Len(x) /\ k + 1 \in 1..Len(y)
    BY <1>5, <2>6
  <2>9. Alternate(y)
    <3>1. \A k \in 1..Len(y) : y[k].kind # "add"
      BY <1>4, <1>5, <1>6, <2>5, <2>6, <2>7
    <3>2. \A k \in 1..(Len(y) - 1) : y[k].kind # "remove"
      BY <1>5, <1>6, <2>5, <2>8
    <3>3. QED
      BY <2>8, <3>1, <3>2 DEF Alternate
  <2>10. y[1].kind # "add"
    <3>1. 1 \in 1..Len(y)
      BY <1>5, <2>6
    <3>2. QED
      BY <1>4, <1>5, <1>6, <2>5, <2>6, <2>7, <3>1
  <2>11. \A k \in 1..Len(y) : y[k].kind = "change" => y[k].ts = clock + 1 /\ clock' = clock + 1
    <3> SUFFICES ASSUME NEW k \in 1..Len(y), y[k].kind = "change"
                 PROVE  y[k].ts = clock + 1 /\ clock' = clock + 1
      OBVIOUS
    <3>1. k \in 1..Len(x)
      BY <1>4, <1>6, <2>6, <2>7
    <3>2. y[k] = x[k] /\ x # <<>>
      BY <1>5, <2>5, <3>1
    <3>3. QED
      BY <1>1, <3>1, <3>2
  <2>12. QED
    BY <1>4, <1>6, <1>10, <2>1, <2>3, <2>5, <2>6, <2>9, <2>10, <2>11
<1>11. QED
  BY <1>2, <1>3, <1>7, <1>8, <1>9, <1>10

\* Unless requests raced, a frame of the server accepts nothing or the one
\* request that reached it.
LEMMA OneAccepted ==
  ASSUME SyncInv, NEW n \in 0..Len(toServer), NEW near2, NEW x, NEW y,
         ServerEffect(n, near2, x, y), ~raced'
  PROVE  \/ n = 0 /\ ~raced /\ x = <<>> /\ server' = server
         \/ \E c \in Changes :
              /\ n = 1 /\ x = <<c>> /\ c.ts = clock + 1 /\ server' = c.state
              /\ c.state = toServer[1].state /\ clock' = clock + 1
<1>1. /\ server' = IF x = <<>> THEN server ELSE x[Len(x)].state
      /\ raced' = (n >= 2 \/ (raced /\ ~(n = 1 /\ x # <<>>)))
      /\ n = 0 => x = <<>>
      /\ n = 1 => x = IF CanFollow(server, toServer[1].state)
                        THEN <<Change(toServer[1].state, clock + 1)>> ELSE <<>>
      /\ x # <<>> => clock' = clock + 1
  BY DEF ServerEffect
<1>2. server \in State /\ toServer \in Seq(Requests) /\ clock \in Nat /\ n \in Nat
      /\ raced \in BOOLEAN
  BY DEF SyncInv, SyncTypeOK
<1>3. n = 0 \/ n = 1
  <2>1. ~(n >= 2)
    BY <1>1, Zenon
  <2>2. QED
    BY <1>2, <2>1
<1>4. CASE n = 0
  BY <1>1, <1>2, <1>4
<1>5. CASE n = 1
  <2> DEFINE s == toServer[1].state
             c == Change(s, clock + 1)
  <2>1. toServer # <<>> /\ toServer[1] \in Requests
    BY <1>2, <1>5
  <2>2. s \in State
    BY <2>1 DEF Requests
  <2>3. c \in Changes /\ c.ts = clock + 1 /\ c.state = s
    BY <1>2, <2>2 DEF Changes, Change
  <2>4. ~raced => CanFollow(server, s)
    BY <2>1 DEF SyncInv, Asked, CanFollow
  <2>5. raced => x # <<>>
    BY <1>1, <1>5
  <2> HIDE DEF s, c
  <2>6. x = IF CanFollow(server, s) THEN <<c>> ELSE <<>>
    BY <1>1, <1>5 DEF s, c
  <2>7. x = <<c>>
    BY <2>4, <2>5, <2>6
  <2>8. x # <<>> /\ x[Len(x)] = c
    BY <2>7
  <2>9. server' = c.state /\ clock' = clock + 1
    BY <1>1, <2>8
  <2>10. QED
    BY <1>5, <2>3, <2>7, <2>9 DEF s
<1>6. QED
  BY <1>3, <1>4, <1>5

\* A frame of the server keeps what is said of its requests and its types.
LEMMA ServerKeepsAsked ==
  ASSUME SyncInv, NEW n \in 0..Len(toServer), NEW near2 \in BOOLEAN, NEW x, NEW y,
         ServerEffect(n, near2, x, y)
  PROVE  SyncTypeOK' /\ Asked'
<1>1. SyncTypeOK /\ Asked
  BY DEF SyncInv
<1>2. /\ x \in Seq(Changes)
      /\ server' = IF x = <<>> THEN server ELSE x[Len(x)].state
      /\ watched' = near /\ near' = near2
      /\ toOwn' = toOwn \o x /\ toOther' = toOther \o y /\ toServer' = Unread(toServer, n)
      /\ clock' \in {clock, clock + 1}
      /\ raced' = (n >= 2 \/ (raced /\ ~(n = 1 /\ x # <<>>)))
      /\ stale' = \/ serverQ = <<Enter(server)>> /\ x # <<>>
                  \/ stale /\ ~(n = 1 /\ x # <<>> /\ watched)
      /\ key' = key /\ own' = own /\ ownQ' = ownQ
      /\ other' = other /\ otherQ' = otherQ /\ swapped' = swapped
  BY DEF ServerEffect
<1>3. toServer \in Seq(Requests) /\ n \in Nat /\ Len(toServer) \in Nat
  BY <1>1 DEF SyncTypeOK
<1>4. /\ toServer' \in Seq(Requests) /\ Len(toServer') = Len(toServer) - n
      /\ \A i \in 1..(Len(toServer) - n) : toServer'[i] = toServer[i + n]
  BY <1>2, <1>3, UnreadIs
<1>5. SyncTypeOK'
  <2>1. server' \in State
    <3>1. x # <<>> => x[Len(x)] \in Changes
      BY <1>2
    <3>2. x # <<>> => x[Len(x)].state \in State
      BY <3>1 DEF Changes
    <3>3. QED
      BY <1>1, <1>2, <3>2 DEF SyncTypeOK
  <2>2. toOwn' \in Seq(Changes)
    BY <1>1, <1>2 DEF SyncTypeOK
  <2>3. toOther' \in Seq(OtherEvents)
    <3>1. y \in Seq(OtherEvents) /\ toOther \in Seq(OtherEvents)
      BY <1>1, WatcherSent DEF SyncTypeOK
    <3>2. QED
      BY <1>2, <3>1
  <2>4. clock' \in Nat /\ near' \in BOOLEAN /\ watched' \in BOOLEAN
    BY <1>1, <1>2 DEF SyncTypeOK
  <2>5. raced' \in BOOLEAN /\ stale' \in BOOLEAN
    BY <1>2
  <2>6. /\ key' \in State /\ own' \in State /\ other' \in State \cup {None}
        /\ ownQ' \in Seq(OwnEvents) /\ otherQ' \in Seq(OtherEvents) /\ swapped' \in BOOLEAN
    BY <1>1, <1>2 DEF SyncTypeOK
  <2>7. QED
    BY <1>4, <2>1, <2>2, <2>3, <2>4, <2>5, <2>6 DEF SyncTypeOK
<1>6. /\ Controls(ownQ) \subseteq {Len(ownQ)}
      /\ Asking => ownQ[Len(ownQ)].state = key
      /\ toServer # <<>> => (Asking <=> toServer[Len(toServer)].state # key)
      /\ \A i \in 1..(Len(toServer) - 1) : toServer[i].state # toServer[i + 1].state
      /\ ~raced => IF toServer # <<>> THEN toServer[1].state # server
                                      ELSE Asking <=> key # server
  BY <1>1 DEF Asked
<1>7. Asking' = Asking
  BY <1>2 DEF Asking
<1>8. toServer' # <<>> => /\ toServer # <<>> /\ n < Len(toServer)
                          /\ toServer'[Len(toServer')] = toServer[Len(toServer)]
                          /\ toServer'[1] = toServer[n + 1]
  <2> SUFFICES ASSUME toServer' # <<>>
               PROVE  /\ toServer # <<>> /\ n < Len(toServer)
                      /\ toServer'[Len(toServer')] = toServer[Len(toServer)]
                      /\ toServer'[1] = toServer[n + 1]
    OBVIOUS
  <2>1. Len(toServer') # 0
    BY <1>4
  <2>2. /\ Len(toServer) - n \in 1..(Len(toServer) - n) /\ 1 \in 1..(Len(toServer) - n)
        /\ (Len(toServer) - n) + n = Len(toServer) /\ 1 + n = n + 1 /\ n < Len(toServer)
    BY <1>3, <1>4, <2>1
  <2>3. toServer # <<>>
    BY <1>3, <2>2
  <2>4. QED
    BY <1>4, <2>2, <2>3
<1>9. \A i \in 1..(Len(toServer') - 1) : toServer'[i].state # toServer'[i + 1].state
  <2> SUFFICES ASSUME NEW i \in 1..(Len(toServer') - 1)
               PROVE  toServer'[i].state # toServer'[i + 1].state
    OBVIOUS
  <2>1. /\ i \in 1..(Len(toServer) - n) /\ i + 1 \in 1..(Len(toServer) - n)
        /\ i + n \in 1..(Len(toServer) - 1) /\ (i + 1) + n = (i + n) + 1
    BY <1>3, <1>4
  <2>2. toServer'[i] = toServer[i + n] /\ toServer'[i + 1] = toServer[(i + n) + 1]
    BY <1>4, <2>1
  <2>3. QED
    BY <1>6, <2>1, <2>2
<1>10. ASSUME ~raced'
       PROVE  IF toServer' # <<>> THEN toServer'[1].state # server'
                                  ELSE Asking <=> key # server'
  <2>1. CASE n = 0 /\ ~raced /\ x = <<>> /\ server' = server
    <3>1. toServer' = <<>> <=> toServer = <<>>
      BY <1>3, <1>4, <2>1
    <3>2. toServer' # <<>> => toServer'[1] = toServer[1]
      BY <1>8, <2>1
    <3>3. QED
      BY <1>6, <2>1, <3>1, <3>2
  <2>2. CASE n = 1 /\ server' = toServer[1].state
    <3>1. toServer # <<>> /\ Len(toServer) # 0
      BY <1>3, <2>2
    <3>2. CASE toServer' # <<>>
      <4>1. toServer'[1] = toServer[1 + 1] /\ 1 \in 1..(Len(toServer) - 1)
        BY <1>3, <1>8, <2>2, <3>2
      <4>2. QED
        BY <1>6, <2>2, <3>2, <4>1
    <3>3. CASE toServer' = <<>>
      <4>1. Len(toServer) = 1
        BY <1>3, <1>4, <2>2, <3>3
      <4>2. QED
        BY <1>6, <2>2, <3>1, <3>3, <4>1
    <3>4. QED
      BY <3>2, <3>3
  <2>3. QED
    BY <1>10, <2>1, <2>2, OneAccepted
<1>11. Asked'
  <2>1. Controls(ownQ') \subseteq {Len(ownQ')} /\ (Asking' => ownQ'[Len(ownQ')].state = key')
    BY <1>2, <1>6, <1>7
  <2>2. toServer' # <<>> => (Asking' <=> toServer'[Len(toServer')].state # key')
    BY <1>2, <1>6, <1>7, <1>8
  <2>3. QED
    BY <1>2, <1>7, <1>9, <1>10, <2>1, <2>2 DEF Asked, Controls
<1>12. QED
  BY <1>5, <1>11

\* It keeps what is said of the player's connection.
LEMMA ServerKeepsOwn ==
  ASSUME SyncInv, NEW n \in 0..Len(toServer), NEW near2 \in BOOLEAN, NEW x, NEW y,
         ServerEffect(n, near2, x, y)
  PROVE  OwnOrdered' /\ OwnFollows'
<1>1. SyncTypeOK /\ OwnOrdered /\ OwnFollows
  BY DEF SyncInv
<1>2. /\ x \in Seq(Changes) /\ (\A i \in 1..Len(x) : x[i].ts = clock + 1)
      /\ toOwn' = toOwn \o x /\ toServer' = Unread(toServer, n)
      /\ clock' \in {clock, clock + 1} /\ (x # <<>> => clock' = clock + 1)
      /\ own' = own /\ ownQ' = ownQ
  BY DEF ServerEffect
<1>3. /\ ownQ \in Seq(OwnEvents) /\ toOwn \in Seq(Changes) /\ clock \in Nat
      /\ toServer \in Seq(Requests)
      /\ FrontIsLatest(ownQ) /\ InOrder(ownQ, toOwn, clock)
  BY <1>1 DEF SyncTypeOK, OwnOrdered
<1>4. toOwn \in Seq(OwnEvents) /\ x \in Seq(OwnEvents) /\ Timed(OwnEvents)
  BY <1>2, <1>3, EventKinds DEF OwnEvents
<1>5. OwnOrdered'
  <2>1. ASSUME NEW k \in 1..Len(x) PROVE x[k].ts = clock + 1 /\ clock' = clock + 1
    <3>1. x # <<>>
      BY <1>2
    <3>2. QED
      BY <1>2, <3>1
  <2>2. InOrder(ownQ, toOwn \o x, clock')
    BY <1>2, <1>3, <1>4, <2>1, MoreInOrder
  <2>3. FrontIsLatest(ownQ') /\ InOrder(ownQ', toOwn', clock')
    BY <1>2, <1>3, <2>2
  <2>4. QED
    BY <2>3 DEF OwnOrdered, FrontIsLatest, InOrder, ChangesIn, Range
<1>6. \A e \in OwnPending : e.ts \in Nat /\ e.ts <= clock
  <2>1. \A e \in Range(ownQ) \cup Range(toOwn) : e.ts <= clock /\ e \in OwnEvents
    BY <1>3, <1>4, RangeIs DEF InOrder
  <2>2. \A e \in OwnPending : e \in Range(ownQ) \cup Range(toOwn)
    BY DEF OwnPending, ChangesIn
  <2>3. QED
    BY <1>4, <2>1, <2>2 DEF Timed
<1>7. OwnPending' = OwnPending \cup ChangesIn(x)
  <2>1. ChangesIn(toOwn \o x) = ChangesIn(toOwn) \cup ChangesIn(x)
    BY <1>2, <1>3, JoinedRange
  <2>2. ChangesIn(ownQ') = ChangesIn(ownQ) /\ ChangesIn(toOwn') = ChangesIn(toOwn \o x)
    BY <1>2
  <2>3. OwnPending' = ChangesIn(ownQ') \cup ChangesIn(toOwn')
    BY DEF OwnPending, ChangesIn, Range
  <2>4. QED
    BY <2>1, <2>2, <2>3 DEF OwnPending
<1>8. OwnFollows'
  <2> SUFFICES ASSUME ~raced'
               PROVE  /\ LatestSays(OwnPending', server')
                      /\ OwnPending' = {} /\ ~Asking' /\ toServer' = <<>> => own' = server'
    BY DEF OwnFollows, LatestSays
  <2>1. CASE n = 0 /\ ~raced /\ x = <<>> /\ server' = server
    <3>1. ChangesIn(x) = {} /\ toServer' = toServer
      <4>1. ChangesIn(<<>>) = {}
        BY DEF ChangesIn, Range
      <4>2. ChangesIn(x) = {}
        BY <2>1, <4>1
      <4>3. Unread(toServer, 0) = toServer
        BY <1>3 DEF Unread
      <4>4. QED
        BY <1>2, <2>1, <4>2, <4>3
    <3>2. OwnPending' = OwnPending /\ Asking' = Asking
      BY <1>2, <1>7, <3>1 DEF Asking
    <3>3. QED
      BY <1>1, <1>2, <2>1, <3>1, <3>2 DEF OwnFollows
  <2>2. ASSUME NEW c \in Changes, x = <<c>>, c.ts = clock + 1, server' = c.state
        PROVE  LatestSays(OwnPending', server') /\ OwnPending' # {}
    <3>1. ChangesIn(x) = {c}
      <4>1. Range(x) = {c} /\ c.kind = "change"
        BY <2>2 DEF Range, Changes
      <4>2. QED
        BY <4>1 DEF ChangesIn
    <3>2. OwnPending' = OwnPending \cup {c}
      BY <1>7, <3>1
    <3> DEFINE S == OwnPending
    <3>3. \A e \in S : e.ts \in Nat /\ e.ts <= clock
      BY <1>6
    <3> HIDE DEF S
    <3>4. LatestSays(S \cup {c}, c.state)
      BY ONLY <1>3, <2>2, <3>3, NewestSays
    <3>5. QED
      BY <2>2, <3>2, <3>4 DEF S
  <2>3. QED
    BY <2>1, <2>2, OneAccepted
<1>9. QED
  BY <1>5, <1>8

\* It keeps what is said of the connection to the watcher.
LEMMA ServerKeepsWatching ==
  ASSUME SyncInv, NEW n \in 0..Len(toServer), NEW near2 \in BOOLEAN, NEW x, NEW y,
         ServerEffect(n, near2, x, y)
  PROVE  Watching' /\ OtherOrdered'
<1>1. SyncTypeOK /\ Watching /\ OtherOrdered
  BY DEF SyncInv
<1>2. /\ watched' = near /\ near' = near2 /\ serverQ' = RangeEvent(near2, server')
      /\ toOther' = toOther \o y /\ otherQ' = otherQ
      /\ clock' \in {clock, clock + 1}
  BY DEF ServerEffect
<1>3. /\ toOther \in Seq(OtherEvents) /\ otherQ \in Seq(OtherEvents) /\ clock \in Nat
      /\ near \in BOOLEAN /\ watched \in BOOLEAN
      /\ FrontIsLatest(otherQ) /\ InOrder(otherQ, toOther, clock)
  BY <1>1 DEF SyncTypeOK, OtherOrdered
<1>4. /\ y \in Seq(OtherEvents) /\ Alternate(y)
      /\ y # <<>> => /\ y[1].kind = "add" <=> ~watched
                     /\ y[Len(y)].kind = "remove" <=> ~watched'
      /\ y = <<>> => watched' = watched
      /\ \A k \in 1..Len(y) :
           y[k].kind = "change" => y[k].ts = clock + 1 /\ clock' = clock + 1
  BY WatcherSent
<1>5. Alternate(toOther) /\ (toOther # <<>> => (watched <=> toOther[Len(toOther)].kind # "remove"))
  BY <1>1 DEF Watching, Alternate
<1>6. Alternate(toOther')
  <2>1. toOther # <<>> /\ y # <<>> => (toOther[Len(toOther)].kind = "remove" <=> y[1].kind = "add")
    BY <1>4, <1>5
  <2>2. Alternate(toOther \o y)
    BY ONLY <1>3, <1>4, <1>5, <2>1, AlternateJoin
  <2>3. QED
    BY <1>2, <2>2
<1>7. toOther' # <<>> => (watched' <=> toOther'[Len(toOther')].kind # "remove")
  <2>1. CASE y = <<>>
    <3>1. toOther \o <<>> = toOther
      BY ONLY <1>3
    <3>2. toOther' = toOther
      BY <1>2, <2>1, <3>1
    <3>3. QED
      BY <1>4, <1>5, <2>1, <3>2
  <2>2. CASE y # <<>>
    <3>1. Len(y) \in 1..Len(y)
      BY <1>4, <2>2
    <3>2. /\ Len(toOther \o y) = Len(toOther) + Len(y)
          /\ (toOther \o y)[Len(toOther) + Len(y)] = y[Len(y)]
      BY <1>3, <1>4, <3>1, Joined
    <3>3. toOther'[Len(toOther')] = y[Len(y)]
      BY <1>2, <3>2
    <3>4. QED
      BY <1>4, <2>2, <3>3
  <2>3. QED
    BY <2>1, <2>2
<1>8. \/ serverQ' = <<>> /\ watched' = near'
      \/ serverQ' = <<Enter(server')>> /\ near' /\ ~watched'
      \/ serverQ' = <<Leave>> /\ ~near' /\ watched'
  BY <1>2, <1>3 DEF RangeEvent
<1>9. Watching'
  BY <1>6, <1>7, <1>8 DEF Watching, Alternate, Enter, Leave
<1>10. OtherOrdered'
  <2>1. Timed(OtherEvents)
    BY EventKinds
  <2>2. InOrder(otherQ, toOther \o y, clock')
    BY <1>2, <1>3, <1>4, <2>1, MoreInOrder
  <2>3. FrontIsLatest(otherQ') /\ InOrder(otherQ', toOther', clock')
    BY <1>2, <1>3, <2>2
  <2>4. QED
    BY <2>3 DEF OtherOrdered, FrontIsLatest, InOrder, ChangesIn, Range
<1>11. QED
  BY <1>9, <1>10

\* The messages behind the i-th, when more are sent.
LEMMA BehindJoin ==
  ASSUME NEW E, NEW s \in Seq(E), NEW r \in Seq(E), NEW i \in 1..Len(s)
  PROVE  {(s \o r)[j] : j \in (i + 1)..Len(s \o r)} =
           {s[j] : j \in (i + 1)..Len(s)} \cup Range(r)
<1> DEFINE t == s \o r
           B == {s[j] : j \in (i + 1)..Len(s)}
<1>1. /\ Len(s) \in Nat /\ Len(r) \in Nat /\ Len(t) = Len(s) + Len(r)
      /\ \A k \in 1..Len(s) : t[k] = s[k]
      /\ \A k \in 1..Len(r) : t[Len(s) + k] = r[k]
  BY Joined
<1> HIDE DEF t
<1>2. ASSUME NEW j \in (i + 1)..Len(t) PROVE t[j] \in B \cup Range(r)
  <2>1. CASE j <= Len(s)
    <3>1. j \in (i + 1)..Len(s) /\ j \in 1..Len(s)
      BY <1>1, <2>1
    <3>2. QED
      BY <1>1, <3>1
  <2>2. CASE j > Len(s)
    <3>1. j - Len(s) \in 1..Len(r) /\ Len(s) + (j - Len(s)) = j
      BY <1>1, <2>2
    <3>2. t[j] = r[j - Len(s)]
      BY <1>1, <3>1
    <3>3. QED
      BY <3>1, <3>2, RangeIs
  <2>3. QED
    BY <1>1, <2>1, <2>2
<1>3. ASSUME NEW j \in (i + 1)..Len(s) PROVE \E k \in (i + 1)..Len(t) : t[k] = s[j]
  <2>1. j \in (i + 1)..Len(t) /\ j \in 1..Len(s)
    BY <1>1
  <2>2. QED
    BY <1>1, <2>1
<1>4. ASSUME NEW z \in Range(r) PROVE \E k \in (i + 1)..Len(t) : t[k] = z
  <2>1. PICK k \in 1..Len(r) : r[k] = z
    BY RangeIs
  <2>2. Len(s) + k \in (i + 1)..Len(t)
    BY <1>1
  <2>3. QED
    BY <1>1, <2>1, <2>2
<1>5. {t[j] : j \in (i + 1)..Len(t)} = B \cup Range(r)
  BY <1>2, <1>3, <1>4
<1>6. QED
  BY <1>5 DEF t

\* A frame of the server keeps what is said of the last Add on the way.
LEMMA ServerKeepsSnapshot ==
  ASSUME SyncInv, NEW n \in 0..Len(toServer), NEW near2 \in BOOLEAN, NEW x, NEW y,
         ServerEffect(n, near2, x, y)
  PROVE  Snapshot'
<1>1. SyncTypeOK /\ Watching /\ OtherOrdered /\ Snapshot
  BY DEF SyncInv
<1>2. /\ server' = IF x = <<>> THEN server ELSE x[Len(x)].state
      /\ toOther' = toOther \o y
      /\ stale' = \/ serverQ = <<Enter(server)>> /\ x # <<>>
                  \/ stale /\ ~(n = 1 /\ x # <<>> /\ watched)
  BY DEF ServerEffect
<1>3. /\ toOther \in Seq(OtherEvents) /\ clock \in Nat /\ InOrder(otherQ, toOther, clock)
      /\ watched \in BOOLEAN /\ x \in Seq(Changes)
  BY <1>1 DEF SyncTypeOK, OtherOrdered, ServerEffect
<1>4. /\ y \in Seq(OtherEvents)
      /\ IF serverQ = <<>> THEN y = (IF watched THEN x ELSE <<>>) /\ watched' = watched
         ELSE /\ y # <<>> /\ y[Len(y)] = serverQ[1]
              /\ serverQ = <<Enter(server)>> \/ serverQ = <<Leave>>
              /\ y[Len(y)].kind # "change"
  BY WatcherSent
<1>5. toOther # <<>> => (watched <=> toOther[Len(toOther)].kind # "remove")
  BY <1>1 DEF Watching
<1> DEFINE t == toOther \o y
<1>6. /\ Len(toOther) \in Nat /\ Len(y) \in Nat /\ Len(t) = Len(toOther) + Len(y)
      /\ \A k \in 1..Len(toOther) : k \in 1..Len(t) /\ t[k] = toOther[k]
      /\ \A k \in 1..Len(y) : Len(toOther) + k \in 1..Len(t) /\ t[Len(toOther) + k] = y[k]
      /\ \A k \in 1..Len(t) :
           \/ k \in 1..Len(toOther) /\ t[k] = toOther[k]
           \/ k - Len(toOther) \in 1..Len(y) /\ t[k] = y[k - Len(toOther)]
  BY <1>3, <1>4, Joined
<1>7. toOther' = t
  BY <1>2
<1>8. \A i \in 1..Len(toOther) :
        {t[j] : j \in (i + 1)..Len(t)} = Behind(i) \cup Range(y)
  <2>1. toOther \in Seq(OtherEvents) /\ y \in Seq(OtherEvents)
    BY <1>3, <1>4
  <2>2. \A i \in 1..Len(toOther) :
          {(toOther \o y)[j] : j \in (i + 1)..Len(toOther \o y)} =
            {toOther[j] : j \in (i + 1)..Len(toOther)} \cup Range(y)
    BY ONLY <2>1, BehindJoin
  <2>3. QED
    BY <2>2 DEF Behind
<1> HIDE DEF t
<1>9. ASSUME NEW i \in Controls(t), \A j \in Controls(t) : j <= i, t[i].kind = "add", ~stale'
      PROVE  IF i = Len(t) THEN t[i].state = server'
             ELSE ~raced' => LatestSays({t[j] : j \in (i + 1)..Len(t)}, server')
  <2>1. i \in 1..Len(t) /\ t[i].kind # "change"
    BY <1>9 DEF Controls
  <2>2. CASE serverQ # <<>>
    <3>1. Len(y) \in 1..Len(y) /\ Len(toOther) + Len(y) = Len(t)
      BY <1>4, <1>6, <2>2
    <3>2. Len(t) \in 1..Len(t) /\ t[Len(t)] = serverQ[1] /\ t[Len(t)].kind # "change"
      BY <1>4, <1>6, <2>2, <3>1
    <3>3. Len(t) \in Controls(t)
      BY <3>2 DEF Controls
    <3>4. i = Len(t)
      BY <1>6, <1>9, <2>1, <3>3
    <3>5. serverQ = <<Enter(server)>>
      <4>1. serverQ # <<Leave>>
        <5>1. Leave.kind = "remove"
          BY DEF Leave
        <5>2. QED
          BY <1>9, <3>2, <3>4, <5>1
      <4>2. QED
        BY <1>4, <2>2, <4>1
    <3>6. server' = server
      BY <1>2, <1>9, <3>5
    <3>7. t[i].state = server
      BY <3>2, <3>4, <3>5 DEF Enter
    <3>8. QED
      BY <3>4, <3>6, <3>7
  <2>3. CASE serverQ = <<>>
    <3>1. y = (IF watched THEN x ELSE <<>>)
      BY <1>4, <2>3
    <3>2. \A k \in 1..Len(y) : y[k].kind = "change" /\ y[k] \in Changes
      <4>1. \A e \in Changes : e.kind = "change"
        BY DEF Changes
      <4>2. \A k \in 1..Len(x) : x[k] \in Changes
        BY <1>3
      <4>3. QED
        BY <3>1, <4>1, <4>2
    <3>3. i \in 1..Len(toOther) /\ t[i] = toOther[i]
      BY <1>6, <2>1, <3>2
    <3>4. i \in Controls(toOther) /\ toOther[i].kind = "add"
      BY <1>9, <3>3 DEF Controls
    <3>5. \A j \in Controls(toOther) : j <= i
      BY <1>6, <1>9 DEF Controls
    <3>6. watched
      <4>1. toOther # <<>> /\ Len(toOther) \in 1..Len(toOther)
        BY <1>3, <1>6, <3>3
      <4>2. toOther[Len(toOther)].kind # "remove"
        <5>1. CASE i = Len(toOther)
          BY <3>4, <5>1
        <5>2. CASE i # Len(toOther)
          <6>1. ~(Len(toOther) <= i)
            BY <1>6, <3>3, <5>2
          <6>2. Len(toOther) \notin Controls(toOther)
            BY <3>5, <6>1
          <6>3. QED
            BY <4>1, <6>2 DEF Controls
        <5>3. QED
          BY <5>1, <5>2
      <4>3. QED
        BY <1>5, <4>1, <4>2
    <3>7. y = x
      BY <3>1, <3>6
    <3>8. (n = 1 /\ x # <<>>) \/ ~stale
      BY <1>2, <1>9
    <3>9. ~stale => IF i = Len(toOther) THEN toOther[i].state = server
                    ELSE ~raced => LatestSays(Behind(i), server)
      BY <1>1, <3>4, <3>5 DEF Snapshot
    <3>10. {t[j] : j \in (i + 1)..Len(t)} = Behind(i) \cup Range(x)
      BY <1>8, <3>3, <3>7
    <3>11. CASE x = <<>>
      <4>1. Len(t) = Len(toOther) /\ Range(x) = {} /\ server' = server /\ ~stale
        <5>1. Len(x) = 0 /\ Range(<<>>) = {}
          BY <3>11 DEF Range
        <5>2. QED
          BY <1>2, <1>6, <3>7, <3>8, <3>11, <5>1
      <4>2. ~raced' => ~raced
        BY <3>11 DEF ServerEffect
      <4>3. QED
        BY <3>3, <3>9, <3>10, <4>1, <4>2
    <3>12. CASE x # <<>>
      <4>1. i # Len(t)
        BY <1>3, <1>6, <3>3, <3>7, <3>12
      <4>2. ASSUME ~raced' PROVE LatestSays(Behind(i) \cup Range(x), server')
        <5>1. PICK c \in Changes : x = <<c>> /\ c.ts = clock + 1 /\ server' = c.state
          BY <3>12, <4>2, OneAccepted
        <5>2. Range(x) = {c}
          BY <5>1 DEF Range
        <5> DEFINE S == Behind(i)
        <5>3. \A e \in S : e.ts \in Nat /\ e.ts <= clock
          <6> SUFFICES ASSUME NEW j \in (i + 1)..Len(toOther)
                       PROVE  toOther[j].ts \in Nat /\ toOther[j].ts <= clock
            BY DEF Behind
          <6>1. j \in 1..Len(toOther)
            BY <1>6, <3>3
          <6>2. toOther[j] \in OtherEvents /\ toOther[j] \in Range(toOther)
            BY <1>3, <6>1, RangeIs
          <6>3. QED
            BY <1>3, <6>2, EventKinds DEF InOrder, Timed
        <5> HIDE DEF S
        <5>4. LatestSays(S \cup {c}, c.state)
          BY ONLY <1>3, <5>1, <5>3, NewestSays
        <5>5. QED
          BY <5>1, <5>2, <5>4 DEF S
      <4>3. QED
        BY <3>10, <4>1, <4>2
    <3>13. QED
      BY <3>11, <3>12
  <2>4. QED
    BY <2>2, <2>3
<1>10. Snapshot'
  <2>1. \A i \in Controls(toOther') :
          (\A j \in Controls(toOther') : j <= i) /\ toOther'[i].kind = "add" /\ ~stale' =>
            IF i = Len(toOther') THEN toOther'[i].state = server'
            ELSE ~raced' => LatestSays({toOther'[j] : j \in (i + 1)..Len(toOther')}, server')
    BY <1>7, <1>9
  <2>2. QED
    BY ONLY <2>1 DEF Snapshot, Behind, LatestSays, Controls
<1>11. QED
  BY <1>10

\* And what is said of the watcher's copy.
LEMMA ServerKeepsOther ==
  ASSUME SyncInv, NEW n \in 0..Len(toServer), NEW near2 \in BOOLEAN, NEW x, NEW y,
         ServerEffect(n, near2, x, y)
  PROVE  OtherFollows'
<1>1. SyncTypeOK /\ OtherOrdered /\ OtherFollows
  BY DEF SyncInv
<1>2. /\ toOther' = toOther \o y /\ x \in Seq(Changes)
      /\ stale' = \/ serverQ = <<Enter(server)>> /\ x # <<>>
                  \/ stale /\ ~(n = 1 /\ x # <<>> /\ watched)
      /\ other' = other /\ otherQ' = otherQ /\ swapped' = swapped
  BY DEF ServerEffect
<1>3. /\ toOther \in Seq(OtherEvents) /\ otherQ \in Seq(OtherEvents)
      /\ clock \in Nat /\ InOrder(otherQ, toOther, clock) /\ watched \in BOOLEAN
  BY <1>1 DEF SyncTypeOK, OtherOrdered
<1>4. /\ y \in Seq(OtherEvents)
      /\ IF serverQ = <<>> THEN y = (IF watched THEN x ELSE <<>>) /\ watched' = watched
         ELSE /\ y # <<>> /\ y[Len(y)].kind # "change"
  BY WatcherSent
<1> SUFFICES ASSUME ~swapped
             PROVE  /\ Controls(otherQ') = {}
                    /\ Controls(toOther') = {} =>
                         /\ other' = None <=> ~watched'
                         /\ watched' /\ ~raced' /\ ~stale' =>
                              /\ LatestSays(OtherPending', server')
                              /\ OtherPending' = {} => other' = server'
  BY <1>2 DEF OtherFollows, Controls, LatestSays
<1>5. Controls(otherQ') = {}
  BY <1>1, <1>2 DEF OtherFollows
<1> SUFFICES ASSUME Controls(toOther \o y) = {}
             PROVE  /\ other = None <=> ~watched'
                    /\ watched' /\ ~raced' /\ ~stale' =>
                         /\ LatestSays(OtherPending', server')
                         /\ OtherPending' = {} => other = server'
  BY <1>2, <1>5
<1> DEFINE t == toOther \o y
<1>6. /\ Len(toOther) \in Nat /\ Len(y) \in Nat /\ Len(t) = Len(toOther) + Len(y)
      /\ \A k \in 1..Len(toOther) : k \in 1..Len(t) /\ t[k] = toOther[k]
      /\ \A k \in 1..Len(y) : Len(toOther) + k \in 1..Len(t) /\ t[Len(toOther) + k] = y[k]
  BY <1>3, <1>4, Joined
<1>7. Controls(t) = {}
  OBVIOUS
<1> HIDE DEF t
<1>8. Controls(toOther) = {}
  BY <1>6, <1>7 DEF Controls
<1>9. serverQ = <<>>
  <2>1. ASSUME y # <<>>, y[Len(y)].kind # "change" PROVE FALSE
    <3>1. Len(y) \in 1..Len(y)
      BY <1>4, <2>1
    <3>2. QED
      BY <1>6, <1>7, <2>1, <3>1 DEF Controls
  <2>2. QED
    BY <1>4, <2>1
<1>10. y = (IF watched THEN x ELSE <<>>) /\ watched' = watched
  BY <1>4, <1>9
<1>11. other = None <=> ~watched'
  BY <1>1, <1>8, <1>10 DEF OtherFollows
<1>12. OtherPending' = OtherPending \cup ChangesIn(y)
  <2>1. ChangesIn(toOther \o y) = ChangesIn(toOther) \cup ChangesIn(y)
    BY <1>3, <1>4, JoinedRange
  <2>2. ChangesIn(otherQ') = ChangesIn(otherQ) /\ ChangesIn(toOther') = ChangesIn(toOther \o y)
    BY <1>2
  <2>3. OtherPending' = ChangesIn(otherQ') \cup ChangesIn(toOther')
    BY DEF OtherPending, ChangesIn, Range
  <2>4. QED
    BY <2>1, <2>2, <2>3 DEF OtherPending
<1>13. ASSUME watched', ~raced', ~stale'
       PROVE  /\ LatestSays(OtherPending', server')
              /\ OtherPending' = {} => other = server'
  <2>1. watched /\ y = x
    BY <1>10, <1>13
  <2>2. CASE n = 0 /\ ~raced /\ x = <<>> /\ server' = server
    <3>1. ~stale
      BY <1>2, <1>13, <2>2
    <3>2. OtherPending' = OtherPending
      <4>1. ChangesIn(<<>>) = {}
        BY DEF ChangesIn, Range
      <4>2. QED
        BY <1>12, <2>1, <2>2, <4>1
    <3>3. QED
      BY <1>1, <1>8, <2>1, <2>2, <3>1, <3>2 DEF OtherFollows
  <2>3. ASSUME NEW c \in Changes, x = <<c>>, c.ts = clock + 1, server' = c.state
        PROVE  LatestSays(OtherPending', server') /\ OtherPending' # {}
    <3>1. ChangesIn(x) = {c}
      <4>1. Range(x) = {c} /\ c.kind = "change"
        BY <2>3 DEF Range, Changes
      <4>2. QED
        BY <4>1 DEF ChangesIn
    <3>2. OtherPending' = OtherPending \cup {c}
      BY <1>12, <2>1, <3>1
    <3> DEFINE S == OtherPending
    <3>3. \A e \in S : e.ts \in Nat /\ e.ts <= clock
      <4>1. \A e \in Range(otherQ) \cup Range(toOther) : e.ts <= clock /\ e \in OtherEvents
        BY <1>3, RangeIs DEF InOrder
      <4>2. \A e \in OtherPending : e \in Range(otherQ) \cup Range(toOther)
        BY DEF OtherPending, ChangesIn
      <4>3. QED
        BY <4>1, <4>2, EventKinds DEF Timed
    <3> HIDE DEF S
    <3>4. LatestSays(S \cup {c}, c.state)
      BY ONLY <1>3, <2>3, <3>3, NewestSays
    <3>5. QED
      BY <2>3, <3>2, <3>4 DEF S
  <2>4. QED
    BY <1>13, <2>2, <2>3, OneAccepted
<1>14. QED
  BY <1>11, <1>13

\* A frame of the server keeps the invariant.
LEMMA ServerFrameKeeps ==
  ASSUME SyncInv, NEW n \in 0..Len(toServer), NEW near2 \in BOOLEAN, ServerFrame(n, near2)
  PROVE  SyncInv'
<1>1. PICK x, y : ServerEffect(n, near2, x, y)
  BY ServerFrameDoes
<1>2. SyncTypeOK' /\ Asked'
  BY <1>1, ServerKeepsAsked
<1>3. OwnOrdered' /\ OwnFollows'
  BY <1>1, ServerKeepsOwn
<1>4. Watching' /\ OtherOrdered'
  BY <1>1, ServerKeepsWatching
<1>5. Snapshot'
  BY <1>1, ServerKeepsSnapshot
<1>6. OtherFollows'
  BY <1>1, ServerKeepsOther
<1>7. QED
  BY <1>2, <1>3, <1>4, <1>5, <1>6 DEF SyncInv

\* What is handed out was in the queue or on the connection.
LEMMA HandedFrom ==
  ASSUME NEW E, Stamped(E), NEW q \in Seq(E), NEW channel \in Seq(E),
         NEW n \in 0..Len(channel), NEW time \in Nat
  PROVE  LET handed == HandedOut(Received(q, channel, n), time)
         IN  \A i \in 1..Len(handed) : handed[i] \in Range(q) \cup Range(channel)
<1> DEFINE all    == Received(q, channel, n)
           handed == HandedOut(all, time)
           k      == NumberKept(all, time)
<1>1. /\ all \in Seq(E)
      /\ \A x \in Range(all) : x \in Range(q) \/ \E i \in 1..n : x = channel[i]
  BY ReceivedKeeps
<1> HIDE DEF all
<1>2. /\ k \in 0..Len(all) /\ Len(handed) = Len(all) - k
      /\ \A i \in 1..(Len(all) - k) : handed[i] = all[Len(all) + 1 - i]
  BY ONLY <1>1, Stamped(E), time \in Nat, KeptIs
<1> HIDE DEF handed, k
<1>3. ASSUME NEW i \in 1..Len(handed) PROVE handed[i] \in Range(q) \cup Range(channel)
  <2>1. i \in 1..(Len(all) - k) /\ Len(all) + 1 - i \in 1..Len(all)
    BY <1>1, <1>2
  <2>2. handed[i] \in Range(all)
    BY <1>1, <1>2, <2>1, RangeIs
  <2>3. \A j \in 1..n : channel[j] \in Range(channel)
    BY RangeIs
  <2>4. QED
    BY <1>1, <2>2, <2>3
<1>4. QED
  BY <1>3 DEF all, handed

\* A frame of the watcher's client keeps what is said of the connection to it.
LEMMA OtherKeepsRest ==
  ASSUME SyncInv, NEW n \in 0..Len(toOther), NEW time \in 0..clock, OtherFrame(n, time)
  PROVE  Watching' /\ Snapshot'
<1>1. SyncTypeOK /\ Watching /\ Snapshot
  BY DEF SyncInv
<1>2. /\ toOther' = Unread(toOther, n)
      /\ serverQ' = serverQ /\ server' = server /\ near' = near /\ watched' = watched
      /\ raced' = raced /\ (stale => stale')
  BY DEF OtherFrame, srvVars
<1>3. toOther \in Seq(OtherEvents) /\ n \in Nat /\ Len(toOther) \in Nat
  BY <1>1 DEF SyncTypeOK
<1>4. /\ toOther' \in Seq(OtherEvents) /\ Len(toOther') = Len(toOther) - n
      /\ \A i \in 1..(Len(toOther) - n) : toOther'[i] = toOther[i + n]
  BY <1>2, <1>3, UnreadIs
<1>5. /\ \A i \in 1..(Len(toOther) - 1) :
           toOther[i].kind = "remove" <=> toOther[i + 1].kind = "add"
      /\ toOther # <<>> => (watched <=> toOther[Len(toOther)].kind # "remove")
      /\ \/ serverQ = <<>> /\ watched = near
         \/ serverQ = <<Enter(server)>> /\ near /\ ~watched
         \/ serverQ = <<Leave>> /\ ~near /\ watched
  BY <1>1 DEF Watching
<1>6. Watching'
  <2>1. ASSUME NEW i \in 1..(Len(toOther') - 1)
        PROVE  toOther'[i].kind = "remove" <=> toOther'[i + 1].kind = "add"
    <3>1. /\ i \in 1..(Len(toOther) - n) /\ i + 1 \in 1..(Len(toOther) - n)
          /\ i + n \in 1..(Len(toOther) - 1) /\ (i + 1) + n = (i + n) + 1
      BY <1>3, <1>4
    <3>2. toOther'[i] = toOther[i + n] /\ toOther'[i + 1] = toOther[(i + n) + 1]
      BY <1>4, <3>1
    <3>3. QED
      BY <1>5, <3>1, <3>2
  <2>2. ASSUME toOther' # <<>>
        PROVE  watched <=> toOther'[Len(toOther')].kind # "remove"
    <3>1. /\ Len(toOther) - n \in 1..(Len(toOther) - n) /\ Len(toOther) # 0
          /\ (Len(toOther) - n) + n = Len(toOther)
      BY <1>3, <1>4, <2>2
    <3>2. toOther'[Len(toOther')] = toOther[Len(toOther)] /\ toOther # <<>>
      BY <1>4, <3>1
    <3>3. QED
      BY <1>5, <3>2
  <2>3. \/ serverQ' = <<>> /\ watched' = near'
        \/ serverQ' = <<Enter(server')>> /\ near' /\ ~watched'
        \/ serverQ' = <<Leave>> /\ ~near' /\ watched'
    BY <1>2, <1>5
  <2>4. QED
    BY <1>2, <2>1, <2>2, <2>3 DEF Watching, Enter, Leave
<1>7. ASSUME NEW i \in Controls(toOther'), \A j \in Controls(toOther') : j <= i,
             toOther'[i].kind = "add", ~stale'
      PROVE  IF i = Len(toOther') THEN toOther'[i].state = server
             ELSE ~raced => LatestSays({toOther'[j] : j \in (i + 1)..Len(toOther')}, server)
  <2>1. /\ i \in 1..(Len(toOther) - n) /\ i + n \in 1..Len(toOther)
        /\ toOther'[i] = toOther[i + n] /\ toOther[i + n].kind # "change"
        /\ (i = Len(toOther') <=> i + n = Len(toOther))
    BY <1>3, <1>4, <1>7 DEF Controls
  <2>2. ASSUME NEW j \in Controls(toOther) PROVE j <= i + n
    <3>1. j \in 1..Len(toOther) /\ toOther[j].kind # "change"
      BY <2>2 DEF Controls
    <3>2. CASE j <= n
      BY <1>3, <2>1, <3>1, <3>2
    <3>3. CASE n < j
      <4>1. j - n \in 1..(Len(toOther) - n) /\ (j - n) + n = j
        BY <1>3, <3>1, <3>3
      <4>2. toOther'[j - n].kind # "change" /\ j - n \in 1..Len(toOther')
        BY <1>4, <3>1, <4>1
      <4>3. j - n <= i
        BY <1>7, <4>2 DEF Controls
      <4>4. QED
        BY <1>3, <2>1, <3>1, <4>3
    <3>4. QED
      BY <1>3, <3>1, <3>2, <3>3
  <2>3. i + n \in Controls(toOther) /\ ~stale /\ toOther[i + n].kind = "add"
    BY <1>2, <1>7, <2>1 DEF Controls
  <2>4. IF i + n = Len(toOther) THEN toOther[i + n].state = server
        ELSE ~raced => LatestSays(Behind(i + n), server)
    BY <1>1, <2>2, <2>3 DEF Snapshot
  <2>5. {toOther'[j] : j \in (i + 1)..Len(toOther')} = Behind(i + n)
    <3>1. ASSUME NEW j \in (i + 1)..Len(toOther')
          PROVE  \E k \in (i + n + 1)..Len(toOther) : toOther'[j] = toOther[k]
      <4>1. j \in 1..(Len(toOther) - n) /\ j + n \in (i + n + 1)..Len(toOther)
        BY <1>3, <1>4, <2>1
      <4>2. QED
        BY <1>4, <4>1
    <3>2. ASSUME NEW k \in (i + n + 1)..Len(toOther)
          PROVE  \E j \in (i + 1)..Len(toOther') : toOther'[j] = toOther[k]
      <4>1. /\ k - n \in 1..(Len(toOther) - n) /\ k - n \in (i + 1)..Len(toOther')
            /\ (k - n) + n = k
        BY <1>3, <1>4, <2>1
      <4>2. QED
        BY <1>4, <4>1
    <3>3. Behind(i + n) = {toOther[k] : k \in (i + n + 1)..Len(toOther)}
      BY DEF Behind
    <3> DEFINE A == {toOther'[j] : j \in (i + 1)..Len(toOther')}
    <3>4. A \subseteq Behind(i + n)
      BY ONLY <3>1, <3>3
    <3>5. Behind(i + n) \subseteq A
      BY ONLY <3>2, <3>3
    <3>6. QED
      BY <3>4, <3>5
  <2>6. QED
    BY <2>1, <2>4, <2>5
<1>8. Snapshot'
  <2>1. \A i \in Controls(toOther') :
          (\A j \in Controls(toOther') : j <= i) /\ toOther'[i].kind = "add" /\ ~stale' =>
            IF i = Len(toOther') THEN toOther'[i].state = server'
            ELSE ~raced' => LatestSays({toOther'[j] : j \in (i + 1)..Len(toOther')}, server')
    BY <1>2, <1>7
  <2>2. QED
    BY ONLY <2>1 DEF Snapshot, Behind, LatestSays, Controls
<1>9. QED
  BY <1>6, <1>8

\* The watcher's client takes nothing but changes.
LEMMA ChangesMet ==
  ASSUME SyncInv, ~swapped, NEW n \in 0..Len(toOther), NEW time \in 0..clock,
         OtherFrame(n, time), Controls(Received(otherQ, toOther, n)) = {}
  PROVE  /\ Controls(otherQ') = {}
         /\ Controls(toOther') = {} =>
              /\ other' = None <=> ~watched
              /\ watched /\ ~raced /\ ~stale =>
                   /\ LatestSays(OtherPending', server)
                   /\ OtherPending' = {} => other' = server
<1> DEFINE all    == Received(otherQ, toOther, n)
           kept   == Kept(all, time)
           handed == HandedOut(all, time)
           rest   == Unread(toOther, n)
           after  == ChangesIn(kept) \cup ChangesIn(rest)
<1>1. /\ other' = OtherRun(handed)[Len(handed)] /\ otherQ' = kept /\ toOther' = rest
  BY DEF OtherFrame
<1>2. SyncTypeOK /\ OtherOrdered /\ OtherFollows
  BY DEF SyncInv
<1>3. /\ otherQ \in Seq(OtherEvents) /\ toOther \in Seq(OtherEvents) /\ n \in Nat
      /\ time \in Nat /\ clock \in Nat /\ FrontIsLatest(otherQ)
      /\ InOrder(otherQ, toOther, clock) /\ other \in State \cup {None}
      /\ server \in State
  BY <1>2 DEF SyncTypeOK, OtherOrdered
<1>4. Timed(OtherEvents) /\ Stamped(OtherEvents)
  BY EventKinds
<1>5. n \in 0..Len(toOther) /\ Controls(all) = {}
  OBVIOUS
<1>6. Controls(otherQ) = {}
  BY <1>2 DEF OtherFollows
<1>7. FrameTakes(OtherEvents, otherQ, toOther, n, time, clock)
  BY ONLY <1>3, <1>4, <1>5, ClientFrame
<1>8. \A i \in 1..Len(handed) : handed[i] \in Range(otherQ) \cup Range(toOther)
  BY ONLY <1>3, <1>4, <1>5, HandedFrom
<1>9. \A i \in 1..n : toOther[i].kind = "change"
  <2>1. /\ all \in Seq(OtherEvents) /\ \A i \in 1..n : toOther[i] \in Range(all)
    BY ONLY <1>3, <1>4, <1>5, ReceivedKeeps
  <2> HIDE DEF all
  <2>2. \A e \in Range(all) : e.kind = "change"
    BY <1>5, <2>1, RangeIs DEF Controls
  <2>3. QED
    BY <2>1, <2>2
<1> HIDE DEF all, kept, handed, rest
<1>10. /\ all \in Seq(OtherEvents) /\ kept \in Seq(OtherEvents)
       /\ handed \in Seq(OtherEvents) /\ rest \in Seq(OtherEvents)
       /\ Controls(kept) = {}
       /\ \A s : LatestSays(OtherPending, s) => LatestSays(after, s)
       /\ after = {} /\ OtherPending # {} =>
            /\ handed # <<>> /\ handed[Len(handed)] \in OtherPending
            /\ \A e \in OtherPending : e.ts <= handed[Len(handed)].ts
       /\ \A i \in 1..Len(handed) : handed[i].kind = "change"
  <2>1. Controls(all) \subseteq {Len(all)}
    BY <1>5
  <2>2. QED
    BY ONLY <1>5, <1>7, <2>1 DEF FrameTakes, all, kept, handed, rest, after, OtherPending
<1>11. OtherPending' = after
  <2>1. OtherPending' = ChangesIn(otherQ') \cup ChangesIn(toOther')
    BY DEF OtherPending, ChangesIn, Range
  <2>2. QED
    BY <1>1, <2>1 DEF after
<1> HIDE DEF after
<1>12. Controls(otherQ') = {}
  BY <1>1, <1>10
<1>13. other' = IF handed = <<>> \/ other = None THEN other ELSE handed[Len(handed)].state
  <2>1. LET m    == Len(handed)
            base == HandledByOther(other, handed[1])
        IN  OtherRun(handed)[m] =
              IF m = 0 THEN other
              ELSE IF base = None THEN None
              ELSE IF m = 1 THEN base ELSE handed[m].state
    <3>1. \A i \in 2..Len(handed) : handed[i].kind = "change"
      BY <1>10
    <3>2. QED
      BY ONLY <1>3, <1>10, <3>1, OtherRunIs
  <2>2. CASE handed = <<>>
    BY <1>1, <2>1, <2>2
  <2>3. CASE handed # <<>>
    <3>1. Len(handed) # 0 /\ 1 \in 1..Len(handed)
      BY <1>10, <2>3
    <3>2. handed[1].kind = "change" /\ handed[1] \in OtherEvents
      BY <1>10, <3>1
    <3>3. HandledByOther(other, handed[1]) = IF other = None THEN None ELSE handed[1].state
      BY <3>2, ChangedIs DEF HandledByOther
    <3>4. handed[1].state \in State
      BY <3>2 DEF OtherEvents, Changes, Enters, Leave
    <3>5. handed[1].state # None
      BY <3>4, SyncAssumption DEF State
    <3>6. QED
      BY <1>1, <2>1, <2>3, <3>1, <3>3, <3>5
  <2>4. QED
    BY <2>2, <2>3
<1>14. other' = None <=> other = None
  <2>1. ASSUME handed # <<>> PROVE handed[Len(handed)].state # None
    <3>1. Len(handed) \in 1..Len(handed)
      BY <1>10, <2>1
    <3>2. handed[Len(handed)] \in OtherEvents /\ handed[Len(handed)].kind = "change"
      BY <1>10, <3>1
    <3>3. handed[Len(handed)].state \in State
      BY <3>2 DEF OtherEvents, Changes, Enters, Leave
    <3>4. QED
      BY <3>3, SyncAssumption DEF State
  <2>2. QED
    BY <1>13, <2>1
<1>15. ASSUME Controls(toOther') = {}
       PROVE  Controls(toOther) = {}
  <2>1. /\ Len(rest) = Len(toOther) - n
        /\ \A i \in 1..(Len(toOther) - n) : rest[i] = toOther[i + n]
    BY <1>3, <1>5, UnreadIs DEF rest
  <2>2. ASSUME NEW i \in 1..Len(toOther) PROVE toOther[i].kind = "change"
    <3>1. CASE i <= n
      BY <1>3, <1>9, <3>1
    <3>2. CASE n < i
      <4>1. i - n \in 1..Len(rest) /\ i - n \in 1..(Len(toOther) - n) /\ (i - n) + n = i
        BY <1>3, <2>1, <3>2
      <4>2. rest[i - n].kind = "change"
        BY <1>1, <1>15, <4>1 DEF Controls
      <4>3. QED
        BY <2>1, <4>1, <4>2
    <3>3. QED
      BY <1>3, <3>1, <3>2
  <2>3. QED
    BY <2>2 DEF Controls
<1>16. ASSUME Controls(toOther') = {}
       PROVE  /\ other' = None <=> ~watched
              /\ watched /\ ~raced /\ ~stale =>
                   /\ LatestSays(after, server)
                   /\ after = {} => other' = server
  <2>1. /\ other = None <=> ~watched
        /\ watched /\ ~raced /\ ~stale =>
             /\ LatestSays(OtherPending, server)
             /\ OtherPending = {} => other = server
    BY <1>2, <1>15, <1>16 DEF OtherFollows
  <2>2. ASSUME watched, ~raced, ~stale, after = {}
        PROVE  other' = server
    <3>1. other # None
      BY <2>1, <2>2
    <3>2. CASE OtherPending = {}
      <4>1. ASSUME NEW i \in 1..Len(handed) PROVE FALSE
        <5>1. handed[i] \in Range(otherQ) \cup Range(toOther) /\ handed[i].kind = "change"
          BY <1>8, <1>10
        <5>2. handed[i] \in OtherPending
          BY <5>1 DEF OtherPending, ChangesIn
        <5>3. QED
          BY <3>2, <5>2
      <4>2. handed = <<>>
        <5>1. Len(handed) \in Nat /\ 1 \notin 1..Len(handed)
          BY <1>10, <4>1
        <5>2. QED
          BY <1>10, <5>1
      <4>3. QED
        BY <1>13, <2>1, <2>2, <3>2, <4>2
    <3>3. CASE OtherPending # {}
      <4>1. /\ handed # <<>> /\ handed[Len(handed)] \in OtherPending
            /\ \A e \in OtherPending : e.ts <= handed[Len(handed)].ts
        BY <1>10, <2>2, <3>3
      <4>2. handed[Len(handed)].state = server
        BY <2>1, <2>2, <4>1 DEF LatestSays
      <4>3. QED
        BY <1>13, <3>1, <4>1, <4>2
    <3>4. QED
      BY <3>2, <3>3
  <2>3. QED
    BY <1>10, <1>14, <2>1, <2>2
<1>17. QED
  BY <1>11, <1>12, <1>16

\* It takes one Add or Remove, which meets no other: an Add meets no copy.
LEMMA ControlMet ==
  ASSUME SyncInv, NEW n \in 0..Len(toOther), NEW time \in 0..clock,
         OtherFrame(n, time), Controls(otherQ) = {}, NEW m \in 1..n,
         \A i \in 1..n : toOther[i].kind = "change" <=> i # m,
         toOther[m].kind = "add" => other = None,
         toOther[m].kind = "add" /\ ~stale' => otherQ = <<>>
  PROVE  /\ Controls(otherQ') = {}
         /\ Controls(toOther') = {} =>
              /\ other' = None <=> ~watched
              /\ watched /\ ~raced /\ ~stale' =>
                   /\ LatestSays(OtherPending', server)
                   /\ OtherPending' = {} => other' = server
<1> DEFINE all    == Received(otherQ, toOther, n)
           kept   == Kept(all, time)
           handed == HandedOut(all, time)
           rest   == Unread(toOther, n)
           after  == ChangesIn(kept) \cup ChangesIn(rest)
           c      == toOther[m]
           base   == HandledByOther(other, c)
<1>1. /\ other' = OtherRun(handed)[Len(handed)] /\ otherQ' = kept /\ toOther' = rest
      /\ stale => stale'
  BY DEF OtherFrame
<1>2. SyncTypeOK /\ OtherOrdered /\ Watching /\ Snapshot
  BY DEF SyncInv
<1>3. /\ otherQ \in Seq(OtherEvents) /\ toOther \in Seq(OtherEvents) /\ n \in Nat
      /\ time \in Nat /\ clock \in Nat /\ FrontIsLatest(otherQ)
      /\ InOrder(otherQ, toOther, clock) /\ other \in State \cup {None}
      /\ server \in State /\ watched \in BOOLEAN
  BY <1>2 DEF SyncTypeOK, OtherOrdered
<1>4. Timed(OtherEvents) /\ Stamped(OtherEvents)
  BY EventKinds
<1>5. n \in 0..Len(toOther) /\ m \in 1..n /\ Controls(otherQ) = {}
      /\ \A i \in 1..n : toOther[i].kind = "change" <=> i # m
  OBVIOUS
<1>6. AtBack(all, c)
  BY ONLY <1>3, <1>4, <1>5, ReceivedOne DEF c
<1>7. FrameTakes(OtherEvents, otherQ, toOther, n, time, clock)
  BY ONLY <1>3, <1>4, <1>5, ClientFrame
<1>8. \A i \in 1..Len(handed) : handed[i] \in Range(otherQ) \cup Range(toOther)
  BY ONLY <1>3, <1>4, <1>5, HandedFrom
<1>9. /\ m \in 1..Len(toOther) /\ c \in OtherEvents /\ c.kind # "change"
      /\ (c.kind = "add" \/ c.kind = "remove") /\ c.ts = 0
      /\ (c.kind = "add" => c.state \in State)
  <2>1. m \in 1..Len(toOther) /\ c \in OtherEvents
    BY <1>3, <1>5
  <2>2. c.kind # "change"
    BY <1>5 DEF c
  <2>3. QED
    BY <2>1, <2>2 DEF OtherEvents, Changes, Enters, Leave
<1> HIDE DEF all, kept, handed, rest, c
<1>10. /\ all \in Seq(OtherEvents) /\ kept \in Seq(OtherEvents)
       /\ handed \in Seq(OtherEvents) /\ rest \in Seq(OtherEvents)
       /\ Controls(kept) = {}
       /\ \A s : LatestSays(OtherPending, s) => LatestSays(after, s)
       /\ after = {} /\ OtherPending # {} =>
            /\ handed # <<>> /\ handed[Len(handed)] \in OtherPending
            /\ \A e \in OtherPending : e.ts <= handed[Len(handed)].ts
       /\ \A i \in 2..Len(handed) : handed[i].kind = "change"
       /\ handed # <<>> /\ handed[1] = c
  <2>1. Controls(all) \subseteq {Len(all)}
    BY <1>6 DEF AtBack
  <2>2. QED
    BY ONLY <1>6, <1>7, <2>1 DEF FrameTakes, all, kept, handed, rest, after, OtherPending
<1>11. OtherPending' = after
  <2>1. OtherPending' = ChangesIn(otherQ') \cup ChangesIn(toOther')
    BY DEF OtherPending, ChangesIn, Range
  <2>2. QED
    BY <1>1, <2>1 DEF after
<1> HIDE DEF after
<1>12. Controls(otherQ') = {}
  BY <1>1, <1>10
<1>13. /\ Len(handed) \in Nat \ {0}
       /\ other' = IF base = None THEN None
                   ELSE IF Len(handed) = 1 THEN base ELSE handed[Len(handed)].state
  <2>1. LET k == Len(handed)
            b == HandledByOther(other, handed[1])
        IN  OtherRun(handed)[k] =
              IF k = 0 THEN other
              ELSE IF b = None THEN None
              ELSE IF k = 1 THEN b ELSE handed[k].state
    BY ONLY <1>3, <1>10, OtherRunIs
  <2>2. Len(handed) \in Nat \ {0}
    BY <1>10
  <2>3. QED
    BY <1>1, <1>10, <2>1, <2>2
<1>14. ASSUME Controls(rest) = {}
       PROVE  /\ Controls(toOther) = {m}
              /\ \A i \in 1..Len(toOther) : i # m => toOther[i].kind = "change"
  <2>1. /\ Len(rest) = Len(toOther) - n
        /\ \A i \in 1..(Len(toOther) - n) : rest[i] = toOther[i + n]
    BY <1>3, <1>5, UnreadIs DEF rest
  <2>2. ASSUME NEW i \in 1..Len(toOther), i # m PROVE toOther[i].kind = "change"
    <3>1. CASE i <= n
      BY <1>3, <1>5, <2>2, <3>1
    <3>2. CASE n < i
      <4>1. i - n \in 1..Len(rest) /\ i - n \in 1..(Len(toOther) - n) /\ (i - n) + n = i
        BY <1>3, <2>1, <3>2
      <4>2. rest[i - n].kind = "change"
        BY <1>14, <4>1 DEF Controls
      <4>3. QED
        BY <2>1, <4>1, <4>2
    <3>3. QED
      BY <1>3, <3>1, <3>2
  <2>3. QED
    BY <1>9, <2>2 DEF Controls, c
<1>15. ASSUME Controls(rest) = {}
       PROVE  watched <=> c.kind = "add"
  <2>1. toOther # <<>> /\ Len(toOther) \in 1..Len(toOther) /\ Len(toOther) \in Nat
    BY <1>3, <1>9
  <2>2. watched <=> toOther[Len(toOther)].kind # "remove"
    BY <1>2, <2>1 DEF Watching
  <2>3. CASE m = Len(toOther)
    BY <1>9, <2>2, <2>3 DEF c
  <2>4. CASE m # Len(toOther)
    <3>1. toOther[Len(toOther)].kind = "change" /\ watched
      BY <1>14, <1>15, <2>1, <2>2, <2>4
    <3>2. m \in 1..(Len(toOther) - 1) /\ m + 1 \in 1..Len(toOther) /\ m + 1 # m
      BY <1>9, <2>1, <2>4
    <3>3. toOther[m + 1].kind = "change"
      BY <1>14, <1>15, <3>2
    <3>4. c.kind = "remove" <=> toOther[m + 1].kind = "add"
      BY <1>2, <3>2 DEF Watching, c
    <3>5. QED
      BY <1>9, <3>1, <3>3, <3>4
  <2>5. QED
    BY <2>3, <2>4
<1>16. \A k \in Nat \ {0} : k # 1 => /\ k \in 2..k /\ k \in 1..k
                                     /\ 2 \in 2..k /\ 2 \in 1..k
  OBVIOUS
<1>17. CASE c.kind = "remove"
  <2>1. base = None
    BY <1>17 DEF HandledByOther
  <2>2. other' = None
    BY <1>13, <2>1
  <2>3. QED
    BY <1>1, <1>12, <1>15, <1>17, <2>2
<1>18. CASE c.kind = "add"
  <2>1. base = c.state /\ base \in State /\ base # None
    <3>1. other = None
      BY <1>18 DEF c
    <3>2. base = c.state
      BY <1>18, <3>1 DEF HandledByOther, CopyOfAdd
    <3>3. QED
      BY <1>9, <1>18, <3>2, SyncAssumption DEF State
  <2> HIDE DEF base
  <2>2. other' # None
    <3>1. CASE Len(handed) = 1
      BY <1>13, <2>1, <3>1
    <3>2. CASE Len(handed) # 1
      <4>1. Len(handed) \in 2..Len(handed) /\ Len(handed) \in 1..Len(handed)
        BY <1>13, <1>16, <3>2
      <4>2. handed[Len(handed)] \in OtherEvents /\ handed[Len(handed)].kind = "change"
        BY <1>10, <4>1
      <4>3. handed[Len(handed)].state \in State
        BY <4>2 DEF OtherEvents, Changes, Enters, Leave
      <4>4. handed[Len(handed)].state # None
        BY <4>3, SyncAssumption DEF State
      <4>5. QED
        BY <1>13, <2>1, <3>2, <4>4
    <3>3. QED
      BY <3>1, <3>2
  <2>3. ASSUME Controls(rest) = {}, ~raced, ~stale'
        PROVE  /\ LatestSays(after, server)
               /\ after = {} => other' = server
    <3>1. otherQ = <<>> /\ ~stale
      BY <1>1, <1>18, <2>3 DEF c
    <3>2. m = 1
      <4>1. ASSUME m # 1 PROVE FALSE
        <5>1. /\ m - 1 \in 1..(Len(toOther) - 1) /\ (m - 1) + 1 = m /\ m - 1 # m
              /\ m - 1 \in 1..Len(toOther)
          BY <1>3, <1>9, <4>1
        <5>2. toOther[m - 1].kind = "remove"
          BY <1>2, <1>18, <5>1 DEF Watching, c
        <5>3. toOther[m - 1].kind = "change"
          BY <1>14, <2>3, <5>1
        <5>4. QED
          BY <5>2, <5>3
      <4>2. QED
        BY <4>1
    <3>3. Controls(toOther) = {1} /\ toOther[1] = c
      BY <1>14, <2>3, <3>2 DEF c
    <3>4. IF 1 = Len(toOther) THEN c.state = server ELSE LatestSays(Behind(1), server)
      BY <1>2, <1>18, <2>3, <3>1, <3>3 DEF Snapshot
    <3>5. OtherPending = Behind(1)
      <4>1. ChangesIn(otherQ) = {}
        <5>1. ChangesIn(<<>>) = {}
          BY DEF ChangesIn, Range
        <5>2. QED
          BY <3>1, <5>1
      <4>2. \A j \in 2..Len(toOther) : /\ j \in 1..Len(toOther) /\ toOther[j].kind = "change"
                                       /\ toOther[j] \in Range(toOther)
        <5>1. \A j \in 2..Len(toOther) : j \in 1..Len(toOther) /\ j # m
          BY <3>2
        <5>2. QED
          BY <1>3, <1>14, <2>3, <5>1, RangeIs
      <4>3. \A j \in 1..Len(toOther) : j = 1 \/ j \in 2..Len(toOther)
        BY <1>3
      <4>4. ChangesIn(toOther) = {toOther[j] : j \in 2..Len(toOther)}
        <5>1. ASSUME NEW e \in ChangesIn(toOther) PROVE \E j \in 2..Len(toOther) : e = toOther[j]
          <6>1. PICK j \in 1..Len(toOther) : toOther[j] = e
            BY <1>3, RangeIs DEF ChangesIn
          <6>2. j # 1
            BY <1>9, <3>3, <6>1 DEF ChangesIn
          <6>3. QED
            BY <4>3, <6>1, <6>2
        <5>2. QED
          BY <4>2, <5>1 DEF ChangesIn
      <4>5. Behind(1) = {toOther[j] : j \in 2..Len(toOther)}
        BY DEF Behind
      <4>6. QED
        BY <4>1, <4>4, <4>5 DEF OtherPending
    <3>6. LatestSays(OtherPending, server)
      <4>1. CASE 1 = Len(toOther)
        <5>1. OtherPending = {}
          <6>1. (1 + 1)..1 = {}
            OBVIOUS
          <6>2. Behind(1) = {}
            BY <4>1, <6>1 DEF Behind
          <6>3. QED
            BY <3>5, <6>2
        <5>2. QED
          BY <5>1 DEF LatestSays
      <4>2. CASE 1 # Len(toOther)
        BY <3>4, <3>5, <4>2
      <4>3. QED
        BY <4>1, <4>2
    <3>7. ASSUME after = {} PROVE other' = server
      <4>1. CASE OtherPending = {}
        <5>1. 1 = Len(toOther)
          <6>1. ASSUME 1 # Len(toOther) PROVE FALSE
            <7>1. 2 \in 2..Len(toOther)
              <8>1. Len(toOther) \in Nat \ {0}
                BY <1>3, <1>9
              <8>2. QED
                BY <1>16, <6>1, <8>1
            <7>2. toOther[2] \in Behind(1)
              BY <7>1 DEF Behind
            <7>3. QED
              BY <3>5, <4>1, <7>2
          <6>2. QED
            BY <6>1
        <5>2. Len(handed) = 1
          <6>1. ASSUME Len(handed) # 1 PROVE FALSE
            <7>1. 2 \in 2..Len(handed) /\ 2 \in 1..Len(handed)
              BY <1>13, <1>16, <6>1
            <7>2. handed[2].kind = "change" /\ handed[2] \in Range(otherQ) \cup Range(toOther)
              BY <1>8, <1>10, <7>1
            <7>3. handed[2] \in OtherPending
              BY <7>2 DEF OtherPending, ChangesIn
            <7>4. QED
              BY <4>1, <7>3
          <6>2. QED
            BY <6>1
        <5>3. QED
          BY <1>13, <2>1, <3>4, <5>1, <5>2
      <4>2. CASE OtherPending # {}
        <5>1. /\ handed[Len(handed)] \in OtherPending
              /\ \A e \in OtherPending : e.ts <= handed[Len(handed)].ts
          BY <1>10, <3>7, <4>2
        <5>2. handed[Len(handed)].state = server
          BY <3>6, <5>1 DEF LatestSays
        <5>3. Len(handed) # 1
          <6>1. handed[Len(handed)].kind = "change"
            BY <5>1 DEF OtherPending, ChangesIn
          <6>2. QED
            BY <1>9, <1>10, <6>1
        <5>4. QED
          BY <1>13, <2>1, <5>2, <5>3
      <4>3. QED
        BY <4>1, <4>2
    <3>8. QED
      BY <1>10, <3>6, <3>7
  <2>4. QED
    BY <1>1, <1>11, <1>12, <1>15, <1>18, <2>2, <2>3
<1>19. QED
  BY <1>9, <1>17, <1>18

\* A frame of the watcher's client keeps what is said of its copy: it meets no
\* Add or Remove, or just one, or has met several.
LEMMA OtherKeepsOther ==
  ASSUME SyncInv, NEW n \in 0..Len(toOther), NEW time \in 0..clock, OtherFrame(n, time)
  PROVE  OtherFollows'
<1> DEFINE all   == Received(otherQ, toOther, n)
           met   == Controls(all)
           added == \E i \in met : all[i].kind = "add"
<1>1. /\ swapped' = IF met = {} THEN swapped
                    ELSE \/ \E i, j \in met : i # j
                         \/ added /\ other # None
                         \/ swapped /\ Controls(otherQ) # {}
      /\ stale' = (stale \/ (added /\ Controls(otherQ) # 1..Len(otherQ)))
      /\ server' = server /\ watched' = watched /\ raced' = raced
  BY DEF OtherFrame, srvVars
<1>2. SyncTypeOK /\ OtherFollows
  BY DEF SyncInv
<1>3. /\ otherQ \in Seq(OtherEvents) /\ toOther \in Seq(OtherEvents) /\ n \in Nat
      /\ swapped \in BOOLEAN /\ stale \in BOOLEAN /\ n \in 0..Len(toOther)
      /\ Len(toOther) \in Nat
  BY <1>2 DEF SyncTypeOK
<1>4. Timed(OtherEvents) /\ Stamped(OtherEvents)
  BY EventKinds
<1>5. /\ all \in Seq(OtherEvents)
      /\ \A i \in 1..n : toOther[i] \in Range(all)
      /\ \A z \in Range(all) : z \in Range(otherQ) \/ \E i \in 1..n : z = toOther[i]
  <2>1. /\ otherQ \in Seq(OtherEvents) /\ toOther \in Seq(OtherEvents)
        /\ n \in 0..Len(toOther) /\ Stamped(OtherEvents)
    BY <1>3, <1>4
  <2>2. /\ Received(otherQ, toOther, n) \in Seq(OtherEvents)
        /\ \A i \in 1..n : toOther[i] \in Range(Received(otherQ, toOther, n))
        /\ \A z \in Range(Received(otherQ, toOther, n)) :
             z \in Range(otherQ) \/ \E i \in 1..n : z = toOther[i]
    BY ONLY <2>1, ReceivedKeeps
  <2>3. QED
    BY <2>2
<1> SUFFICES ASSUME ~swapped'
             PROVE  /\ Controls(otherQ') = {}
                    /\ Controls(toOther') = {} =>
                         /\ other' = None <=> ~watched
                         /\ watched /\ ~raced /\ ~stale' =>
                              /\ LatestSays(OtherPending', server)
                              /\ OtherPending' = {} => other' = server
  BY <1>1 DEF OtherFollows, Controls, LatestSays
<1>6. CASE met = {}
  <2>1. ~swapped /\ (~stale' => ~stale)
    BY <1>1, <1>3, <1>6
  <2>2. QED
    BY <1>6, <2>1, ChangesMet
<1>7. CASE met # {}
  <2>1. Controls(otherQ) = {}
    BY <1>1, <1>2, <1>7 DEF OtherFollows
  <2>2. PICK m \in 1..n : toOther[m].kind # "change"
    <3> SUFFICES ASSUME \A i \in 1..n : toOther[i].kind = "change" PROVE FALSE
      OBVIOUS
    <3>1. \A z \in Range(otherQ) : z.kind = "change"
      BY <1>3, <2>1, RangeIs DEF Controls
    <3> HIDE DEF all
    <3>2. \A z \in Range(all) : z.kind = "change"
      BY <1>5, <3>1
    <3>3. QED
      BY <1>5, <1>7, <3>2, RangeIs DEF Controls
  <2>3. ASSUME NEW a \in 1..n, NEW b \in 1..n, a < b,
               toOther[a].kind # "change", toOther[b].kind # "change"
        PROVE  FALSE
    <3>1. Several(all)
      BY ONLY <1>3, <1>4, <2>3, ReceivedSeveral
    <3> HIDE DEF all
    <3>2. PICK i, j \in met : i < j
      BY <3>1 DEF Several
    <3>3. i # j
      BY <1>5, <3>2 DEF Controls
    <3>4. QED
      BY <1>1, <1>7, <3>3
  <2>4. \A i \in 1..n : toOther[i].kind = "change" <=> i # m
    <3> SUFFICES ASSUME NEW i \in 1..n, i # m PROVE toOther[i].kind = "change"
      BY <2>2
    <3>1. i < m \/ m < i
      BY <1>3
    <3>2. QED
      BY <2>2, <2>3, <3>1
  <2>5. toOther[m].kind = "add" => added
    <3> HIDE DEF all
    <3>1. PICK i \in 1..Len(all) : all[i] = toOther[m]
      BY <1>5, RangeIs
    <3>2. toOther[m].kind = "add" => i \in met
      BY <3>1 DEF Controls
    <3>3. QED
      BY <3>1, <3>2
  <2>6. toOther[m].kind = "add" => other = None
    BY <1>1, <1>7, <2>5
  <2>7. toOther[m].kind = "add" /\ ~stale' => otherQ = <<>>
    <3>1. ASSUME toOther[m].kind = "add", ~stale' PROVE 1..Len(otherQ) = {}
      BY <1>1, <2>1, <2>5, <3>1
    <3>2. 1..Len(otherQ) = {} => otherQ = <<>>
      <4>1. Len(otherQ) \in Nat /\ (Len(otherQ) # 0 => 1 \in 1..Len(otherQ))
        BY <1>3
      <4>2. QED
        BY <1>3, <4>1
    <3>3. QED
      BY <3>1, <3>2
  <2> HIDE DEF all, added
  <2>8. QED
    BY ONLY SyncInv, OtherFrame(n, time), n \in 0..Len(toOther), time \in 0..clock,
            <2>1, <2>2, <2>4, <2>6, <2>7, ControlMet
<1>8. QED
  BY <1>6, <1>7

\* A frame of the watcher's client keeps the invariant.
LEMMA OtherFrameKeeps ==
  ASSUME SyncInv, NEW n \in 0..Len(toOther), NEW time \in 0..clock, OtherFrame(n, time)
  PROVE  SyncInv'
<1>1. SyncTypeOK /\ OtherOrdered
  BY DEF SyncInv
<1>2. /\ otherQ \in Seq(OtherEvents) /\ toOther \in Seq(OtherEvents) /\ time \in Nat
      /\ clock \in Nat /\ n \in 0..Len(toOther) /\ other \in State \cup {None}
      /\ FrontIsLatest(otherQ) /\ InOrder(otherQ, toOther, clock)
  BY <1>1 DEF SyncTypeOK, OtherOrdered
<1>3. UNCHANGED <<ownVars, srvVars, toServer, toOwn>>
  BY DEF OtherFrame
<1> DEFINE all    == Received(otherQ, toOther, n)
           kept   == Kept(all, time)
           handed == HandedOut(all, time)
           rest   == Unread(toOther, n)
<1>4. FrameTakes(OtherEvents, otherQ, toOther, n, time, clock)
  BY ONLY <1>2, EventKinds, ClientFrame
<1>5. /\ kept \in Seq(OtherEvents) /\ handed \in Seq(OtherEvents) /\ rest \in Seq(OtherEvents)
      /\ FrontIsLatest(kept) /\ InOrder(kept, rest, clock)
  BY ONLY <1>4 DEF FrameTakes
<1>6. otherQ' = kept /\ toOther' = rest /\ other' = OtherRun(handed)[Len(handed)]
  BY DEF OtherFrame
<1>7. swapped' \in BOOLEAN /\ stale' \in BOOLEAN
  BY <1>1 DEF OtherFrame, SyncTypeOK
<1> HIDE DEF all, kept, handed, rest
<1>8. other' \in State \cup {None}
  <2>1. Len(handed) \in 0..Len(handed)
    BY <1>5
  <2>2. QED
    BY <1>2, <1>5, <1>6, <2>1, OtherRuns
<1>9. SyncTypeOK'
  BY <1>1, <1>3, <1>5, <1>6, <1>7, <1>8 DEF SyncTypeOK, ownVars, srvVars
<1>10. OtherOrdered'
  <2>1. FrontIsLatest(otherQ') /\ InOrder(otherQ', toOther', clock')
    BY <1>3, <1>5, <1>6 DEF srvVars
  <2>2. QED
    BY <2>1 DEF OtherOrdered, FrontIsLatest, InOrder, ChangesIn, Range
<1>11. Asked' /\ OwnOrdered' /\ OwnFollows'
  BY <1>3, OwnSame
<1>12. Watching' /\ Snapshot'
  BY OtherKeepsRest
<1>13. OtherFollows'
  BY OtherKeepsOther
<1>14. QED
  BY <1>9, <1>10, <1>11, <1>12, <1>13 DEF SyncInv

\* Every step keeps the invariant.
LEMMA SyncNextKeeps == SyncInv /\ [SyncNext]_syncVars => SyncInv'
<1> SUFFICES ASSUME SyncInv, [SyncNext]_syncVars PROVE SyncInv'
  OBVIOUS
<1>1. ASSUME NEW n \in 0..Len(toOwn), NEW time \in 0..clock, NEW k \in State,
             OwnFrame(n, time, k)
      PROVE  SyncInv'
  BY <1>1, OwnFrameKeeps
<1>2. ASSUME NEW n \in 0..Len(toServer), NEW near2 \in BOOLEAN, ServerFrame(n, near2)
      PROVE  SyncInv'
  BY <1>2, ServerFrameKeeps
<1>3. ASSUME NEW n \in 0..Len(toOther), NEW time \in 0..clock, OtherFrame(n, time)
      PROVE  SyncInv'
  BY <1>3, OtherFrameKeeps
<1>4. CASE UNCHANGED syncVars
  <2>1. UNCHANGED <<ownVars, srvVars, toServer, toOwn>>
        /\ UNCHANGED <<srvVars, otherVars, toOther, stale>>
    BY <1>4 DEF syncVars
  <2>2. Asked' /\ OwnOrdered' /\ OwnFollows'
    BY <2>1, OwnSame
  <2>3. OtherOrdered' /\ Watching' /\ Snapshot' /\ OtherFollows'
    BY <2>1, OtherSame
  <2>4. SyncTypeOK'
    BY <2>1 DEF SyncInv, SyncTypeOK, ownVars, srvVars, otherVars
  <2>5. QED
    BY <2>2, <2>3, <2>4 DEF SyncInv
<1>5. QED
  BY <1>1, <1>2, <1>3, <1>4 DEF SyncNext

\* The invariant of every behaviour: how requests and changes lie on their way
\* between the three copies (the types of the state are its first part).
THEOREM SyncInvariant == SyncSpec => []SyncInv
<1>1. SyncInit => SyncInv
  BY InitSync
<1>2. SyncInv /\ [SyncNext]_syncVars => SyncInv'
  BY SyncNextKeeps
<1>3. QED
  BY <1>1, <1>2, PTL DEF SyncSpec

\* Once everything is handled the player's copy and the server's are what the
\* keys say, unless requests raced (postEvent, CRequestHandler, CMotionHandler).
THEOREM TheKeysAreObeyed == SyncSpec => []KeysObeyed
<1>1. SyncInv => KeysObeyed
  BY QuietStates
<1>2. QED
  BY <1>1, SyncInvariant, PTL

\* And the watcher's copy is the server's, but for the three known races
\* (CProximityManager::update, CServerObjectView, addSob).
THEOREM TheWatcherAgrees == SyncSpec => []WatcherAgrees
<1>1. SyncInv => WatcherAgrees
  BY QuietStates
<1>2. QED
  BY <1>1, SyncInvariant, PTL

=============================================================================
