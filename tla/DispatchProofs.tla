--------------------------- MODULE DispatchProofs ---------------------------
(***************************************************************************)
(* Machine-checked proofs about Dispatch, for any listeners, sobs and      *)
(* events, any number of registrations and dispatches to any depth.        *)
(***************************************************************************)
EXTENDS Dispatch, SequenceTheorems, TLAPS

-----------------------------------------------------------------------------
(* The inductive invariant.                                                *)

\* The walk of a dispatch stands in a set of the registries.
Inside(frame) == frame.place <= Len(Places(frame.event))

\* Once a handler has returned false nothing is added to what was told.
Vetoed(frame) == frame.vetoed # 0 => ~frame.ret /\ Len(frame.told) = frame.vetoed

\* What was told in this phase was told in a set before the one the walk is in,
\* or by a listener before its iterator.
Passed(frame) ==
  \A k \in 1..Len(frame.told) :
    /\ frame.told[k].type <= frame.type
    /\ frame.told[k].type = frame.type =>
         \E p \in 1..Len(Places(frame.event)) :
           /\ frame.told[k].key = Places(frame.event)[p]
           /\ p <= frame.place
           /\ p = frame.place => frame.told[k].who <= frame.at

Once(frame) ==
  \A j, k \in 1..Len(frame.told) : j # k => frame.told[j] # frame.told[k]

FrameInv(frame) == Vetoed(frame) /\ Passed(frame) /\ Once(frame)

IInv ==
  /\ TypeOK
  /\ \A i \in 1..Len(stack) : FrameInv(stack[i])
  /\ \A i \in 1..(Len(stack) - 1) : Inside(stack[i])
  /\ \A e \in listeners : e.who \notin dead

\* What has been there since the phase began is still registered, and is an
\* entry this event is handed to in this phase.
Stays(frame, entries) ==
  \A e \in frame.steady :
    /\ e \in entries /\ e.type = frame.type
    /\ \E p \in 1..Len(Places(frame.event)) : e.key = Places(frame.event)[p]

\* The walk has come by this entry.
CameBy(frame, e) ==
  \E p \in 1..Len(Places(frame.event)) :
    /\ e.key = Places(frame.event)[p]
    /\ p < frame.place \/ (p = frame.place /\ e.who <= frame.at)

\* As long as nobody has returned false, everyone the walk has come by and who
\* has been there since the phase began was told.
Heard(frame) ==
  frame.vetoed = 0 =>
    /\ frame.ret
    /\ \A e \in frame.steady :
         CameBy(frame, e) => \E k \in 1..Len(frame.told) : frame.told[k] = e

\* The second invariant, inductive together with the first.  A dispatch that
\* waits for a handler has told somebody.
Kept ==
  /\ \A i \in 1..Len(stack) : Stays(stack[i], listeners) /\ Heard(stack[i])
  /\ \A i \in 1..(Len(stack) - 1) : stack[i].told # <<>>
  /\ busy => stack[Len(stack)].told # <<>>

-----------------------------------------------------------------------------
(* The sets an event is handed to.                                         *)

LEMMA PlacesOfGame ==
  ASSUME NEW event \in Event, event.id \notin SobEvent
  PROVE  /\ Places(event) \in Seq(Key) /\ Len(Places(event)) = 2
         /\ Places(event)[1] = <<"all">> /\ Places(event)[2] = <<"event", event.id>>
<1>1. event.id \in GameEvent
  BY DEF Event
<1>2. Places(event) = <<<<"all">>, <<"event", event.id>>>>
  BY DEF Places
<1>3. <<"all">> \in Key /\ <<"event", event.id>> \in Key
  BY <1>1 DEF Key
<1> QED
  BY <1>2, <1>3

\* A sequence behind another.
LEMMA Joining ==
  ASSUME NEW S, NEW x \in Seq(S), NEW y \in Seq(S)
  PROVE  /\ x \o y \in Seq(S) /\ Len(x \o y) = Len(x) + Len(y)
         /\ \A i \in 1..Len(x) : (x \o y)[i] = x[i]
         /\ \A i \in 1..Len(y) : (x \o y)[Len(x) + i] = y[i]
OBVIOUS

\* Two pairs in a row.
LEMMA PairsJoined ==
  ASSUME NEW S, NEW a \in S, NEW b \in S, NEW c \in S, NEW d \in S
  PROVE  /\ <<a, b>> \o <<c, d>> \in Seq(S) /\ Len(<<a, b>> \o <<c, d>>) = 4
         /\ (<<a, b>> \o <<c, d>>)[1] = a /\ (<<a, b>> \o <<c, d>>)[2] = b
         /\ (<<a, b>> \o <<c, d>>)[3] = c /\ (<<a, b>> \o <<c, d>>)[4] = d
<1> DEFINE x == <<a, b>>
           y == <<c, d>>
<1>1. /\ x \in Seq(S) /\ Len(x) = 2 /\ x[1] = a /\ x[2] = b
      /\ y \in Seq(S) /\ Len(y) = 2 /\ y[1] = c /\ y[2] = d
  OBVIOUS
<1> HIDE DEF x, y
<1>2. /\ x \o y \in Seq(S) /\ Len(x \o y) = 4
      /\ (x \o y)[1] = x[1] /\ (x \o y)[2] = x[2]
      /\ (x \o y)[3] = y[1] /\ (x \o y)[4] = y[2]
  <2>1. /\ x \o y \in Seq(S) /\ Len(x \o y) = Len(x) + Len(y)
        /\ \A i \in 1..Len(x) : (x \o y)[i] = x[i]
        /\ \A i \in 1..Len(y) : (x \o y)[Len(x) + i] = y[i]
    <3>1. x \in Seq(S) /\ y \in Seq(S)
      BY <1>1
    <3> QED
      BY ONLY <3>1, Joining
  <2>2. 1 \in 1..2 /\ 2 \in 1..2 /\ 2 + 1 = 3 /\ 2 + 2 = 4
    OBVIOUS
  <2> QED
    BY <1>1, <2>1, <2>2
<1> QED
  BY <1>1, <1>2 DEF x, y

LEMMA PlacesOfSob ==
  ASSUME NEW event \in Event, event.id \in SobEvent
  PROVE  /\ Places(event) \in Seq(Key) /\ Len(Places(event)) = 4
         /\ Places(event)[1] = <<"all">> /\ Places(event)[2] = <<"event", event.id>>
         /\ Places(event)[3] = <<"sob", event.target>>
         /\ Places(event)[4] = <<"both", event.id, event.target>>
<1>1. event.target \in Sob
  BY EventAssumption DEF Event
<1>2. /\ <<"all">> \in Key /\ <<"event", event.id>> \in Key
      /\ <<"sob", event.target>> \in Key /\ <<"both", event.id, event.target>> \in Key
  BY <1>1 DEF Key
<1>3. Places(event) = <<<<"all">>, <<"event", event.id>>>>
                      \o <<<<"sob", event.target>>, <<"both", event.id, event.target>>>>
  BY DEF Places
<1> QED
  BY <1>2, <1>3, PairsJoined

\* They are sets of the registries, four at most, and no two are the same.
LEMMA PlacesFacts ==
  ASSUME NEW event \in Event
  PROVE  /\ Places(event) \in Seq(Key) /\ Len(Places(event)) \in {2, 4}
         /\ \A p, q \in 1..Len(Places(event)) :
              Places(event)[p] = Places(event)[q] => p = q
<1>1. /\ <<"all">>[1] = "all"
      /\ \A x : <<"event", x>>[1] = "event" /\ <<"sob", x>>[1] = "sob"
      /\ \A x, y : <<"both", x, y>>[1] = "both"
  OBVIOUS
<1>2. CASE event.id \notin SobEvent
  <2>1. Len(Places(event)) = 2 /\ 1..2 = {1, 2}
    BY <1>2, PlacesOfGame
  <2> QED
    BY <1>1, <1>2, <2>1, PlacesOfGame
<1>3. CASE event.id \in SobEvent
  <2>1. Len(Places(event)) = 4 /\ 1..4 = {1, 2, 3, 4}
    BY <1>3, PlacesOfSob
  <2>2. /\ Places(event)[1][1] = "all" /\ Places(event)[2][1] = "event"
        /\ Places(event)[3][1] = "sob" /\ Places(event)[4][1] = "both"
    BY <1>1, <1>3, PlacesOfSob
  <2>3. \A p, q \in {1, 2, 3, 4} : Places(event)[p][1] = Places(event)[q][1] => p = q
    BY <2>2
  <2> QED
    BY <1>3, <2>1, <2>3, PlacesOfSob
<1> QED
  BY <1>2, <1>3

-----------------------------------------------------------------------------
(* Steps of a dispatch.                                                    *)

\* Putting another frame in the place of the innermost one.
LEMMA Replacing ==
  ASSUME stack \in Seq(Frame), stack # <<>>, NEW frame \in Frame,
         stack' = WithTop(frame)
  PROVE  /\ stack' \in Seq(Frame) /\ Len(stack') = Len(stack) /\ stack' # <<>>
         /\ stack'[Len(stack)] = frame
         /\ \A i \in 1..(Len(stack) - 1) : stack'[i] = stack[i]
         /\ Len(stack) \in Nat \ {0}
BY DEF WithTop, Depth

\* The innermost frame is one of the stack.
LEMMA TopFacts ==
  ASSUME IInv, stack # <<>>
  PROVE  /\ Top \in Frame /\ FrameInv(Top) /\ Len(stack) \in Nat \ {0}
         /\ Top = stack[Len(stack)]
<1>1. stack \in Seq(Frame) /\ Len(stack) \in Nat \ {0}
  BY DEF IInv, TypeOK
<1> QED
  BY <1>1 DEF IInv, Top, Depth

\* The invariant holds again when the innermost frame is replaced by one that
\* keeps it.
LEMMA ReplacingKeeps ==
  ASSUME IInv, stack # <<>>, NEW frame \in Frame, FrameInv(frame),
         stack' = WithTop(frame), busy' \in BOOLEAN, busy' => Inside(frame),
         undefined' \in BOOLEAN, UNCHANGED <<listeners, ops, dead>>
  PROVE  IInv'
<1>1. /\ stack' \in Seq(Frame) /\ Len(stack') = Len(stack) /\ stack' # <<>>
      /\ stack'[Len(stack)] = frame
      /\ \A i \in 1..(Len(stack) - 1) : stack'[i] = stack[i]
      /\ Len(stack) \in Nat \ {0}
  BY Replacing DEF IInv, TypeOK
<1>2. TypeOK'
  BY <1>1 DEF IInv, TypeOK, InPlace, Inside, Top, Depth
<1>3. \A i \in 1..Len(stack') : FrameInv(stack'[i])
  <2>1. \A i \in 1..Len(stack') : i = Len(stack) \/ i \in 1..(Len(stack) - 1)
    BY <1>1
  <2> QED
    BY <1>1, <2>1 DEF IInv
<1>4. \A i \in 1..(Len(stack') - 1) : Inside(stack'[i])
  BY <1>1 DEF IInv
<1>5. (\A i \in 1..Len(stack) : FrameInv(stack[i]))'
  BY <1>3 DEF FrameInv, Vetoed, Passed, Once
<1>6. (\A i \in 1..(Len(stack) - 1) : Inside(stack[i]))'
  BY <1>4 DEF Inside
<1> QED
  BY <1>2, <1>5, <1>6 DEF IInv

-----------------------------------------------------------------------------
(* What the code outside and inside of handlers does.                      *)

\* A frame that differs in what a walk does not look at.
LEMMA SameWalk ==
  ASSUME NEW f, NEW g, FrameInv(f),
         g.event = f.event, g.type = f.type, g.place = f.place, g.at = f.at,
         g.ret = f.ret, g.told = f.told, g.vetoed = f.vetoed
  PROVE  FrameInv(g) /\ (Inside(f) => Inside(g))
BY DEF FrameInv, Vetoed, Passed, Once, Inside

\* Erasing entries leaves the walks where they are.
LEMMA ErasingKeeps ==
  ASSUME IInv, NEW gone, Erase(gone), UNCHANGED <<busy, undefined>>, ops' \in Nat,
         dead' \subseteq Listener,
         \A e \in listeners : e \notin gone => e.who \notin dead'
  PROVE  IInv'
<1> DEFINE Erased(f) == [f EXCEPT !.dangling = @ \/ Node(f) \in gone,
                                  !.steady = @ \ gone]
<1>1. stack \in Seq(Frame) /\ Len(stack) \in Nat
  BY DEF IInv, TypeOK
<1>2. ASSUME NEW f \in Frame
      PROVE  /\ Erased(f) \in Frame
             /\ Erased(f).event = f.event /\ Erased(f).type = f.type
             /\ Erased(f).place = f.place /\ Erased(f).at = f.at
             /\ Erased(f).ret = f.ret /\ Erased(f).told = f.told
             /\ Erased(f).vetoed = f.vetoed
  BY DEF Frame
<1>3. stack' = [i \in 1..Len(stack) |-> Erased(stack[i])]
  BY DEF Erase, Depth
<1> HIDE DEF Erased
<1>4. \A i \in 1..Len(stack) : stack[i] \in Frame /\ Erased(stack[i]) \in Frame
  BY <1>1, <1>2
<1>5. /\ stack' \in Seq(Frame) /\ Len(stack') = Len(stack)
      /\ \A i \in 1..Len(stack) : stack'[i] = Erased(stack[i])
  BY <1>1, <1>3, <1>4
<1>6. \A i \in 1..Len(stack) :
        FrameInv(stack'[i]) /\ (Inside(stack[i]) => Inside(stack'[i]))
  <2> SUFFICES ASSUME NEW i \in 1..Len(stack)
               PROVE  FrameInv(stack'[i]) /\ (Inside(stack[i]) => Inside(stack'[i]))
    OBVIOUS
  <2>1. stack[i] \in Frame /\ stack'[i] = Erased(stack[i]) /\ FrameInv(stack[i])
    BY <1>4, <1>5 DEF IInv
  <2> QED
    BY <1>2, <2>1, SameWalk
<1>7. busy => stack # <<>> /\ Inside(stack'[Len(stack)])
  <2> SUFFICES ASSUME busy PROVE stack # <<>> /\ Inside(stack'[Len(stack)])
    OBVIOUS
  <2>1. stack # <<>> /\ Inside(stack[Len(stack)])
    BY DEF IInv, TypeOK, InPlace, Inside, Top, Depth
  <2>2. Len(stack) \in 1..Len(stack)
    BY <1>1, <2>1
  <2> QED
    BY <1>6, <2>1, <2>2
<1>8. stack # <<>> => stack' # <<>>
  BY <1>1, <1>5
<1>9. TypeOK'
  <2>1. listeners' \subseteq Entry
    BY DEF IInv, TypeOK, Erase
  <2>2. (busy => stack # <<>> /\ InPlace)'
    BY <1>5, <1>7, <1>8 DEF InPlace, Inside, Top, Depth
  <2> QED
    BY <1>5, <2>1, <2>2 DEF IInv, TypeOK
<1>10. (\A i \in 1..Len(stack) : FrameInv(stack[i]))'
  BY <1>5, <1>6 DEF FrameInv, Vetoed, Passed, Once
<1>11. (\A i \in 1..(Len(stack) - 1) : Inside(stack[i]))'
  <2>1. \A i \in 1..(Len(stack) - 1) : i \in 1..Len(stack) /\ Inside(stack[i])
    BY <1>1 DEF IInv
  <2>2. \A i \in 1..(Len(stack') - 1) : Inside(stack'[i])
    BY <1>5, <1>6, <2>1
  <2> QED
    BY <2>2 DEF Inside
<1>12. (\A e \in listeners : e.who \notin dead)'
  BY DEF Erase
<1> QED
  BY <1>9, <1>10, <1>11, <1>12 DEF IInv

\* Registering a listener that was not destroyed.
LEMMA AddingKeeps ==
  ASSUME IInv, NEW key \in Key, NEW type \in PRE_EVENT..ALL_TYPES, NEW l \in Listener,
         AddListener(key, type, l)
  PROVE  IInv'
<1>1. UNCHANGED <<stack, busy, undefined, dead>> /\ l \notin dead
  BY DEF AddListener, CodeRuns
<1>2. ops' \in Nat
  BY DEF AddListener, CodeRuns, IInv, TypeOK
<1>3. TypesOf(type) \subseteq PRE_EVENT..POST_EVENT
  BY DEF TypesOf, PRE_EVENT, POST_EVENT, ALL_TYPES
<1>4. \A e \in listeners' : e \in listeners \/ (e \in Entry /\ e.who = l)
  BY <1>3 DEF AddListener, Entry
<1>5. TypeOK'
  <2>1. listeners' \subseteq Entry
    BY <1>4 DEF IInv, TypeOK
  <2> QED
    BY <1>1, <1>2, <2>1 DEF IInv, TypeOK, InPlace, Top, Depth
<1>6. (\A i \in 1..Len(stack) : FrameInv(stack[i]))'
  <2>1. \A i \in 1..Len(stack') : FrameInv(stack'[i])
    BY <1>1 DEF IInv
  <2> QED
    BY <2>1 DEF FrameInv, Vetoed, Passed, Once
<1>7. (\A i \in 1..(Len(stack) - 1) : Inside(stack[i]))'
  <2>1. \A i \in 1..(Len(stack') - 1) : Inside(stack'[i])
    BY <1>1 DEF IInv
  <2> QED
    BY <2>1 DEF Inside
<1>8. (\A e \in listeners : e.who \notin dead)'
  BY <1>1, <1>4 DEF IInv
<1> QED
  BY <1>5, <1>6, <1>7, <1>8 DEF IInv

LEMMA CodeKeeps ==
  ASSUME IInv, Code
  PROVE  IInv'
<1>1. ops \in Nat /\ dead \subseteq Listener /\ \A e \in listeners : e.who \notin dead
  BY DEF IInv, TypeOK
<1>2. CodeRuns => UNCHANGED <<busy, undefined>> /\ ops' \in Nat
  BY <1>1 DEF CodeRuns
<1>3. ASSUME NEW l \in Listener, NEW type \in PRE_EVENT..ALL_TYPES, NEW key \in Key,
             AddListener(key, type, l)
      PROVE  IInv'
  BY <1>3, AddingKeeps
<1>4. ASSUME NEW l \in Listener, NEW type \in PRE_EVENT..ALL_TYPES, RemoveListener(l, type)
      PROVE  IInv'
  <2>1. PICK gone \in Removable(l, type) : Erase(gone)
    BY <1>4 DEF RemoveListener
  <2>2. CodeRuns /\ UNCHANGED dead
    BY <1>4 DEF RemoveListener
  <2> QED
    BY <1>1, <1>2, <2>1, <2>2, ErasingKeeps
<1>5. ASSUME NEW l \in Listener, Destroy(l)
      PROVE  IInv'
  <2>1. Erase(ForListener(l, ALL_TYPES)) /\ CodeRuns /\ dead' = dead \cup {l}
    BY <1>5 DEF Destroy
  <2>2. dead' \subseteq Listener
    BY <1>1, <2>1
  <2>3. \A e \in listeners : e \notin ForListener(l, ALL_TYPES) => e.who \notin dead'
    <3>1. \A e \in listeners : e.type \in TypesOf(ALL_TYPES)
      BY DEF IInv, TypeOK, Entry, TypesOf
    <3> QED
      BY <1>1, <2>1, <3>1 DEF ForListener, Of
  <2> QED
    BY <1>2, <2>1, <2>2, <2>3, ErasingKeeps
<1>6. ASSUME NEW s \in Sob, RemoveListenersOfSob(s)
      PROVE  IInv'
  <2>1. Erase(ForSob(s)) /\ CodeRuns /\ UNCHANGED dead
    BY <1>6 DEF RemoveListenersOfSob
  <2> QED
    BY <1>1, <1>2, <2>1, ErasingKeeps
<1>7. ASSUME NEW id \in GameEvent \cup SobEvent, NEW type \in PRE_EVENT..ALL_TYPES,
             RemoveListenersOfEvent(id, type)
      PROVE  IInv'
  <2>1. PICK gone : Erase(gone) /\ CodeRuns /\ UNCHANGED dead
    BY <1>7 DEF RemoveListenersOfEvent
  <2> QED
    BY <1>1, <1>2, <2>1, ErasingKeeps
<1> QED
  BY <1>3, <1>4, <1>5, <1>6, <1>7 DEF Code

-----------------------------------------------------------------------------
(* What processEvent does.                                                 *)

LEMMA NewFrameFacts ==
  ASSUME NEW event \in Event, NEW type \in PRE_EVENT..POST_EVENT, NEW told \in Seq(Entry),
         listeners \subseteq Entry
  PROVE  /\ NewFrame(event, type, told) \in Frame
         /\ NewFrame(event, type, told).event = event
         /\ NewFrame(event, type, told).type = type
         /\ NewFrame(event, type, told).told = told
         /\ NewFrame(event, type, told).vetoed = 0
BY DEF NewFrame, Frame

\* Nothing was told before the first phase.
LEMMA FirstPhase ==
  ASSUME NEW event \in Event, listeners \subseteq Entry
  PROVE  /\ NewFrame(event, PRE_EVENT, <<>>) \in Frame
         /\ FrameInv(NewFrame(event, PRE_EVENT, <<>>))
<1> DEFINE f == NewFrame(event, PRE_EVENT, <<>>)
<1>1. f \in Frame /\ f.told = <<>> /\ f.vetoed = 0
  BY DEF NewFrame, Frame, PRE_EVENT, POST_EVENT
<1> HIDE DEF f
<1>2. FrameInv(f)
  BY <1>1 DEF FrameInv, Vetoed, Passed, Once
<1> QED
  BY <1>1, <1>2 DEF f

LEMMA HandOutKeeps ==
  ASSUME IInv, NEW event \in Event, HandOut(event)
  PROVE  IInv'
<1> DEFINE f == NewFrame(event, PRE_EVENT, <<>>)
<1>1. f \in Frame /\ FrameInv(f)
  BY FirstPhase DEF IInv, TypeOK
<1>2. /\ stack = <<>> /\ stack' = <<f>> /\ ops' = 0
      /\ UNCHANGED <<listeners, busy, undefined, dead>>
  BY DEF HandOut
<1> HIDE DEF f
<1>3. stack' \in Seq(Frame) /\ Len(stack') = 1 /\ stack'[1] = f
  BY <1>1, <1>2
<1>4. ~busy
  BY <1>2 DEF IInv, TypeOK
<1>5. TypeOK'
  BY <1>2, <1>3, <1>4 DEF IInv, TypeOK
<1>6. (\A i \in 1..Len(stack) : FrameInv(stack[i]))'
  <2>1. \A i \in 1..Len(stack') : FrameInv(stack'[i])
    BY <1>1, <1>3
  <2> QED
    BY <2>1 DEF FrameInv, Vetoed, Passed, Once
<1>7. (\A i \in 1..(Len(stack) - 1) : Inside(stack[i]))'
  BY <1>3
<1> QED
  BY <1>2, <1>5, <1>6, <1>7 DEF IInv

LEMMA PostKeeps ==
  ASSUME IInv, NEW event \in Event, Post(event)
  PROVE  IInv'
<1> DEFINE f == NewFrame(event, PRE_EVENT, <<>>)
<1>1. f \in Frame /\ FrameInv(f)
  BY FirstPhase DEF IInv, TypeOK
<1>2. /\ busy /\ busy' = FALSE /\ stack' = Append(stack, f) /\ ops' = ops + 1
      /\ UNCHANGED <<listeners, undefined, dead>>
  BY DEF Post
<1> HIDE DEF f
<1>3. /\ Len(stack) \in Nat /\ stack' \in Seq(Frame) /\ Len(stack') = Len(stack) + 1
      /\ stack'[Len(stack) + 1] = f
      /\ \A i \in 1..Len(stack) : stack'[i] = stack[i]
  BY <1>1, <1>2 DEF IInv, TypeOK
<1>4. Inside(stack[Len(stack)])
  BY <1>2 DEF IInv, TypeOK, InPlace, Inside, Top, Depth
<1>5. TypeOK'
  <2>1. ops' \in Nat
    BY <1>2 DEF IInv, TypeOK
  <2>2. busy' \in BOOLEAN /\ (busy => stack # <<>> /\ InPlace)'
    BY <1>2
  <2> QED
    BY <1>2, <1>3, <2>1, <2>2 DEF IInv, TypeOK
<1>6. (\A i \in 1..Len(stack) : FrameInv(stack[i]))'
  <2>1. \A i \in 1..Len(stack') : i \in 1..Len(stack) \/ i = Len(stack) + 1
    BY <1>3
  <2>2. \A i \in 1..Len(stack') : FrameInv(stack'[i])
    BY <1>1, <1>3, <2>1 DEF IInv
  <2> QED
    BY <2>2 DEF FrameInv, Vetoed, Passed, Once
<1>7. (\A i \in 1..(Len(stack) - 1) : Inside(stack[i]))'
  <2>1. \A i \in 1..(Len(stack') - 1) : i \in 1..(Len(stack) - 1) \/ i = Len(stack)
    BY <1>3
  <2>2. \A i \in 1..(Len(stack') - 1) : Inside(stack[i]) /\ stack'[i] = stack[i]
    BY <1>3, <1>4, <2>1 DEF IInv
  <2> QED
    BY <2>2 DEF Inside
<1> QED
  BY <1>2, <1>5, <1>6, <1>7 DEF IInv

\* A listener is told that was not told before.
LEMMA TellKeeps ==
  ASSUME IInv, NEW l \in Listener, Tell(l)
  PROVE  IInv'
<1> DEFINE moved == [Top EXCEPT !.at = l]
           node  == [key |-> Places(Top.event)[Top.place], type |-> Top.type, who |-> l]
           frame == [moved EXCEPT !.told = Append(@, node)]
<1>1. /\ Top \in Frame /\ FrameInv(Top) /\ stack # <<>> /\ InPlace /\ Top.ret
      /\ l > Top.at /\ l \in Nat /\ Top.at \in Nat
  BY TopFacts, ListenerAssumption DEF Tell, Walking, Ahead, Frame
<1>2. /\ Places(Top.event) \in Seq(Key) /\ Top.place \in 1..Len(Places(Top.event))
      /\ \A p, q \in 1..Len(Places(Top.event)) :
           Places(Top.event)[p] = Places(Top.event)[q] => p = q
  BY <1>1, PlacesFacts DEF Frame, InPlace
<1>3. node \in Entry /\ node.key = Places(Top.event)[Top.place]
      /\ node.type = Top.type /\ node.who = l
  BY <1>1, <1>2 DEF Entry, Frame
<1>4. stack' = WithTop(frame)
  <2>1. moved.event = Top.event /\ moved.place = Top.place /\ moved.type = Top.type
        /\ moved.at = l
    BY <1>1 DEF Frame
  <2> QED
    BY <2>1 DEF Tell, Node
<1> HIDE DEF node
<1>5. /\ frame \in Frame /\ frame.event = Top.event /\ frame.type = Top.type
      /\ frame.place = Top.place /\ frame.at = l /\ frame.ret = Top.ret
      /\ frame.vetoed = Top.vetoed /\ frame.told = Append(Top.told, node)
  <2>1. /\ moved \in Frame /\ moved.event = Top.event /\ moved.type = Top.type
        /\ moved.place = Top.place /\ moved.at = l /\ moved.ret = Top.ret
        /\ moved.vetoed = Top.vetoed /\ moved.told = Top.told
    BY <1>1 DEF Frame
  <2> HIDE DEF moved
  <2>2. Append(moved.told, node) \in Seq(Entry)
    BY <1>3, <2>1 DEF Frame
  <2>3. /\ frame \in Frame /\ frame.event = moved.event /\ frame.type = moved.type
        /\ frame.place = moved.place /\ frame.at = moved.at /\ frame.ret = moved.ret
        /\ frame.vetoed = moved.vetoed /\ frame.told = Append(moved.told, node)
    BY <2>1, <2>2 DEF Frame
  <2> QED
    BY <2>1, <2>3
<1> HIDE DEF frame, moved
<1>6. /\ Top.told \in Seq(Entry) /\ Len(Top.told) \in Nat
      /\ Len(frame.told) = Len(Top.told) + 1
      /\ frame.told[Len(Top.told) + 1] = node
      /\ \A k \in 1..Len(Top.told) : frame.told[k] = Top.told[k]
      /\ \A k \in 1..Len(frame.told) : k \in 1..Len(Top.told) \/ k = Len(Top.told) + 1
  <2>1. Top.told \in Seq(Entry) /\ Len(Top.told) \in Nat
    BY <1>1 DEF Frame
  <2>2. /\ Len(frame.told) = Len(Top.told) + 1
        /\ frame.told[Len(Top.told) + 1] = node
        /\ \A k \in 1..Len(Top.told) : frame.told[k] = Top.told[k]
    BY <1>3, <1>5, <2>1
  <2> QED
    BY <2>1, <2>2
<1>7. Vetoed(frame)
  BY <1>1, <1>5 DEF FrameInv, Vetoed
<1>8. Passed(frame)
  <2> SUFFICES ASSUME NEW k \in 1..Len(frame.told)
               PROVE  /\ frame.told[k].type <= frame.type
                      /\ frame.told[k].type = frame.type =>
                           \E p \in 1..Len(Places(frame.event)) :
                             /\ frame.told[k].key = Places(frame.event)[p]
                             /\ p <= frame.place
                             /\ p = frame.place => frame.told[k].who <= frame.at
    BY DEF Passed
  <2>1. CASE k \in 1..Len(Top.told)
    <3>1. frame.told[k] = Top.told[k] /\ Top.told[k] \in Entry
      BY <1>6, <2>1
    <3>2. Top.told[k].who \in Nat
      BY <3>1, ListenerAssumption DEF Entry
    <3>3. Top.told[k].who <= Top.at => Top.told[k].who <= l
      BY <1>1, <3>2
    <3>4. /\ Top.told[k].type <= Top.type
          /\ Top.told[k].type = Top.type =>
               \E p \in 1..Len(Places(Top.event)) :
                 /\ Top.told[k].key = Places(Top.event)[p]
                 /\ p <= Top.place
                 /\ p = Top.place => Top.told[k].who <= Top.at
      BY <1>1, <2>1 DEF FrameInv, Passed
    <3> QED
      BY <1>5, <3>1, <3>3, <3>4
  <2>2. CASE k = Len(Top.told) + 1
    <3>1. frame.told[k] = node
      BY <1>6, <2>2
    <3>2. Top.place <= Top.place /\ l <= l /\ Top.type <= Top.type
      BY <1>1 DEF Frame, PRE_EVENT, POST_EVENT
    <3> QED
      BY <1>2, <1>3, <1>5, <3>1, <3>2
  <2> QED
    BY <1>6, <2>1, <2>2
<1>9. ASSUME NEW k \in 1..Len(Top.told)
      PROVE  Top.told[k] # node
  <2> SUFFICES ASSUME Top.told[k] = node PROVE FALSE
    OBVIOUS
  <2>1. PICK p \in 1..Len(Places(Top.event)) :
          /\ node.key = Places(Top.event)[p]
          /\ p = Top.place => node.who <= Top.at
    BY <1>1, <1>3 DEF FrameInv, Passed
  <2>2. p = Top.place
    BY <1>2, <1>3, <2>1
  <2> QED
    BY <1>1, <1>3, <2>1, <2>2
<1>10. Once(frame)
  <2>1. \A j, k \in 1..Len(Top.told) : j # k => Top.told[j] # Top.told[k]
    BY <1>1 DEF FrameInv, Once
  <2> QED
    BY <1>6, <1>9, <2>1 DEF Once
<1>11. Inside(frame)
  BY <1>1, <1>5 DEF InPlace, Inside
<1>12. busy' = TRUE /\ UNCHANGED <<listeners, undefined, ops, dead>>
  BY DEF Tell
<1>13. undefined \in BOOLEAN
  BY DEF IInv, TypeOK
<1> QED
  BY <1>1, <1>4, <1>5, <1>7, <1>8, <1>10, <1>11, <1>12, <1>13, ReplacingKeeps DEF FrameInv

\* A handler answers.
LEMMA ReplyKeeps ==
  ASSUME IInv, NEW answer \in BOOLEAN, Reply(answer)
  PROVE  IInv'
<1> DEFINE veto  == IF answer \/ Top.vetoed # 0 THEN Top.vetoed ELSE Len(Top.told)
           frame == [Top EXCEPT !.ret = @ /\ answer, !.vetoed = veto]
<1>1. /\ busy /\ stack # <<>> /\ busy' = FALSE /\ undefined' = Top.dangling
      /\ UNCHANGED <<listeners, ops, dead>>
  BY DEF Reply, IInv, TypeOK
<1>2. Top \in Frame /\ FrameInv(Top)
  BY <1>1, TopFacts
<1>3. stack' = WithTop(frame)
  BY <1>2 DEF Reply, Frame
<1>4. veto \in Nat /\ (veto # 0 => (~Top.ret \/ ~answer) /\ Len(Top.told) = veto)
  BY <1>2 DEF Frame, FrameInv, Vetoed
<1> HIDE DEF veto
<1>5. /\ frame \in Frame /\ frame.event = Top.event /\ frame.type = Top.type
      /\ frame.place = Top.place /\ frame.at = Top.at /\ frame.told = Top.told
      /\ frame.vetoed = veto /\ (frame.ret => Top.ret /\ answer)
  BY <1>2, <1>4 DEF Frame
<1> HIDE DEF frame
<1>6. Vetoed(frame)
  BY <1>4, <1>5 DEF Vetoed
<1>7. Passed(frame) /\ Once(frame)
  BY <1>2, <1>5 DEF FrameInv, Passed, Once
<1>8. undefined' \in BOOLEAN
  BY <1>1, <1>2 DEF Frame
<1> QED
  BY <1>1, <1>3, <1>5, <1>6, <1>7, <1>8, ReplacingKeeps DEF FrameInv

\* The walk goes on to the next set.
LEMMA NextPlaceKeeps ==
  ASSUME IInv, NextPlace
  PROVE  IInv'
<1> DEFINE frame == [Top EXCEPT !.place = @ + 1, !.at = 0]
<1>1. /\ ~busy /\ stack # <<>> /\ InPlace /\ stack' = WithTop(frame)
      /\ UNCHANGED <<listeners, busy, undefined, ops, dead>>
  BY DEF NextPlace, Walking
<1>2. Top \in Frame /\ FrameInv(Top)
  BY <1>1, TopFacts
<1>3. Top.place + 1 \in 1..5 /\ Top.place \in Nat
  BY <1>1, <1>2, PlacesFacts DEF Frame, InPlace
<1>4. /\ frame \in Frame /\ frame.event = Top.event /\ frame.type = Top.type
      /\ frame.place = Top.place + 1 /\ frame.told = Top.told
      /\ frame.vetoed = Top.vetoed /\ frame.ret = Top.ret
  BY <1>2, <1>3 DEF Frame
<1> HIDE DEF frame
<1>5. Vetoed(frame) /\ Once(frame)
  BY <1>2, <1>4 DEF FrameInv, Vetoed, Once
<1>6. Passed(frame)
  <2> SUFFICES ASSUME NEW k \in 1..Len(frame.told)
               PROVE  /\ frame.told[k].type <= frame.type
                      /\ frame.told[k].type = frame.type =>
                           \E p \in 1..Len(Places(frame.event)) :
                             /\ frame.told[k].key = Places(frame.event)[p]
                             /\ p <= frame.place
                             /\ p = frame.place => frame.told[k].who <= frame.at
    BY DEF Passed
  <2>1. /\ Top.told[k].type <= Top.type
        /\ Top.told[k].type = Top.type =>
             \E p \in 1..Len(Places(Top.event)) :
               Top.told[k].key = Places(Top.event)[p] /\ p <= Top.place
    BY <1>2, <1>4 DEF FrameInv, Passed
  <2>2. \A p \in 1..Len(Places(Top.event)) :
          p <= Top.place => p <= Top.place + 1 /\ p # Top.place + 1
    BY <1>3
  <2> QED
    BY <1>4, <2>1, <2>2
<1>7. undefined' \in BOOLEAN /\ busy' = FALSE
  BY <1>1 DEF IInv, TypeOK
<1> QED
  BY <1>1, <1>4, <1>5, <1>6, <1>7, ReplacingKeeps DEF FrameInv

\* An event is done with, or its next phase begins.
LEMMA EndPhaseKeeps ==
  ASSUME IInv, EndPhase
  PROVE  IInv'
<1>1. ~busy /\ stack # <<>> /\ UNCHANGED <<listeners, undefined, ops, dead>>
  BY DEF EndPhase, Walking
<1>2. Top \in Frame /\ FrameInv(Top) /\ stack \in Seq(Frame) /\ Len(stack) \in Nat \ {0}
  BY <1>1, TopFacts DEF IInv, TypeOK
<1>3. CASE Finished
  <2>1. stack' = SubSeq(stack, 1, Len(stack) - 1) /\ busy' = (Len(stack) > 1)
    BY <1>3 DEF EndPhase, Depth
  <2>2. /\ stack' \in Seq(Frame) /\ Len(stack') = Len(stack) - 1
        /\ \A i \in 1..(Len(stack) - 1) : stack'[i] = stack[i]
    <3> DEFINE n == Len(stack) - 1
    <3>1. n \in Nat /\ \A i \in 1..n : stack[i] \in Frame
      BY <1>2
    <3> HIDE DEF n
    <3>2. /\ SubSeq(stack, 1, n) \in Seq(Frame)
          /\ Len(SubSeq(stack, 1, n)) = IF 1 <= n THEN n - 1 + 1 ELSE 0
          /\ \A i \in 1..(n - 1 + 1) : SubSeq(stack, 1, n)[i] = stack[1 + i - 1]
      BY <3>1, SubSeqProperties
    <3>3. n - 1 + 1 = n /\ (~(1 <= n) => n = 0) /\ \A i \in 1..n : 1 + i - 1 = i
      BY <3>1
    <3>4. /\ SubSeq(stack, 1, n) \in Seq(Frame) /\ Len(SubSeq(stack, 1, n)) = n
          /\ \A i \in 1..n : SubSeq(stack, 1, n)[i] = stack[i]
      BY <3>2, <3>3
    <3> QED
      BY <2>1, <3>4 DEF n
  <2>3. ASSUME busy'
        PROVE  stack' # <<>> /\ Inside(stack'[Len(stack')])
    <3>1. Len(stack) > 1
      BY <2>1, <2>3, Zenon
    <3>2. Len(stack') \in 1..(Len(stack) - 1)
      BY <1>2, <2>2, <3>1
    <3> QED
      BY <2>2, <3>2 DEF IInv
  <2>4. TypeOK'
    <3>1. busy' \in BOOLEAN
      BY <2>1
    <3>2. (busy => stack # <<>> /\ InPlace)'
      BY <2>3 DEF InPlace, Inside, Top, Depth
    <3> QED
      BY <1>1, <2>2, <3>1, <3>2 DEF IInv, TypeOK
  <2>5. (\A i \in 1..Len(stack) : FrameInv(stack[i]))'
    <3>1. \A i \in 1..Len(stack') : i \in 1..Len(stack) /\ stack'[i] = stack[i]
      BY <1>2, <2>2
    <3>2. \A i \in 1..Len(stack') : FrameInv(stack'[i])
      BY <3>1 DEF IInv
    <3> QED
      BY <3>2 DEF FrameInv, Vetoed, Passed, Once
  <2>6. (\A i \in 1..(Len(stack) - 1) : Inside(stack[i]))'
    <3>1. \A i \in 1..(Len(stack') - 1) :
            i \in 1..(Len(stack) - 1) /\ stack'[i] = stack[i]
      BY <1>2, <2>2
    <3>2. \A i \in 1..(Len(stack') - 1) : Inside(stack'[i])
      BY <3>1 DEF IInv
    <3> QED
      BY <3>2 DEF Inside
  <2> QED
    BY <1>1, <2>4, <2>5, <2>6 DEF IInv
<1>4. CASE ~Finished
  <2> DEFINE new   == NewFrame(Top.event, Top.type + 1, Top.told)
             frame == [new EXCEPT !.vetoed = Top.vetoed]
  <2>1. stack' = WithTop(frame) /\ busy' = busy
    BY <1>4 DEF EndPhase
  <2>2. /\ Top.event \in Event /\ Top.told \in Seq(Entry) /\ Top.type \in Nat
        /\ Top.type + 1 \in PRE_EVENT..POST_EVENT
    BY <1>2, <1>4 DEF Frame, Finished, PRE_EVENT, POST_EVENT
  <2>3. Top.vetoed = 0
    BY <1>2, <1>4 DEF Finished, FrameInv, Vetoed
  <2>4. /\ new \in Frame /\ new.event = Top.event /\ new.type = Top.type + 1
        /\ new.told = Top.told /\ new.vetoed = 0
    BY <2>2, NewFrameFacts DEF IInv, TypeOK
  <2> HIDE DEF new
  <2>5. /\ frame \in Frame /\ frame.type = Top.type + 1 /\ frame.told = Top.told
        /\ frame.vetoed = 0
    BY <2>3, <2>4 DEF Frame
  <2> HIDE DEF frame
  <2>6. Vetoed(frame)
    BY <2>5 DEF Vetoed
  <2>7. Once(frame)
    BY <1>2, <2>5 DEF FrameInv, Once
  <2>8. \A k \in 1..Len(Top.told) : Top.told[k].type <= Top.type /\ Top.told[k].type \in Nat
    <3>1. \A k \in 1..Len(Top.told) : Top.told[k] \in Entry
      BY <2>2
    <3>2. \A k \in 1..Len(Top.told) : Top.told[k].type \in Nat
      BY <3>1 DEF Entry, PRE_EVENT, POST_EVENT
    <3> QED
      BY <1>2, <3>2 DEF FrameInv, Passed
  <2>9. Passed(frame)
    BY <2>2, <2>5, <2>8 DEF Passed
  <2>10. undefined' \in BOOLEAN /\ busy' = FALSE
    BY <1>1, <2>1 DEF IInv, TypeOK
  <2> QED
    BY <1>1, <2>1, <2>5, <2>6, <2>7, <2>9, <2>10, ReplacingKeeps DEF FrameInv
<1> QED
  BY <1>3, <1>4

-----------------------------------------------------------------------------
LEMMA InitInv == Init => IInv
<1> SUFFICES ASSUME Init PROVE IInv
  OBVIOUS
<1>1. /\ listeners = {} /\ stack = <<>> /\ busy = FALSE /\ undefined = FALSE
      /\ ops = 0 /\ dead = {}
  BY DEF Init
<1>2. TypeOK
  <2>1. stack \in Seq(Frame) /\ listeners \subseteq Entry /\ dead \subseteq Listener
    BY <1>1
  <2>2. busy \in BOOLEAN /\ undefined \in BOOLEAN /\ ops \in Nat
    BY <1>1
  <2> QED
    BY <1>1, <2>1, <2>2 DEF TypeOK
<1> QED
  BY <1>1, <1>2 DEF IInv

LEMMA NextInv ==
  ASSUME IInv, [Next]_vars
  PROVE  IInv'
<1>1. CASE Code
  BY <1>1, CodeKeeps
<1>2. ASSUME NEW event \in Event, HandOut(event)
      PROVE  IInv'
  BY <1>2, HandOutKeeps
<1>3. ASSUME NEW event \in Event, Post(event)
      PROVE  IInv'
  BY <1>3, PostKeeps
<1>4. CASE Walk
  <2>1. ASSUME NEW l \in Listener, Tell(l)
        PROVE  IInv'
    BY <2>1, TellKeeps
  <2>2. ASSUME NEW answer \in BOOLEAN, Reply(answer)
        PROVE  IInv'
    BY <2>2, ReplyKeeps
  <2> QED
    BY <1>4, <2>1, <2>2, NextPlaceKeeps, EndPhaseKeeps DEF Walk
<1>5. CASE UNCHANGED vars
  <2>1. UNCHANGED <<listeners, stack, busy, undefined, ops, dead>>
    BY <1>5 DEF vars
  <2>2. TypeOK'
    BY <2>1 DEF IInv, TypeOK, InPlace, Top, Depth
  <2>3. (\A i \in 1..Len(stack) : FrameInv(stack[i]))'
    BY <2>1 DEF IInv, FrameInv, Vetoed, Passed, Once
  <2>4. (\A i \in 1..(Len(stack) - 1) : Inside(stack[i]))'
    BY <2>1 DEF IInv, Inside
  <2> QED
    BY <2>1, <2>2, <2>3, <2>4 DEF IInv
<1> QED
  BY <1>1, <1>2, <1>3, <1>4, <1>5 DEF Next

-----------------------------------------------------------------------------
(* Who stays registered is told: the second invariant.                     *)

\* The innermost frame is replaced by one that keeps the second invariant.
LEMMA ReplacingKeepsTold ==
  ASSUME IInv, Kept, stack # <<>>, NEW frame \in Frame, stack' = WithTop(frame),
         Stays(frame, listeners), Heard(frame), UNCHANGED listeners,
         busy' => frame.told # <<>>
  PROVE  Kept'
<1>1. /\ stack' \in Seq(Frame) /\ Len(stack') = Len(stack) /\ stack' # <<>>
      /\ stack'[Len(stack)] = frame
      /\ \A i \in 1..(Len(stack) - 1) : stack'[i] = stack[i]
      /\ Len(stack) \in Nat \ {0}
  BY Replacing DEF IInv, TypeOK
<1>2. \A i \in 1..Len(stack') : i = Len(stack) \/ i \in 1..(Len(stack) - 1)
  BY <1>1
<1>3. \A i \in 1..Len(stack') : Stays(stack'[i], listeners') /\ Heard(stack'[i])
  BY <1>1, <1>2 DEF Kept
<1>4. \A i \in 1..(Len(stack') - 1) : stack'[i].told # <<>>
  BY <1>1 DEF Kept
<1>5. busy' => stack'[Len(stack')].told # <<>>
  BY <1>1
<1> QED
  BY <1>3, <1>4, <1>5 DEF Kept, Stays, Heard, CameBy

\* The stack is as it was, and no entry is erased.
LEMMA GrowingKeepsTold ==
  ASSUME Kept, UNCHANGED <<stack, busy>>, listeners \subseteq listeners'
  PROVE  Kept'
<1>1. \A i \in 1..Len(stack) : Stays(stack'[i], listeners') /\ Heard(stack'[i])
  BY DEF Kept, Stays
<1> QED
  BY <1>1 DEF Kept, Stays, Heard, CameBy

\* What is erased has not stayed.
LEMMA ErasingKeepsTold ==
  ASSUME IInv, Kept, NEW gone, Erase(gone), UNCHANGED busy
  PROVE  Kept'
<1> DEFINE Erased(f) == [f EXCEPT !.dangling = @ \/ Node(f) \in gone,
                                  !.steady = @ \ gone]
<1>1. stack \in Seq(Frame) /\ Len(stack) \in Nat
  BY DEF IInv, TypeOK
<1>2. ASSUME NEW f \in Frame, Stays(f, listeners), Heard(f)
      PROVE  /\ Stays(Erased(f), listeners') /\ Heard(Erased(f))
             /\ Erased(f).told = f.told
  <2>1. /\ Erased(f).event = f.event /\ Erased(f).type = f.type
        /\ Erased(f).place = f.place /\ Erased(f).at = f.at
        /\ Erased(f).ret = f.ret /\ Erased(f).told = f.told
        /\ Erased(f).vetoed = f.vetoed /\ Erased(f).steady = f.steady \ gone
    BY DEF Frame
  <2>2. listeners' = listeners \ gone
    BY DEF Erase
  <2> HIDE DEF Erased
  <2>3. Stays(Erased(f), listeners')
    BY <1>2, <2>1, <2>2 DEF Stays
  <2>4. Heard(Erased(f))
    BY <1>2, <2>1 DEF Heard, CameBy
  <2> QED
    BY <2>1, <2>3, <2>4
<1>3. stack' = [i \in 1..Len(stack) |-> Erased(stack[i])]
  BY DEF Erase, Depth
<1>4. \A i \in 1..Len(stack) : stack[i] \in Frame
  BY <1>1
<1> HIDE DEF Erased
<1>5. Len(stack') = Len(stack) /\ \A i \in 1..Len(stack) : stack'[i] = Erased(stack[i])
  BY <1>1, <1>3
<1>6. \A i \in 1..Len(stack) : /\ Stays(stack'[i], listeners') /\ Heard(stack'[i])
                               /\ stack'[i].told = stack[i].told
  BY <1>2, <1>4, <1>5 DEF Kept
<1>7. \A i \in 1..(Len(stack') - 1) : stack'[i].told # <<>>
  <2>1. \A i \in 1..(Len(stack) - 1) : i \in 1..Len(stack)
    BY <1>1
  <2> QED
    BY <1>5, <1>6, <2>1 DEF Kept
<1>8. busy' => stack'[Len(stack')].told # <<>>
  <2>1. busy => Len(stack) \in 1..Len(stack)
    BY <1>1 DEF IInv, TypeOK
  <2> QED
    BY <1>5, <1>6, <2>1 DEF Kept
<1>9. \A i \in 1..Len(stack') : Stays(stack'[i], listeners') /\ Heard(stack'[i])
  BY <1>5, <1>6
<1> QED
  BY <1>7, <1>8, <1>9 DEF Kept, Stays, Heard, CameBy

LEMMA CodeKeepsTold ==
  ASSUME IInv, Kept, Code
  PROVE  Kept'
<1>1. CodeRuns => UNCHANGED busy
  BY DEF CodeRuns
<1>2. ASSUME NEW l \in Listener, NEW type \in PRE_EVENT..ALL_TYPES, NEW key \in Key,
             AddListener(key, type, l)
      PROVE  Kept'
  BY <1>1, <1>2, GrowingKeepsTold DEF AddListener
<1>3. ASSUME NEW l \in Listener, NEW type \in PRE_EVENT..ALL_TYPES, RemoveListener(l, type)
      PROVE  Kept'
  BY <1>1, <1>3, ErasingKeepsTold DEF RemoveListener
<1>4. ASSUME NEW l \in Listener, Destroy(l)
      PROVE  Kept'
  BY <1>1, <1>4, ErasingKeepsTold DEF Destroy
<1>5. ASSUME NEW s \in Sob, RemoveListenersOfSob(s)
      PROVE  Kept'
  BY <1>1, <1>5, ErasingKeepsTold DEF RemoveListenersOfSob
<1>6. ASSUME NEW id \in GameEvent \cup SobEvent, NEW type \in PRE_EVENT..ALL_TYPES,
             RemoveListenersOfEvent(id, type)
      PROVE  Kept'
  BY <1>1, <1>6, ErasingKeepsTold DEF RemoveListenersOfEvent
<1> QED
  BY <1>2, <1>3, <1>4, <1>5, <1>6 DEF Code

\* A walk that begins has come by nobody.
LEMMA BeginningHeard ==
  ASSUME NEW event \in Event, NEW type \in PRE_EVENT..POST_EVENT, NEW told \in Seq(Entry),
         listeners \subseteq Entry
  PROVE  /\ Stays(NewFrame(event, type, told), listeners)
         /\ Heard(NewFrame(event, type, told))
<1> DEFINE f == NewFrame(event, type, told)
<1>1. /\ f.event = event /\ f.type = type /\ f.place = 1 /\ f.at = 0 /\ f.ret = TRUE
      /\ f.steady = {e \in listeners :
                       /\ e.type = type
                       /\ \E p \in 1..Len(Places(event)) : e.key = Places(event)[p]}
  BY DEF NewFrame
<1> HIDE DEF f
<1>2. \A e \in f.steady : ~CameBy(f, e)
  <2>1. \A e \in f.steady : e.who \in Nat \ {0}
    BY <1>1, ListenerAssumption DEF Entry
  <2> QED
    BY <1>1, <2>1 DEF CameBy
<1> QED
  BY <1>1, <1>2 DEF Stays, Heard, f

LEMMA HandOutKeepsTold ==
  ASSUME IInv, Kept, NEW event \in Event, HandOut(event)
  PROVE  Kept'
<1> DEFINE f == NewFrame(event, PRE_EVENT, <<>>)
<1>1. PRE_EVENT \in PRE_EVENT..POST_EVENT /\ <<>> \in Seq(Entry) /\ listeners \subseteq Entry
  BY DEF IInv, TypeOK, PRE_EVENT, POST_EVENT
<1>2. Stays(f, listeners) /\ Heard(f)
  BY <1>1, BeginningHeard
<1>3. stack = <<>> /\ stack' = <<f>> /\ UNCHANGED <<listeners, busy>>
  BY DEF HandOut
<1> HIDE DEF f
<1>4. Len(stack') = 1 /\ stack'[1] = f /\ ~busy
  BY <1>3 DEF IInv, TypeOK
<1>5. \A i \in 1..Len(stack') : Stays(stack'[i], listeners') /\ Heard(stack'[i])
  BY <1>2, <1>3, <1>4
<1>6. (1..(Len(stack') - 1)) = {} /\ ~busy'
  BY <1>3, <1>4
<1> QED
  BY <1>5, <1>6 DEF Kept, Stays, Heard, CameBy

LEMMA PostKeepsTold ==
  ASSUME IInv, Kept, NEW event \in Event, Post(event)
  PROVE  Kept'
<1> DEFINE f == NewFrame(event, PRE_EVENT, <<>>)
<1>1. PRE_EVENT \in PRE_EVENT..POST_EVENT /\ <<>> \in Seq(Entry) /\ listeners \subseteq Entry
  BY DEF IInv, TypeOK, PRE_EVENT, POST_EVENT
<1>2. Stays(f, listeners) /\ Heard(f) /\ f \in Frame
  BY <1>1, BeginningHeard, FirstPhase
<1>3. busy /\ busy' = FALSE /\ stack' = Append(stack, f) /\ UNCHANGED listeners
  BY DEF Post
<1> HIDE DEF f
<1>4. /\ Len(stack) \in Nat /\ Len(stack') = Len(stack) + 1
      /\ stack'[Len(stack) + 1] = f
      /\ \A i \in 1..Len(stack) : stack'[i] = stack[i]
  BY <1>2, <1>3 DEF IInv, TypeOK
<1>5. \A i \in 1..Len(stack') : i \in 1..Len(stack) \/ i = Len(stack) + 1
  BY <1>4
<1>6. \A i \in 1..Len(stack') : Stays(stack'[i], listeners') /\ Heard(stack'[i])
  BY <1>2, <1>3, <1>4, <1>5 DEF Kept
<1>7. \A i \in 1..(Len(stack') - 1) : stack'[i].told # <<>>
  <2>1. \A i \in 1..(Len(stack') - 1) :
          i \in 1..Len(stack) /\ (i = Len(stack) \/ i \in 1..(Len(stack) - 1))
    BY <1>4
  <2> QED
    BY <1>3, <1>4, <2>1 DEF Kept
<1> QED
  BY <1>3, <1>6, <1>7 DEF Kept, Stays, Heard, CameBy

\* Between its iterator and the next listener it tells, a walk leaves nobody out.
LEMMA TellKeepsTold ==
  ASSUME IInv, Kept, NEW l \in Listener, Tell(l)
  PROVE  Kept'
<1> DEFINE node  == [key |-> Places(Top.event)[Top.place], type |-> Top.type, who |-> l]
           moved == [Top EXCEPT !.at = l]
           frame == [moved EXCEPT !.told = Append(@, node)]
<1>1. /\ Top \in Frame /\ stack # <<>> /\ InPlace /\ Top.ret
      /\ l \in Ahead /\ \A m \in Ahead : l <= m
      /\ l \in Nat /\ Top.at \in Nat /\ Top = stack[Len(stack)] /\ Len(stack) \in Nat \ {0}
  BY TopFacts, ListenerAssumption DEF Tell, Walking, Frame
<1>2. Stays(Top, listeners) /\ Heard(Top)
  BY <1>1 DEF Kept
<1>3. /\ Places(Top.event) \in Seq(Key) /\ Top.place \in 1..Len(Places(Top.event))
      /\ \A p, q \in 1..Len(Places(Top.event)) :
           Places(Top.event)[p] = Places(Top.event)[q] => p = q
  BY <1>1, PlacesFacts DEF Frame, InPlace
<1>4. stack' = WithTop(frame) /\ node \in Entry
  <2>1. moved.event = Top.event /\ moved.place = Top.place /\ moved.type = Top.type
        /\ moved.at = l
    BY <1>1 DEF Frame
  <2> QED
    BY <1>1, <1>3, <2>1 DEF Tell, Node, Entry, Frame
<1>5. node.key = Places(Top.event)[Top.place] /\ node.type = Top.type /\ node.who = l
  OBVIOUS
<1>6. \A e \in Entry : e.key = node.key /\ e.type = node.type /\ e.who = node.who => e = node
  BY DEF Entry
<1>7. \A e \in listeners :
        /\ e.key = Places(Top.event)[Top.place] /\ e.type = Top.type /\ e.who > Top.at
        => e.who \in Ahead
  <2> SUFFICES ASSUME NEW e \in listeners, e.key = Places(Top.event)[Top.place],
                      e.type = Top.type, e.who > Top.at
               PROVE  e.who \in Ahead
    OBVIOUS
  <2>1. e \in Entry
    BY DEF IInv, TypeOK
  <2>2. e = [key |-> e.key, type |-> e.type, who |-> e.who] /\ e.who \in Listener
    BY <2>1 DEF Entry
  <2> QED
    BY <2>2 DEF Ahead
<1> HIDE DEF node
<1>8. /\ frame \in Frame /\ frame.event = Top.event /\ frame.type = Top.type
      /\ frame.place = Top.place /\ frame.at = l /\ frame.ret = Top.ret
      /\ frame.vetoed = Top.vetoed /\ frame.told = Append(Top.told, node)
      /\ frame.steady = Top.steady
  <2>1. /\ moved \in Frame /\ moved.event = Top.event /\ moved.type = Top.type
        /\ moved.place = Top.place /\ moved.at = l /\ moved.ret = Top.ret
        /\ moved.vetoed = Top.vetoed /\ moved.told = Top.told /\ moved.steady = Top.steady
    BY <1>1 DEF Frame
  <2> HIDE DEF moved
  <2>2. Append(moved.told, node) \in Seq(Entry)
    BY <1>4, <2>1 DEF Frame
  <2>3. /\ frame \in Frame /\ frame.event = moved.event /\ frame.type = moved.type
        /\ frame.place = moved.place /\ frame.at = moved.at /\ frame.ret = moved.ret
        /\ frame.vetoed = moved.vetoed /\ frame.told = Append(moved.told, node)
        /\ frame.steady = moved.steady
    BY <2>1, <2>2 DEF Frame
  <2> QED
    BY <2>1, <2>3
<1> HIDE DEF frame, moved
<1>9. /\ Len(frame.told) = Len(Top.told) + 1 /\ Len(Top.told) \in Nat
      /\ frame.told[Len(Top.told) + 1] = node /\ frame.told # <<>>
      /\ \A k \in 1..Len(Top.told) : frame.told[k] = Top.told[k]
  <2>1. Top.told \in Seq(Entry)
    BY <1>1 DEF Frame
  <2> QED
    BY <1>4, <1>8, <2>1
<1>10. Stays(frame, listeners)
  BY <1>2, <1>8 DEF Stays
<1>11. Heard(frame)
  <2> SUFFICES ASSUME Top.vetoed = 0, NEW e \in Top.steady, CameBy(frame, e)
               PROVE  \E k \in 1..Len(frame.told) : frame.told[k] = e
    BY <1>1, <1>8 DEF Heard
  <2>1. e \in listeners /\ e \in Entry /\ e.type = Top.type /\ e.who \in Nat
    BY <1>2, ListenerAssumption DEF Stays, IInv, TypeOK, Entry
  <2>2. PICK p \in 1..Len(Places(Top.event)) :
          /\ e.key = Places(Top.event)[p]
          /\ p < Top.place \/ (p = Top.place /\ e.who <= l)
    BY <1>8 DEF CameBy
  <2>3. CASE CameBy(Top, e)
    <3>1. PICK k \in 1..Len(Top.told) : Top.told[k] = e
      BY <1>2, <2>3 DEF Heard
    <3>2. k \in 1..Len(frame.told) /\ frame.told[k] = e
      BY <1>9, <3>1
    <3> QED
      BY <3>2
  <2>4. CASE ~CameBy(Top, e)
    <3>1. p = Top.place /\ ~(e.who <= Top.at) /\ e.who <= l
      BY <2>2, <2>4 DEF CameBy
    <3>2. e.who \in Ahead
      BY <1>1, <1>7, <2>1, <2>2, <3>1
    <3>3. e.who = l
      BY <1>1, <2>1, <3>1, <3>2
    <3>4. e = node
      BY <1>5, <1>6, <2>1, <2>2, <3>1, <3>3
    <3>5. Len(Top.told) + 1 \in 1..Len(frame.told)
      BY <1>9
    <3> QED
      BY <1>9, <3>4, <3>5
  <2> QED
    BY <2>3, <2>4
<1> QED
  BY <1>1, <1>4, <1>8, <1>9, <1>10, <1>11, ReplacingKeepsTold DEF Tell

\* A handler that returns false has been told, so that the veto is counted.
LEMMA ReplyKeepsTold ==
  ASSUME IInv, Kept, NEW answer \in BOOLEAN, Reply(answer)
  PROVE  Kept'
<1> DEFINE veto  == IF answer \/ Top.vetoed # 0 THEN Top.vetoed ELSE Len(Top.told)
           frame == [Top EXCEPT !.ret = @ /\ answer, !.vetoed = veto]
<1>1. busy /\ stack # <<>> /\ busy' = FALSE /\ UNCHANGED listeners
  BY DEF Reply, IInv, TypeOK
<1>2. Top \in Frame /\ Top = stack[Len(stack)] /\ Len(stack) \in Nat \ {0}
  BY <1>1, TopFacts
<1>3. Stays(Top, listeners) /\ Heard(Top) /\ Top.told # <<>>
  BY <1>1, <1>2 DEF Kept
<1>4. stack' = WithTop(frame)
  BY <1>2 DEF Reply, Frame
<1>5. Top.told \in Seq(Entry) /\ Len(Top.told) \in Nat \ {0} /\ Top.vetoed \in Nat
  BY <1>2, <1>3 DEF Frame
<1>6. veto \in Nat /\ (veto = 0 => answer /\ Top.vetoed = 0)
  BY <1>5
<1> HIDE DEF veto
<1>7. /\ frame \in Frame /\ frame.event = Top.event /\ frame.type = Top.type
      /\ frame.place = Top.place /\ frame.at = Top.at /\ frame.told = Top.told
      /\ frame.vetoed = veto /\ frame.steady = Top.steady
      /\ (Top.ret /\ answer => frame.ret)
  BY <1>2, <1>6 DEF Frame
<1> HIDE DEF frame
<1>8. Stays(frame, listeners)
  BY <1>3, <1>7 DEF Stays
<1>9. Heard(frame)
  BY <1>3, <1>6, <1>7 DEF Heard, CameBy
<1> QED
  BY <1>1, <1>4, <1>7, <1>8, <1>9, ReplacingKeepsTold

\* At the end of a set nobody is left in it.
LEMMA NextPlaceKeepsTold ==
  ASSUME IInv, Kept, NextPlace
  PROVE  Kept'
<1> DEFINE frame == [Top EXCEPT !.place = @ + 1, !.at = 0]
<1>1. /\ ~busy /\ stack # <<>> /\ InPlace /\ stack' = WithTop(frame)
      /\ ~Top.ret \/ Ahead = {}
      /\ UNCHANGED <<listeners, busy>>
  BY DEF NextPlace, Walking
<1>2. /\ Top \in Frame /\ Top = stack[Len(stack)] /\ Len(stack) \in Nat \ {0}
      /\ Top.at \in Nat
  BY <1>1, TopFacts, ListenerAssumption DEF Frame
<1>3. Stays(Top, listeners) /\ Heard(Top)
  BY <1>2 DEF Kept
<1>4. Top.place + 1 \in 1..5 /\ Top.place \in Nat
  <2>1. Top.event \in Event /\ Top.place \in 1..5 /\ Top.place <= Len(Places(Top.event))
    BY <1>1, <1>2 DEF Frame, InPlace
  <2>2. Len(Places(Top.event)) = 2 \/ Len(Places(Top.event)) = 4
    BY <2>1, PlacesFacts
  <2>3. \A x \in 1..5, n \in {2, 4} : x <= n => x + 1 \in 1..5 /\ x \in Nat
    OBVIOUS
  <2> QED
    BY ONLY <2>1, <2>2, <2>3, Zenon
<1>5. /\ frame \in Frame /\ frame.event = Top.event /\ frame.type = Top.type
      /\ frame.place = Top.place + 1 /\ frame.told = Top.told /\ frame.at = 0
      /\ frame.vetoed = Top.vetoed /\ frame.ret = Top.ret /\ frame.steady = Top.steady
  BY <1>2, <1>4 DEF Frame
<1> HIDE DEF frame
<1>6. Stays(frame, listeners)
  BY <1>3, <1>5 DEF Stays
<1>7. Heard(frame)
  <2> SUFFICES ASSUME Top.vetoed = 0, NEW e \in Top.steady, CameBy(frame, e)
               PROVE  CameBy(Top, e)
    BY <1>3, <1>5 DEF Heard
  <2>1. e \in listeners /\ e \in Entry /\ e.type = Top.type /\ e.who \in Nat \ {0}
    BY <1>3, ListenerAssumption DEF Stays, IInv, TypeOK, Entry
  <2>2. PICK p \in 1..Len(Places(Top.event)) :
          e.key = Places(Top.event)[p] /\ p < Top.place + 1
    BY <1>5, <2>1 DEF CameBy
  <2>3. Ahead = {}
    BY <1>1, <1>3 DEF Heard
  <2>4. ASSUME p = Top.place PROVE e.who <= Top.at
    <3>1. e = [key |-> Places(Top.event)[Top.place], type |-> Top.type, who |-> e.who]
          /\ e.who \in Listener
      BY <2>1, <2>2, <2>4 DEF Entry
    <3> QED
      BY <1>2, <2>1, <2>3, <3>1 DEF Ahead
  <2> QED
    BY <1>4, <2>2, <2>4 DEF CameBy
<1> QED
  BY <1>1, <1>5, <1>6, <1>7, ReplacingKeepsTold

LEMMA EndPhaseKeepsTold ==
  ASSUME IInv, Kept, EndPhase
  PROVE  Kept'
<1>1. ~busy /\ stack # <<>> /\ UNCHANGED listeners
  BY DEF EndPhase, Walking
<1>2. /\ Top \in Frame /\ FrameInv(Top) /\ stack \in Seq(Frame) /\ Len(stack) \in Nat \ {0}
      /\ Top = stack[Len(stack)]
  BY <1>1, TopFacts DEF IInv, TypeOK
<1>3. CASE Finished
  <2> DEFINE n == Len(stack) - 1
  <2>1. n \in Nat /\ stack' = SubSeq(stack, 1, n) /\ busy' = (n > 0)
    BY <1>2, <1>3 DEF EndPhase, Depth
  <2>2. Len(stack') = n /\ \A i \in 1..n : stack'[i] = stack[i] /\ i \in 1..Len(stack)
    <3>1. \A i \in 1..n : stack[i] \in Frame /\ i \in 1..Len(stack)
      BY <1>2
    <3> HIDE DEF n
    <3>2. /\ Len(SubSeq(stack, 1, n)) = IF 1 <= n THEN n - 1 + 1 ELSE 0
          /\ \A i \in 1..(n - 1 + 1) : SubSeq(stack, 1, n)[i] = stack[1 + i - 1]
      BY <2>1, <3>1, SubSeqProperties
    <3>3. n - 1 + 1 = n /\ (~(1 <= n) => n = 0) /\ \A i \in 1..n : 1 + i - 1 = i
      BY <2>1
    <3> QED
      BY <2>1, <3>1, <3>2, <3>3
  <2>3. \A i \in 1..n : stack[i].told # <<>>
    BY DEF Kept
  <2> HIDE DEF n
  <2>4. \A i \in 1..Len(stack') : Stays(stack'[i], listeners') /\ Heard(stack'[i])
    BY <1>1, <2>2 DEF Kept
  <2>5. \A i \in 1..(Len(stack') - 1) : stack'[i].told # <<>>
    BY <2>1, <2>2, <2>3
  <2>6. busy' => stack'[Len(stack')].told # <<>>
    <3>1. n > 0 => n \in 1..n
      BY <2>1
    <3> QED
      BY <2>1, <2>2, <2>3, <3>1
  <2> QED
    BY <2>4, <2>5, <2>6 DEF Kept, Stays, Heard, CameBy
<1>4. CASE ~Finished
  <2> DEFINE new   == NewFrame(Top.event, Top.type + 1, Top.told)
             frame == [new EXCEPT !.vetoed = Top.vetoed]
  <2>1. stack' = WithTop(frame) /\ busy' = busy
    BY <1>4 DEF EndPhase
  <2>2. /\ Top.event \in Event /\ Top.told \in Seq(Entry)
        /\ Top.type + 1 \in PRE_EVENT..POST_EVENT
    BY <1>2, <1>4 DEF Frame, Finished, PRE_EVENT, POST_EVENT
  <2>3. listeners \subseteq Entry
    BY DEF IInv, TypeOK
  <2>4. new \in Frame /\ Stays(new, listeners) /\ Heard(new) /\ new.vetoed = 0
    BY <2>2, <2>3, NewFrameFacts, BeginningHeard
  <2> HIDE DEF new
  <2>5. Top.vetoed = 0
    BY <1>2, <1>4 DEF Finished, FrameInv, Vetoed
  <2>6. frame = new
    BY <2>4, <2>5 DEF Frame
  <2> QED
    BY <1>1, <2>1, <2>4, <2>6, ReplacingKeepsTold
<1> QED
  BY <1>3, <1>4

LEMMA NextKept ==
  ASSUME IInv, Kept, [Next]_vars
  PROVE  Kept'
<1>1. CASE Code
  BY <1>1, CodeKeepsTold
<1>2. ASSUME NEW event \in Event, HandOut(event) \/ Post(event)
      PROVE  Kept'
  BY <1>2, HandOutKeepsTold, PostKeepsTold
<1>3. CASE Walk
  BY <1>3, TellKeepsTold, ReplyKeepsTold, NextPlaceKeepsTold, EndPhaseKeepsTold DEF Walk
<1>4. CASE UNCHANGED vars
  BY <1>4, GrowingKeepsTold DEF vars
<1> QED
  BY <1>1, <1>2, <1>3, <1>4 DEF Next

-----------------------------------------------------------------------------
(* The theorems.                                                           *)

\* The registries and the walks of all dispatches agree in every state that
\* posts, handlers and removals lead to (processEvent, removeListeners).
THEOREM DispatchInvariant == Spec => []IInv
<1>1. Init => IInv
  BY InitInv
<1>2. IInv /\ [Next]_vars => IInv'
  BY NextInv
<1> QED
  BY <1>1, <1>2, PTL DEF Spec

\* The registries and the dispatches keep their types, and a handler runs only
\* in a set of its registries (processEvent).
THEOREM TypeCorrect == Spec => []TypeOK
<1>1. IInv => TypeOK
  BY DEF IInv
<1> QED
  BY <1>1, DispatchInvariant, PTL

\* However deep handlers post and whatever they remove and register again, no
\* registry tells a listener twice in a phase (the set loops of processEvent).
THEOREM NobodyIsToldTwice == Spec => []ToldOnce
<1>1. IInv => ToldOnce
  BY DEF IInv, FrameInv, Once, ToldOnce, Depth
<1> QED
  BY <1>1, DispatchInvariant, PTL

\* A handler that returns false is the last that is told of its event (bRet in
\* processEvent).
THEOREM AVetoHolds == Spec => []VetoHolds
<1>1. IInv => VetoHolds
  BY DEF IInv, FrameInv, Vetoed, VetoHolds, Depth
<1> QED
  BY <1>1, DispatchInvariant, PTL

\* No walk calls a listener that was destroyed, although its entries may have
\* been erased under the walk (~IGameEventListener).
THEOREM TheDeadAreDeaf == Spec => DeadIsDeaf
<1>1. IInv => \A l \in dead : ~Tell(l)
  <2> SUFFICES ASSUME IInv, NEW l \in dead, Tell(l) PROVE FALSE
    OBVIOUS
  <2>1. \E e \in listeners : e.who = l
    BY DEF Tell, Ahead
  <2> QED
    BY <2>1 DEF IInv
<1> QED
  BY <1>1, DispatchInvariant, PTL DEF DeadIsDeaf

\* Whoever is registered all through a phase of an event is told of it, whatever
\* the handlers before it register, remove, destroy and post, unless one of them
\* returns false (the set loops of processEvent).
THEOREM TheSteadyAreTold == Spec => []ToldAll
<1>1. Init => Kept
  BY DEF Init, Kept
<1>2. IInv /\ Kept /\ [Next]_vars => Kept'
  BY NextKept
<1>3. IInv /\ Kept => ToldAll
  <2> SUFFICES ASSUME IInv, Kept, NEW i \in 1..Len(stack), stack[i].vetoed = 0,
                      stack[i].place > Len(Places(stack[i].event)),
                      NEW e \in stack[i].steady
               PROVE  \E k \in 1..Len(stack[i].told) : stack[i].told[k] = e
    BY DEF ToldAll, Depth
  <2>1. stack[i] \in Frame
    BY DEF IInv, TypeOK
  <2>2. stack[i].place \in Nat /\ Len(Places(stack[i].event)) \in Nat
    BY <2>1, PlacesFacts DEF Frame
  <2>3. CameBy(stack[i], e)
    BY <2>2 DEF Kept, Stays, CameBy
  <2> QED
    BY <2>3 DEF Kept, Heard
<1> QED
  BY <1>1, <1>2, <1>3, DispatchInvariant, PTL DEF Spec

=============================================================================
