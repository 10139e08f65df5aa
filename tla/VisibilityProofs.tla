-------------------------- MODULE VisibilityProofs --------------------------
(***************************************************************************)
(* Proofs about Visibility: for any sobs, any grid of cells with any       *)
(* symmetric range, and any number of spawns and moves.                    *)
(***************************************************************************)
EXTENDS Visibility, SequenceTheorems, TLAPS

-----------------------------------------------------------------------------
(* The inductive invariant.                                                *)

\* What is empty when: update empties m_SobsToUpdate, the queue is processed to
\* its end before the sobs are updated.
Emptied ==
  /\ phase = "network" => registered = {}
  /\ phase \in {"sobs", "proximity"} =>
       requests = <<>> /\ adds = {} /\ removes = {}

\* A request that names s.
Names(r, s) == r.type # "spawn" /\ r.sob = s

\* A queued disconnection is the last request about its sob, which lives until
\* then and is not registered for update.
LastWord ==
  \A i \in 1..Len(requests) : requests[i].type = "unspawn" =>
    /\ requests[i].sob \in alive \ registered
    /\ \A j \in 1..Len(requests) : i < j => ~Names(requests[j], requests[i].sob)

\* A view listens to what its client shows, and to the end of at least that.
Listening ==
  \A t \in Sob : hears[t] = shown[t] /\ shown[t] \subseteq ears[t]

\* An event in the queue about two sobs that did not race is about live ones,
\* and an Add is news to the client and was found by one of the two only.
EventsSound ==
  /\ \A e \in adds : {e.source, e.target} \notin raced =>
       /\ e.source \in alive /\ e.target \in alive
       /\ e.source \notin shown[e.target]
       /\ \A f \in adds : f.source = e.source /\ f.target = e.target => f = e
  /\ \A e \in removes : {e.source, e.target} \notin raced =>
       e.source \in alive /\ e.target \in alive

IInv ==
  /\ TypeOK
  /\ Emptied
  /\ LastWord
  /\ GridFollows
  /\ Listening
  /\ NoGhost
  /\ EventsSound
  /\ SeeInRange
  /\ AddedOnce


-----------------------------------------------------------------------------
(* Pairs, the queue and the grid.                                          *)

RequestRecord == {[type |-> "spawn"]} \cup [type : {"motion", "unspawn"}, sob : Sob]

\* Two pairs are the same if they have the same sobs in either order.
LEMMA SamePair ==
  ASSUME NEW a, NEW b, NEW c, NEW d
  PROVE  {a, b} = {c, d} <=> (a = c /\ b = d) \/ (a = d /\ b = c)
  OBVIOUS

\* A request has a type, and one that is no spawn request names a sob.
LEMMA RequestFacts ==
  ASSUME TypeOK, NEW i \in 1..Len(requests)
  PROVE  /\ requests[i] \in RequestRecord
         /\ requests[i].type \in {"spawn", "motion", "unspawn"}
         /\ requests[i].type # "spawn" => requests[i].sob \in Sob
<1>1. requests[i] \in RequestRecord
  BY ElementOfSeq DEF TypeOK, RequestRecord
<1> QED
  BY <1>1 DEF RequestRecord

\* What Append adds to the queue.
LEMMA AppendFacts ==
  ASSUME TypeOK, NEW r \in RequestRecord, requests' = Append(requests, r)
  PROVE  /\ requests' \in Seq(RequestRecord)
         /\ Len(requests) \in Nat
         /\ Len(requests') = Len(requests) + 1
         /\ \A i \in 1..Len(requests') :
              \/ i \in 1..Len(requests) /\ requests'[i] = requests[i]
              \/ i = Len(requests') /\ requests'[i] = r
<1>1. requests \in Seq(RequestRecord)
  BY DEF TypeOK, RequestRecord
<1> QED
  BY <1>1, AppendProperties

\* What is left of the queue once the request at its back is taken.
LEMMA HandlesFacts ==
  ASSUME TypeOK, NEW type, Handles(type)
  PROVE  /\ requests' \in Seq(RequestRecord)
         /\ Len(requests) \in 1..Len(requests)
         /\ Len(requests') = Len(requests) - 1
         /\ \A i \in 1..Len(requests') :
              /\ i \in 1..Len(requests) /\ i < Len(requests)
              /\ requests'[i] = requests[i]
<1>1. requests \in Seq(RequestRecord) /\ requests # <<>>
  BY DEF TypeOK, RequestRecord, Handles
<1>2. Len(requests) \in Nat \ {0}
  BY <1>1, EmptySeq
<1> DEFINE n == Len(requests) - 1
<1>3. n \in Nat /\ n + 1 = Len(requests)
  BY <1>2
<1> HIDE DEF n
<1>4. requests' = [i \in 1..n |-> requests[i]]
  <2>1. requests' = [i \in 1..n |-> IF i < NextRequest THEN requests[i]
                                                      ELSE requests[i + 1]]
    BY DEF Handles, n
  <2>2. \A i \in 1..n : i < NextRequest
    BY <1>3 DEF NextRequest
  <2> QED
    BY <2>1, <2>2
<1>5. \A i \in 1..n : requests[i] \in RequestRecord
  BY <1>1, <1>3, ElementOfSeq
<1>6. requests' \in Seq(RequestRecord) /\ Len(requests') = n
  BY <1>3, <1>4, <1>5
<1> QED
  BY <1>2, <1>3, <1>4, <1>6

\* Taking a request keeps the order of the others.
LEMMA StillLast ==
  ASSUME TypeOK, LastWord, NEW type, Handles(type)
  PROVE  \A i \in 1..Len(requests') : requests'[i].type = "unspawn" =>
           /\ requests'[i].sob \in alive \ registered
           /\ ~Names(Request, requests'[i].sob)
           /\ \A j \in 1..Len(requests') :
                i < j => ~Names(requests'[j], requests'[i].sob)
  BY HandlesFacts DEF LastWord, Request, NextRequest

\* The sobs a grid that follows points to in a set of cells.
LEMMA FoundFacts ==
  ASSUME TypeOK, GridFollows, NEW cells \in SUBSET Cell, NEW s
  PROVE  \A t : t \in Found(grid, cells, s) <=>
                t \in alive /\ t # s /\ stored[t] \in cells
<1> SUFFICES ASSUME NEW t
             PROVE  t \in Found(grid, cells, s) <=>
                      t \in alive /\ t # s /\ stored[t] \in cells
  OBVIOUS
<1>1. t \in Found(grid, cells, s) <=> t # s /\ \E c \in cells : t \in grid[c]
  BY Zenon DEF Found
<1>2. \A c \in cells : t \in grid[c] => t \in Sob
  BY DEF TypeOK
<1>3. t \in alive => t \in Sob
  BY DEF TypeOK
<1>4. \A c \in cells : t \in Sob => (t \in grid[c] <=> t \in alive /\ c = stored[t])
  BY DEF GridFollows
<1> QED
  BY <1>1, <1>2, <1>3, <1>4

-----------------------------------------------------------------------------
(* Steps that change neither the grid nor the views.                       *)

\* What is said of the grid, the views and the events is kept by a step that
\* leaves them and what is stored alone.
LEMMA SameViews ==
  ASSUME IInv, UNCHANGED <<adds, removes, alive, stored, grid, views, raced>>,
         registered' \subseteq alive
  PROVE  /\ GridFollows' /\ Listening' /\ NoGhost'
         /\ EventsSound' /\ SeeInRange' /\ AddedOnce'
<1> USE DEF IInv, views
<1>1. GridFollows'
  BY DEF GridFollows
<1>2. Listening' /\ NoGhost' /\ AddedOnce'
  BY DEF Listening, NoGhost, AddedOnce
<1>3. EventsSound'
  BY DEF EventsSound
<1>4. SeeInRange'
  BY DEF SeeInRange, WillShow
<1> QED
  BY <1>1, <1>2, <1>3, <1>4

\* A callback puts a request into the queue.
LEMMA NetworkStep ==
  ASSUME IInv,
         \/ RequestSpawn
         \/ \E s \in Sob : RequestMotion(s) \/ Disconnect(s)
  PROVE  IInv'
<1>1. /\ phase = "network" /\ phase' = phase /\ undefined' = undefined
      /\ UNCHANGED <<adds, removes, places, views, raced>>
  BY DEF RequestSpawn, RequestMotion, Disconnect
<1>2. PICK r \in RequestRecord :
        /\ requests' = Append(requests, r)
        /\ r.type # "spawn" => r.sob \in alive /\ ~Leaving(r.sob)
  <2>1. CASE RequestSpawn
    BY <2>1 DEF RequestSpawn, RequestRecord
  <2>2. ASSUME NEW s \in Sob, RequestMotion(s) \/ Disconnect(s)
        PROVE  \E r \in RequestRecord :
                 /\ requests' = Append(requests, r)
                 /\ r.type # "spawn" => r.sob \in alive /\ ~Leaving(r.sob)
    <3>1. CASE RequestMotion(s)
      <4>1. [type |-> "motion", sob |-> s] \in RequestRecord
        BY DEF RequestRecord
      <4> WITNESS [type |-> "motion", sob |-> s] \in RequestRecord
      <4> QED
        BY <3>1 DEF RequestMotion
    <3>2. CASE Disconnect(s)
      <4>1. [type |-> "unspawn", sob |-> s] \in RequestRecord
        BY DEF RequestRecord
      <4> WITNESS [type |-> "unspawn", sob |-> s] \in RequestRecord
      <4> QED
        BY <3>2 DEF Disconnect
    <3> QED
      BY <2>2, <3>1, <3>2
  <2> QED
    BY <2>1, <2>2
<1>3. /\ requests' \in Seq(RequestRecord)
      /\ Len(requests) \in Nat
      /\ Len(requests') = Len(requests) + 1
      /\ \A i \in 1..Len(requests') :
           \/ i \in 1..Len(requests) /\ requests'[i] = requests[i]
           \/ i = Len(requests') /\ requests'[i] = r
  BY <1>2, AppendFacts DEF IInv
<1>4. TypeOK'
  <2>1. spawns' \in 0..MaxSpawns /\ moves' \in 0..MaxMoves
    <3>1. spawns \in 0..MaxSpawns /\ moves \in 0..MaxMoves
      BY DEF IInv, TypeOK
    <3>2. /\ spawns' = spawns \/ (spawns < MaxSpawns /\ spawns' = spawns + 1)
          /\ moves' = moves \/ (moves < MaxMoves /\ moves' = moves + 1)
      BY DEF RequestSpawn, RequestMotion, Disconnect, bounds
    <3> QED
      BY <3>1, <3>2, BoundsAssumption
  <2>2. UNCHANGED <<phase, adds, removes, alive, pos, stored, registered, grid,
                    dangling, hears, ears, shown, doubled, raced, undefined>>
    BY <1>1 DEF places, views
  <2> QED
    BY <1>3, <2>1, <2>2 DEF IInv, TypeOK, RequestRecord
<1>5. Emptied'
  BY <1>1 DEF IInv, Emptied, places
<1>6. LastWord'
  <2>1. registered = {} /\ registered' = {} /\ alive' = alive
    BY <1>1 DEF IInv, Emptied, places
  <2>2. ASSUME NEW i \in 1..Len(requests'), requests'[i].type = "unspawn"
        PROVE  requests'[i].sob \in alive
    BY <1>2, <1>3, <2>2 DEF IInv, LastWord
  <2>3. ASSUME NEW i \in 1..Len(requests'), requests'[i].type = "unspawn",
               NEW j \in 1..Len(requests'), i < j
        PROVE  ~Names(requests'[j], requests'[i].sob)
    <3>1. i \in 1..Len(requests) /\ requests'[i] = requests[i]
      BY <1>3, <2>3
    <3>2. CASE j \in 1..Len(requests) /\ requests'[j] = requests[j]
      BY <2>3, <3>1, <3>2 DEF IInv, LastWord
    <3>3. CASE requests'[j] = r
      BY <1>2, <2>3, <3>1, <3>3 DEF Leaving, Names
    <3> QED
      BY <1>3, <3>2, <3>3
  <2> QED
    BY <2>1, <2>2, <2>3 DEF LastWord
<1>7. registered' \subseteq alive
  BY <1>1 DEF IInv, GridFollows, places
<1> QED
  BY <1>1, <1>4, <1>5, <1>6, <1>7, SameViews DEF IInv, places

\* The phases follow each other.
LEMMA PhaseStep ==
  ASSUME IInv, EndNetwork \/ EndEvents \/ EndSobs
  PROVE  IInv'
<1>1. /\ phase' \in {"events", "sobs", "proximity"}
      /\ UNCHANGED <<events, places, views, bounds, raced, undefined>>
  BY DEF EndNetwork, EndEvents, EndSobs
<1>2. TypeOK'
  BY <1>1 DEF IInv, TypeOK, events, places, views, bounds
<1>3. Emptied'
  BY DEF IInv, Emptied, EndNetwork, EndEvents, EndSobs, events, places
<1>4. LastWord'
  BY <1>1 DEF IInv, LastWord, events, places
<1>5. registered' \subseteq alive
  BY <1>1 DEF IInv, GridFollows, places
<1> QED
  BY <1>1, <1>2, <1>3, <1>4, <1>5, SameViews DEF IInv, events, places

\* A sob walks, or its controller registers it for update.
LEMMA SobStep ==
  ASSUME IInv, NEW s \in Sob, Walk(s) \/ Poll(s)
  PROVE  IInv'
<1>1. /\ phase = "sobs" /\ phase' = phase /\ s \in alive
      /\ UNCHANGED <<events, alive, stored, grid, dangling, views, raced, undefined>>
      /\ registered' \in {registered, registered \cup {s}}
  BY DEF Walk, Poll
<1>2. TypeOK'
  <2>1. spawns' \in 0..MaxSpawns /\ moves' \in 0..MaxMoves
    BY BoundsAssumption DEF IInv, TypeOK, Walk, Poll, bounds
  <2>2. pos' \in [Sob -> Cell]
    BY DEF IInv, TypeOK, Walk, Poll
  <2> QED
    BY <1>1, <2>1, <2>2 DEF IInv, TypeOK, events, views
<1>3. Emptied'
  BY <1>1 DEF IInv, Emptied, events
<1>4. LastWord'
  <2>1. requests' = <<>>
    BY <1>1 DEF IInv, Emptied, events
  <2> QED
    BY <2>1 DEF LastWord
<1>5. registered' \subseteq alive
  BY <1>1 DEF IInv, GridFollows
<1> QED
  BY <1>1, <1>2, <1>3, <1>4, <1>5, SameViews DEF IInv, events

\* A pointer to a deleted sob is read.
LEMMA UndefinedStep ==
  ASSUME IInv, SpawnUndefined \/ UpdateUndefined
  PROVE  IInv'
<1>1. /\ phase' = phase /\ undefined' = TRUE
      /\ UNCHANGED <<adds, removes, places, views, bounds, raced>>
  BY DEF SpawnUndefined, UpdateUndefined, Handles, events
<1>2. /\ requests' \in Seq(RequestRecord)
      /\ phase \in {"sobs", "proximity"} => requests' = <<>>
      /\ LastWord'
  <2>1. CASE SpawnUndefined
    <3>1. Handles("spawn")
      BY <2>1 DEF SpawnUndefined
    <3> QED
      BY <1>1, <3>1, HandlesFacts, StillLast DEF IInv, LastWord, places, Handles
  <2>2. CASE UpdateUndefined
    <3>1. requests' = requests
      BY <2>2 DEF UpdateUndefined, events
    <3> QED
      BY <1>1, <3>1 DEF IInv, LastWord, places, Emptied, TypeOK, RequestRecord
  <2> QED
    BY <2>1, <2>2
<1>3. TypeOK'
  BY <1>1, <1>2 DEF IInv, TypeOK, RequestRecord, places, views, bounds
<1>4. Emptied'
  BY <1>1, <1>2 DEF IInv, Emptied, places
<1>5. registered' \subseteq alive
  BY <1>1 DEF IInv, GridFollows, places
<1> QED
  BY <1>1, <1>2, <1>3, <1>4, <1>5, SameViews DEF IInv, places

\* A queued request moves its sob and may register it.
LEMMA MotionStep ==
  ASSUME IInv, Motion
  PROVE  IInv'
<1>1. /\ Handles("motion")
      /\ phase = "events" /\ phase' = phase
      /\ UNCHANGED <<adds, removes, bounds, alive, stored, grid, dangling, views,
                     raced, undefined>>
  BY DEF Motion, Handles
<1>2. /\ pos' \in [Sob -> Cell]
      /\ \A s \in registered' : s \in registered \/ (s \in alive /\ s = Request.sob)
  BY DEF IInv, TypeOK, Motion
<1>3. requests' \in Seq(RequestRecord)
  BY <1>1, HandlesFacts DEF IInv
<1>4. registered' \subseteq alive
  BY <1>2 DEF IInv, GridFollows
<1>5. TypeOK'
  <2>1. registered' \subseteq Sob
    BY <1>4 DEF IInv, TypeOK
  <2> QED
    BY <1>1, <1>2, <1>3, <2>1 DEF IInv, TypeOK, RequestRecord, views, bounds
<1>6. Emptied'
  BY <1>1 DEF Emptied
<1>7. LastWord'
  <2>1. Request.type # "spawn"
    BY <1>1 DEF Handles
  <2>2. \A i \in 1..Len(requests') : requests'[i].type = "unspawn" =>
           /\ requests'[i].sob \in alive \ registered
           /\ ~Names(Request, requests'[i].sob)
           /\ \A j \in 1..Len(requests') :
                i < j => ~Names(requests'[j], requests'[i].sob)
    BY <1>1, StillLast DEF IInv
  <2> QED
    BY <1>1, <1>2, <2>1, <2>2 DEF LastWord, Names
<1> QED
  BY <1>1, <1>4, <1>5, <1>6, <1>7, SameViews DEF IInv

-----------------------------------------------------------------------------
(* A sob comes and goes.                                                   *)

\* A new sob sees, and is seen by, exactly the sobs in range; whoever shows
\* another sob of that id still, raced with its end.
LEMMA SpawnStep ==
  ASSUME IInv, NEW s \in Sob, Spawn(s)
  PROVE  IInv'
<1> DEFINE met == Found(grid, InRange(SpawnCell), s)
<1>1. /\ Handles("spawn") /\ s \notin alive
      /\ phase = "events" /\ phase' = phase
      /\ UNCHANGED <<adds, removes, bounds, dangling, raced, undefined>>
  BY DEF Spawn, Handles
<1>2. \A t : t \in met <=> t \in alive /\ t # s /\ <<SpawnCell, stored[t]>> \in Near
  <2>1. InRange(SpawnCell) \in SUBSET Cell
    BY DEF InRange
  <2>2. \A t \in alive : stored[t] \in Cell
    BY DEF IInv, TypeOK
  <2> QED
    BY <2>1, <2>2, FoundFacts DEF IInv, InRange
<1>3. met \subseteq alive /\ alive \subseteq Sob /\ s \notin met
  BY <1>1, <1>2 DEF IInv, TypeOK
<1>4. /\ alive' = alive \cup {s}
      /\ pos' = [pos EXCEPT ![s] = SpawnCell]
      /\ stored' = [stored EXCEPT ![s] = SpawnCell]
      /\ registered' = registered \cup {s}
      /\ grid' = [grid EXCEPT ![SpawnCell] = @ \cup {s}]
      /\ hears' = [t \in Sob |-> IF t = s THEN met
                                ELSE IF t \in met THEN hears[t] \cup {s} ELSE hears[t]]
      /\ ears' = [t \in Sob |-> IF t = s THEN met
                               ELSE IF t \in met THEN ears[t] \cup {s} ELSE ears[t]]
      /\ shown' = [t \in Sob |-> IF t = s THEN met
                                ELSE IF t \in met THEN shown[t] \cup {s} ELSE shown[t]]
      /\ doubled' = doubled \cup {{s, t} : t \in {x \in met : s \in shown[x]}}
  BY Zenon DEF Spawn
<1> HIDE DEF met
<1>5. \A t \in alive : s \in shown[t] => {s, t} \in raced
  BY <1>1 DEF IInv, NoGhost
<1>6. TypeOK'
  <2>1. requests' \in Seq(RequestRecord)
    BY <1>1, HandlesFacts DEF IInv
  <2>2. /\ alive' \subseteq Sob /\ registered' \subseteq Sob
        /\ pos' \in [Sob -> Cell] /\ stored' \in [Sob -> Cell]
        /\ grid' \in [Cell -> SUBSET Sob]
    BY <1>4, CellAssumption DEF IInv, TypeOK
  <2>3. \A f \in [Sob -> SUBSET Sob] :
          [t \in Sob |-> IF t = s THEN met
                        ELSE IF t \in met THEN f[t] \cup {s} ELSE f[t]]
            \in [Sob -> SUBSET Sob]
    BY <1>3
  <2>4. {hears', ears', shown'} \subseteq [Sob -> SUBSET Sob]
    BY <1>4, <2>3 DEF IInv, TypeOK
  <2>5. doubled' \subseteq Pairs
    BY <1>3, <1>4 DEF IInv, TypeOK, Pairs
  <2> QED
    BY <1>1, <2>1, <2>2, <2>4, <2>5 DEF IInv, TypeOK, RequestRecord, bounds
<1>7. Emptied'
  BY <1>1 DEF Emptied
<1>8. LastWord'
  BY <1>1, <1>4, StillLast DEF IInv, LastWord
<1>9. GridFollows'
  <2>1. registered' \subseteq alive'
    BY <1>4 DEF IInv, GridFollows
  <2>2. ASSUME NEW t \in Sob, NEW c \in Cell
        PROVE  t \in grid'[c] <=> t \in alive' /\ c = stored'[t]
    BY <1>1, <1>4, <2>2, CellAssumption DEF IInv, TypeOK, GridFollows
  <2> QED
    BY <2>1, <2>2 DEF GridFollows
<1>10. Listening'
  BY <1>4 DEF IInv, Listening
<1>11. NoGhost'
  <2> SUFFICES ASSUME NEW t \in alive', NEW u \in shown'[t], u \notin alive'
               PROVE  {u, t} \in raced
    BY <1>1 DEF NoGhost
  <2>1. t \in Sob /\ t # s /\ u # s
    BY <1>3, <1>4
  <2>2. t \in alive /\ u \in shown[t]
    BY <1>4, <2>1
  <2> QED
    BY <1>4, <2>2 DEF IInv, NoGhost
<1>12. EventsSound'
  <2>1. ASSUME NEW e \in adds, {e.source, e.target} \notin raced
        PROVE  e.source \notin shown'[e.target]
    <3>1. e.source \in alive /\ e.target \in alive /\ e.source \notin shown[e.target]
      BY <2>1 DEF IInv, EventsSound
    <3> QED
      BY <1>1, <1>3, <1>4, <3>1
  <2> QED
    BY <1>1, <1>4, <2>1 DEF IInv, EventsSound
<1>13. SeeInRange'
  <2> SUFFICES ASSUME NEW x \in alive', NEW t \in alive', x # t, {x, t} \notin raced
               PROVE  x \in WillShow(t)' <=> <<stored'[x], stored'[t]>> \in Near
    BY <1>1 DEF SeeInRange
  <2>1. x \in Sob /\ t \in Sob /\ {t, x} = {x, t}
    BY <1>3, <1>4
  <2>2. x \in WillShow(t)' <=>
          /\ x \in shown'[t] \/ \E e \in adds : e.target = t /\ e.source = x
          /\ ~ \E e \in removes : e.target = t /\ e.source = x
    BY <1>1 DEF WillShow
  <2>3. CASE x # s /\ t # s
    <3>1. shown'[t] \subseteq shown[t] \cup {s} /\ shown[t] \subseteq shown'[t]
      BY <1>4, <2>1, <2>3
    <3>2. stored'[x] = stored[x] /\ stored'[t] = stored[t]
      BY <1>4, <2>1, <2>3 DEF IInv, TypeOK
    <3>3. x \in alive /\ t \in alive
      BY <1>4, <2>3
    <3>4. x \in WillShow(t) <=> <<stored[x], stored[t]>> \in Near
      BY <3>3 DEF IInv, SeeInRange
    <3>5. x \in WillShow(t) <=>
            /\ x \in shown[t] \/ \E e \in adds : e.target = t /\ e.source = x
            /\ ~ \E e \in removes : e.target = t /\ e.source = x
      BY DEF WillShow
    <3> QED
      BY <2>2, <2>3, <3>1, <3>2, <3>4, <3>5
  <2>4. CASE x = s \/ t = s
    <3>1. /\ ~ \E e \in adds : e.target = t /\ e.source = x
          /\ ~ \E e \in removes : e.target = t /\ e.source = x
      BY <1>1, <2>4 DEF IInv, EventsSound
    <3>2. CASE t = s
      <4>1. x \in alive /\ stored'[t] = SpawnCell /\ stored'[x] = stored[x]
        BY <1>4, <2>1, <3>2 DEF IInv, TypeOK
      <4>2. shown'[t] = met
        BY <1>4, <3>2
      <4>3. stored[x] \in Cell
        BY <2>1 DEF IInv, TypeOK
      <4> QED
        BY <1>2, <2>2, <3>1, <3>2, <4>1, <4>2, <4>3, CellAssumption, NearAssumption
    <3>3. CASE x = s /\ t # s
      <4>1. t \in alive /\ stored'[x] = SpawnCell /\ stored'[t] = stored[t]
        BY <1>4, <2>1, <3>3 DEF IInv, TypeOK
      <4>2. s \in shown'[t] <=> t \in met
        BY <1>4, <1>5, <2>1, <3>3, <4>1
      <4> QED
        BY <1>2, <2>2, <3>1, <3>3, <4>1, <4>2
    <3> QED
      BY <2>4, <3>2, <3>3
  <2> QED
    BY <2>3, <2>4
<1>14. AddedOnce'
  BY <1>1, <1>3, <1>4, <1>5 DEF IInv, AddedOnce
<1> QED
  BY <1>6, <1>7, <1>8, <1>9, <1>10, <1>11, <1>12, <1>13, <1>14 DEF IInv

\* A sob that dies is taken from every view, since they listen to its end; the
\* pairs of the events it leaves in the queue raced.
LEMMA UnspawnStep ==
  ASSUME IInv, Unspawn
  PROVE  IInv'
<1> DEFINE s == Request.sob
<1>1. /\ Handles("unspawn")
      /\ phase = "events" /\ phase' = phase
      /\ UNCHANGED <<adds, removes, bounds, registered, doubled, undefined>>
  BY DEF Unspawn, Handles
<1>2. s \in alive /\ s \in Sob /\ s \notin registered
  <2>1. Len(requests) \in 1..Len(requests) /\ Request.type = "unspawn"
    BY <1>1, HandlesFacts DEF IInv, Handles
  <2> QED
    BY <2>1 DEF IInv, LastWord, TypeOK, Request, NextRequest
<1>3. /\ alive' = alive \ {s}
      /\ grid' = [c \in Cell |-> grid[c] \ {s}]
      /\ dangling' = dangling \cup {c \in Cell \ {pos[s]} : s \in grid[c]}
      /\ shown' = [t \in Sob |-> IF t = s THEN {}
                                 ELSE IF s \in ears[t] THEN shown[t] \ {s}
                                 ELSE shown[t]]
      /\ hears' = [t \in Sob |-> IF t = s THEN {} ELSE hears[t] \ {s}]
      /\ ears' = [t \in Sob |-> IF t = s THEN {} ELSE ears[t] \ {s}]
      /\ pos' = [pos EXCEPT ![s] = SpawnCell]
      /\ stored' = [stored EXCEPT ![s] = SpawnCell]
      /\ raced' = raced \cup Overtaken(s)
  BY Zenon DEF Unspawn
<1>4. \A i \in 1..Len(requests') : requests'[i].type = "unspawn" =>
        /\ requests'[i].sob \in alive \ registered
        /\ requests'[i].sob # s
        /\ \A j \in 1..Len(requests') :
             i < j => ~Names(requests'[j], requests'[i].sob)
  <2>1. Request.type # "spawn"
    BY <1>1 DEF Handles
  <2> QED
    BY <1>1, <2>1, StillLast DEF IInv, Names
<1> HIDE DEF s
<1>5. \A t \in Sob : shown'[t] = IF t = s THEN {} ELSE shown[t] \ {s}
  BY <1>3 DEF IInv, Listening
<1>6. Overtaken(s) = {{e.source, e.target} : e \in {f \in adds : s \in {f.source, f.target}}}
                       \cup
                     {{e.source, e.target} : e \in {f \in removes : s \in {f.source, f.target}}}
  BY DEF Overtaken
<1>7. TypeOK'
  <2>1. requests' \in Seq(RequestRecord)
    BY <1>1, HandlesFacts DEF IInv
  <2>2. raced' \subseteq Pairs
    <3>1. /\ \A e \in adds : e.source \in Sob /\ e.target \in Sob
          /\ \A e \in removes : e.source \in Sob /\ e.target \in Sob
      BY DEF IInv, TypeOK
    <3>2. Overtaken(s) \subseteq Pairs
      BY <1>6, <3>1 DEF Pairs
    <3> QED
      BY <1>3, <3>2 DEF IInv, TypeOK
  <2>3. /\ alive' \subseteq Sob /\ dangling' \subseteq Cell
        /\ pos' \in [Sob -> Cell] /\ stored' \in [Sob -> Cell]
        /\ grid' \in [Cell -> SUBSET Sob]
    BY <1>3, CellAssumption DEF IInv, TypeOK
  <2>4. {hears', ears', shown'} \subseteq [Sob -> SUBSET Sob]
    BY <1>3 DEF IInv, TypeOK
  <2> QED
    BY <1>1, <2>1, <2>2, <2>3, <2>4 DEF IInv, TypeOK, RequestRecord, bounds
<1>8. Emptied'
  BY <1>1 DEF Emptied
<1>9. LastWord'
  BY <1>1, <1>3, <1>4 DEF LastWord
<1>10. GridFollows'
  BY <1>1, <1>2, <1>3 DEF IInv, TypeOK, GridFollows
<1>11. Listening'
  BY <1>3, <1>5 DEF IInv, Listening
<1>12. NoGhost'
  <2> SUFFICES ASSUME NEW t \in alive', NEW u \in shown'[t], u \notin alive'
               PROVE  {u, t} \in raced'
    BY DEF NoGhost
  <2>1. t \in alive /\ t \in Sob /\ t # s
    BY <1>3 DEF IInv, TypeOK
  <2>2. u \in shown[t] /\ u \notin alive
    BY <1>3, <1>5, <2>1
  <2> QED
    BY <1>3, <2>1, <2>2 DEF IInv, NoGhost
<1>13. EventsSound'
  <2>1. ASSUME NEW e \in adds \cup removes, {e.source, e.target} \notin raced'
        PROVE  e.source # s /\ e.target # s /\ {e.source, e.target} \notin raced
    BY <1>3, <1>6, <2>1
  <2>2. ASSUME NEW e \in adds, {e.source, e.target} \notin raced'
        PROVE  /\ e.source \in alive' /\ e.target \in alive'
               /\ e.source \notin shown'[e.target]
    BY <1>3, <1>5, <2>1, <2>2 DEF IInv, EventsSound, TypeOK
  <2> QED
    BY <1>1, <1>3, <2>1, <2>2 DEF IInv, EventsSound
<1>14. SeeInRange'
  <2> SUFFICES ASSUME NEW x \in alive', NEW t \in alive', x # t, {x, t} \notin raced'
               PROVE  x \in WillShow(t)' <=> <<stored'[x], stored'[t]>> \in Near
    BY DEF SeeInRange
  <2>1. /\ x \in alive /\ t \in alive /\ x \in Sob /\ t \in Sob
        /\ x # s /\ t # s /\ {x, t} \notin raced
    BY <1>3 DEF IInv, TypeOK
  <2>2. x \in WillShow(t)' <=>
          /\ x \in shown'[t] \/ \E e \in adds : e.target = t /\ e.source = x
          /\ ~ \E e \in removes : e.target = t /\ e.source = x
    BY <1>1 DEF WillShow
  <2>3. x \in WillShow(t) <=>
          /\ x \in shown[t] \/ \E e \in adds : e.target = t /\ e.source = x
          /\ ~ \E e \in removes : e.target = t /\ e.source = x
    BY DEF WillShow
  <2>4. x \in shown'[t] <=> x \in shown[t]
    BY <1>5, <2>1
  <2>5. stored'[x] = stored[x] /\ stored'[t] = stored[t]
    BY <1>3, <2>1 DEF IInv, TypeOK
  <2> QED
    BY <2>1, <2>2, <2>3, <2>4, <2>5 DEF IInv, SeeInRange
<1>15. AddedOnce'
  BY <1>1, <1>3 DEF IInv, AddedOnce
<1> QED
  BY <1>7, <1>8, <1>9, <1>10, <1>11, <1>12, <1>13, <1>14, <1>15 DEF IInv

-----------------------------------------------------------------------------
(* The events of the last update are delivered.                            *)

\* The Adds, which are news unless their pair raced.
LEMMA DeliverAddsStep ==
  ASSUME IInv, DeliverAdds
  PROVE  IInv'
<1> DEFINE told(t) == {e.source : e \in {f \in adds : f.target = t /\ t \in alive}}
           again == {e \in adds : /\ e.target \in alive
                                  /\ \/ e.source \in shown[e.target]
                                     \/ \E f \in adds \ {e} :
                                          /\ f.source = e.source
                                          /\ f.target = e.target}
<1>1. /\ phase = "events" /\ phase' = phase /\ adds' = {}
      /\ UNCHANGED <<requests, removes, places, bounds, raced, undefined>>
  BY DEF DeliverAdds
<1>2. /\ hears' = [t \in Sob |-> hears[t] \cup told(t)]
      /\ ears' = [t \in Sob |-> ears[t] \cup told(t)]
      /\ shown' = [t \in Sob |-> shown[t] \cup told(t)]
      /\ doubled' = doubled \cup {{e.source, e.target} : e \in again}
  BY Zenon DEF DeliverAdds
<1>3. \A t \in alive : told(t) = {e.source : e \in {f \in adds : f.target = t}}
  OBVIOUS
<1>4. \A t : told(t) \subseteq Sob
  BY DEF IInv, TypeOK
<1>5. \A t \in alive : \A u \in told(t) : u \in alive \/ {u, t} \in raced
  BY DEF IInv, EventsSound
<1>6. \A e \in again : e \in adds /\ {e.source, e.target} \in raced
  BY DEF IInv, EventsSound
<1> HIDE DEF told, again
<1>7. TypeOK'
  <2>1. {hears', ears', shown'} \subseteq [Sob -> SUBSET Sob]
    BY <1>2, <1>4 DEF IInv, TypeOK
  <2>2. doubled' \subseteq Pairs
    BY <1>2, <1>6 DEF IInv, TypeOK
  <2> QED
    BY <1>1, <2>1, <2>2 DEF IInv, TypeOK, places, bounds
<1>8. Emptied' /\ LastWord' /\ GridFollows'
  BY <1>1 DEF IInv, Emptied, LastWord, GridFollows, places
<1>9. Listening'
  BY <1>2 DEF IInv, Listening
<1>10. NoGhost'
  <2> SUFFICES ASSUME NEW t \in alive, NEW u \in shown'[t], u \notin alive
               PROVE  {u, t} \in raced
    BY <1>1 DEF NoGhost, places
  <2>1. u \in shown[t] \/ u \in told(t)
    BY <1>2 DEF IInv, TypeOK
  <2> QED
    BY <1>5, <2>1 DEF IInv, NoGhost
<1>11. EventsSound'
  BY <1>1 DEF IInv, EventsSound, places
<1>12. SeeInRange'
  <2>1. \A t \in alive : WillShow(t)' = WillShow(t)
    <3> SUFFICES ASSUME NEW t \in alive
                 PROVE  WillShow(t)' = WillShow(t)
      OBVIOUS
    <3>1. shown'[t] = shown[t] \cup told(t)
      BY <1>2 DEF IInv, TypeOK
    <3>2. WillShow(t)' = shown'[t] \ {e.source : e \in {f \in removes : f.target = t}}
      BY <1>1 DEF WillShow
    <3> QED
      BY <1>3, <3>1, <3>2 DEF WillShow
  <2> QED
    BY <1>1, <2>1 DEF IInv, SeeInRange, places
<1>13. AddedOnce'
  BY <1>1, <1>2, <1>6 DEF IInv, AddedOnce
<1> QED
  BY <1>7, <1>8, <1>9, <1>10, <1>11, <1>12, <1>13 DEF IInv

\* The Removes.
LEMMA DeliverRemovesStep ==
  ASSUME IInv, DeliverRemoves
  PROVE  IInv'
<1> DEFINE told(t) == {e.source : e \in {f \in removes : f.target = t /\ t \in alive}}
<1>1. /\ phase = "events" /\ phase' = phase /\ adds = {} /\ removes' = {}
      /\ UNCHANGED <<requests, adds, places, ears, doubled, bounds, raced, undefined>>
  BY DEF DeliverRemoves
<1>2. /\ hears' = [t \in Sob |-> hears[t] \ told(t)]
      /\ shown' = [t \in Sob |-> shown[t] \ told(t)]
  BY Zenon DEF DeliverRemoves
<1>3. \A t \in alive : told(t) = {e.source : e \in {f \in removes : f.target = t}}
  OBVIOUS
<1> HIDE DEF told
<1>4. TypeOK'
  <2>1. {hears', ears', shown'} \subseteq [Sob -> SUBSET Sob]
    BY <1>1, <1>2 DEF IInv, TypeOK
  <2> QED
    BY <1>1, <2>1 DEF IInv, TypeOK, places, bounds
<1>5. Emptied' /\ LastWord' /\ GridFollows'
  BY <1>1 DEF IInv, Emptied, LastWord, GridFollows, places
<1>6. Listening'
  BY <1>1, <1>2 DEF IInv, Listening
<1>7. NoGhost'
  BY <1>1, <1>2 DEF IInv, NoGhost, TypeOK, places
<1>8. EventsSound'
  BY <1>1 DEF IInv, EventsSound, places
<1>9. SeeInRange'
  <2>1. \A t \in alive : WillShow(t)' = WillShow(t)
    <3> SUFFICES ASSUME NEW t \in alive
                 PROVE  WillShow(t)' = WillShow(t)
      OBVIOUS
    <3>1. shown'[t] = shown[t] \ told(t)
      BY <1>2 DEF IInv, TypeOK
    <3>2. WillShow(t)' = shown'[t]
      BY <1>1 DEF WillShow
    <3>3. WillShow(t) = shown[t] \ {e.source : e \in {f \in removes : f.target = t}}
      BY <1>1 DEF WillShow
    <3> QED
      BY <1>3, <3>1, <3>2, <3>3
  <2> QED
    BY <1>1, <2>1 DEF IInv, SeeInRange, places
<1>10. AddedOnce'
  BY <1>1 DEF IInv, AddedOnce
<1> QED
  BY <1>4, <1>5, <1>6, <1>7, <1>8, <1>9, <1>10 DEF IInv

-----------------------------------------------------------------------------
(* CProximityManager::update.                                              *)

\* Where the grid has a sob once the entries of the registered ones moved.
Placed(t) == IF t \in registered THEN pos[t] ELSE stored[t]

\* The moved grid has every live sob where it is placed.
LEMMA MovedGridFacts ==
  ASSUME IInv, registered \subseteq alive
  PROVE  /\ MovedGrid \in [Cell -> SUBSET Sob]
         /\ \A t \in Sob, c \in Cell :
              t \in MovedGrid[c] <=> t \in alive /\ c = Placed(t)
         /\ \A t \in Sob : Placed(t) \in Cell
<1>1. MovedGrid \in [Cell -> SUBSET Sob]
  BY DEF IInv, TypeOK, MovedGrid
<1>2. \A t \in Sob : Placed(t) \in Cell
  BY DEF IInv, TypeOK, Placed
<1>3. ASSUME NEW t \in Sob, NEW c \in Cell
      PROVE  t \in MovedGrid[c] <=> t \in alive /\ c = Placed(t)
  <2>1. t \in MovedGrid[c] <=>
          \/ t \in grid[c] /\ ~(t \in registered /\ stored[t] = c)
          \/ t \in registered /\ pos[t] = c
    BY <1>3 DEF MovedGrid
  <2>2. t \in grid[c] <=> t \in alive /\ c = stored[t]
    BY <1>3 DEF IInv, GridFollows
  <2> QED
    BY <2>1, <2>2 DEF Placed
<1> QED
  BY <1>1, <1>2, <1>3

\* Whom a sob leaves and whom it meets. It does either only if it moved.
LEMMA LeftFacts ==
  ASSUME IInv, NEW s \in registered
  PROVE  \A t : t \in Left(s) <=>
           /\ t \in alive /\ t # s
           /\ <<stored[s], stored[t]>> \in Near
           /\ <<pos[s], stored[t]>> \notin Near
<1>1. OldRange(stored[s], pos[s]) \in SUBSET Cell
  BY DEF OldRange, InRange
<1>2. \A t \in alive : stored[t] \in Cell
  BY DEF IInv, TypeOK
<1> QED
  BY <1>1, <1>2, FoundFacts DEF IInv, Left, OldRange, InRange

LEMMA EnteredFacts ==
  ASSUME IInv, registered \subseteq alive, NEW s \in registered
  PROVE  \A t : t \in Entered(s) <=>
           /\ t \in alive /\ t # s
           /\ <<pos[s], Placed(t)>> \in Near
           /\ <<stored[s], Placed(t)>> \notin Near
<1> DEFINE cells == NewRange(stored[s], pos[s])
<1>1. \A c : c \in cells <=>
        c \in Cell /\ <<pos[s], c>> \in Near /\ <<stored[s], c>> \notin Near
  BY DEF NewRange, InRange
<1> HIDE DEF cells
<1>2. \A t : t \in Entered(s) <=> t # s /\ \E c \in cells : t \in MovedGrid[c]
  BY Zenon DEF Entered, Found, cells
<1> SUFFICES ASSUME NEW t
             PROVE  t \in Entered(s) <=>
                      /\ t \in alive /\ t # s
                      /\ <<pos[s], Placed(t)>> \in Near
                      /\ <<stored[s], Placed(t)>> \notin Near
  OBVIOUS
<1>3. CASE t \in Sob
  <2>1. \A c \in cells : t \in MovedGrid[c] <=> t \in alive /\ c = Placed(t)
    BY <1>1, <1>3, MovedGridFacts
  <2>2. Placed(t) \in Cell
    BY <1>3, MovedGridFacts
  <2> QED
    BY <1>1, <1>2, <2>1, <2>2
<1>4. CASE t \notin Sob
  <2>1. \A c \in cells : t \notin MovedGrid[c]
    BY <1>1, <1>4, MovedGridFacts
  <2>2. t \notin alive
    BY <1>4 DEF IInv, TypeOK
  <2> QED
    BY <1>2, <2>1, <2>2
<1> QED
  BY <1>3, <1>4

\* If two sobs that both are registered changed cells, they race.
LEMMA BothMovedFacts ==
  ASSUME NEW s \in registered, NEW t \in registered, s # t,
         pos[s] # stored[s], pos[t] # stored[t]
  PROVE  {s, t} \in BothMoved
<1>1. <<s, t>> \in {q \in registered \X registered :
                    /\ q[1] # q[2]
                    /\ pos[q[1]] # stored[q[1]]
                    /\ pos[q[2]] # stored[q[2]]}
  OBVIOUS
<1> QED
  BY <1>1 DEF BothMoved

\* The pair of a sob x and a sob t that one of the two came up to or left.
Met(x, t)    == (x \in registered /\ t \in Entered(x)) \/ (t \in registered /\ x \in Entered(t))
Parted(x, t) == (x \in registered /\ t \in Left(x)) \/ (t \in registered /\ x \in Left(t))

Moved(t) == t \in registered /\ pos[t] # stored[t]

\* What update posts.
LEMMA PostedFacts ==
  ASSUME IInv, Update
  PROVE  /\ \A e \in adds' :
              /\ e \in [source : Sob, target : Sob, finder : Sob]
              /\ e.source \in alive /\ e.target \in alive /\ e.source # e.target
              /\ \/ /\ e.finder = e.source /\ e.source \in registered
                    /\ e.target \in Entered(e.source)
                 \/ /\ e.finder = e.target /\ e.target \in registered
                    /\ e.source \in Entered(e.target)
         /\ \A e \in removes' :
              /\ e \in [source : Sob, target : Sob]
              /\ e.source \in alive /\ e.target \in alive
              /\ Parted(e.source, e.target)
         /\ \A x, t \in Sob :
              /\ Met(x, t) => \E e \in adds' : e.source = x /\ e.target = t
              /\ Parted(x, t) => \E e \in removes' : e.source = x /\ e.target = t
<1>1. /\ adds' = UNION {ToldBy(s, Entered(s)) : s \in registered}
      /\ removes' = UNION {Told(s, Left(s)) : s \in registered}
      /\ registered \subseteq alive
  BY DEF IInv, Emptied, Update
<1>2. alive \subseteq Sob
  BY DEF IInv, TypeOK
<1>3. ASSUME NEW s \in registered
      PROVE  /\ \A t \in Entered(s) : t \in alive /\ t # s
             /\ \A t \in Left(s) : t \in alive /\ t # s
  BY <1>1, <1>3, EnteredFacts, LeftFacts
<1>4. ASSUME NEW e
      PROVE  e \in adds' <=>
               \E s \in registered : \E t \in Entered(s) :
                 \/ e = [source |-> s, target |-> t, finder |-> s]
                 \/ e = [source |-> t, target |-> s, finder |-> s]
  <2>1. e \in adds' <=> \E s \in registered : e \in ToldBy(s, Entered(s))
    BY <1>1, Zenon
  <2> QED
    BY <2>1, Zenon DEF ToldBy
<1>5. ASSUME NEW e
      PROVE  e \in removes' <=>
               \E s \in registered : \E t \in Left(s) :
                 \/ e = [source |-> s, target |-> t]
                 \/ e = [source |-> t, target |-> s]
  <2>1. e \in removes' <=> \E s \in registered : e \in Told(s, Left(s))
    BY <1>1, Zenon
  <2> QED
    BY <2>1, Zenon DEF Told
<1>6. ASSUME NEW e \in adds'
      PROVE  /\ e \in [source : Sob, target : Sob, finder : Sob]
             /\ e.source \in alive /\ e.target \in alive /\ e.source # e.target
             /\ \/ /\ e.finder = e.source /\ e.source \in registered
                   /\ e.target \in Entered(e.source)
                \/ /\ e.finder = e.target /\ e.target \in registered
                   /\ e.source \in Entered(e.target)
  <2>1. PICK s \in registered, t \in Sob :
          /\ t \in Entered(s)
          /\ \/ e = [source |-> s, target |-> t, finder |-> s]
             \/ e = [source |-> t, target |-> s, finder |-> s]
    BY <1>2, <1>3, <1>4, <1>6
  <2>2. s \in alive /\ s \in Sob /\ t \in alive /\ t # s
    BY <1>1, <1>2, <1>3, <2>1
  <2>3. CASE e = [source |-> s, target |-> t, finder |-> s]
    BY <2>1, <2>2, <2>3
  <2>4. CASE e = [source |-> t, target |-> s, finder |-> s]
    BY <2>1, <2>2, <2>4
  <2> QED
    BY <2>1, <2>3, <2>4
<1>7. ASSUME NEW e \in removes'
      PROVE  /\ e \in [source : Sob, target : Sob]
             /\ e.source \in alive /\ e.target \in alive
             /\ Parted(e.source, e.target)
  <2>1. PICK s \in registered, t \in Sob :
          /\ t \in Left(s)
          /\ \/ e = [source |-> s, target |-> t]
             \/ e = [source |-> t, target |-> s]
    BY <1>2, <1>3, <1>5, <1>7
  <2>2. s \in alive /\ s \in Sob /\ t \in alive
    BY <1>1, <1>2, <1>3, <2>1
  <2>3. CASE e = [source |-> s, target |-> t]
    BY <2>1, <2>2, <2>3 DEF Parted
  <2>4. CASE e = [source |-> t, target |-> s]
    BY <2>1, <2>2, <2>4 DEF Parted
  <2> QED
    BY <2>1, <2>3, <2>4
<1>8. ASSUME NEW x \in Sob, NEW t \in Sob, Met(x, t)
      PROVE  \E e \in adds' : e.source = x /\ e.target = t
  <2>1. CASE x \in registered /\ t \in Entered(x)
    <3>1. [source |-> x, target |-> t, finder |-> x] \in adds'
      BY <1>4, <2>1
    <3> QED
      BY <3>1
  <2>2. CASE t \in registered /\ x \in Entered(t)
    <3>1. [source |-> x, target |-> t, finder |-> t] \in adds'
      BY <1>4, <2>2
    <3> QED
      BY <3>1
  <2> QED
    BY <1>8, <2>1, <2>2 DEF Met
<1>9. ASSUME NEW x \in Sob, NEW t \in Sob, Parted(x, t)
      PROVE  \E e \in removes' : e.source = x /\ e.target = t
  <2>1. CASE x \in registered /\ t \in Left(x)
    <3>1. [source |-> x, target |-> t] \in removes'
      BY <1>5, <2>1
    <3> QED
      BY <3>1
  <2>2. CASE t \in registered /\ x \in Left(t)
    <3>1. [source |-> x, target |-> t] \in removes'
      BY <1>5, <2>2
    <3> QED
      BY <3>1
  <2> QED
    BY <1>9, <2>1, <2>2 DEF Parted
<1> QED
  BY <1>6, <1>7, <1>8, <1>9

\* If not both moved, they met exactly if they are newly in range and parted
\* exactly if they are no longer.
LEMMA RangeFacts ==
  ASSUME IInv, registered \subseteq alive, NEW x \in alive, NEW t \in alive, x # t,
         ~(Moved(x) /\ Moved(t))
  PROVE  LET before == <<stored[x], stored[t]>> \in Near
             after  == <<Placed(x), Placed(t)>> \in Near
         IN  /\ Met(x, t) <=> after /\ ~before
             /\ Parted(x, t) <=> before /\ ~after
<1>1. /\ x \in Sob /\ t \in Sob
      /\ {stored[x], stored[t], pos[x], pos[t], Placed(x), Placed(t)} \subseteq Cell
  BY DEF IInv, TypeOK, Placed
<1>2. \A c, d \in Cell : <<c, d>> \in Near <=> <<d, c>> \in Near
  BY NearAssumption
<1>3. ASSUME x \in registered
      PROVE  /\ t \in Entered(x) <=> /\ <<pos[x], Placed(t)>> \in Near
                                   /\ <<stored[x], Placed(t)>> \notin Near
             /\ t \in Left(x) <=> /\ <<stored[x], stored[t]>> \in Near
                                /\ <<pos[x], stored[t]>> \notin Near
  BY <1>3, EnteredFacts, LeftFacts
<1>4. ASSUME t \in registered
      PROVE  /\ x \in Entered(t) <=> /\ <<pos[t], Placed(x)>> \in Near
                                   /\ <<stored[t], Placed(x)>> \notin Near
             /\ x \in Left(t) <=> /\ <<stored[t], stored[x]>> \in Near
                                /\ <<pos[t], stored[x]>> \notin Near
  BY <1>4, EnteredFacts, LeftFacts
<1>5. CASE ~Moved(t)
  <2>1. Placed(t) = stored[t] /\ (t \in registered => pos[t] = stored[t])
    BY <1>5 DEF Moved, Placed
  <2>2. x \in registered => Placed(x) = pos[x]
    BY DEF Placed
  <2>3. x \notin registered => Placed(x) = stored[x]
    BY DEF Placed
  <2> QED
    BY <1>1, <1>2, <1>3, <1>4, <2>1, <2>2, <2>3 DEF Met, Parted
<1>6. CASE ~Moved(x)
  <2>1. Placed(x) = stored[x] /\ (x \in registered => pos[x] = stored[x])
    BY <1>6 DEF Moved, Placed
  <2>2. t \in registered => Placed(t) = pos[t]
    BY DEF Placed
  <2>3. t \notin registered => Placed(t) = stored[t]
    BY DEF Placed
  <2> QED
    BY <1>1, <1>2, <1>3, <1>4, <2>1, <2>2, <2>3 DEF Met, Parted
<1> QED
  BY <1>5, <1>6

\* The grid is brought up to date, and the events say exactly what changed for
\* every pair of which at most one moved.
LEMMA UpdateStep ==
  ASSUME IInv, Update
  PROVE  IInv'
<1>1. /\ phase = "proximity" /\ phase' = "network"
      /\ adds = {} /\ removes = {} /\ requests = <<>>
      /\ registered \subseteq alive /\ registered' = {}
      /\ grid' = MovedGrid
      /\ raced' = raced \cup BothMoved
      /\ UNCHANGED <<requests, alive, pos, dangling, views, bounds, undefined>>
  BY DEF IInv, Emptied, Update
<1>2. stored' = [t \in Sob |-> Placed(t)]
  BY DEF Update, Placed
<1>3. \A x, t \in alive : x # t /\ {x, t} \notin raced' =>
        {x, t} \notin raced /\ ~(Moved(x) /\ Moved(t))
  BY <1>1, BothMovedFacts DEF Moved
<1>4. \A x, t \in alive : x # t /\ {x, t} \notin raced =>
        (x \in shown[t] <=> <<stored[x], stored[t]>> \in Near)
  BY <1>1 DEF IInv, SeeInRange, WillShow
<1>5. TypeOK'
  <2>1. /\ adds' \subseteq [source : Sob, target : Sob, finder : Sob]
        /\ removes' \subseteq [source : Sob, target : Sob]
    BY PostedFacts
  <2>2. stored' \in [Sob -> Cell] /\ grid' \in [Cell -> SUBSET Sob]
    BY <1>1, <1>2, MovedGridFacts
  <2>3. raced' \subseteq Pairs
    <3>1. registered \subseteq Sob
      BY DEF IInv, TypeOK
    <3>2. BothMoved \subseteq Pairs
      BY <3>1 DEF BothMoved, Pairs
    <3> QED
      BY <1>1, <3>2 DEF IInv, TypeOK
  <2> QED
    BY <1>1, <2>1, <2>2, <2>3 DEF IInv, TypeOK, views, bounds
<1>6. Emptied'
  BY <1>1 DEF Emptied
<1>7. LastWord'
  BY <1>1 DEF LastWord
<1>8. GridFollows'
  BY <1>1, <1>2, MovedGridFacts DEF GridFollows
<1>9. Listening' /\ NoGhost' /\ AddedOnce'
  BY <1>1 DEF IInv, Listening, NoGhost, AddedOnce, views
<1>10. EventsSound'
  <2>1. ASSUME NEW e \in adds', {e.source, e.target} \notin raced'
        PROVE  /\ e.source \in alive' /\ e.target \in alive'
               /\ e.source \notin shown'[e.target]
    <3>1. /\ e.source \in alive /\ e.target \in alive /\ e.source # e.target
          /\ Met(e.source, e.target)
      BY PostedFacts DEF Met
    <3>2. {e.source, e.target} \notin raced /\ ~(Moved(e.source) /\ Moved(e.target))
      BY <1>3, <2>1, <3>1
    <3>3. <<stored[e.source], stored[e.target]>> \notin Near
      BY <1>1, <3>1, <3>2, RangeFacts
    <3> QED
      BY <1>1, <1>4, <3>1, <3>2, <3>3 DEF views
  <2>2. ASSUME NEW e \in adds', {e.source, e.target} \notin raced',
               NEW f \in adds', f.source = e.source, f.target = e.target
        PROVE  f = e
    <3> DEFINE x == e.source
               t == e.target
    <3>1. /\ x \in alive /\ t \in alive /\ x # t
          /\ e \in [source : Sob, target : Sob, finder : Sob]
          /\ f \in [source : Sob, target : Sob, finder : Sob]
          /\ \/ e.finder = x /\ x \in registered /\ t \in Entered(x)
             \/ e.finder = t /\ t \in registered /\ x \in Entered(t)
          /\ \/ f.finder = x /\ x \in registered /\ t \in Entered(x)
             \/ f.finder = t /\ t \in registered /\ x \in Entered(t)
      BY <2>2, PostedFacts
    <3>2. ~(Moved(x) /\ Moved(t))
      BY <1>3, <2>2, <3>1
    <3> HIDE DEF x, t
    <3>3. x \in registered /\ t \in Entered(x) => Moved(x)
      BY <1>1, EnteredFacts DEF Moved
    <3>4. t \in registered /\ x \in Entered(t) => Moved(t)
      BY <1>1, EnteredFacts DEF Moved
    <3>5. f.finder = e.finder
      BY <3>1, <3>2, <3>3, <3>4
    <3> QED
      BY <2>2, <3>1, <3>5
  <2>3. ASSUME NEW e \in removes'
        PROVE  e.source \in alive' /\ e.target \in alive'
    BY <1>1, PostedFacts
  <2> QED
    BY <2>1, <2>2, <2>3 DEF EventsSound
<1>11. SeeInRange'
  <2> SUFFICES ASSUME NEW x \in alive, NEW t \in alive, x # t, {x, t} \notin raced'
               PROVE  x \in WillShow(t)' <=> <<stored'[x], stored'[t]>> \in Near
    BY <1>1 DEF SeeInRange
  <2>1. x \in Sob /\ t \in Sob
    BY DEF IInv, TypeOK
  <2>2. {x, t} \notin raced /\ ~(Moved(x) /\ Moved(t))
    BY <1>3
  <2>3. (\E e \in adds' : e.source = x /\ e.target = t) <=> Met(x, t)
    BY <2>1, PostedFacts DEF Met
  <2>4. (\E e \in removes' : e.source = x /\ e.target = t) <=> Parted(x, t)
    BY <2>1, PostedFacts
  <2>5. x \in WillShow(t)' <=> (x \in shown[t] \/ Met(x, t)) /\ ~Parted(x, t)
    <3>1. shown' = shown
      BY <1>1 DEF views
    <3>2. x \in WillShow(t)' <=>
            /\ x \in shown'[t] \/ \E e \in adds' : e.source = x /\ e.target = t
            /\ ~ \E e \in removes' : e.source = x /\ e.target = t
      BY DEF WillShow
    <3> QED
      BY <2>3, <2>4, <3>1, <3>2
  <2>6. x \in shown[t] <=> <<stored[x], stored[t]>> \in Near
    BY <1>4, <2>2
  <2>7. stored'[x] = Placed(x) /\ stored'[t] = Placed(t)
    BY <1>2, <2>1
  <2> QED
    BY <1>1, <2>2, <2>5, <2>6, <2>7, RangeFacts
<1> QED
  BY <1>5, <1>6, <1>7, <1>8, <1>9, <1>10, <1>11 DEF IInv

-----------------------------------------------------------------------------
(* The theorems.                                                           *)

LEMMA InitInv == Init => IInv
<1> SUFFICES ASSUME Init PROVE IInv
  OBVIOUS
<1>1. TypeOK
  <2>1. spawns \in 0..MaxSpawns /\ moves \in 0..MaxMoves
    BY BoundsAssumption DEF Init
  <2>2. requests \in Seq(RequestRecord)
    BY DEF Init
  <2>3. /\ pos \in [Sob -> Cell] /\ stored \in [Sob -> Cell]
        /\ grid \in [Cell -> SUBSET Sob]
        /\ {hears, ears, shown} \subseteq [Sob -> SUBSET Sob]
    BY CellAssumption DEF Init
  <2>4. undefined \in BOOLEAN
    BY Zenon DEF Init
  <2>5. /\ phase = "network" /\ adds = {} /\ removes = {} /\ alive = {}
        /\ registered = {} /\ dangling = {} /\ doubled = {} /\ raced = {}
    BY DEF Init
  <2> QED
    BY <2>1, <2>2, <2>3, <2>4, <2>5 DEF TypeOK, RequestRecord
<1>2. /\ Emptied /\ LastWord /\ GridFollows /\ Listening /\ NoGhost
      /\ EventsSound /\ SeeInRange /\ AddedOnce
  BY DEF Init, Emptied, LastWord, GridFollows, Listening, NoGhost, EventsSound,
         SeeInRange, AddedOnce
<1> QED
  BY <1>1, <1>2 DEF IInv

LEMMA NextInv == IInv /\ [Next]_vars => IInv'
<1> SUFFICES ASSUME IInv, [Next]_vars PROVE IInv'
  OBVIOUS
<1>1. CASE UNCHANGED vars
  <2>1. UNCHANGED <<phase, events, places, views, bounds, raced, undefined>>
    BY <1>1 DEF vars
  <2>2. TypeOK' /\ Emptied' /\ LastWord' /\ registered' \subseteq alive
    BY <2>1 DEF IInv, TypeOK, Emptied, LastWord, GridFollows, events, places, views,
                bounds
  <2> QED
    BY <2>1, <2>2, SameViews DEF IInv, events, places
<1>2. CASE RequestSpawn \/ \E s \in Sob : RequestMotion(s) \/ Disconnect(s)
  BY <1>2, NetworkStep
<1>3. CASE EndNetwork \/ EndEvents \/ EndSobs
  BY <1>3, PhaseStep
<1>4. CASE \E s \in Sob : Spawn(s)
  BY <1>4, SpawnStep
<1>5. CASE SpawnUndefined \/ UpdateUndefined
  BY <1>5, UndefinedStep
<1>6. CASE Motion
  BY <1>6, MotionStep
<1>7. CASE Unspawn
  BY <1>7, UnspawnStep
<1>8. CASE DeliverAdds
  BY <1>8, DeliverAddsStep
<1>9. CASE DeliverRemoves
  BY <1>9, DeliverRemovesStep
<1>10. CASE \E s \in Sob : Walk(s) \/ Poll(s)
  BY <1>10, SobStep
<1>11. CASE Update
  BY <1>11, UpdateStep
<1> QED
  BY <1>1, <1>2, <1>3, <1>4, <1>5, <1>6, <1>7, <1>8, <1>9, <1>10, <1>11 DEF Next

\* The inductive invariant holds in every order of callbacks, deliveries and
\* updates.
THEOREM VisibilityInvariant == Spec => []IInv
<1> QED
  BY InitInv, NextInv, PTL DEF Spec

\* Every variable keeps its shape.
THEOREM TypeCorrect == Spec => []TypeOK
<1>1. IInv => TypeOK
  BY DEF IInv
<1> QED
  BY <1>1, VisibilityInvariant, PTL

\* The grid holds every live sob once, where its controller stores it, and no
\* deleted sob is registered for update.
THEOREM GridFollowsTheSobs == Spec => []GridFollows
<1>1. IInv => GridFollows
  BY DEF IInv
<1> QED
  BY <1>1, VisibilityInvariant, PTL

\* Two sobs that did not race will see each other exactly when they are in range.
THEOREM SeenExactlyInRange == Spec => []SeeInRange
<1>1. IInv => SeeInRange
  BY DEF IInv
<1> QED
  BY <1>1, VisibilityInvariant, PTL

\* A client shows a deleted sob only after a race.
THEOREM GhostsOnlyByRaces == Spec => []NoGhost
<1>1. IInv => NoGhost
  BY DEF IInv
<1> QED
  BY <1>1, VisibilityInvariant, PTL

\* A view forwards the events of what its client shows, races or not.
THEOREM ForwardsWhatIsShown == Spec => []ShownIsHeard
<1>1. IInv => ShownIsHeard
  BY DEF IInv, Listening, ShownIsHeard, TypeOK
<1> QED
  BY <1>1, VisibilityInvariant, PTL

\* Only pairs that raced are added twice.
THEOREM AddedTwiceOnlyByRaces == Spec => []AddedOnce
<1>1. IInv => AddedOnce
  BY DEF IInv
<1> QED
  BY <1>1, VisibilityInvariant, PTL

-----------------------------------------------------------------------------
(* Consequences.                                                           *)

\* What is read of deleted sobs is read through the grid.
DanglesFirst == undefined => dangling # {}

\* m_SobsToUpdate never makes the service read a deleted sob, although
\* userLogout leaves it alone: a bad pointer is read only when the grid has one,
\* of a sob that was deleted away from the cell the grid had it in.
THEOREM OnlyTheGridDangles == Spec => []DanglesFirst
<1>1. Init => DanglesFirst
  BY DEF Init, DanglesFirst
<1>2. IInv /\ DanglesFirst /\ [Next]_vars => DanglesFirst'
  <2> SUFFICES ASSUME IInv, DanglesFirst, [Next]_vars, undefined', ~undefined
               PROVE  dangling' # {}
    <3>1. ASSUME [Next]_vars PROVE dangling \subseteq dangling'
      BY <3>1 DEF Next, vars, RequestSpawn, RequestMotion, Disconnect, EndNetwork, Spawn,
           SpawnUndefined, Motion, Unspawn, DeliverAdds, DeliverRemoves, EndEvents,
           Walk, Poll, EndSobs, Update, UpdateUndefined, places
    <3> QED
      BY <3>1, Zenon DEF DanglesFirst
  <2>1. SpawnUndefined \/ UpdateUndefined
    BY DEF Next, vars, RequestSpawn, RequestMotion, Disconnect, EndNetwork, Spawn,
           Motion, Unspawn, DeliverAdds, DeliverRemoves, EndEvents, Walk, Poll,
           EndSobs, Update
  <2>2. dangling' = dangling
    BY <2>1 DEF SpawnUndefined, UpdateUndefined, places
  <2>3. CASE SpawnUndefined
    BY <2>2, <2>3 DEF SpawnUndefined
  <2>4. CASE UpdateUndefined
    BY <2>2, <2>4 DEF UpdateUndefined, IInv, GridFollows
  <2> QED
    BY <2>1, <2>3, <2>4
<1> QED
  BY <1>1, <1>2, VisibilityInvariant, PTL DEF Spec

\* Between two deliveries, when nothing is in the queue.
MutualWhenDelivered ==
  phase = "sobs" =>
    \A s, t \in alive : s # t /\ {s, t} \notin raced =>
      (s \in shown[t] <=> t \in shown[s])

\* Once a frame has delivered its events, of two sobs that did not race either
\* both see the other or neither does.
THEOREM SeeingIsMutual == Spec => []MutualWhenDelivered
<1>1. IInv => MutualWhenDelivered
  <2> SUFFICES ASSUME IInv, phase = "sobs",
                      NEW s \in alive, NEW t \in alive, s # t, {s, t} \notin raced
               PROVE  s \in shown[t] <=> t \in shown[s]
    BY DEF MutualWhenDelivered
  <2>1. \A u : WillShow(u) = shown[u]
    BY DEF IInv, Emptied, WillShow
  <2>2. {t, s} \notin raced
    BY SamePair
  <2>3. /\ s \in shown[t] <=> <<stored[s], stored[t]>> \in Near
        /\ t \in shown[s] <=> <<stored[t], stored[s]>> \in Near
    BY <2>1, <2>2 DEF IInv, SeeInRange
  <2>4. stored[s] \in Cell /\ stored[t] \in Cell
    BY DEF IInv, TypeOK
  <2> QED
    BY <2>3, <2>4, NearAssumption
<1> QED
  BY <1>1, VisibilityInvariant, PTL

=============================================================================
