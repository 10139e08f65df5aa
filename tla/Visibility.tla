----------------------------- MODULE Visibility -----------------------------
(***************************************************************************)
(* Who sees whom: CProximityManager with its grid of cells, the proximity  *)
(* controller of every sob, and CServerObjectView, which turns the Add and *)
(* Remove events into listener registrations and into messages for the     *)
(* client that plays the sob.                                              *)
(*                                                                         *)
(* A frame of CFrontendService::update has four phases: the network        *)
(* callbacks put requests into the event queue; the queue is processed;    *)
(* every sob is updated, which moves it and polls its proximity            *)
(* controller; and CProximityManager::update compares the cells. Requests, *)
(* Adds and Removes all carry the timestamp 0, so the queue hands them out *)
(* newest first: the requests of this frame, then the Adds and then the    *)
(* Removes of the frame before.                                            *)
(*                                                                         *)
(* Cells are opaque; Near stands for "no further apart than the range".    *)
(***************************************************************************)
EXTENDS Naturals, Sequences, FiniteSets

CONSTANTS Sob,          \* sob ids
          Cell,         \* cells of the grid
          SpawnCell,    \* the cell every sob is spawned in
          Near,         \* pairs of cells within m_ProximityRange
          MaxSpawns,    \* how many sobs are spawned
          MaxMoves      \* how many moves there are

ASSUME SobAssumption  == IsFiniteSet(Sob)
ASSUME CellAssumption == SpawnCell \in Cell
ASSUME NearAssumption == /\ Near \subseteq Cell \X Cell
                         /\ \A c \in Cell : <<c, c>> \in Near
                         /\ \A c, d \in Cell : <<c, d>> \in Near => <<d, c>> \in Near
ASSUME BoundsAssumption == MaxSpawns \in Nat /\ MaxMoves \in Nat

VARIABLES phase,        \* "network", "events", "sobs" or "proximity"
          requests,     \* this frame's requests in m_EventQueue, back last
          adds,         \* Add events in m_EventQueue: [source, target, finder]
          removes,      \* Remove events in m_EventQueue: [source, target]
          alive,        \* sobs in m_ActorManager
          pos,          \* getSobPosition: the cell a sob is in
          stored,       \* CProximityController::m_Position
          registered,   \* m_SobsToUpdate
          grid,         \* m_Grid: cell -> the live sobs it points to
          dangling,     \* cells that point to a deleted sob
          hears,        \* sobs whose POST events a sob's view listens to
          ears,         \* sobs whose unspawn event a sob's view listens to
          shown,        \* sobs a sob's client was told to show
          spawns,       \* sobs spawned so far
          moves,        \* moves so far
          doubled,      \* history: pairs told to a client that shows them
          raced,        \* history: pairs of sobs that raced (below)
          undefined     \* a pointer to a deleted sob was read

events  == <<requests, adds, removes>>
places  == <<alive, pos, stored, registered, grid, dangling>>
views   == <<hears, ears, shown, doubled>>
bounds  == <<spawns, moves>>
vars == <<phase, events, places, views, bounds, raced, undefined>>

-----------------------------------------------------------------------------
(* The grid.                                                               *)

\* CRangeGrid2D::getRange, getOldRange and getNewRange (module RangeGrid
\* checks the index arithmetic against these differences).
InRange(c)     == {d \in Cell : <<c, d>> \in Near}
OldRange(c, d) == InRange(c) \ InRange(d)
NewRange(c, d) == InRange(d) \ InRange(c)

\* The sobs a grid g points to in a set of cells, other than s.
Found(g, cells, s) == (UNION {g[c] : c \in cells}) \ {s}

Init ==
  /\ phase = "network"
  /\ requests = <<>>
  /\ adds = {}
  /\ removes = {}
  /\ alive = {}
  /\ pos = [s \in Sob |-> SpawnCell]
  /\ stored = [s \in Sob |-> SpawnCell]
  /\ registered = {}
  /\ grid = [c \in Cell |-> {}]
  /\ dangling = {}
  /\ hears = [s \in Sob |-> {}]
  /\ ears = [s \in Sob |-> {}]
  /\ shown = [s \in Sob |-> {}]
  /\ spawns = 0
  /\ moves = 0
  /\ doubled = {}
  /\ raced = {}
  /\ undefined = FALSE

-----------------------------------------------------------------------------
(* Network callbacks.                                                      *)

Leaving(s) == \E i \in 1..Len(requests) :
                requests[i].type = "unspawn" /\ requests[i].sob = s

\* cbSimEventClient with a spawn request. The sob does not exist yet. (Sob has
\* an id for everybody, a bound.)
RequestSpawn ==
  /\ phase = "network" /\ ~undefined
  /\ spawns < MaxSpawns
  /\ Cardinality(alive)
       + Cardinality({i \in 1..Len(requests) : requests[i].type = "spawn"})
       < Cardinality(Sob)
  /\ spawns' = spawns + 1
  /\ requests' = Append(requests, [type |-> "spawn"])
  /\ UNCHANGED <<phase, adds, removes, places, views, moves, raced, undefined>>

\* cbSimEventClient with a state request: walk, turn, strafe or stop.
RequestMotion(s) ==
  /\ phase = "network" /\ ~undefined
  /\ moves < MaxMoves
  /\ s \in alive
  /\ ~Leaving(s)
  /\ moves' = moves + 1
  /\ requests' = Append(requests, [type |-> "motion", sob |-> s])
  /\ UNCHANGED <<phase, adds, removes, places, views, spawns, raced, undefined>>

\* onDisconnectClient.
Disconnect(s) ==
  /\ phase = "network" /\ ~undefined
  /\ s \in alive
  /\ ~Leaving(s)
  /\ requests' = Append(requests, [type |-> "unspawn", sob |-> s])
  /\ UNCHANGED <<phase, adds, removes, places, views, bounds, raced, undefined>>

EndNetwork ==
  /\ phase = "network" /\ ~undefined
  /\ phase' = "events"
  /\ UNCHANGED <<events, places, views, bounds, raced, undefined>>

-----------------------------------------------------------------------------
(* processEventQueue.                                                      *)

\* Slip: the oldest request first.
OldestRequest == 1

\* The index of the request that is processed next.
NextRequest == Len(requests)
Request     == requests[NextRequest]

Handles(type) ==
  /\ phase = "events" /\ ~undefined
  /\ requests # <<>>
  /\ Request.type = type
  /\ requests' = [i \in 1..(Len(requests) - 1) |->
                    IF i < NextRequest THEN requests[i] ELSE requests[i + 1]]
  /\ UNCHANGED <<phase, adds, removes, bounds>>

\* userLogin: the proximity controller stores the cell, the view enters the
\* sob into the grid and registers it; then the spawn event makes the view
\* post Adds for everybody in range, which are dispatched on the spot. The sob
\* gets an id that is free; module Session says which.
Spawn(s) ==
  /\ Handles("spawn")
  /\ s \notin alive
  /\ InRange(SpawnCell) \cap dangling = {}
  /\ LET met == Found(grid, InRange(SpawnCell), s)
     IN  /\ alive' = alive \cup {s}
         /\ pos' = [pos EXCEPT ![s] = SpawnCell]
         /\ stored' = [stored EXCEPT ![s] = SpawnCell]
         /\ registered' = registered \cup {s}
         /\ grid' = [grid EXCEPT ![SpawnCell] = @ \cup {s}]
         /\ hears' = [t \in Sob |-> IF t = s THEN met
                                    ELSE IF t \in met THEN hears[t] \cup {s}
                                    ELSE hears[t]]
         /\ ears' = [t \in Sob |-> IF t = s THEN met
                                   ELSE IF t \in met THEN ears[t] \cup {s}
                                   ELSE ears[t]]
         /\ shown' = [t \in Sob |-> IF t = s THEN met
                                    ELSE IF t \in met THEN shown[t] \cup {s}
                                    ELSE shown[t]]
         /\ doubled' = doubled \cup {{s, t} : t \in {x \in met : s \in shown[x]}}
  /\ UNCHANGED <<dangling, raced, undefined>>

\* The same, but the range holds a pointer to a deleted sob.
SpawnUndefined ==
  /\ Handles("spawn")
  /\ InRange(SpawnCell) \cap dangling # {}
  /\ undefined' = TRUE
  /\ UNCHANGED <<places, views, raced>>

\* The state change corrects the position for the time since the request, and
\* in the POST phase of the move event observePostGameEvent registers the sob
\* if its cell has changed. A sob that is gone has no handlers.
Motion ==
  /\ Handles("motion")
  /\ LET s == Request.sob
     IN  IF s \in alive
           THEN \E c \in Cell :
                  /\ pos' = [pos EXCEPT ![s] = c]
                  /\ registered' = IF c # stored[s] THEN registered \cup {s}
                                                   ELSE registered
           ELSE UNCHANGED <<pos, registered>>
  /\ UNCHANGED <<alive, stored, grid, dangling, views, raced, undefined>>

\* Pairs with an event in the queue that the death of s will overtake.
Overtaken(s) ==
  {{e.source, e.target} : e \in {f \in adds : f.source = s \/ f.target = s}}
    \cup
  {{e.source, e.target} : e \in {f \in removes : f.source = s \/ f.target = s}}

\* CSobUnspawnEvent: in its EVENT phase every view that listens to it sends a
\* Remove to its own client; in its POST phase userLogout takes the sob out of
\* the grid, at the cell the sob is in now, and deletes it. The destructors
\* take all listeners to it and of its view with them, but m_SobsToUpdate and
\* a grid entry at another cell keep the pointer. (What pos and stored say of a
\* deleted sob means nothing; they are reset.)
Unspawn ==
  /\ Handles("unspawn")
  /\ LET s == Request.sob
     IN  /\ alive' = alive \ {s}
         /\ grid' = [c \in Cell |-> grid[c] \ {s}]
         /\ dangling' = dangling \cup {c \in Cell \ {pos[s]} : s \in grid[c]}
         /\ shown' = [t \in Sob |-> IF t = s THEN {}
                                    ELSE IF s \in ears[t] THEN shown[t] \ {s}
                                    ELSE shown[t]]
         /\ hears' = [t \in Sob |-> IF t = s THEN {} ELSE hears[t] \ {s}]
         /\ ears' = [t \in Sob |-> IF t = s THEN {} ELSE ears[t] \ {s}]
         /\ pos' = [pos EXCEPT ![s] = SpawnCell]
         /\ stored' = [stored EXCEPT ![s] = SpawnCell]
         /\ raced' = raced \cup Overtaken(s)
  /\ UNCHANGED <<registered, doubled, undefined>>

\* Slip: the view does not listen to the end of the source.
DeliverAddsDeaf ==
  /\ phase = "events" /\ ~undefined
  /\ requests = <<>>
  /\ adds # {}
  /\ LET told(t) == {e.source : e \in {f \in adds : f.target = t /\ t \in alive}}
     IN  /\ hears' = [t \in Sob |-> hears[t] \cup told(t)]
         /\ shown' = [t \in Sob |-> shown[t] \cup told(t)]
  /\ adds' = {}
  /\ UNCHANGED <<phase, requests, removes, places, ears, doubled, bounds, raced,
                 undefined>>

\* The Adds at the back of the queue. CServerObjectView::add listens to the
\* source, whether it is still there or not, and forwards the event.
DeliverAdds ==
  /\ phase = "events" /\ ~undefined
  /\ requests = <<>>
  /\ adds # {}
  /\ LET told(t) == {e.source : e \in {f \in adds : f.target = t /\ t \in alive}}
         again   == {e \in adds : /\ e.target \in alive
                                  /\ \/ e.source \in shown[e.target]
                                     \/ \E f \in adds \ {e} :
                                          /\ f.source = e.source
                                          /\ f.target = e.target}
     IN  /\ hears' = [t \in Sob |-> hears[t] \cup told(t)]
         /\ ears' = [t \in Sob |-> ears[t] \cup told(t)]
         /\ shown' = [t \in Sob |-> shown[t] \cup told(t)]
         /\ doubled' = doubled \cup {{e.source, e.target} : e \in again}
  /\ adds' = {}
  /\ UNCHANGED <<phase, requests, removes, places, bounds, raced, undefined>>

\* Slip: the view goes on listening.
DeliverRemovesListening ==
  /\ phase = "events" /\ ~undefined
  /\ requests = <<>>
  /\ adds = {}
  /\ removes # {}
  /\ LET told(t) == {e.source : e \in {f \in removes : f.target = t /\ t \in alive}}
     IN  shown' = [t \in Sob |-> shown[t] \ told(t)]
  /\ removes' = {}
  /\ UNCHANGED <<phase, requests, adds, places, hears, ears, doubled, bounds,
                 raced, undefined>>

\* The Removes. CServerObjectView::remove stops listening, to everything but
\* the unspawn event, and forwards the event.
DeliverRemoves ==
  /\ phase = "events" /\ ~undefined
  /\ requests = <<>>
  /\ adds = {}
  /\ removes # {}
  /\ LET told(t) == {e.source : e \in {f \in removes : f.target = t /\ t \in alive}}
     IN  /\ hears' = [t \in Sob |-> hears[t] \ told(t)]
         /\ shown' = [t \in Sob |-> shown[t] \ told(t)]
  /\ removes' = {}
  /\ UNCHANGED <<phase, requests, adds, places, ears, doubled, bounds, raced,
                 undefined>>

EndEvents ==
  /\ phase = "events" /\ ~undefined
  /\ requests = <<>> /\ adds = {} /\ removes = {}
  /\ phase' = "sobs"
  /\ UNCHANGED <<events, places, views, bounds, raced, undefined>>

-----------------------------------------------------------------------------
(* ISimulationObj::update of every sob.                                    *)

\* Slip: a sob walks off the grid.
WalkOff(s) ==
  /\ phase = "sobs" /\ ~undefined
  /\ s \in alive
  /\ moves < MaxMoves
  /\ moves' = moves + 1
  /\ pos' = [pos EXCEPT ![s] = Cardinality(Cell)]
  /\ UNCHANGED <<phase, events, alive, stored, registered, grid, dangling,
                 views, spawns, raced, undefined>>

\* CMotionController::update: as far as the frame was long.
Walk(s) ==
  /\ phase = "sobs" /\ ~undefined
  /\ s \in alive
  /\ moves < MaxMoves
  /\ moves' = moves + 1
  /\ \E c \in Cell \ {pos[s]} : pos' = [pos EXCEPT ![s] = c]
  /\ UNCHANGED <<phase, events, alive, stored, registered, grid, dangling,
                 views, spawns, raced, undefined>>

\* Slip: only the timer advances.
PollOnlyTimer(s) ==
  /\ phase = "sobs" /\ ~undefined
  /\ s \in alive
  /\ UNCHANGED vars

\* CProximityController::update when m_NextUpdateTime has come.
Poll(s) ==
  /\ phase = "sobs" /\ ~undefined
  /\ s \in alive
  /\ pos[s] # stored[s]
  /\ registered' = registered \cup {s}
  /\ UNCHANGED <<phase, events, alive, pos, stored, grid, dangling, views,
                 bounds, raced, undefined>>

EndSobs ==
  /\ phase = "sobs" /\ ~undefined
  /\ phase' = "proximity"
  /\ UNCHANGED <<events, places, views, bounds, raced, undefined>>

-----------------------------------------------------------------------------
(* CProximityManager::update.                                              *)

\* Cells whose entries update reads.
ReadCells == UNION {OldRange(stored[s], pos[s]) \cup NewRange(stored[s], pos[s])
                      : s \in registered}

\* Slip: the entries are taken out where the sobs are now.
MovedGridAtPosition ==
  [c \in Cell |-> (grid[c] \ {s \in registered : pos[s] = c})
                    \cup {s \in registered : pos[s] = c}]

\* The grid after the second loop: the entries of the registered sobs moved.
MovedGrid ==
  [c \in Cell |-> (grid[c] \ {s \in registered : stored[s] = c})
                    \cup {s \in registered : pos[s] = c}]

\* Slip: the old and the new cell are exchanged.
LeftExchanged(s) == Found(grid, OldRange(pos[s], stored[s]), s)

\* First loop, on the grid as it was: everybody s leaves behind.
Left(s) == Found(grid, OldRange(stored[s], pos[s]), s)

\* Slip: the whole range is taken.
EnteredWholeRange(s) == Found(MovedGrid, InRange(pos[s]), s)

\* Third loop, on the moved grid: everybody s comes up to.
Entered(s) == Found(MovedGrid, NewRange(stored[s], pos[s]), s)

\* Both sobs of a pair changed cells in one update.
BothMoved == {{p[1], p[2]} : p \in {q \in registered \X registered :
                /\ q[1] # q[2]
                /\ pos[q[1]] # stored[q[1]]
                /\ pos[q[2]] # stored[q[2]]}}

\* postRemoveEvents and postAddEvents tell both sobs of a pair.
Told(s, others) == {[source |-> s, target |-> t] : t \in others}
                     \cup {[source |-> t, target |-> s] : t \in others}
ToldBy(s, others) == {[source |-> s, target |-> t, finder |-> s] : t \in others}
                       \cup {[source |-> t, target |-> s, finder |-> s] : t \in others}

Update ==
  /\ phase = "proximity" /\ ~undefined
  /\ registered \subseteq alive
  /\ ReadCells \cap dangling = {}
  /\ removes' = removes \cup UNION {Told(s, Left(s)) : s \in registered}
  /\ adds' = adds \cup UNION {ToldBy(s, Entered(s)) : s \in registered}
  /\ grid' = MovedGrid
  /\ stored' = [s \in Sob |-> IF s \in registered THEN pos[s] ELSE stored[s]]
  /\ registered' = {}
  /\ raced' = raced \cup BothMoved
  /\ phase' = "network"
  /\ UNCHANGED <<requests, alive, pos, dangling, views, bounds, undefined>>

\* The same, but a deleted sob is registered or in a cell that is read.
UpdateUndefined ==
  /\ phase = "proximity" /\ ~undefined
  /\ \/ ~(registered \subseteq alive)
     \/ ReadCells \cap dangling # {}
  /\ undefined' = TRUE
  /\ UNCHANGED <<phase, events, places, views, bounds, raced>>

-----------------------------------------------------------------------------
Next ==
  \/ RequestSpawn
  \/ \E s \in Sob : RequestMotion(s)
  \/ \E s \in Sob : Disconnect(s)
  \/ EndNetwork
  \/ \E s \in Sob : Spawn(s)
  \/ SpawnUndefined
  \/ Motion
  \/ Unspawn
  \/ DeliverAdds
  \/ DeliverRemoves
  \/ EndEvents
  \/ \E s \in Sob : Walk(s)
  \/ \E s \in Sob : Poll(s)
  \/ EndSobs
  \/ Update
  \/ UpdateUndefined

Spec == Init /\ [][Next]_vars

\* The service calls update again and again, every handler returns, and the
\* timer of every proximity controller runs out.
Fairness ==
  /\ WF_vars(EndNetwork)
  /\ WF_vars((\E s \in Sob : Spawn(s)) \/ SpawnUndefined)
  /\ WF_vars(Motion)
  /\ WF_vars(Unspawn)
  /\ WF_vars(DeliverAdds)
  /\ WF_vars(DeliverRemoves)
  /\ WF_vars(EndEvents)
  /\ \A s \in Sob : SF_vars(Poll(s))
  /\ WF_vars(EndSobs)
  /\ WF_vars(Update)
  /\ WF_vars(UpdateUndefined)

FairSpec == Spec /\ Fairness

-----------------------------------------------------------------------------
(* Properties.                                                             *)

Pairs == {{s, t} : s, t \in Sob}

\* The shape of every variable.
TypeOK ==
  /\ phase \in {"network", "events", "sobs", "proximity"}
  /\ requests \in Seq({[type |-> "spawn"]}
                        \cup [type : {"motion", "unspawn"}, sob : Sob])
  /\ adds \subseteq [source : Sob, target : Sob, finder : Sob]
  /\ removes \subseteq [source : Sob, target : Sob]
  /\ alive \subseteq Sob
  /\ pos \in [Sob -> Cell]
  /\ stored \in [Sob -> Cell]
  /\ registered \subseteq Sob
  /\ grid \in [Cell -> SUBSET Sob]
  /\ dangling \subseteq Cell
  /\ hears \in [Sob -> SUBSET Sob]
  /\ ears \in [Sob -> SUBSET Sob]
  /\ shown \in [Sob -> SUBSET Sob]
  /\ spawns \in 0..MaxSpawns
  /\ moves \in 0..MaxMoves
  /\ doubled \subseteq Pairs
  /\ raced \subseteq Pairs
  /\ undefined \in BOOLEAN

\* The grid has exactly one entry of every live sob, at the cell its controller
\* stores, although sobs move long before the grid follows, and no deleted sob
\* is registered for update. userLogout does not take it out of m_SobsToUpdate;
\* it is never in there, because a player's motion requests of the same frame
\* are processed after the disconnection.
GridFollows ==
  /\ \A s \in Sob, c \in Cell : s \in grid[c] <=> s \in alive /\ c = stored[s]
  /\ registered \subseteq alive

\* What the client of t will show once the Adds and then the Removes in the
\* queue are delivered.
WillShow(t) == (shown[t] \cup {e.source : e \in {f \in adds : f.target = t}})
                 \ {e.source : e \in {f \in removes : f.target = t}}

\* Two sobs will see each other exactly when their stored cells are in range,
\* whatever the order of spawns, moves, updates and deliveries, unless both
\* changed cells in one update or one died under an event about the pair.
SeeInRange ==
  \A s, t \in alive :
    s # t /\ {s, t} \notin raced =>
      (s \in WillShow(t) <=> <<stored[s], stored[t]>> \in Near)

\* A client shows no deleted sob, unless an Add was still in the queue when
\* the sob was deleted.
NoGhost ==
  \A t \in alive : \A s \in shown[t] : s \in alive \/ {s, t} \in raced

\* A view forwards the events of exactly those sobs its client shows; without
\* that a shown sob would freeze, or a client would be told of one it lacks.
ShownIsHeard ==
  \A t \in alive : hears[t] = shown[t]

\* A client is not told to add a sob it shows already (CSimulationImpl::addSob
\* would create a second object for it), unless the pair raced.
AddedOnce == doubled \subseteq raced

\* The grid catches up with a sob that changed its cell.
CatchesUp ==
  \A s \in Sob :
    s \in alive /\ pos[s] # stored[s]
      ~> s \notin alive \/ pos[s] = stored[s] \/ undefined

=============================================================================
