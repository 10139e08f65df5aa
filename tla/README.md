# Werewolf: the simulation core in TLA+

Werewolf is a multi-user role-playing game on top of the NeL libraries: a
client (`client/`), a frontend service that runs the simulation of a shard
(`server/service_frontend/`), and a library both link (`wwcommon/`). This
directory holds TLA+ models of the parts that decide what the game *is*: the
event queue and its listeners, the sessions of the players, who sees whom and
the grid behind that, how a key press becomes motion on every screen, and what
drives a client: its tasks, its clock, its way from the menu into the game. TLC
checks the models on small instances; TLAPS checks the proofs for all values of
the constants.

Paths below are relative to the root of the repository (`src/`).

1. [The system](#1-the-system)
2. [The modules](#2-the-modules)
3. [The runs](#3-the-runs)
4. [Fairness](#4-fairness)
5. [What is proved](#5-what-is-proved)
6. [Where code and comments disagree](#6-where-code-and-comments-disagree)
7. [What is not modelled](#7-what-is-not-modelled)
8. [Plan](#8-plan)

## 1. The system

### 1.1 One frame of the service

Everything on the shard happens in one thread, in
`CFrontendService::update` (`server/service_frontend/CFrontendService.cpp:275`):

1. **Network.** `CCallbackServer::update` runs the callbacks of
   `callbacks.cpp`: connections, disconnections, the login protocol, and the
   simulation events the clients send. The latter are put into the event queue
   with `postEvent`; nothing is simulated yet.
2. **Time.** `IBaseSimulation::updateTime`.
3. **Events.** `CGameEventServer::processEventQueue` hands out the events that
   are due.
4. **Sobs.** Every simulation object ("sob") updates its controllers: motion
   integrates its position, the proximity controller polls it.
5. **Proximity.** `CProximityManager::update` moves the sobs that changed their
   cell on the grid, and posts Add and Remove events for those that came into
   or went out of range of each other. They wait for the next frame.

So there is no preemption, but a request crosses two frames and several queues
on its way, and between two of these steps any other request may be handled.
Two facts about the queue shape everything else: it is handed out **from the
back**, and requests, Adds and Removes carry the **timestamp 0**, so they go to
the back and are handed out **newest first**. A disconnection is processed
before the motion requests (and before the spawn request) that the same client
sent before it.

The client runs a similar frame (`client/src/tasks/CNetworkTask.cpp`,
`CSimulationImpl.cpp`) over the same event server, and steers its clock by
pinging the service.

### 1.2 Components

| component | state | operations | what makes it correct |
|---|---|---|---|
| **Event server** (`wwcommon/src/CGameEventServer.cpp`) | `m_EventQueue`, `m_Processing`, four listener registries | `postEvent`, `processEventQueue`, `notifyListeners` in the phases PRE, EVENT, POST; `addListener`, `removeListener(s)` | nothing posted is lost, nothing is handed out early, the phases of one dispatch are of one event and that one is popped, whatever the handlers post meanwhile |
| **Sessions** (`callbacks.cpp`, `CUserManager.cpp`, `CServerSimulation.cpp`, `CGameEventManager.cpp`, `CSobIdManager.h`) | connections; users in memory and their rows; sobs; free ids | connect, list characters, request to spawn, disconnect; `userLogin`, `userLogout` | a user's `SobID` names the user's own sob; ids are neither lost nor shared; rows are current; no sob is left behind; messages reach their player |
| **Proximity and visibility** (`CProximityManager.cpp`, `CProximityController.cpp`, `CServerObjectView.cpp`) | cells stored by the controllers, `m_SobsToUpdate`, the grid, the listeners of the views | spawn, move, poll, update, deliver Adds and Removes, unspawn | sobs see each other when they are in range, and only then; no client shows a sob that is gone; a view listens to what its client shows |
| **Range grid** (`CRangeGrid2D.h`) | a cell for every square, each with a list or none | `insert`, `remove`, `getRange`, `getOldRange`, `getNewRange` | the answers are exactly the entries in the square or in the difference of two squares, once each |
| **Object pool** (`CGenericObjectPool.h`) | all objects, the free ones | `checkout`, `checkin`, growth | every object is free or in use, never both, never with two users |
| **Listeners** (`CGameEventServer.cpp`) | four registries of listeners: of all events, one event, one sob, one event of one sob | `addListener`, `removeListener`, `removeListeners`, the walks of `processEvent` | whoever stays registered is told, once, unless a handler vetoed; who is destroyed is not called |
| **Task manager** (`CTaskManager.cpp`) | list of tasks, list sorted by order, flags of a task | `add`, `remove`, `execute`, `exit`; `stop`, `restart`, `remove` of a task | a task runs in its turn, is initialised before and released after; removal during a walk is safe |
| **Sob states** (`ISimulationState.cpp`, the `C*State.cpp`, `CStateManager.cpp`, `CMovementState.cpp`) | one state per layer: movement, orientation, strafe; its duration and correction | transitions, updates, corrections of time | only allowed transitions; every interval of time is handled once |
| **Motion requests** (`CInteractiveSobController.cpp`, `CRequestHandler.cpp`, `CMotionHandler.cpp`, `CServerObjectView.cpp`) | the keys; a copy of the state on three machines | request, change, send on, snapshot for a watcher | all copies end at what the keys say |
| **Client clock** (`client/src/CSimulationImpl.cpp`) | averages of the latency and of the offset | ping, answer | the offset is near the truth |
| **Client before the game** (`CWWTask`, `CIntroTask`, `CPreGameTask`, `CNetworkTask`) | windows, tasks, connection, character list | the buttons, the callbacks of the network | one window, one game; a choice leads to the game |
| **View of a performer** (`CPerformer3DView.cpp`, `client/src/entities/`, `IDirtyPropagator.cpp`) | marks, playing animation, shown mesh | mark, update, observe an event | the screen shows the state the performer is in |
| **Sob manager and factory** | map from ids to sobs | create, remove, change id | the map and the ids of the sobs agree |
| **Motion, dead reckoning** | position, interpolation keys | integration, extrapolation | floating point; the choice of keys is discrete |
| **Characters, database** | rows | create, list, check the owner | a character has one owner |
| rendering, input, PACS, scripting, web site, tools | - | - | see section 7 |

How they interact: callbacks and controllers call `postEvent`; the event server
calls listeners back (the game event manager, the views, the handlers of the
sobs), who post further events, call the sob manager and the user manager, and
register or unregister listeners; views call the frontend service to send, which
looks up the user of the sob; the proximity manager owns the grid, which owns
the pool.

### 1.3 What is hard here

`PROJECT.json` lists the hazards line by line. In short:

- **Order.** Newest first, with Adds before Removes; the requests of one client
  in reverse; an insertion loop without a `break` that inserts an event before
  *every* earlier one, so that the queue is unsorted and has duplicates.
- **State read early, used late.** An unspawn request names the `SobID` of the
  moment it was posted; `back()` is read again after handlers have posted; the
  grid has a sob where its controller saw it last, `removeSob` looks where it
  is now; ids are reused.
- **Partial changes.** A refused login, a row that is saved in another place
  than the user it belongs to, a restart that forgets the memory and keeps the
  rows.
- **Dangling pointers.** A deleted sob in `m_SobsToUpdate` or on the grid; an
  iterator of the task list, or of a set of listeners, whose entry is erased by
  the task or the handler it points at.
- **Three copies.** A state lives on the player's client, on the server and on
  every watcher's client, and is changed on all by events with different rules
  of ordering; a snapshot is taken one frame before it is sent.
- **Late answers.** A pong for an earlier ping; an acknowledgement that arrives
  when the player has gone on.
- **Arithmetic at the border.** Unsigned positions and radii on the grid.
- **Liveness.** A back entry that is never due; an unspawn request behind newer
  ones; a grid that follows only when a timer fires.

## 2. The modules

| module | models | extended or used by |
|---|---|---|
| `EventMailbox` | abstract: what posting an event promises | `EventServer` (refinement) |
| `EventServer` | `CGameEventServer`'s queue, phases and recursion, the clock | `MCEventServer`, `QueueProofs` |
| `Dispatch` | `processEvent` opened up: the registries and the walks over them | `MCDispatch`, `DispatchProofs` |
| `EventQueue` | the insertion loop of `postEvent`, and what one run of `processEventQueue` hands out | `EventServer`, `MotionSync` |
| `Session` | connections, users, sobs, ids, rows | `MCSession`, `SessionProofs` |
| `Visibility` | proximity manager, controllers, views, one frame of the service | `MCVisibility`, `VisibilityProofs` |
| `GridEntries` | abstract: the grid as a relation of data and cells | `RangeGrid` (refinement) |
| `RangeGrid` | `CRangeGrid2D` with its object pool | `MCRangeGrid`, `RangeGridProofs` |
| `TaskLists`, `TaskManager` | `CTaskManager::execute` and what tasks do to it | `MCTaskManager`, `TaskManagerProofs` |
| `StateLayers` | the state layers of a performer and the time they are handled with | `PerformerView`, `TimeProofs` |
| `PerformerView` | composition: the layers and a client's view of them | `MCStateLayers`, `TimeProofs` |
| `MotionSync` | composition: a layer on the player's client, the server and a watcher's client, with queues and connections | `MCMotionSync`, `QueueProofs` |
| `ClientClock` | pings, answers and the averages | `MCClientClock`, `TimeProofs` |
| `ClientFlow` | the client from its start into the game, and the service's answers | `MCClientFlow`, `ClientFlowProofs` |

An `MC` module names the model values and the definitions a `.cfg` needs; the
`Proofs` modules extend the components' modules and `TLAPS`. `QueueProofs` has
the proofs of everything built on the event queue, `TimeProofs` those of the two
models of time.

A definition whose comment starts with *Slip* is a deliberate error - what the
next definition would be with a plausible bug. The specification does not use
it. Each property is shown to fail when a slip takes the place of the
definition (`mutants` in `PROJECT.json`), so no property is vacuous.

### 2.1 EventServer and EventMailbox

State: `queue` is `m_EventQueue`; `processing` is `m_Processing`; `cutoff` is
the local `time` of `processEventQueue`; `stack` has one record for every
dispatch on the C++ call stack, outermost first, with its event and its phase;
`now` is the adjusted time. `posted` and `delivered` are history.

Actions follow the code: `PostOutside` (queue is not being processed),
`PostNested` (a handler posts a due event, which is dispatched on the spot, on
top of the stack), `PostDeferred` (a handler posts an event of the future);
`BeginProcessing`, `DispatchBack`, `PhasePasses`, `NestedEnds`, `OutermostEnds`,
`EndProcessing` for `processEventQueue` and `notifyListeners`; `UpdateTime` for
the clock, and `RewindTime` for a ping answer that moves the client's clock
back. Listeners are abstract: in any phase they may post any event not posted
before, and any phase may end in a refusal, which filters the event.

`Enqueue` is the insertion loop of `postEvent`, round by round (`Looped` of
`EventQueue`): a function from the number of entries passed to the queue so far,
which has `e` before every entry that is overtaken.

`EventMailbox` has neither queue nor phases: an event is accepted, and later -
not before its timestamp - delivered, at least once. "At least once" is what the
code does: the duplicates of the loop are dispatched again.

### 2.2 Dispatch

What `EventServer` calls a phase. `listeners` holds the entries of the four
registries; `stack` the dispatches that go on, each with its event, its phase,
the registry it is at and the iterator `at`; `busy` says that the handler of the
innermost is running. A running handler may register and remove listeners,
destroy a listener or a sob, and post an event that is dispatched at once. A
`std::set` of pointers is walked by address, so a listener *is* its address and
an entry inserted behind the iterator is met in the same walk. The registries
are node based, so insertion leaves iterators valid; erasing the entry an
iterator stands on makes its next use undefined (`undefined`), and nothing
happens after that. No code of the repository does that; the model lets a
handler do it and the properties speak of behaviours up to that point.

`RemoveListenersOfEvent` is the overload for an event and a type, which returns
before it looks at the second registry (section 6).

### 2.3 Session

State: `users` is `m_Users`, `table` the rows in the database, `sobs` maps the
ids of live sobs to the player each is attached to, `avail` and `nextId` are
`CSobIdManager`, `queue` holds the spawn and unspawn requests of the event queue
(back last). Requests have timestamp 0 and what a handler posts is dispatched
inside the dispatch of the request; so by the results of `EventServer` the
queue is a stack here, and one action handles a request with everything it
causes: postSpawn or postUnspawn, the sob with its id, the user and the row.

`Connect`, `ListCharacters`, `RequestSpawn` and `Disconnect` are the callbacks;
`UserLogin`, `UserLoginRefused`, `UserLogout` and `UserLogoutFails` handle a
request; `Restart` kills the service and starts it again over the same rows. A
connection may ask to spawn twice: the client shows the character window again
when a character has been created (`client/src/tasks/CNetworkTask.cpp:102`), as
`ClientFlow` confirms.

A user has *raced* who sent a request, or disconnected, before an earlier
request was processed, or asked for a second sob. For the others
`NoOrphanUnlessRaced` and `GoneUnlessRaced` promise a clean house; for those who
raced the code leaves a sob without a player (section 6). An orphan is not
harmless: its view goes on sending, and `sendMessage` dereferences the user that
is not found (`CFrontendService.cpp:304`).

### 2.4 Visibility

One frame in four phases (section 1.1). `requests`, `adds` and `removes` are the
event queue, split by kind; `pos` is where a sob is and `stored` what its
controller saw last; `registered` is `m_SobsToUpdate`; `grid` has the live
entries and `dangling` the cells with a pointer to a deleted sob; `hears` and
`ears` are the registrations of a view with a sob's POST events and with its
unspawn; `shown` is what the client was told. Cells are opaque, with a relation
`Near` for "not further apart than the range"; the range operators of the grid
are differences of sets here and `RangeGrid` shows that the code's loops compute
them. Within a frame a sob may walk to any cell, because a frame may be long.

`Update` is `CProximityManager::update` as a whole: Removes computed on the old
grid, all entries moved, Adds computed on the new grid. Reading an entry that
points to a deleted sob is undefined behaviour; `SpawnUndefined` and
`UpdateUndefined` set `undefined` and nothing happens after that. Both are
reached: `userLogout` removes a sob at the cell it is in *now*, so a sob deleted
between its move and the next update stays on the grid as a dangling pointer.
Hence the properties speak of behaviours up to that point.

A pair of sobs has *raced* when both changed cells in one update or when one
died while an Add or Remove for the pair was queued. For the other pairs
`SeeInRange`, `NoGhost` and `AddedOnce` hold without exception; section 6 has
what happens to those that raced.

### 2.5 RangeGrid and GridEntries

`grid` maps a cell to the index of its list, 0 for none; `objects` are the lists
of the pool and `free` the ones it may hand out, front first. `Insert` checks out
a list for an empty cell, growing the pool by a percentage when it has none;
`Remove` checks in a list with its last entry. Positions are unsigned: `Low` and
`High` wrap at `UintSize`. `GetRange`, `GetOldRange` and `GetNewRange` record the
question in `asked`, and in `found` what each of the two loops found.

`GridEntries` is the relation of data and cells, and a question is answered with
the entries in a square or in the difference of two squares - for positions at
least the radius away from the border (`Inner`). Nearer to it the code's answers
differ: at the lower border the left edge wraps and `getRange` finds nothing; at
the upper border the loops index past the grid (`undefined`). The abstract
specification allows any answer there. `getCell` has no callers and is left out.

### 2.6 TaskLists and TaskManager

`tasks` and `sorted` are `m_Tasks` and `m_OrderSortedTasks`; `at` is the iterator
of the walk that goes on, as the index of its node; `running` says that
`update()` or `render()` of the task there is on the call stack, `calls` holds
the nested calls of `init()` and `erasing` the task `remove` is in the middle
of. A task is code: while one runs it may call `AddTask`, `RemoveTask`,
`MarkForRemoval` (`ITask::remove`), `SetExecute` (`stop`, `restart`) and `Exit` as
often as `MaxOps` allows. `remove` is split where the code calls out:
`EraseFromTasks`, `EraseFromSorted` and the three ways it ends, with `release()`
last. `list::remove` erases every node of a task while the loop of
`CTaskManager::remove` stands on one of them, which is undefined when the next
node holds the same task (`Adjacent`).

`add` does not look whether the task is there, so a task can be on the lists
twice; `ClientFlow` shows that this happens to `CNetworkTask`. `Balanced` excepts
tasks that were removed while they were not on the list exactly once (`raced`).

### 2.7 StateLayers and PerformerView

`StateLayers` counts time in ticks and leaves out what a state does with it
(speeds, positions). `ChangeState` is `changeState` with `exit`, `updateAll` and
`enter`: all layers and the motion controller are handled up to the time of the
event and remember that as their correction. `Update` handles the rest of the
frame. `counted` and `moved` are what the layers and the controller were handled
with in this frame, `age` is the true time since the event that began a state.

`PerformerView` puts a client's view on top. `AddSob` gives the performer the
states of the event, any of them, and makes the view; `ViewedChange` is a change
with the marks it leaves (`setValue`, `setDirty`) and the mesh the view shows
when it observes the event; `ViewedUpdate` is `ISimulationObj::update`, which ends
with `CEntityMedia::update` looking at what is marked. A mark stops at an object
that is marked already, so the marks of the controller and the media must be
cleared together: that is what `ShowsTheState` depends on.

### 2.8 MotionSync and EventQueue

One layer of one player's performer in three copies - `own`, `server`, `other` -
with the event queue of each process and the three connections between them.
One step is one frame of a process: it takes any number of the messages that
wait, processes its queue up to any time its clock may show (a client's clock is
anywhere up to the server's, see `ClientClock`), and lets its controllers post. A
frame in which nothing happens is a stutter.

What follows from the code and is easily missed: requests have no timestamp and
the requests one layer makes in one server frame are handled **newest first**; a
client applies its own request at once and then again when the server sends the
change; a refused request is sent on all the same; the snapshot in an Add is
taken when the proximity manager posts it and handed out a frame later, so a
change that is handed out in between reaches nobody; an Add, without a
timestamp, overtakes changes that still wait for their time; and an Add and a
Remove that reach a client together are handled in reverse. `raced`, `stale` and
`swapped` name exactly these cases, and `KeysObeyed` and `WatcherAgrees` say that
there are no others.

`EventQueue` gives the queue as functions, because three of them are needed at a
time: `Posted` is the same loop as in `EventServer`, `HandedOut` what a run of
`processEventQueue` takes from the back, in order, and `Kept` what it leaves. No
handler posts into its own queue during such a run: what they post is due, and
so is dispatched on the spot (`OwnHandled`, `Handled`, `HandledByOther`). `OwnRun`,
`ServerRun` and `OtherRun` are the runs over all that is handed out in a frame.

### 2.9 ClientClock

Only differences of times matter, so a message on its way carries its age, the
clock is unbounded and the state space finite. `skew` is how far the server's
clock is ahead, `delay` the longest way of a message. `SendPing`, `AnswerPing` and
`RecvPing` are `updatePing` with `sendPing`, `cbPingRequestClient` and `recvPing`
with both averages. A tick is `Scale` parts, and in the instances `Scale` is such
that the integer divisions are exact. The constants stand for 25 fast pings,
0.4 s, 5 s, 5 samples and 50 pings of the code.

`m_PingLatency` averages full round trips although the comment of its
declaration calls it the time to travel to the server
(`client/src/CSimulationImpl.h:97`); so the offset is too large by up to a round
trip, and `OffsetNear` states that bound.

### 2.10 ClientFlow

`shown` are the windows, `tasks` counts how often a task is on the lists of the
task manager, `link` and `online` are `m_Client` and `m_NetworkState`, `items` the
character list with the data its items point at, `account` the characters the
service has. Every button is an action (`Options`, `PlayOffline`, `PlayOnline`,
`Login`, `ConnectShard`, `SelectCharacter`, `WantCharacter`, `CreateCharacter`,
`CancelCreate`), and so is every callback of the client (`RecvList`, `RecvAck`,
`RecvSpawn`) and of the service (`AnswerList`, `AnswerCreate`, `AnswerSpawn`). The
service may also refuse a choice: `RefuseSpawn` is the early return of `userLogin`
when `isPlayers` says no, because the character is not the user's or because the
query failed (`UserLoginRefused` in `Session`). It sends nothing, and `refused`
remembers that the last choice ended so. The connection may break at any time. What a button posts to the client's own event
queue is sent in the same frame and so is on its way at once; exiting is left to
`TaskManager`.

## 3. The runs

| run | instance | distinct states | shows |
|---|---|---|---|
| `EventServer` | 3 events, times 0..3, one rewind | 146 000 | `BackIsCurrent`, `ImplementsMailbox`, `EventuallyDelivered`, `ProcessingEnds` |
| `Session` | 2 users, 2 connections and 2 spawn requests each, one restart | 457 000 | `SobIsOwn`, `IdsAccounted`, `NoOrphanUnlessRaced`, `GoneUnlessRaced`, `UnspawnServed` |
| `Visibility` | 3 ids, a row of 3 cells, range 1, 4 spawns, 2 moves | 181 000 | types, `GridFollows`, `SeeInRange`, `NoGhost`, `ShownIsHeard`, `AddedOnce`, `CatchesUp` |
| `RangeGridRanges` | 1 datum, 6 by 6 cells, radius 1, 16 values of a uint | 49 000 | `AnswersExact` |
| `RangeGridPool` | 3 data, 2 by 2 cells, radius 0, a pool that starts with one list | 21 000 | `PoolSound`, `ImplementsEntries` |
| `TaskManager` | 3 tasks, 2 with orders, 4 calls by tasks | 148 000 | `ListsAgree`, `OncePerFrame`, `Balanced`, `NoneLeft`, `ExitEnds` |
| `Dispatch` | 2 listeners, 1 sob, 2 sob events and 1 game event, 2 entries, 2 operations, depth 2 | 2 019 000 | `ToldOnce`, `VetoHolds`, `ToldAll`, `DeadIsDeaf` |
| `StateLayers` | 3 layers, frames of 1..3 ticks, events up to 1 tick late, 2 changes a frame, durations to 4 | 1 367 000 | `FrameIsCounted`, `DurationIsAge`, `ShowsTheState` |
| `MotionSync` | 2 directions; 5 changes of the keys alone, or 2 with 4 changes of the range | 60 000 | `KeysObeyed`, `WatcherAgrees` |
| `ClientClock` | ways of up to 1, 2 or 3 ticks, pings 5 and 6 ticks apart, server ahead by 2, 3 or 20 ticks or behind by 6, 4 answers | 125 000 | `OffsetNear`, `PingsAnswered` |
| `ClientClockDoc` | the same with 2 answers | - | `StoppedIsCorrect` is violated |
| `ClientFlow` | 0 to 2 characters, 3 allowed, 3 creations | 3 500 | `OffersAccount`, `ChoiceIsSafe`, `GameAlone`, `ChoicePlays` |

Why the bounds are enough:

- **EventServer.** Three entries are needed for an event to be inserted twice
  and overtake its own copy. Times 0..3 give each its own, and one more. One
  rewind makes a due event wait again.
- **Session.** Two connections let a user come back to what the first one left
  behind, two requests make an orphan, two users exchange ids, and a restart
  leaves stale rows. The ids used are then at most as many as spawn requests.
- **Visibility.** In a row of three cells with range 1 the ends do not see each
  other and the middle sees both; three sobs give a pair that is watched by a
  third; the fourth spawn reuses an id; two moves let a pair change cells in one
  update, and a sob move while an event about it is queued.
- **RangeGrid.** Six by six cells with radius 1 have squares that are equal,
  overlap in either or both coordinates, are adjacent, are disjoint, and reach
  over either border. In the other run the pool grows from one list to four.
- **TaskManager.** A task before, at and after the iterator; four calls put a
  task on the lists twice and remove it again during a walk.
- **Dispatch.** Two entries put one before and one behind the iterator, or the
  same listener into two registries; a dispatch inside a dispatch walks the same
  set as the one below it.
- **StateLayers.** Frames with none, one and two changes, late by more than a
  frame of one tick, in every combination of states.
- **MotionSync.** Five key changes let a request be refused and two requests of
  one frame exchange; with a watcher two are enough to make a snapshot stale.
- **ClientClock.** Answers that come before and after the next ping is sent;
  four answers pass from the fast to the slow pings, from the first samples to
  the full window, and from there to all samples.
- **ClientFlow.** An account that is empty, has room, and is full.

`Walk`, `RequestMotion` and `RequestSpawn` are bounded by `MaxMoves` and
`MaxSpawns`, connections and requests by `MaxConnects` and `MaxRequests`,
restarts by `MaxRestarts`, rewinds by `MaxRewinds`, time and durations by
`MaxTime`, frames by `MaxDelta` and `MaxLate`, changes in a frame by
`MaxChanges`, calls by tasks and handlers by `MaxOps`, entries by
`MaxRegistered`, dispatches inside each other by `MaxDepth`, key changes and
changes of the range by `Budget`, answers by `MaxPings`, characters by
`MaxCreates`.

Runs that do not look for deadlocks are those of a system that may stop:
`Visibility`, `RangeGridRanges`, `Dispatch` and `TaskManager` after undefined
behaviour, `TaskManager` also when `execute` has returned, `ClientFlow` in the
game, `StateLayers` at the bound of the durations. Symmetry is used in
`MotionSync` only, for the two directions; it has no liveness property.

## 4. Fairness

The loop of a NeL service calls `update` for ever and every handler returns, so
each step of a frame is weakly fair. The exceptions:

- `UpdateTime` is strongly fair: the clock advances between two runs of the
  queue, that is again and again, but not during one.
- `Poll` is strongly fair for each sob: it happens when the sob's timer has run
  out, in the phase that updates the sobs. The timers run with the time of the
  simulation and are at most a minute.
- `UserLogin` and `UserLoginRefused` are fair together: the service handles the
  request, but which of the two happens is up to the database.
- In `TaskManager` what the loop does, the return of a task's code and the call
  of `execute` by `main` are fair; what a task calls is not.
- In `ClientClock` both processes go on with their frames, and time passes only
  as far as the messages on their way allow: the network delivers in `delay`.
- In `ClientFlow` the client receives in its frames and the service handles its
  requests, unless memory was misused before. Fairness is on `Serve` as a whole:
  whether a choice is answered or refused is up to the database. No button is
  fair, and the connection may break. `ChoicePlays` allows for both.
- Nothing clients do - connecting, asking, moving, disconnecting - is fair, nor
  are rewinds of the clock and restarts.
- `Dispatch`, `StateLayers` and `MotionSync` state safety only; in `MotionSync`
  the properties are about the states in which every queue and connection is
  empty.

## 5. What is proved

**Every invariant and action property, and both refinements, that a passing run
checks is also a theorem**, for all values of the constants that satisfy the assumptions
in the modules: sets of users, events, tasks, listeners and states of any size,
any bounds; sobs and cells under any relation of nearness that goes both ways; for the
grid (`GridAssumption`) a positive number of cells and a radius that together fit
in a uint, for the pool (`PoolAssumption`) a positive initial size and growth; for
the clock (`ImprovingAssumption`) that the first samples are averaged as the first
samples and that the number of answers is too small for a tick to fall below
epsilon. Eight modules hold the proofs; `PROJECT.json` lists the theorems.

In each module a conjunction of named parts is inductive (`IInv`, `Invariant` for
the grid, `SyncInv`, `ViewInv`, `ClockInv`), was checked by TLC before it was
proved, and the theorems follow from it. What it needs beyond the properties:

- **The event queue** (`QueueProofs`). The insertion loop (`Looped`) and the runs
  over the events of a frame (`Received`, `OwnRun`, `ServerRun`, `OtherRun`) are
  recursive functions on the numbers up to a length. The library states induction
  with an operator parameter, which the provers cannot instantiate; so `UpTo`
  proves induction for a *set* of numbers, from the well-foundedness of the
  naturals, and `Recursion` that the function with a given step exists. From these:
  the loop keeps every entry, adds the event and nothing else, keeps the back
  entry unless the event goes there; and what posting does to the latest change
  and to the Adds and Removes in a queue (`FrontIsLatest`, `AtBack`, `Several`).
- **EventServer** (`QueueProofs`). `DispatchInv` is the strengthening: a dispatch
  happens only while processing, while processing the cutoff is the present, what
  is on the stack counts as delivered, and what is queued was posted. The
  argument for `BackIsCurrent`: while an event of the queue is dispatched the
  clock stands still, so what a handler may queue has a larger timestamp than the
  back entry; the loop inserts it before the back entry at the latest, and never
  behind it. `PhasesAreOfOneEvent` is an action property;
  `QueueImplementsMailbox` shows that every step is a step of the mailbox or
  stutters.
- **MotionSync** (`QueueProofs`). `SyncInv` says of every message on its way what
  it will make of the copy it reaches. `Asked`: the requests on the connection
  alternate and end with what the keys say; unless requests raced, the first
  differs from the server's copy, so the server accepts it. `OwnFollows` and
  `OtherFollows`: among the changes that wait in a queue or on the connection the
  latest one says what the server's copy is - the latest by *timestamp*, which
  the newest-first queue hands out last, because the queue has its latest change
  in front and messages come in the order of their time (`OwnOrdered`,
  `OtherOrdered`). `Watching`: Adds and Removes alternate, one at most waits on
  the server, and the listening view is what that Add or Remove and the grid say. `Snapshot`:
  the last Add on the connection together with what follows it says what the
  server's copy is, unless a change was missed (`stale`). In a quiet state these
  are `KeysObeyed` and `WatcherAgrees`.
- **Dispatch.** `FrameInv` says of every dispatch that what it told lies before
  its iterator in the order of the walk (`Passed`), so nobody is told twice
  however often he is registered anew, and that after a veto nothing is told
  (`Vetoed`); of the dispatches below the innermost, that they stand inside a
  set. An entry of a destroyed listener does not exist, hence `TheDeadAreDeaf`.
  `ToldAll` needs a second invariant, `Kept`: who was registered when a phase
  began and still is (`steady`) keeps its entry, and was told if the walk has come
  by it (`Heard`); at the end of the walk it has come by all.
- **Session.** `IInv` consists of the checked invariants, of `TableFollows`,
  `Loaded` and `OneRequest`. `OneRequest` is the heart of
  `PatientUsersKeepTheirSob` and `PatientUsersLeaveNothing`: a user who has not
  raced has at most one request in the queue, so the newest-first order cannot
  exchange it with another, and if it asks for a spawn there is no sob yet to be
  overwritten.
- **Visibility.** `LastWord`: an unspawn request is the last in the queue about
  its sob, which lives until then and is not registered for update; with
  `Emptied` (what is empty in which phase of the frame) this is why
  `GridFollows` survives deaths between two updates. `Listening`: a view hears
  exactly what its client shows, and the end of at least that. `EventsSound`: an
  Add or Remove about a pair that did not race is about live sobs, an Add is news
  to the client, and there is one. `SeeInRange` is then inductive: the update
  changes the relation of nearness and posts the difference, and a delivery
  moves a pair from "will be shown" to "shown". Two consequences are not
  checked by a run: `OnlyTheGridDangles` (a bad pointer is only ever read
  through the grid) and `SeeingIsMutual`.
- **RangeGrid.** `Invariant` consists of the pool's accounting, of `OneCellEach`
  (a datum is in one list at most) and of what is found. `DifferenceIsExact` is
  about the loops: for every radius, grid and pair of positions away from the
  border, the two loops together visit the difference of the squares, each cell
  once. From these follow the invariants and `GridImplementsEntries`.
- **TaskManager.** The two lists hold the same tasks but for the one that
  `remove` is erasing, also while a walk goes on (`WalkedIsReleased`); insertion
  keeps the order (`WalksInOrder`); what the extracting walk has passed is not
  marked (`ExtractionIsComplete`). The second invariant, `Counted`, is about
  numbers of nodes: a task that was left alone ran as often as the update walk
  has passed a node of it (`RanAsPassed`), whatever nodes were inserted or erased
  before and behind the iterator; a task is owed as many releases as it has
  nodes (`Balanced`), and the one that `remove` is erasing, if it was in the list
  once, is owed one (`RemovedOnce`). Sets of nodes are compared by bijections between them, one
  for each way a list changes (`InsertingCount` and its like).
- **StateLayers, PerformerView** (`TimeProofs`). All layers and the controller
  remember the same correction (`Agree`), and that is what was counted as long as
  one change did it (`Settled`). `ShowsWhatItDoes`: the marks of the controller
  and of the media come and go together (`Marks`), so no mark ever stops at a
  controller that is still marked.
- **ClientClock** (`TimeProofs`). A message is not older than its ways
  (`WayThere`), so a round trip and every average of round trips is between 0 and
  twice `delay`; what an answer shows is the truth, too large by at most that and
  too small by at most one way; and an average of two values lies between the
  bounds of both (`AverageBetween`, by `QuotientBetween`).
- **ClientFlow.** There is one window because every switch closes what it leaves
  (`OneWindow`), and one game because at most one spawn request or answer is
  under way until a late acknowledgement (`OneChoice`): that is the
  strengthening `GameRunsAlone` and `ChoicesAreSafe` rest on. `TheAccountIsOffered`
  needs a second invariant, `OnTheWay`: there is a number of characters known
  after each message on its way to the client, every list or acknowledgement
  brings the client from one number to the next, and the last is what the
  service has - so the items are complete when nothing is on its way, however
  requests and answers crossed. `NoChoiceIsLost` is the safety part of
  `ChoicePlays`: over an open connection the network task reads (`Reading`, which
  has to know that whoever sees the login or the shards has that task), and a
  choice is under way, plays, or was refused (`ChoiceUnderWay`).

`NeverEarly`, `NothingLost`, `OneEventThroughPhases`, `RoutesToPlayer`,
`TableFollows`, `Ordered`, `MovedAsHandled`, `OneScreen` and most type invariants
were checked by TLC on the way and are proved; the runs do not repeat them.

**Only model-checked** are the properties that need fairness, which is out of
the prover's reach (it has no `ENABLED`): `EventuallyDelivered`,
`ProcessingEnds`, `UnspawnServed`, `CatchesUp`, `ExitEnds`, `PingsAnswered` and
`ChoicePlays`.

## 6. Where code and comments disagree

`ClientClockDoc` shows one disagreement. `recvPing` compares the signed offset
with `m_Epsilon`, so a server whose clock is *behind* the client's makes the
first answer stop the pings, with the offset still 0; the comment there says
that "we already have what we believe to be the correct offset"
(`client/src/CSimulationImpl.cpp:249`). A server is behind when it was restarted
under a client that runs on.

The models meet more of them; the properties name them as exceptions, or the
model stops there:

- **Orphans.** `onDisconnectClient` is commented "unspawn the sob"
  (`server/service_frontend/callbacks.cpp:131`). It posts an unspawn request for
  the present `SobID`; if the user's spawn request was posted in the same frame,
  that is 0. The unspawn is processed first and fails, the spawn after it
  creates a sob without a player, and nobody will ever remove it. (The exception
  of `NoOrphanUnlessRaced` and `GoneUnlessRaced`.)
- **Met and unseen.** `CProximityManager::update` sends Removes to those a sob left
  and Adds to those it came up to. Both move in one update: on the old grid one
  leaves the other behind, on the new grid it meets the other. The pair gets
  both events, the queue hands out the Adds first, and the Removes win: the two
  stand in range and do not see each other until one has left and come back.
  (`SeeInRange`.)
- **Ghosts.** A view hears of the end of another sob only once the Add has been
  delivered (`CServerObjectView.cpp:125`). While it waits for the next frame the
  source may disconnect; that request is newer and so is processed first. The
  Add that follows shows a sob that is gone. (`NoGhost`.)
- **Time counted twice.** A second change of state in one frame replaces the
  correction the first one left (`ISimulationState.cpp:116`), so the time up to
  the first is handled again, although the comment says that what is handled is
  "the time that's elapsed since the last frame" (`:106`). (`FrameIsCounted`.)
- **The mesh of an added sob.** A performer that comes into view while it walks
  backward wears the normal mesh until its next movement event: the mesh follows
  events and an Add posts none (`CPerformer3DView.cpp:107`). (`ShowsTheState`.)
- **Listeners of the other types.** `removeListeners(eventID, type)`, commented
  "Remove all event specific listeners for the given event"
  (`wwcommon/include/wwcommon/CGameEventServer.h:102`), drops the event's own sets
  of all types, whatever `type` says, and of the sobs' sets only those of that
  type (`wwcommon/src/CGameEventServer.cpp:295`). Nothing in the repository calls
  it. (`RemoveListenersOfEvent` of `Dispatch`.)
- **Initialised at once.** `CTaskManager::add` calls `init` whatever `startNow`
  says (`wwcommon/include/wwcommon/CTaskManager.h:95`).
- **Offline.** Playing offline enters the game without an own sob, and
  `CGameTask::init` dereferences it (`client/src/tasks/CGameTask.cpp:91`).
  (`ChoiceIsSafe`.)
- **Refused without a reason.** `connect` returns the empty reason, which its
  callers take for success, when the service refuses the connection
  (`client/src/tasks/CNetworkTask.cpp:267`, `client/src/CWWTask.cpp:134`); the
  character window then stays empty.
- **Refused in silence.** `handleCharSelectBtn` hides the character window as soon
  as it has posted the request (`client/src/tasks/CPreGameTask.cpp:80`). When
  `userLogin` refuses, also because its query failed
  (`server/service_frontend/CServerSimulation.cpp:126`), it warns in the service's
  log and sends nothing: the player has no window left and waits for ever.
  (`ChoicePlays`.)
- **Chosen twice.** The acknowledgement of a new character that arrives after the
  player chose another brings the window back with items whose data the first
  choice freed. A second choice reads it, and the game is started twice.
  (`ChoiceIsSafe`, `GameAlone`.)

## 7. What is not modelled

- **Positions** are cells or left out, and integration is a choice of any cell;
  **interpolation and dead reckoning** (`CGeneralInterpolator.h`, the keys and
  `CPerformerDRController`) are floating point over the client's copies and feed
  nothing back.
- **The client's map of sobs.** `Visibility` says what a client is told;
  `MotionSync` keeps one performer per client.
- **Which clip of an animation is played** (`client/src/selectors`), the weights
  of a transition, loading media from forms, and the chat view.
- **Chat** changes nothing the models speak of. `setOnline`, `detachUser`,
  `isConnected` and the state `UserStatePlaying` have no callers.
- **The database** is external: statements succeed, except that `isPlayers` may
  fail and so refuse a login. (Were it `getCharacter` that fails a moment later,
  `userLogin` would dereference NULL, `CServerSimulation.cpp:145`.) The **login service** is external; a
  user has at most one connection. The network library is external: connections
  are ordered and lose nothing until they break.
- **Serialization and wording** of events; the models carry the fields read.
- **Rendering, landscape, sky, camera, sound, resources, GUI and input of the
  client**: calls into NeL and CEGUI. **PACS**: calls into NeL.
- **Scripting** (`wwscript`): a vendored copy of the AngelScript engine and
  bindings to it that the service does not use. It is more than half of the
  repository's lines. **Web site, exporters, samples**: the rest of them.

## 8. Plan

Done: `EventServer` with the mailbox, `Session`, `Visibility`, `RangeGrid` with
pool and relation, `TaskManager`, `Dispatch`, `StateLayers` with `PerformerView`,
`MotionSync`, `ClientClock` and `ClientFlow`, checked, and every safety property
of theirs proved. What is left, by importance:

| | what | properties and theorems |
|---|---|---|
| 1 | `Dispatch` as a refinement of a phase of `EventServer` | every phase of `EventServer` is a walk that tells everybody |
| 2 | `RangeGrid` below `Visibility`: the sets of its update are the answers of the grid's loops | `DifferenceIsExact` cited in a step of `Visibility` |
| 3 | `MotionSync` with the clock of `ClientClock` instead of any clock up to the server's, and two layers | `KeysObeyed`, `WatcherAgrees` |
| 4 | the client's map of sobs under Adds and Removes of reused ids | the client shows what the service believes it shows |
| 5 | the choice of interpolation keys, the selectors | against reference definitions |
