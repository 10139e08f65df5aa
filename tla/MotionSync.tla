----------------------------- MODULE MotionSync ------------------------------
(***************************************************************************)
(* One state layer of one player's performer, in its three copies: on the   *)
(* player's client, on the server, and on the client of a player who sees   *)
(* it.  The keys are turned into requests (CInteractiveSobController), the  *)
(* requests into changes (CRequestHandler, CMotionHandler), and the changes *)
(* and the snapshots for a new watcher are sent by CServerObjectView.       *)
(*                                                                         *)
(* Connections are ordered and lose nothing.  A frame of a process is one   *)
(* step: it reads any number of the messages on their way to it, runs       *)
(* processEventQueue, and lets the controllers (client) or the proximity    *)
(* manager (server) post.  A frame in which nothing arrives, is due or is   *)
(* posted changes nothing but the time.                                     *)
(***************************************************************************)
EXTENDS EventQueue, Integers

CONSTANTS Idle, Direction,  \* the states of the layer
          IdleToIdle,       \* whether idle may follow idle: the movement layer
          None,             \* the watcher has no copy
          Budget            \* bounds: pairs of the changes of the keys and of
                            \* the range that a behaviour may have

ASSUME SyncAssumption ==
  /\ Idle \notin Direction /\ None \notin Direction \cup {Idle}
  /\ IdleToIdle \in BOOLEAN /\ Budget \subseteq Nat \X Nat

State == {Idle} \cup Direction

VARIABLES key, keys,     \* m_fwd_back (or its like), and its changes so far
          own, ownQ,     \* the player's client: its copy, its event queue
          server, serverQ,    \* the server: its copy, its event queue
          near, moves,   \* what the grid says of the two, changes so far
          watched,       \* the watcher's view listens to the performer
          other, otherQ, \* the watcher's client: its copy, its event queue
          toServer, toOwn, toOther,    \* the connections
          clock,         \* adjustedTime of the server: frames with events
          raced,         \* history: the last changes were of one frame
          stale,         \* history: the watcher's snapshot missed a change
          swapped        \* history: the watcher met an Add and a Remove at once

ownVars   == <<key, keys, own, ownQ>>
srvVars   == <<server, serverQ, near, moves, watched, clock, raced>>
otherVars == <<other, otherQ, swapped>>
syncVars == <<ownVars, srvVars, otherVars, toServer, toOwn, toOther, stale>>

-----------------------------------------------------------------------------
(* Events.  Only state changes carry a timestamp (hasTimestamp).           *)

Request(s)   == [kind |-> "request", state |-> s, ts |-> 0]
Change(s, t) == [kind |-> "change", state |-> s, ts |-> t]
Enter(s)     == [kind |-> "add", state |-> s, ts |-> 0]
Leave        == [kind |-> "remove", state |-> None, ts |-> 0]

\* canTransition and changeState: a state that may not follow changes nothing.
CanFollow(old, new) == old = Idle /\ new = Idle => IdleToIdle
Changed(old, new)   == IF CanFollow(old, new) THEN new ELSE old

\* The bound: changes of the keys and of the range so far.
Affordable(k, m) == \E b \in Budget : k <= b[1] /\ m <= b[2]

SyncInit ==
  /\ key = Idle /\ keys = 0 /\ own = Idle /\ ownQ = <<>>
  /\ server = Idle /\ serverQ = <<>>
  /\ near = FALSE /\ moves = 0 /\ watched = FALSE
  /\ other = None /\ otherQ = <<>>
  /\ toServer = <<>> /\ toOwn = <<>> /\ toOther = <<>>
  /\ clock = 0
  /\ raced = FALSE /\ stale = FALSE /\ swapped = FALSE

\* The queue once the first n messages of a connection are posted.
Received(q, channel, n) ==
  LET after[i \in 0..n] == IF i = 0 THEN q ELSE Posted(after[i - 1], channel[i])
  IN  after[n]

Unread(channel, n) == SubSeq(channel, n + 1, Len(channel))

-----------------------------------------------------------------------------
(* The player's client.                                                    *)

\* Slip: only a request that changed something is sent on.
OwnHandledIfChanged(a, e) ==
  [copy |-> Changed(a.copy, e.state),
   sent |-> IF e.kind = "request" /\ CanFollow(a.copy, e.state)
              THEN Append(a.sent, e) ELSE a.sent]

\* CRequestHandler posts the change at once and answers TRUE whatever came of
\* it; in the POST phase CClientEventManager sends the request to the server.
OwnHandled(a, e) ==
  [copy |-> Changed(a.copy, e.state),
   sent |-> IF e.kind = "request" THEN Append(a.sent, e) ELSE a.sent]

\* The copy, and what was sent, after each of the events of a frame.
OwnRun(handed) ==
  LET after[i \in 0..Len(handed)] ==
        IF i = 0 THEN [copy |-> own, sent |-> <<>>]
                 ELSE OwnHandled(after[i - 1], handed[i])
  IN  after

\* A frame: requests and changes alike change the copy, then the controller
\* compares the keys with what it requested last.
OwnFrame(n, time, k) ==
  /\ k # key => Affordable(keys + 1, moves)
  /\ key' = k
  /\ keys' = IF k # key THEN keys + 1 ELSE keys
  /\ \E q \in {Received(ownQ, toOwn, n)} : \E handed \in {HandedOut(q, time)} :
     \E after \in {OwnRun(handed)[Len(handed)]} :
       /\ own' = after.copy
       /\ toServer' = toServer \o after.sent
       /\ ownQ' = IF k # key THEN Posted(Kept(q, time), Request(k)) ELSE Kept(q, time)
  /\ toOwn' = Unread(toOwn, n)
  /\ UNCHANGED <<srvVars, otherVars, toOther, stale>>

-----------------------------------------------------------------------------
(* The server.                                                             *)

\* An event handed out by the server, on the copy, the listening view and what
\* it sends.  A refused change is filtered and so never sent.
Handled(a, e) ==
  CASE e.kind = "request" /\ ~CanFollow(a.state, e.state) ->
         [a EXCEPT !.requests = @ + 1]
    [] e.kind = "request" /\ CanFollow(a.state, e.state) ->
         [a EXCEPT !.requests = @ + 1,
                   !.state = e.state,
                   !.toOwn = Append(@, Change(e.state, clock + 1)),
                   !.toOther = IF a.watched THEN Append(@, Change(e.state, clock + 1))
                                            ELSE @,
                   !.unseen = ~a.watched]
    [] e.kind = "add" ->
         [a EXCEPT !.watched = TRUE, !.toOther = Append(@, e),
                   !.missed = a.unseen]
    [] e.kind = "remove" ->
         [a EXCEPT !.watched = FALSE, !.toOther = Append(@, e)]

\* The server's copy and what it sends after each of the events of a frame.
ServerRun(handed) ==
  LET after[i \in 0..Len(handed)] ==
        IF i = 0 THEN [state |-> server, watched |-> watched, toOwn |-> <<>>,
                       toOther |-> <<>>, requests |-> 0, unseen |-> FALSE,
                       missed |-> FALSE]
                 ELSE Handled(after[i - 1], handed[i])
  IN  after

\* CProximityManager::update, after the events: the Add takes its snapshot now
\* and is handed out in the next frame.
RangeEvent(near2, state) ==
  CASE near2 = near       -> <<>>
    [] near2 /\ ~near     -> <<Enter(state)>>
    [] ~near2 /\ near     -> <<Leave>>

ServerFrame(n, near2) ==
  /\ near2 # near => Affordable(keys, moves + 1)
  /\ near' = near2
  /\ moves' = IF near2 # near THEN moves + 1 ELSE moves
  /\ \E q \in {Received(serverQ, toServer, n)} :
     \E handed \in {HandedOut(q, clock + 1)} :
     \E after \in {ServerRun(handed)[Len(handed)]} :
       LET one == after.requests = 1 /\ after.toOwn # <<>>
       IN  /\ server' = after.state
           /\ watched' = after.watched
           /\ toOwn' = toOwn \o after.toOwn
           /\ toOther' = toOther \o after.toOther
           /\ serverQ' = Kept(q, clock + 1) \o RangeEvent(near2, after.state)
           /\ clock' = IF handed = <<>> THEN clock ELSE clock + 1
           /\ raced' = (after.requests >= 2 \/ (raced /\ ~one))
           /\ stale' = \/ after.missed
                       \/ stale /\ ~(one /\ ~after.unseen)
  /\ toServer' = Unread(toServer, n)
  /\ UNCHANGED <<ownVars, otherVars>>

-----------------------------------------------------------------------------
(* The watcher's client.                                                   *)

\* Slip: the states of the Add are not taken over.
CopyOfAddIdle(copy, e) == IF copy = None THEN Idle ELSE copy

\* addSob and setActiveStateList; a copy that is there already is kept.
CopyOfAdd(copy, e) == IF copy = None THEN e.state ELSE copy

HandledByOther(copy, e) ==
  CASE e.kind = "add"    -> CopyOfAdd(copy, e)
    [] e.kind = "remove" -> None
    [] e.kind = "change" -> IF copy = None THEN None ELSE Changed(copy, e.state)

\* The copy after each of the events of a frame.
OtherRun(handed) ==
  LET after[i \in 0..Len(handed)] ==
        IF i = 0 THEN other ELSE HandledByOther(after[i - 1], handed[i])
  IN  after

\* The Adds and Removes in a queue.
Controls(q) == {i \in 1..Len(q) : q[i].kind # "change"}

OtherFrame(n, time) ==
  /\ \E q \in {Received(otherQ, toOther, n)} : \E handed \in {HandedOut(q, time)} :
       LET met   == Controls(q)
           added == \E i \in met : q[i].kind = "add"
       IN  /\ other' = OtherRun(handed)[Len(handed)]
           /\ otherQ' = Kept(q, time)
           /\ swapped' = IF met = {} THEN swapped
                         ELSE \/ \E i, j \in met : i # j
                              \/ added /\ other # None
                              \/ swapped /\ Controls(otherQ) # {}
           /\ stale' = (stale \/ (added /\ Controls(otherQ) # 1..Len(otherQ)))
  /\ toOther' = Unread(toOther, n)
  /\ UNCHANGED <<ownVars, srvVars, toServer, toOwn>>

-----------------------------------------------------------------------------
SyncNext ==
  \/ \E n \in 0..Len(toOwn), time \in 0..clock, k \in State : OwnFrame(n, time, k)
  \/ \E n \in 0..Len(toServer), near2 \in BOOLEAN : ServerFrame(n, near2)
  \/ \E n \in 0..Len(toOther), time \in 0..clock : OtherFrame(n, time)

SyncSpec == SyncInit /\ [][SyncNext]_syncVars

-----------------------------------------------------------------------------
(* Properties.                                                             *)

Quiet ==
  /\ ownQ = <<>> /\ serverQ = <<>> /\ otherQ = <<>>
  /\ toServer = <<>> /\ toOwn = <<>> /\ toOther = <<>>

\* Once every message and event is handled, the player's own copy and the
\* server's are what the keys say, although the player's client applies its
\* requests itself and then everything once more when the server sends it.
\* Two requests that reached the server in one frame spoil that, until another
\* one is accepted alone: they carry no timestamp and are handed out newest
\* first (postEvent).
KeysObeyed == Quiet /\ ~raced => own = key /\ server = key

\* A watcher's copy is then what the server's is, except that a change handed out
\* in one frame with the watcher's Add, before it, is sent to nobody (the Add
\* holds the states of the frame before); that an Add overtakes changes which
\* still wait for their time; and that an Add and a Remove which reach the client
\* together are handed out newest first.
WatcherAgrees ==
  Quiet /\ ~raced /\ ~stale /\ ~swapped =>
    other = IF watched THEN server ELSE None

=============================================================================
