------------------------------ MODULE Session ------------------------------
(***************************************************************************)
(* The players of a shard: CUserManager (the users in memory and their     *)
(* rows in the database), the network callbacks of the frontend service,   *)
(* the spawn and unspawn requests those callbacks put into the event       *)
(* queue, and the sobs (simulation objects) CServerSimulation creates and  *)
(* destroys when the requests are processed, with the ids CSobIdManager    *)
(* hands out.                                                              *)
(*                                                                         *)
(* A frame of CFrontendService::update runs the network callbacks, then    *)
(* processEventQueue. The requests carry the timestamp 0, so every one of  *)
(* them is put at the back of the queue and is due in the frame that       *)
(* posted it; the queue is processed from the back. What a handler posts   *)
(* while a request is dispatched is dispatched at once, on top of it, so   *)
(* one action handles a request with everything it causes.                 *)
(***************************************************************************)
EXTENDS Naturals, Sequences, FiniteSets

CONSTANTS User,          \* the user ids
          MaxConnects,   \* how often a user connects
          MaxRequests,   \* how many spawn requests a user sends
          MaxRestarts    \* how often the service is restarted

ASSUME UserAssumption   == IsFiniteSet(User)
ASSUME BoundsAssumption == /\ MaxConnects \in Nat
                           /\ MaxRequests \in Nat
                           /\ MaxRestarts \in Nat

NoSob == 0      \* SobID of a user who plays nothing; 0 is the root sob's id
UserState == {"Offline", "CharSelect"}

VARIABLES connected,    \* users with an open connection
          users,        \* m_Users: user -> [state, sobId]
          table,        \* the table "users": user -> [state, sobId]
          queue,        \* requests in m_EventQueue, back at the end
          processing,   \* m_Processing
          sobs,         \* m_ActorManager: id -> m_PlrId of the sob
          avail,        \* m_AvailSobId, front at 1
          nextId,       \* m_CurrSobId
          connects,     \* connections of each user so far
          requests,     \* spawn requests of each user so far
          restarts,     \* restarts so far
          raced         \* history: users who got ahead of the server (below)

vars == <<connected, users, table, queue, processing, sobs, avail, nextId,
          connects, requests, restarts, raced>>

-----------------------------------------------------------------------------
(* Maps: m_Users, the table and m_ActorManager.                            *)

Put(f, k, v)  == [x \in DOMAIN f \cup {k} |-> IF x = k THEN v ELSE f[x]]
Without(f, k) == [x \in DOMAIN f \ {k} |-> f[x]]

NewUser == [state |-> "Offline", sobId |-> NoSob]

\* A user read from the database keeps the state but neither the sob nor the
\* character.
FromDatabase(u) ==
  IF u \in DOMAIN table THEN [NewUser EXCEPT !.state = table[u].state]
                        ELSE NewUser

\* getUserById: from the list, else from the database.
GetUser(u) == IF u \in DOMAIN users THEN users[u] ELSE FromDatabase(u)

\* getUserBySobId: the users in the list first, then the one row of the table
\* that carries the id; the set is empty where the code returns NULL.
UserBySobId(s) ==
  LET rows   == {u \in DOMAIN table : table[u].sobId = s}
      inList == {u \in DOMAIN users : users[u].sobId = s}
  IN  IF inList # {} THEN inList
      ELSE IF Cardinality(rows) = 1 THEN rows ELSE {}

\* getSobId and releaseSobId: ids are reused in the order of their release.
\* Slip: the id stays in the deque.
TakeIdKeepsFront ==
  IF avail = <<>> THEN /\ nextId' = nextId + 1
                       /\ UNCHANGED avail
                  ELSE UNCHANGED <<avail, nextId>>

FreshId == IF avail = <<>> THEN nextId ELSE Head(avail)
TakeId ==
  IF avail = <<>> THEN /\ nextId' = nextId + 1
                       /\ UNCHANGED avail
                  ELSE /\ avail' = Tail(avail)
                       /\ UNCHANGED nextId

-----------------------------------------------------------------------------
Pending(u) == \E i \in 1..Len(queue) : queue[i].by = u

\* CSimulationImpl::init creates the root sob with id 1 and moves it to id 0,
\* which releases 1.
Init ==
  /\ connected = {}
  /\ users = <<>>
  /\ table = <<>>
  /\ queue = <<>>
  /\ processing = FALSE
  /\ sobs = <<>>
  /\ avail = <<1>>
  /\ nextId = 2
  /\ connects = [u \in User |-> 0]
  /\ requests = [u \in User |-> 0]
  /\ restarts = 0
  /\ raced = {}

\* onConnectionClient. A user never seen before gets a row.
Connect(u) ==
  /\ ~processing
  /\ u \notin connected
  /\ connects[u] < MaxConnects
  /\ connected' = connected \cup {u}
  /\ connects' = [connects EXCEPT ![u] = @ + 1]
  /\ users' = Put(users, u, GetUser(u))
  /\ table' = IF u \in DOMAIN table THEN table ELSE Put(table, u, NewUser)
  /\ UNCHANGED <<queue, processing, sobs, avail, nextId, requests, restarts,
                 raced>>

\* Sets fields of a user and saves the user.
Save(u, user) ==
  /\ users' = Put(users, u, user)
  /\ table' = Put(table, u, user)

\* cbLGCharList.
ListCharacters(u) ==
  /\ ~processing
  /\ u \in connected
  /\ Save(u, [GetUser(u) EXCEPT !.state = "CharSelect"])
  /\ UNCHANGED <<connected, queue, processing, sobs, avail, nextId, connects,
                 requests, restarts, raced>>

\* cbSimEventClient with a CGameSpawnRequestEvent. The client's window for it
\* hides itself after one request but comes back with the acknowledgement of
\* a character creation, so a second request may follow the first. A user
\* races when an earlier request of the same user is unprocessed or when the
\* user has a sob already.
RequestSpawn(u) ==
  /\ ~processing
  /\ u \in connected
  /\ requests[u] < MaxRequests
  /\ requests' = [requests EXCEPT ![u] = @ + 1]
  /\ queue' = Append(queue, [type |-> "spawn", sob |-> NoSob, by |-> u])
  /\ raced' = IF Pending(u) \/ GetUser(u).sobId # NoSob
                THEN raced \cup {u} ELSE raced
  /\ UNCHANGED <<connected, users, table, processing, sobs, avail, nextId,
                 connects, restarts>>

\* Slip: the request names no sob.
DisconnectWithoutSob(u) ==
  /\ ~processing
  /\ u \in connected
  /\ connected' = connected \ {u}
  /\ queue' = Append(queue, [type |-> "unspawn", sob |-> NoSob, by |-> u])
  /\ Save(u, [GetUser(u) EXCEPT !.state = "Offline"])
  /\ raced' = IF Pending(u) THEN raced \cup {u} ELSE raced
  /\ UNCHANGED <<processing, sobs, avail, nextId, connects, requests, restarts>>

\* onDisconnectClient. The request carries the id the user's sob has now,
\* before the requests already queued are processed.
Disconnect(u) ==
  /\ ~processing
  /\ u \in connected
  /\ connected' = connected \ {u}
  /\ queue' = Append(queue,
                [type |-> "unspawn", sob |-> GetUser(u).sobId, by |-> u])
  /\ Save(u, [GetUser(u) EXCEPT !.state = "Offline"])
  /\ raced' = IF Pending(u) THEN raced \cup {u} ELSE raced
  /\ UNCHANGED <<processing, sobs, avail, nextId, connects, requests, restarts>>

\* Head of processEventQueue.
BeginProcessing ==
  /\ ~processing
  /\ processing' = TRUE
  /\ UNCHANGED <<connected, users, table, queue, sobs, avail, nextId, connects,
                 requests, restarts, raced>>

\* The request at the back of the queue, dispatched and then popped.
Request == queue[Len(queue)]
Handles(type) ==
  /\ processing
  /\ queue # <<>>
  /\ Request.type = type
  /\ queue' = SubSeq(queue, 1, Len(queue) - 1)
  /\ UNCHANGED <<connected, processing, connects, requests, restarts, raced>>

UserLoginUnattached ==
  /\ Handles("spawn")
  /\ sobs' = Put(sobs, FreshId, Request.by)
  /\ TakeId
  /\ UNCHANGED <<users, table>>

\* userLogin: a new sob, attached to the user whatever the user had before.
UserLogin ==
  /\ Handles("spawn")
  /\ sobs' = Put(sobs, FreshId, Request.by)
  /\ TakeId
  /\ Save(Request.by, [GetUser(Request.by) EXCEPT !.sobId = FreshId])

\* userLogin when isPlayers does not find the character (its query failed).
UserLoginRefused ==
  /\ Handles("spawn")
  /\ UNCHANGED <<users, table, sobs, avail, nextId>>

\* Slip: the user keeps the id of the sob that is deleted.
UserLogoutKeepsSobId ==
  /\ Handles("unspawn")
  /\ Request.sob \in DOMAIN sobs
  /\ sobs' = Without(sobs, Request.sob)
  /\ avail' = Append(avail, Request.sob)
  /\ UNCHANGED <<users, table, nextId>>

\* Slip: removeSob is forgotten.
UserLogoutKeepsSob ==
  /\ Handles("unspawn")
  /\ Request.sob \in DOMAIN sobs
  /\ avail' = Append(avail, Request.sob)
  /\ LET u == sobs[Request.sob]
     IN  Save(u, [GetUser(u) EXCEPT !.sobId = NoSob])
  /\ UNCHANGED <<sobs, nextId>>

\* postUnspawn, then unspawn in the POST phase: userLogout deletes the sob,
\* and the user it is attached to loses the SobID, whichever sob that named.
UserLogout ==
  /\ Handles("unspawn")
  /\ Request.sob \in DOMAIN sobs
  /\ sobs' = Without(sobs, Request.sob)
  /\ avail' = Append(avail, Request.sob)
  /\ LET u == sobs[Request.sob]
     IN  Save(u, [GetUser(u) EXCEPT !.sobId = NoSob])
  /\ UNCHANGED nextId

\* userLogout: "Failed to locate sob to unspawn."
UserLogoutFails ==
  /\ Handles("unspawn")
  /\ Request.sob \notin DOMAIN sobs
  /\ UNCHANGED <<users, table, sobs, avail, nextId>>

EndProcessing ==
  /\ processing
  /\ queue = <<>>
  /\ processing' = FALSE
  /\ UNCHANGED <<connected, users, table, queue, sobs, avail, nextId, connects,
                 requests, restarts, raced>>

\* The service dies and is started again: only the database survives.
Restart ==
  /\ restarts < MaxRestarts
  /\ restarts' = restarts + 1
  /\ connected' = {}
  /\ users' = <<>>
  /\ queue' = <<>>
  /\ processing' = FALSE
  /\ sobs' = <<>>
  /\ avail' = <<1>>
  /\ nextId' = 2
  /\ raced' = {}
  /\ UNCHANGED <<table, connects, requests>>

Next ==
  \/ \E u \in User : Connect(u)
  \/ \E u \in User : ListCharacters(u)
  \/ \E u \in User : RequestSpawn(u)
  \/ \E u \in User : Disconnect(u)
  \/ BeginProcessing
  \/ UserLogin
  \/ UserLoginRefused
  \/ UserLogout
  \/ UserLogoutFails
  \/ EndProcessing
  \/ Restart

Spec == Init /\ [][Next]_vars

\* The service loop processes the queue every frame and every handler returns.
\* Whether a character lookup succeeds is not up to the scheduler: the two
\* outcomes of a spawn request are fair together.
Fairness ==
  /\ WF_vars(BeginProcessing)
  /\ WF_vars(UserLogin \/ UserLoginRefused)
  /\ WF_vars(UserLogout)
  /\ WF_vars(UserLogoutFails)
  /\ WF_vars(EndProcessing)

FairSpec == Spec /\ Fairness

-----------------------------------------------------------------------------
(* Properties.                                                             *)

UserRecord == [state : UserState, sobId : Nat]
FreeIds    == {avail[i] : i \in 1..Len(avail)}

\* The shape of every variable.
TypeOK ==
  /\ connected \subseteq User
  /\ DOMAIN users \subseteq User
  /\ users \in [DOMAIN users -> UserRecord]
  /\ DOMAIN table \subseteq User
  /\ table \in [DOMAIN table -> UserRecord]
  /\ queue \in Seq([type : {"spawn", "unspawn"}, sob : Nat, by : User])
  /\ processing \in BOOLEAN
  /\ DOMAIN sobs \subseteq Nat
  /\ sobs \in [DOMAIN sobs -> User]
  /\ avail \in Seq(Nat)
  /\ nextId \in Nat \ {0}
  /\ connects \in [User -> 0..MaxConnects]
  /\ requests \in [User -> 0..MaxRequests]
  /\ restarts \in 0..MaxRestarts
  /\ raced \subseteq User

\* The SobID of a user is 0 or names a live sob that is attached to this very
\* user, although requests name sobs by ids read in an earlier step and ids
\* are reused: no user is ever left with the id of a deleted sob, or of a sob
\* that somebody else was given under the same id.
SobIsOwn ==
  \A u \in DOMAIN users :
    users[u].sobId # NoSob =>
      /\ users[u].sobId \in DOMAIN sobs
      /\ sobs[users[u].sobId] = u

\* The ids from 1 up to the next fresh one are each either in use by one live
\* sob or waiting once in the deque: none is lost, none is handed out twice,
\* and the root sob's 0 is never released.
IdsAccounted ==
  /\ \A i, j \in 1..Len(avail) : avail[i] = avail[j] => i = j
  /\ DOMAIN sobs \cap FreeIds = {}
  /\ DOMAIN sobs \cup FreeIds = 1..(nextId - 1)

\* What is sent to a sob reaches the user who plays it, whatever the rows of
\* users from before a restart say: ids start again from 1, the rows keep the
\* old ones.
RoutesToPlayer ==
  \A u \in DOMAIN users :
    users[u].sobId # NoSob => UserBySobId(users[u].sobId) = {u}

\* The database is never behind the memory: the state of every loaded user is
\* in its row, and so is the sob of every user who plays one.
TableFollows ==
  \A u \in DOMAIN users :
    /\ u \in DOMAIN table
    /\ table[u].state = users[u].state
    /\ users[u].sobId # NoSob => table[u].sobId = users[u].sobId

\* A user who waits for the server before asking again never owns a sob the
\* server has lost track of, and so has at most one.
NoOrphanUnlessRaced ==
  \A s \in DOMAIN sobs :
    sobs[s] \notin raced =>
      sobs[s] \in DOMAIN users /\ users[sobs[s]].sobId = s

\* Once such a user has disconnected and the request is processed, no sob of
\* that user is left.
GoneUnlessRaced ==
  \A s \in DOMAIN sobs :
    \/ sobs[s] \in connected
    \/ sobs[s] \in raced
    \/ \E i \in 1..Len(queue) : queue[i].type = "unspawn" /\ queue[i].sob = s

\* Whoever is connected, asks for something or owns a sob is in memory.
Loaded ==
  /\ connected \subseteq DOMAIN users
  /\ \A i \in 1..Len(queue) : queue[i].by \in DOMAIN users
  /\ \A s \in DOMAIN sobs : sobs[s] \in DOMAIN users

\* A user who does not race has one request in the queue at most, and if it is
\* a spawn request the user is connected and has no sob yet.
OneRequest ==
  \A u \in User \ raced :
    /\ \A i, j \in 1..Len(queue) :
         queue[i].by = u /\ queue[j].by = u => i = j
    /\ \A i \in 1..Len(queue) :
         queue[i].by = u /\ queue[i].type = "spawn" =>
           u \in connected /\ users[u].sobId = NoSob

\* The inductive invariant.
IInv ==
  /\ TypeOK
  /\ SobIsOwn
  /\ IdsAccounted
  /\ TableFollows
  /\ NoOrphanUnlessRaced
  /\ GoneUnlessRaced
  /\ Loaded
  /\ OneRequest

\* A sob that an unspawn request in the queue names goes away, however many
\* requests are put behind it. (No more ids than spawn requests are used.)
UnspawnServed ==
  \A s \in 1..(MaxRequests * Cardinality(User)) :
    (\E i \in 1..Len(queue) : queue[i].type = "unspawn" /\ queue[i].sob = s)
      ~> s \notin DOMAIN sobs

=============================================================================
