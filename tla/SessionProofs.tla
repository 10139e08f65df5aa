---------------------------- MODULE SessionProofs ---------------------------
(***************************************************************************)
(* Machine-checked proofs about Session, for every set of users and every  *)
(* bound on connections, requests and restarts.                            *)
(***************************************************************************)
EXTENDS Session, SequenceTheorems, TLAPS

-----------------------------------------------------------------------------
(* The maps and the queue.                                                 *)

\* Put changes a map at one key and Without takes one key away.
LEMMA MapFacts ==
  ASSUME NEW f, NEW k, NEW v
  PROVE  /\ DOMAIN Put(f, k, v) = DOMAIN f \cup {k}
         /\ Put(f, k, v)[k] = v
         /\ \A x \in DOMAIN f : x # k => Put(f, k, v)[x] = f[x]
         /\ DOMAIN Without(f, k) = DOMAIN f \ {k}
         /\ \A x \in DOMAIN f \ {k} : Without(f, k)[x] = f[x]
BY DEF Put, Without

\* Put keeps the type of a map.
LEMMA PutType ==
  ASSUME NEW K, NEW V, NEW f, DOMAIN f \subseteq K, f \in [DOMAIN f -> V],
         NEW k \in K, NEW v \in V
  PROVE  /\ DOMAIN Put(f, k, v) \subseteq K
         /\ Put(f, k, v) \in [DOMAIN Put(f, k, v) -> V]
BY DEF Put

\* Taking the back off a queue leaves the other entries where they are.
LEMMA FrontFacts ==
  ASSUME NEW S, NEW q \in Seq(S), q # <<>>
  PROVE  LET f == SubSeq(q, 1, Len(q) - 1)
         IN  /\ f \in Seq(S)
             /\ Len(f) = Len(q) - 1
             /\ Len(q) \in Nat \ {0}
             /\ \A i \in 1..Len(f) : f[i] = q[i]
             /\ 1..Len(f) \subseteq 1..Len(q)
             /\ 1..Len(q) = 1..Len(f) \cup {Len(q)}
             /\ Len(q) \notin 1..Len(f)
<1>1. Len(q) \in Nat \ {0}
  BY EmptySeq
<1> DEFINE n == Len(q) - 1
<1>2. n \in Nat /\ n + 1 = Len(q)
  BY <1>1
<1> HIDE DEF n
<1>3. \A i \in 1..n : q[i] \in S
  BY <1>2, ElementOfSeq
<1>4. SubSeq(q, 1, n) = [i \in 1..n |-> q[i]]
  BY <1>2
<1>5. SubSeq(q, 1, n) \in Seq(S) /\ Len(SubSeq(q, 1, n)) = n
  BY <1>2, <1>3, <1>4
<1>6. QED
  BY <1>1, <1>2, <1>4, <1>5 DEF n

\* What Append adds.
LEMMA AppendFacts ==
  ASSUME NEW S, NEW q \in Seq(S), NEW e \in S
  PROVE  /\ Append(q, e) \in Seq(S)
         /\ Len(q) \in Nat
         /\ Len(Append(q, e)) = Len(q) + 1
         /\ \A i \in 1..Len(q) : Append(q, e)[i] = q[i]
         /\ Append(q, e)[Len(q) + 1] = e
         /\ 1..(Len(q) + 1) = 1..Len(q) \cup {Len(q) + 1}
         /\ Len(q) + 1 \notin 1..Len(q)
<1>1. /\ Append(q, e) \in Seq(S)
      /\ Len(q) \in Nat
      /\ Len(Append(q, e)) = Len(q) + 1
      /\ \A i \in 1..Len(q) : Append(q, e)[i] = q[i]
      /\ Append(q, e)[Len(q) + 1] = e
  BY AppendProperties
<1>2. QED
  BY <1>1

-----------------------------------------------------------------------------
(* What the operations do to the parts of the state they touch.            *)

\* saveUser after an assignment to a CUser: memory and table agree again.
LEMMA SaveFacts ==
  ASSUME IInv, NEW u \in User, NEW user \in UserRecord, Save(u, user)
  PROVE  /\ DOMAIN users' \subseteq User
         /\ users' \in [DOMAIN users' -> UserRecord]
         /\ DOMAIN table' \subseteq User
         /\ table' \in [DOMAIN table' -> UserRecord]
         /\ DOMAIN users' = DOMAIN users \cup {u}
         /\ users'[u] = user
         /\ \A v \in DOMAIN users : v # u => users'[v] = users[v]
         /\ TableFollows'
<1>1. /\ DOMAIN users' \subseteq User
      /\ users' \in [DOMAIN users' -> UserRecord]
      /\ DOMAIN table' \subseteq User
      /\ table' \in [DOMAIN table' -> UserRecord]
  BY PutType DEF Save, IInv, TypeOK
<1>2. /\ DOMAIN users' = DOMAIN users \cup {u}
      /\ users'[u] = user
      /\ \A v \in DOMAIN users : v # u => users'[v] = users[v]
  BY DEF Save, Put
<1>3. /\ DOMAIN table' = DOMAIN table \cup {u}
      /\ table'[u] = user
      /\ \A v \in DOMAIN table : v # u => table'[v] = table[v]
  BY DEF Save, Put
<1>4. TableFollows'
  <2> SUFFICES ASSUME NEW v \in DOMAIN users'
               PROVE  /\ v \in DOMAIN table'
                      /\ table'[v].state = users'[v].state
                      /\ users'[v].sobId # NoSob =>
                           table'[v].sobId = users'[v].sobId
    BY DEF TableFollows
  <2>1. CASE v = u
    BY <2>1, <1>2, <1>3
  <2>2. CASE v # u
    BY <2>2, <1>2, <1>3 DEF IInv, TableFollows
  <2>3. QED
    BY <2>1, <2>2
<1>5. QED
  BY <1>1, <1>2, <1>4

\* A user who is in memory is the one getUserById returns.
LEMMA GetUserFacts ==
  ASSUME IInv, NEW u \in DOMAIN users
  PROVE  /\ u \in User
         /\ GetUser(u) = users[u]
         /\ users[u] \in UserRecord
         /\ users[u].state \in UserState
         /\ users[u].sobId \in Nat
<1>1. u \in User /\ users[u] \in UserRecord
  BY DEF IInv, TypeOK
<1>2. QED
  BY <1>1 DEF GetUser, UserRecord

\* getSobId hands out an id that no live sob has, and the books still balance
\* when a sob is made of it.
LEMMA TakeIdFacts ==
  ASSUME IInv, TakeId, NEW u \in User, sobs' = Put(sobs, FreshId, u)
  PROVE  /\ FreshId \in Nat \ {0}
         /\ FreshId \notin DOMAIN sobs
         /\ avail' \in Seq(Nat)
         /\ nextId' \in Nat \ {0}
         /\ IdsAccounted'
<1>1. avail \in Seq(Nat) /\ nextId \in Nat \ {0} /\ IdsAccounted
  BY DEF IInv, TypeOK
<1>2. DOMAIN sobs' = DOMAIN sobs \cup {FreshId}
  BY MapFacts
<1>3. CASE avail = <<>>
  <2>1. FreshId = nextId /\ avail' = <<>> /\ nextId' = nextId + 1
    BY <1>3 DEF FreshId, TakeId
  <2>2. FreeIds = {} /\ FreeIds' = {}
    BY <1>3, <2>1 DEF FreeIds
  <2>3. DOMAIN sobs = 1..(nextId - 1)
    BY <1>1, <2>2 DEF IdsAccounted
  <2>4. DOMAIN sobs' = 1..(nextId' - 1)
    BY <1>1, <1>2, <2>1, <2>3
  <2>5. QED
    BY <1>1, <1>3, <2>1, <2>2, <2>3, <2>4 DEF IdsAccounted
<1>4. CASE avail # <<>>
  <2>1. FreshId = avail[1] /\ avail' = Tail(avail) /\ nextId' = nextId
    BY <1>1, <1>4 DEF FreshId, TakeId
  <2>2. /\ Len(avail) \in Nat \ {0}
        /\ avail' \in Seq(Nat)
        /\ Len(avail') = Len(avail) - 1
        /\ \A i \in 1..Len(avail') : avail'[i] = avail[i + 1]
    BY <1>1, <1>4, <2>1, EmptySeq, HeadTailProperties
  <2>3. FreeIds' = FreeIds \ {FreshId}
    <3>1. ASSUME NEW x \in FreeIds' PROVE x \in FreeIds /\ x # FreshId
      <4>1. PICK i \in 1..Len(avail') : x = avail'[i]
        BY <3>1 DEF FreeIds
      <4>2. x = avail[i + 1] /\ i + 1 \in 1..Len(avail) /\ 1 \in 1..Len(avail)
        BY <4>1, <2>2
      <4>3. x # avail[1]
        BY <4>2, <1>1, <2>2 DEF IdsAccounted
      <4>4. QED
        BY <4>2, <4>3, <2>1 DEF FreeIds
    <3>2. ASSUME NEW x \in FreeIds, x # FreshId PROVE x \in FreeIds'
      <4>1. PICK i \in 1..Len(avail) : x = avail[i]
        BY <3>2 DEF FreeIds
      <4>2. i # 1 /\ i - 1 \in 1..Len(avail') /\ (i - 1) + 1 = i
        BY <4>1, <3>2, <2>1, <2>2
      <4>3. x = avail'[i - 1]
        BY <4>1, <4>2, <2>2
      <4>4. QED
        BY <4>2, <4>3 DEF FreeIds
    <3>3. QED
      BY <3>1, <3>2
  <2>4. FreshId \in FreeIds
    BY <2>1, <2>2 DEF FreeIds
  <2>5. \A i, j \in 1..Len(avail') : avail'[i] = avail'[j] => i = j
    <3> SUFFICES ASSUME NEW i \in 1..Len(avail'), NEW j \in 1..Len(avail'),
                        avail'[i] = avail'[j]
                 PROVE  i = j
      OBVIOUS
    <3>1. i + 1 \in 1..Len(avail) /\ j + 1 \in 1..Len(avail)
      BY <2>2
    <3>2. avail[i + 1] = avail[j + 1]
      BY <2>2
    <3>3. i + 1 = j + 1
      BY <3>1, <3>2, <1>1 DEF IdsAccounted
    <3>4. QED
      BY <3>3, <2>2
  <2>6. FreshId \in 1..(nextId - 1) /\ FreshId \notin DOMAIN sobs
    BY <1>1, <2>4 DEF IdsAccounted
  <2>7. IdsAccounted'
    BY <1>1, <1>2, <2>1, <2>3, <2>4, <2>5 DEF IdsAccounted
  <2>8. QED
    BY <1>1, <2>1, <2>2, <2>6, <2>7
<1>5. QED
  BY <1>3, <1>4

\* The destructor gives the id back exactly once.
LEMMA ReleaseFacts ==
  ASSUME IInv, NEW s \in DOMAIN sobs, sobs' = Without(sobs, s),
         avail' = Append(avail, s), nextId' = nextId
  PROVE  avail' \in Seq(Nat) /\ IdsAccounted'
<1>1. avail \in Seq(Nat) /\ s \in Nat /\ IdsAccounted
  BY DEF IInv, TypeOK
<1>2. /\ avail' \in Seq(Nat)
      /\ Len(avail) \in Nat
      /\ Len(avail') = Len(avail) + 1
      /\ \A i \in 1..Len(avail) : avail'[i] = avail[i]
      /\ avail'[Len(avail) + 1] = s
      /\ 1..(Len(avail) + 1) = 1..Len(avail) \cup {Len(avail) + 1}
  BY <1>1, AppendFacts
<1>3. FreeIds' = FreeIds \cup {s}
  BY <1>2 DEF FreeIds
<1>4. s \notin FreeIds
  BY <1>1 DEF IdsAccounted
<1>5. \A i, j \in 1..Len(avail') : avail'[i] = avail'[j] => i = j
  <2>1. \A i \in 1..Len(avail) : avail[i] # s
    BY <1>4 DEF FreeIds
  <2>2. \A i, j \in 1..Len(avail) : avail[i] = avail[j] => i = j
    BY <1>1 DEF IdsAccounted
  <2>3. QED
    BY <2>1, <2>2, <1>2
<1>6. DOMAIN sobs' = DOMAIN sobs \ {s}
  BY MapFacts
<1>7. QED
  BY <1>1, <1>2, <1>3, <1>4, <1>5, <1>6 DEF IdsAccounted

\* Steps that change no SobID and no sob keep the two in agreement.
LEMMA SobIdsKept ==
  ASSUME IInv, sobs' = sobs, raced \subseteq raced',
         DOMAIN users \subseteq DOMAIN users',
         \A v \in DOMAIN users : users'[v].sobId = users[v].sobId,
         \A v \in DOMAIN users' \ DOMAIN users : users'[v].sobId = NoSob
  PROVE  SobIsOwn' /\ NoOrphanUnlessRaced'
<1>1. SobIsOwn'
  BY DEF IInv, SobIsOwn
<1>2. NoOrphanUnlessRaced'
  BY DEF IInv, NoOrphanUnlessRaced
<1>3. QED
  BY <1>1, <1>2

-----------------------------------------------------------------------------
(* One lemma per action.                                                   *)

LEMMA ConnectStep ==
  ASSUME IInv, NEW u \in User, Connect(u)
  PROVE  IInv'
<1>1. GetUser(u) \in UserRecord
  BY DEF GetUser, FromDatabase, NewUser, UserRecord, UserState, NoSob, IInv, TypeOK
<1>2. /\ DOMAIN users' = DOMAIN users \cup {u}
      /\ users'[u] = GetUser(u)
      /\ \A v \in DOMAIN users : users'[v] = users[v]
  <2>1. users' = Put(users, u, GetUser(u))
    BY DEF Connect
  <2>2. QED
    BY <2>1 DEF Put, GetUser
<1>3. u \notin DOMAIN users => users'[u].sobId = NoSob
  BY <1>2 DEF GetUser, FromDatabase, NewUser
<1>4. TypeOK'
  <2>1. DOMAIN users' \subseteq User /\ users' \in [DOMAIN users' -> UserRecord]
    BY <1>1, PutType DEF Connect, IInv, TypeOK
  <2>2. NewUser \in UserRecord
    BY DEF NewUser, UserRecord, UserState, NoSob
  <2>3. DOMAIN table' \subseteq User /\ table' \in [DOMAIN table' -> UserRecord]
    BY <2>2, PutType DEF Connect, IInv, TypeOK
  <2>4. connects' \in [User -> 0..MaxConnects]
    BY BoundsAssumption DEF Connect, IInv, TypeOK
  <2>5. QED
    BY <2>1, <2>3, <2>4 DEF Connect, IInv, TypeOK
<1>5. SobIsOwn' /\ NoOrphanUnlessRaced'
  BY <1>2, <1>3, SobIdsKept DEF Connect
<1>6. IdsAccounted'
  BY DEF Connect, IInv, IdsAccounted, FreeIds
<1>7. TableFollows'
  <2>1. CASE u \in DOMAIN users
    <3>1. DOMAIN users' = DOMAIN users /\ table' = table
      BY <1>2, <2>1 DEF Connect, IInv, TableFollows
    <3>2. QED
      BY <3>1, <1>2 DEF IInv, TableFollows
  <2>2. CASE u \notin DOMAIN users
    <3>1. /\ u \in DOMAIN table'
          /\ table'[u].state = users'[u].state
          /\ users'[u].sobId = NoSob
      <4>1. GetUser(u) = FromDatabase(u)
        BY <2>2 DEF GetUser
      <4>2. CASE u \in DOMAIN table
        BY <4>1, <4>2, <1>2 DEF Connect, FromDatabase, NewUser
      <4>3. CASE u \notin DOMAIN table
        <5>1. GetUser(u) = NewUser /\ table' = Put(table, u, NewUser)
          BY <4>1, <4>3 DEF Connect, FromDatabase
        <5>2. u \in DOMAIN table' /\ table'[u] = NewUser
          BY <5>1 DEF Put
        <5>3. QED
          BY <5>1, <5>2, <1>2 DEF NewUser
      <4>4. QED
        BY <4>2, <4>3
    <3>2. \A v \in DOMAIN table : v \in DOMAIN table' /\ table'[v] = table[v]
      <4>1. table' = table \/ (u \notin DOMAIN table /\ table' = Put(table, u, NewUser))
        BY DEF Connect
      <4>2. QED
        BY <4>1 DEF Put
    <3>3. QED
      BY <3>1, <3>2, <1>2 DEF IInv, TableFollows
  <2>3. QED
    BY <2>1, <2>2
<1>8. GoneUnlessRaced' /\ Loaded'
  BY <1>2 DEF Connect, IInv, GoneUnlessRaced, Loaded
<1>9. OneRequest'
  BY <1>2 DEF Connect, IInv, OneRequest, Loaded
<1>10. QED
  BY <1>4, <1>5, <1>6, <1>7, <1>8, <1>9 DEF IInv

LEMMA ListCharactersStep ==
  ASSUME IInv, NEW u \in User, ListCharacters(u)
  PROVE  IInv'
<1>1. u \in DOMAIN users
  BY DEF ListCharacters, IInv, Loaded
<1> DEFINE user == [GetUser(u) EXCEPT !.state = "CharSelect"]
<1>2. user \in UserRecord /\ user.sobId = users[u].sobId
  BY <1>1, GetUserFacts DEF UserRecord, UserState
<1>3. Save(u, user)
  BY DEF ListCharacters
<1> HIDE DEF user
<1>4. /\ DOMAIN users' = DOMAIN users
      /\ \A v \in DOMAIN users : users'[v].sobId = users[v].sobId
  BY <1>1, <1>2, <1>3, SaveFacts
<1>5. TypeOK' /\ TableFollows'
  BY <1>2, <1>3, SaveFacts DEF ListCharacters, IInv, TypeOK
<1>6. SobIsOwn' /\ NoOrphanUnlessRaced'
  BY <1>4, SobIdsKept DEF ListCharacters
<1>7. IdsAccounted' /\ GoneUnlessRaced' /\ Loaded' /\ OneRequest'
  BY <1>4 DEF ListCharacters, IInv, IdsAccounted, FreeIds, GoneUnlessRaced,
              Loaded, OneRequest
<1>8. QED
  BY <1>5, <1>6, <1>7 DEF IInv

LEMMA RequestSpawnStep ==
  ASSUME IInv, NEW u \in User, RequestSpawn(u)
  PROVE  IInv'
<1> DEFINE e == [type |-> "spawn", sob |-> NoSob, by |-> u]
           Entry == [type : {"spawn", "unspawn"}, sob : Nat, by : User]
<1>1. u \in DOMAIN users /\ GetUser(u) = users[u]
  BY GetUserFacts DEF RequestSpawn, IInv, Loaded
<1>2. /\ queue' \in Seq(Entry)
      /\ Len(queue) \in Nat
      /\ Len(queue') = Len(queue) + 1
      /\ \A i \in 1..Len(queue) : queue'[i] = queue[i]
      /\ queue'[Len(queue) + 1] = e
      /\ 1..Len(queue') = 1..Len(queue) \cup {Len(queue) + 1}
  <2>1. e \in Entry /\ queue \in Seq(Entry) /\ queue' = Append(queue, e)
    BY DEF RequestSpawn, NoSob, IInv, TypeOK
  <2>2. QED
    BY <2>1, AppendFacts
<1>3. raced \subseteq raced' /\ raced' \subseteq raced \cup {u}
  BY DEF RequestSpawn
<1>4. u \notin raced' => ~Pending(u) /\ users[u].sobId = NoSob /\ u \in connected
  BY <1>1 DEF RequestSpawn
<1>5. TypeOK'
  <2>1. requests' \in [User -> 0..MaxRequests]
    BY BoundsAssumption DEF RequestSpawn, IInv, TypeOK
  <2>2. QED
    BY <1>2, <1>3, <2>1 DEF RequestSpawn, IInv, TypeOK
<1>6. SobIsOwn' /\ NoOrphanUnlessRaced'
  BY <1>3, SobIdsKept DEF RequestSpawn
<1>7. IdsAccounted' /\ TableFollows'
  BY DEF RequestSpawn, IInv, IdsAccounted, FreeIds, TableFollows
<1>8. GoneUnlessRaced'
  BY <1>2, <1>3 DEF RequestSpawn, IInv, GoneUnlessRaced
<1>9. Loaded'
  BY <1>1, <1>2 DEF RequestSpawn, IInv, Loaded
<1>10. OneRequest'
  <2> SUFFICES ASSUME NEW v \in User \ raced'
               PROVE  /\ \A i, j \in 1..Len(queue') :
                           queue'[i].by = v /\ queue'[j].by = v => i = j
                      /\ \A i \in 1..Len(queue') :
                           queue'[i].by = v /\ queue'[i].type = "spawn" =>
                             v \in connected' /\ users'[v].sobId = NoSob
    BY DEF OneRequest
  <2>1. connected' = connected /\ users' = users
    BY DEF RequestSpawn
  <2>2. /\ \A i, j \in 1..Len(queue) :
             queue[i].by = v /\ queue[j].by = v => i = j
        /\ \A i \in 1..Len(queue) :
             queue[i].by = v /\ queue[i].type = "spawn" =>
               v \in connected /\ users[v].sobId = NoSob
    BY <1>3 DEF IInv, OneRequest
  <2>3. CASE v = u
    BY <2>1, <2>2, <2>3, <1>2, <1>4 DEF Pending
  <2>4. CASE v # u
    BY <2>1, <2>2, <2>4, <1>2
  <2>5. QED
    BY <2>3, <2>4
<1>11. QED
  BY <1>5, <1>6, <1>7, <1>8, <1>9, <1>10 DEF IInv

LEMMA DisconnectStep ==
  ASSUME IInv, NEW u \in User, Disconnect(u)
  PROVE  IInv'
<1> DEFINE e == [type |-> "unspawn", sob |-> GetUser(u).sobId, by |-> u]
           Entry == [type : {"spawn", "unspawn"}, sob : Nat, by : User]
           user == [GetUser(u) EXCEPT !.state = "Offline"]
<1>1. /\ u \in DOMAIN users
      /\ GetUser(u) = users[u]
      /\ users[u] \in UserRecord
      /\ users[u].sobId \in Nat
  BY GetUserFacts DEF Disconnect, IInv, Loaded
<1>2. /\ queue' \in Seq(Entry)
      /\ Len(queue) \in Nat
      /\ Len(queue') = Len(queue) + 1
      /\ \A i \in 1..Len(queue) : queue'[i] = queue[i]
      /\ queue'[Len(queue) + 1] = e
      /\ 1..Len(queue') = 1..Len(queue) \cup {Len(queue) + 1}
  <2>1. e \in Entry /\ queue \in Seq(Entry) /\ queue' = Append(queue, e)
    BY <1>1 DEF Disconnect, IInv, TypeOK
  <2>2. QED
    BY <2>1, AppendFacts
<1>3. raced \subseteq raced' /\ raced' \subseteq raced \cup {u}
  BY DEF Disconnect
<1>4. u \notin raced' => ~Pending(u)
  BY DEF Disconnect
<1>5. user \in UserRecord /\ user.sobId = users[u].sobId
  BY <1>1 DEF UserRecord, UserState
<1>6. Save(u, user)
  BY DEF Disconnect
<1> HIDE DEF user
<1>7. /\ DOMAIN users' = DOMAIN users
      /\ \A v \in DOMAIN users : users'[v].sobId = users[v].sobId
  BY <1>1, <1>5, <1>6, SaveFacts
<1>8. TypeOK' /\ TableFollows'
  BY <1>2, <1>3, <1>5, <1>6, SaveFacts DEF Disconnect, IInv, TypeOK
<1>9. SobIsOwn' /\ NoOrphanUnlessRaced'
  BY <1>3, <1>7, SobIdsKept DEF Disconnect
<1>10. IdsAccounted'
  BY DEF Disconnect, IInv, IdsAccounted, FreeIds
<1>11. GoneUnlessRaced'
  <2> SUFFICES ASSUME NEW s \in DOMAIN sobs', sobs'[s] \notin connected',
                      sobs'[s] \notin raced'
               PROVE  \E i \in 1..Len(queue') :
                        queue'[i].type = "unspawn" /\ queue'[i].sob = s
    BY DEF GoneUnlessRaced
  <2>1. sobs' = sobs /\ connected' = connected \ {u}
    BY DEF Disconnect
  <2>2. CASE sobs[s] = u
    <3>1. users[u].sobId = s
      BY <2>1, <2>2, <1>3 DEF IInv, NoOrphanUnlessRaced
    <3>2. QED
      BY <3>1, <1>1, <1>2
  <2>3. CASE sobs[s] # u
    BY <2>1, <2>3, <1>2, <1>3 DEF IInv, GoneUnlessRaced
  <2>4. QED
    BY <2>2, <2>3
<1>12. Loaded'
  BY <1>1, <1>2, <1>7 DEF Disconnect, IInv, Loaded
<1>13. OneRequest'
  <2> SUFFICES ASSUME NEW v \in User \ raced'
               PROVE  /\ \A i, j \in 1..Len(queue') :
                           queue'[i].by = v /\ queue'[j].by = v => i = j
                      /\ \A i \in 1..Len(queue') :
                           queue'[i].by = v /\ queue'[i].type = "spawn" =>
                             v \in connected' /\ users'[v].sobId = NoSob
    BY DEF OneRequest
  <2>1. connected' = connected \ {u}
    BY DEF Disconnect
  <2>2. /\ \A i, j \in 1..Len(queue) :
             queue[i].by = v /\ queue[j].by = v => i = j
        /\ \A i \in 1..Len(queue) :
             queue[i].by = v /\ queue[i].type = "spawn" =>
               v \in connected /\ users[v].sobId = NoSob /\ v \in DOMAIN users
    BY <1>3 DEF IInv, OneRequest, Loaded
  <2>3. CASE v = u
    BY <2>1, <2>2, <2>3, <1>2, <1>4 DEF Pending
  <2>4. CASE v # u
    <3>1. \A i \in 1..Len(queue') :
            queue'[i].by = v => i \in 1..Len(queue) /\ queue'[i] = queue[i]
      BY <2>4, <1>2
    <3>2. v \in connected => v \in connected'
      BY <2>1, <2>4
    <3>3. QED
      BY <2>2, <3>1, <3>2, <1>7
  <2>5. QED
    BY <2>3, <2>4
<1>14. QED
  BY <1>8, <1>9, <1>10, <1>11, <1>12, <1>13 DEF IInv

LEMMA BeginEndProcessingStep ==
  ASSUME IInv, BeginProcessing \/ EndProcessing \/ UNCHANGED vars
  PROVE  IInv'
<1>1. /\ UNCHANGED <<connected, users, table, queue, sobs, avail, nextId,
                     connects, requests, restarts, raced>>
      /\ processing' \in BOOLEAN
  BY DEF BeginProcessing, EndProcessing, vars, IInv, TypeOK
<1>2. TypeOK'
  BY <1>1 DEF IInv, TypeOK
<1>3. SobIsOwn' /\ IdsAccounted' /\ TableFollows' /\ NoOrphanUnlessRaced'
  BY <1>1 DEF IInv, SobIsOwn, IdsAccounted, FreeIds, TableFollows,
              NoOrphanUnlessRaced
<1>4. GoneUnlessRaced' /\ Loaded' /\ OneRequest'
  BY <1>1 DEF IInv, GoneUnlessRaced, Loaded, OneRequest
<1>5. QED
  BY <1>2, <1>3, <1>4 DEF IInv

\* What handling a request, of either type, means for the queue.
LEMMA HandlesFacts ==
  ASSUME IInv, NEW type, Handles(type)
  PROVE  /\ queue' \in Seq([type : {"spawn", "unspawn"}, sob : Nat, by : User])
         /\ \A i \in 1..Len(queue') : i \in 1..Len(queue) /\ queue'[i] = queue[i]
         /\ Len(queue) \in 1..Len(queue)
         /\ \A i \in 1..Len(queue) :
              i # Len(queue) => i \in 1..Len(queue') /\ queue'[i] = queue[i]
         /\ Len(queue) \notin 1..Len(queue')
         /\ Request = queue[Len(queue)]
         /\ Request.type = type
         /\ Request.sob \in Nat
         /\ Request.by \in DOMAIN users
         /\ Request.by \in User
<1>1. queue # <<>> /\ queue' = SubSeq(queue, 1, Len(queue) - 1) /\ Request.type = type
  BY DEF Handles
<1>2. queue \in Seq([type : {"spawn", "unspawn"}, sob : Nat, by : User])
  BY DEF IInv, TypeOK
<1>3. /\ queue' \in Seq([type : {"spawn", "unspawn"}, sob : Nat, by : User])
      /\ Len(queue) \in Nat \ {0}
      /\ \A i \in 1..Len(queue') : queue'[i] = queue[i]
      /\ 1..Len(queue') \subseteq 1..Len(queue)
      /\ 1..Len(queue) = 1..Len(queue') \cup {Len(queue)}
      /\ Len(queue) \notin 1..Len(queue')
  BY <1>1, <1>2, FrontFacts
<1>4. Len(queue) \in 1..Len(queue) /\ Request = queue[Len(queue)]
  BY <1>3 DEF Request
<1>5. Request \in [type : {"spawn", "unspawn"}, sob : Nat, by : User]
  BY <1>2, <1>4, ElementOfSeq
<1>6. Request.by \in DOMAIN users
  BY <1>4 DEF IInv, Loaded
<1>7. QED
  BY <1>1, <1>3, <1>4, <1>5, <1>6

\* OneRequest survives the removal of a request as long as nobody who still
\* waits for a spawn gets a sob.
LEMMA OneRequestKept ==
  ASSUME IInv, NEW type, Handles(type),
         DOMAIN users' = DOMAIN users,
         \A v \in DOMAIN users :
           \/ users'[v].sobId = users[v].sobId
           \/ users'[v].sobId = NoSob
           \/ v = Request.by
  PROVE  OneRequest'
<1> SUFFICES ASSUME NEW v \in User \ raced'
             PROVE  /\ \A i, j \in 1..Len(queue') :
                         queue'[i].by = v /\ queue'[j].by = v => i = j
                    /\ \A i \in 1..Len(queue') :
                         queue'[i].by = v /\ queue'[i].type = "spawn" =>
                           v \in connected' /\ users'[v].sobId = NoSob
  BY DEF OneRequest
<1>1. raced' = raced /\ connected' = connected
  BY DEF Handles
<1>2. /\ \A i, j \in 1..Len(queue) :
           queue[i].by = v /\ queue[j].by = v => i = j
      /\ \A i \in 1..Len(queue) :
           queue[i].by = v /\ queue[i].type = "spawn" =>
             v \in connected /\ users[v].sobId = NoSob /\ v \in DOMAIN users
  BY <1>1 DEF IInv, OneRequest, Loaded
<1>3. /\ \A i \in 1..Len(queue') : i \in 1..Len(queue) /\ queue'[i] = queue[i]
      /\ Len(queue) \in 1..Len(queue)
      /\ Len(queue) \notin 1..Len(queue')
      /\ Request = queue[Len(queue)]
  BY HandlesFacts
<1>4. ASSUME NEW i \in 1..Len(queue'), queue'[i].by = v
      PROVE  v # Request.by
  BY <1>2, <1>3, <1>4
<1>5. QED
  BY <1>1, <1>2, <1>3, <1>4

LEMMA UserLoginStep ==
  ASSUME IInv, UserLogin
  PROVE  IInv'
<1> DEFINE u    == Request.by
           id   == FreshId
           user == [GetUser(u) EXCEPT !.sobId = FreshId]
<1>1. /\ Handles("spawn")
      /\ sobs' = Put(sobs, id, u)
      /\ TakeId
      /\ Save(u, user)
  BY DEF UserLogin
<1>2. /\ queue' \in Seq([type : {"spawn", "unspawn"}, sob : Nat, by : User])
      /\ \A i \in 1..Len(queue') : i \in 1..Len(queue) /\ queue'[i] = queue[i]
      /\ Len(queue) \in 1..Len(queue)
      /\ \A i \in 1..Len(queue) :
           i # Len(queue) => i \in 1..Len(queue') /\ queue'[i] = queue[i]
      /\ Request = queue[Len(queue)]
      /\ Request.type = "spawn"
      /\ u \in DOMAIN users
      /\ u \in User
  BY <1>1, HandlesFacts
<1>3. /\ connected' = connected
      /\ raced' = raced
      /\ UNCHANGED <<processing, connects, requests, restarts>>
  BY <1>1 DEF Handles
<1> HIDE DEF u, id
<1>4. /\ id \in Nat \ {0}
      /\ id \notin DOMAIN sobs
      /\ avail' \in Seq(Nat)
      /\ nextId' \in Nat \ {0}
      /\ IdsAccounted'
  BY <1>1, <1>2, TakeIdFacts DEF id
<1>5. user \in UserRecord /\ user.sobId = id
  <2>1. GetUser(u) \in UserRecord
    BY <1>2, GetUserFacts
  <2>2. QED
    BY <2>1, <1>4 DEF UserRecord, id
<1> HIDE DEF user
<1>6. /\ DOMAIN users' \subseteq User
      /\ users' \in [DOMAIN users' -> UserRecord]
      /\ DOMAIN table' \subseteq User
      /\ table' \in [DOMAIN table' -> UserRecord]
      /\ DOMAIN users' = DOMAIN users
      /\ users'[u].sobId = id
      /\ \A v \in DOMAIN users : v # u => users'[v] = users[v]
      /\ TableFollows'
  BY <1>1, <1>2, <1>5, SaveFacts
<1>7. /\ DOMAIN sobs' = DOMAIN sobs \cup {id}
      /\ sobs'[id] = u
      /\ \A s \in DOMAIN sobs : sobs'[s] = sobs[s]
  BY <1>1, <1>4 DEF Put
<1>8. TypeOK'
  <2>1. DOMAIN sobs' \subseteq Nat /\ sobs' \in [DOMAIN sobs' -> User]
    BY <1>1, <1>2, <1>4, PutType DEF IInv, TypeOK
  <2>2. QED
    BY <2>1, <1>2, <1>3, <1>4, <1>6 DEF IInv, TypeOK
<1>9. SobIsOwn'
  <2> SUFFICES ASSUME NEW v \in DOMAIN users', users'[v].sobId # NoSob
               PROVE  /\ users'[v].sobId \in DOMAIN sobs'
                      /\ sobs'[users'[v].sobId] = v
    BY DEF SobIsOwn
  <2>1. CASE v = u
    BY <2>1, <1>6, <1>7
  <2>2. CASE v # u
    BY <2>2, <1>6, <1>7 DEF IInv, SobIsOwn
  <2>3. QED
    BY <2>1, <2>2
<1>10. u \notin raced => /\ u \in connected
                         /\ \A s \in DOMAIN sobs : sobs[s] # u
  <2> SUFFICES ASSUME u \notin raced
               PROVE  u \in connected /\ \A s \in DOMAIN sobs : sobs[s] # u
    OBVIOUS
  <2>1. u \in connected /\ users[u].sobId = NoSob
    BY <1>2 DEF IInv, OneRequest, u
  <2>2. 0 \notin DOMAIN sobs
    BY DEF IInv, TypeOK, IdsAccounted
  <2>3. QED
    BY <2>1, <2>2 DEF IInv, NoOrphanUnlessRaced, NoSob
<1>11. NoOrphanUnlessRaced'
  <2> SUFFICES ASSUME NEW s \in DOMAIN sobs', sobs'[s] \notin raced
               PROVE  sobs'[s] \in DOMAIN users' /\ users'[sobs'[s]].sobId = s
    BY <1>3 DEF NoOrphanUnlessRaced
  <2>1. CASE s = id
    BY <2>1, <1>2, <1>6, <1>7
  <2>2. CASE s # id
    <3>1. s \in DOMAIN sobs /\ sobs'[s] = sobs[s]
      BY <2>2, <1>7
    <3>2. sobs[s] \in DOMAIN users /\ users[sobs[s]].sobId = s
      BY <3>1 DEF IInv, NoOrphanUnlessRaced
    <3>3. sobs[s] # u
      BY <3>1, <1>10
    <3>4. QED
      BY <3>1, <3>2, <3>3, <1>6
  <2>3. QED
    BY <2>1, <2>2
<1>12. GoneUnlessRaced'
  <2> SUFFICES ASSUME NEW s \in DOMAIN sobs', sobs'[s] \notin connected',
                      sobs'[s] \notin raced'
               PROVE  \E i \in 1..Len(queue') :
                        queue'[i].type = "unspawn" /\ queue'[i].sob = s
    BY DEF GoneUnlessRaced
  <2>1. s \in DOMAIN sobs
    BY <1>3, <1>7, <1>10
  <2>2. PICK i \in 1..Len(queue) : queue[i].type = "unspawn" /\ queue[i].sob = s
    BY <2>1, <1>3, <1>7 DEF IInv, GoneUnlessRaced
  <2>3. i # Len(queue)
    BY <2>2, <1>2
  <2>4. QED
    BY <2>2, <2>3, <1>2
<1>13. Loaded'
  BY <1>2, <1>3, <1>6, <1>7 DEF IInv, Loaded
<1>14. OneRequest'
  BY <1>1, <1>6, OneRequestKept DEF u
<1>15. QED
  BY <1>4, <1>6, <1>8, <1>9, <1>11, <1>12, <1>13, <1>14 DEF IInv

LEMMA UserLogoutStep ==
  ASSUME IInv, UserLogout
  PROVE  IInv'
<1> DEFINE id   == Request.sob
           u    == sobs[Request.sob]
           user == [GetUser(u) EXCEPT !.sobId = NoSob]
<1>1. /\ Handles("unspawn")
      /\ id \in DOMAIN sobs
      /\ sobs' = Without(sobs, id)
      /\ avail' = Append(avail, id)
      /\ Save(u, user)
      /\ nextId' = nextId
  BY DEF UserLogout
<1>2. /\ queue' \in Seq([type : {"spawn", "unspawn"}, sob : Nat, by : User])
      /\ \A i \in 1..Len(queue') : i \in 1..Len(queue) /\ queue'[i] = queue[i]
      /\ \A i \in 1..Len(queue) :
           i # Len(queue) => i \in 1..Len(queue') /\ queue'[i] = queue[i]
      /\ id = queue[Len(queue)].sob
  BY <1>1, HandlesFacts
<1>3. /\ connected' = connected
      /\ raced' = raced
      /\ UNCHANGED <<processing, connects, requests, restarts>>
  BY <1>1 DEF Handles
<1>4. u \in DOMAIN users /\ u \in User
  BY <1>1 DEF IInv, TypeOK, Loaded
<1>5. user \in UserRecord /\ user.sobId = NoSob
  <2>1. GetUser(u) \in UserRecord
    BY <1>4, GetUserFacts
  <2>2. QED
    BY <2>1 DEF UserRecord, NoSob
<1> HIDE DEF user
<1>6. /\ DOMAIN users' \subseteq User
      /\ users' \in [DOMAIN users' -> UserRecord]
      /\ DOMAIN table' \subseteq User
      /\ table' \in [DOMAIN table' -> UserRecord]
      /\ DOMAIN users' = DOMAIN users
      /\ users'[u].sobId = NoSob
      /\ \A v \in DOMAIN users : v # u => users'[v] = users[v]
      /\ TableFollows'
  BY <1>1, <1>4, <1>5, SaveFacts
<1>7. /\ DOMAIN sobs' = DOMAIN sobs \ {id}
      /\ \A s \in DOMAIN sobs' : sobs'[s] = sobs[s]
  BY <1>1 DEF Without
<1>8. avail' \in Seq(Nat) /\ IdsAccounted'
  BY <1>1, ReleaseFacts
<1>9. TypeOK'
  <2>1. DOMAIN sobs' \subseteq Nat /\ sobs' \in [DOMAIN sobs' -> User]
    BY <1>1 DEF Without, IInv, TypeOK
  <2>2. QED
    BY <2>1, <1>1, <1>2, <1>3, <1>6, <1>8 DEF IInv, TypeOK
<1> HIDE DEF id
<1>10. SobIsOwn'
  <2> SUFFICES ASSUME NEW v \in DOMAIN users', users'[v].sobId # NoSob
               PROVE  /\ users'[v].sobId \in DOMAIN sobs'
                      /\ sobs'[users'[v].sobId] = v
    BY DEF SobIsOwn
  <2>1. v # u /\ users'[v] = users[v] /\ v \in DOMAIN users
    BY <1>6
  <2>2. users[v].sobId \in DOMAIN sobs /\ sobs[users[v].sobId] = v
    BY <2>1 DEF IInv, SobIsOwn
  <2>3. users[v].sobId # id
    BY <2>1, <2>2 DEF id
  <2>4. QED
    BY <2>1, <2>2, <2>3, <1>7
<1>11. NoOrphanUnlessRaced'
  <2> SUFFICES ASSUME NEW s \in DOMAIN sobs', sobs'[s] \notin raced'
               PROVE  sobs'[s] \in DOMAIN users' /\ users'[sobs'[s]].sobId = s
    BY DEF NoOrphanUnlessRaced
  <2>1. s \in DOMAIN sobs /\ s # id /\ sobs'[s] = sobs[s] /\ sobs[s] \notin raced
    BY <1>3, <1>7
  <2>2. sobs[s] \in DOMAIN users /\ users[sobs[s]].sobId = s
    BY <2>1 DEF IInv, NoOrphanUnlessRaced
  <2>3. sobs[s] # u
    <3>1. sobs[s] = u => users[u].sobId = id
      BY <2>1, <1>1 DEF IInv, NoOrphanUnlessRaced, id
    <3>2. QED
      BY <3>1, <2>1, <2>2
  <2>4. QED
    BY <2>1, <2>2, <2>3, <1>6
<1>12. GoneUnlessRaced'
  <2> SUFFICES ASSUME NEW s \in DOMAIN sobs', sobs'[s] \notin connected',
                      sobs'[s] \notin raced'
               PROVE  \E i \in 1..Len(queue') :
                        queue'[i].type = "unspawn" /\ queue'[i].sob = s
    BY DEF GoneUnlessRaced
  <2>1. s \in DOMAIN sobs /\ s # id /\ sobs'[s] = sobs[s]
    BY <1>7
  <2>2. PICK i \in 1..Len(queue) : queue[i].type = "unspawn" /\ queue[i].sob = s
    BY <2>1, <1>3 DEF IInv, GoneUnlessRaced
  <2>3. i # Len(queue)
    BY <2>1, <2>2, <1>2
  <2>4. QED
    BY <2>2, <2>3, <1>2
<1>13. Loaded'
  BY <1>2, <1>3, <1>6, <1>7 DEF IInv, Loaded
<1>14. OneRequest'
  <2>1. \A v \in DOMAIN users :
          users'[v].sobId = users[v].sobId \/ users'[v].sobId = NoSob
    BY <1>6
  <2>2. QED
    BY <2>1, <1>1, <1>6, OneRequestKept
<1>15. QED
  BY <1>6, <1>8, <1>9, <1>10, <1>11, <1>12, <1>13, <1>14 DEF IInv

\* A spawn request that is refused, or an unspawn request that names no live
\* sob, is popped and has no other effect.
LEMMA NothingDoneStep ==
  ASSUME IInv, UserLoginRefused \/ UserLogoutFails
  PROVE  IInv'
<1>1. PICK type \in {"spawn", "unspawn"} : Handles(type)
  BY DEF UserLoginRefused, UserLogoutFails
<1>2. /\ queue' \in Seq([type : {"spawn", "unspawn"}, sob : Nat, by : User])
      /\ \A i \in 1..Len(queue') : i \in 1..Len(queue) /\ queue'[i] = queue[i]
      /\ \A i \in 1..Len(queue) :
           i # Len(queue) => i \in 1..Len(queue') /\ queue'[i] = queue[i]
  BY <1>1, HandlesFacts
<1>3. UNCHANGED <<connected, users, table, processing, sobs, avail, nextId,
                  connects, requests, restarts, raced>>
  BY DEF UserLoginRefused, UserLogoutFails, Handles
<1>4. TypeOK'
  BY <1>2, <1>3 DEF IInv, TypeOK
<1>5. SobIsOwn' /\ IdsAccounted' /\ TableFollows' /\ NoOrphanUnlessRaced'
  BY <1>3 DEF IInv, SobIsOwn, IdsAccounted, FreeIds, TableFollows,
              NoOrphanUnlessRaced
<1>6. GoneUnlessRaced'
  <2> SUFFICES ASSUME NEW s \in DOMAIN sobs, sobs[s] \notin connected,
                      sobs[s] \notin raced
               PROVE  \E i \in 1..Len(queue') :
                        queue'[i].type = "unspawn" /\ queue'[i].sob = s
    BY <1>3 DEF GoneUnlessRaced
  <2>1. PICK i \in 1..Len(queue) : queue[i].type = "unspawn" /\ queue[i].sob = s
    BY DEF IInv, GoneUnlessRaced
  <2>2. i # Len(queue)
    BY <2>1 DEF UserLoginRefused, UserLogoutFails, Handles, Request
  <2>3. QED
    BY <2>1, <2>2, <1>2
<1>7. Loaded'
  BY <1>2, <1>3 DEF IInv, Loaded
<1>8. OneRequest'
  BY <1>1, <1>3, OneRequestKept
<1>9. QED
  BY <1>4, <1>5, <1>6, <1>7, <1>8 DEF IInv

\* The state of a service that has just started; only the table is older.
LEMMA FreshStart ==
  ASSUME connected' = {}, users' = <<>>, queue' = <<>>, sobs' = <<>>,
         avail' = << 1 >>, nextId' = 2
  PROVE  /\ SobIsOwn' /\ IdsAccounted' /\ TableFollows' /\ NoOrphanUnlessRaced'
         /\ GoneUnlessRaced' /\ Loaded' /\ OneRequest'
<1>1. /\ DOMAIN users' = {} /\ DOMAIN sobs' = {} /\ Len(queue') = 0
      /\ 1..Len(queue') = {}
  OBVIOUS
<1>2. FreeIds' = {1} /\ Len(avail') = 1
  BY DEF FreeIds
<1>3. IdsAccounted'
  BY <1>1, <1>2 DEF IdsAccounted
<1>4. SobIsOwn' /\ TableFollows' /\ NoOrphanUnlessRaced' /\ GoneUnlessRaced'
  BY <1>1 DEF SobIsOwn, TableFollows, NoOrphanUnlessRaced, GoneUnlessRaced
<1>5. Loaded' /\ OneRequest'
  BY <1>1 DEF Loaded, OneRequest
<1>6. QED
  BY <1>3, <1>4, <1>5

LEMMA RestartStep ==
  ASSUME IInv, Restart
  PROVE  IInv'
<1>1. TypeOK'
  <2>1. /\ DOMAIN users' \subseteq User
        /\ users' \in [DOMAIN users' -> UserRecord]
        /\ DOMAIN sobs' \subseteq Nat
        /\ sobs' \in [DOMAIN sobs' -> User]
    <3>1. DOMAIN users' = {} /\ DOMAIN sobs' = {}
      BY DEF Restart
    <3>2. users' \in [{} -> UserRecord] /\ sobs' \in [{} -> User]
      BY DEF Restart
    <3>3. QED
      BY <3>1, <3>2
  <2>2. /\ queue' \in Seq([type : {"spawn", "unspawn"}, sob : Nat, by : User])
        /\ avail' \in Seq(Nat)
    BY DEF Restart
  <2>3. restarts' \in 0..MaxRestarts
    BY BoundsAssumption DEF Restart, IInv, TypeOK
  <2>4. /\ connected' \subseteq User
        /\ processing' \in BOOLEAN
        /\ nextId' \in Nat \ {0}
        /\ raced' \subseteq User
    <3>1. connected' = {} /\ processing' = FALSE /\ nextId' = 2 /\ raced' = {}
      BY DEF Restart
    <3>2. connected' \subseteq User /\ nextId' \in Nat \ {0} /\ raced' \subseteq User
      BY <3>1
    <3>3. processing' \in BOOLEAN
      BY <3>1, Zenon
    <3>4. QED
      BY <3>2, <3>3
  <2>5. /\ DOMAIN table' \subseteq User
        /\ table' \in [DOMAIN table' -> UserRecord]
        /\ connects' \in [User -> 0..MaxConnects]
        /\ requests' \in [User -> 0..MaxRequests]
    BY DEF Restart, IInv, TypeOK
  <2>6. QED
    BY <2>1, <2>2, <2>3, <2>4, <2>5 DEF TypeOK
<1>2. /\ SobIsOwn' /\ IdsAccounted' /\ TableFollows' /\ NoOrphanUnlessRaced'
      /\ GoneUnlessRaced' /\ Loaded' /\ OneRequest'
  BY FreshStart DEF Restart
<1>3. QED
  BY <1>1, <1>2 DEF IInv

-----------------------------------------------------------------------------
(* The invariant.                                                          *)

LEMMA InitIInv ==
  ASSUME Init
  PROVE  IInv
<1>1. /\ DOMAIN users = {} /\ DOMAIN sobs = {} /\ DOMAIN table = {}
      /\ Len(queue) = 0 /\ 1..Len(queue) = {}
  BY DEF Init
<1>2. FreeIds = {1} /\ Len(avail) = 1
  BY DEF Init, FreeIds
<1>3. TypeOK
  <2>1. /\ DOMAIN users \subseteq User
        /\ users \in [DOMAIN users -> UserRecord]
        /\ DOMAIN table \subseteq User
        /\ table \in [DOMAIN table -> UserRecord]
        /\ DOMAIN sobs \subseteq Nat
        /\ sobs \in [DOMAIN sobs -> User]
    <3>1. /\ users \in [{} -> UserRecord]
          /\ table \in [{} -> UserRecord]
          /\ sobs \in [{} -> User]
      BY DEF Init
    <3>2. QED
      BY <1>1, <3>1
  <2>2. /\ queue \in Seq([type : {"spawn", "unspawn"}, sob : Nat, by : User])
        /\ avail \in Seq(Nat)
    BY DEF Init
  <2>3. /\ connects \in [User -> 0..MaxConnects]
        /\ requests \in [User -> 0..MaxRequests]
        /\ restarts \in 0..MaxRestarts
    BY BoundsAssumption DEF Init
  <2>4. /\ connected \subseteq User
        /\ processing \in BOOLEAN
        /\ nextId \in Nat \ {0}
        /\ raced \subseteq User
    <3>1. connected = {} /\ processing = FALSE /\ nextId = 2 /\ raced = {}
      BY DEF Init
    <3>2. connected \subseteq User /\ nextId \in Nat \ {0} /\ raced \subseteq User
      BY <3>1
    <3>3. processing \in BOOLEAN
      BY <3>1, Zenon
    <3>4. QED
      BY <3>2, <3>3
  <2>5. QED
    BY <2>1, <2>2, <2>3, <2>4 DEF TypeOK
<1>4. IdsAccounted
  BY <1>1, <1>2 DEF Init, IdsAccounted
<1>5. SobIsOwn /\ TableFollows /\ NoOrphanUnlessRaced /\ GoneUnlessRaced
  BY <1>1 DEF SobIsOwn, TableFollows, NoOrphanUnlessRaced, GoneUnlessRaced
<1>6. Loaded /\ OneRequest
  BY <1>1 DEF Init, Loaded, OneRequest
<1>7. QED
  BY <1>3, <1>4, <1>5, <1>6 DEF IInv

LEMMA NextIInv ==
  ASSUME IInv, [Next]_vars
  PROVE  IInv'
<1>1. CASE \E u \in User : Connect(u)
  BY <1>1, ConnectStep
<1>2. CASE \E u \in User : ListCharacters(u)
  BY <1>2, ListCharactersStep
<1>3. CASE \E u \in User : RequestSpawn(u)
  BY <1>3, RequestSpawnStep
<1>4. CASE \E u \in User : Disconnect(u)
  BY <1>4, DisconnectStep
<1>5. CASE UserLogin
  BY <1>5, UserLoginStep
<1>6. CASE UserLogout
  BY <1>6, UserLogoutStep
<1>7. CASE UserLoginRefused \/ UserLogoutFails
  BY <1>7, NothingDoneStep
<1>8. CASE Restart
  BY <1>8, RestartStep
<1>9. CASE BeginProcessing \/ EndProcessing \/ UNCHANGED vars
  BY <1>9, BeginEndProcessingStep
<1>10. QED
  BY <1>1, <1>2, <1>3, <1>4, <1>5, <1>6, <1>7, <1>8, <1>9 DEF Next

\* Memory, table, sobs, ids and queue hang together in every reachable state,
\* restarts included.
THEOREM SessionInvariant == Spec => []IInv
<1>1. Init => IInv
  BY InitIInv
<1>2. IInv /\ [Next]_vars => IInv'
  BY NextIInv
<1>3. QED
  BY <1>1, <1>2, PTL DEF Spec

\* Every variable keeps its shape.
THEOREM TypeCorrect == Spec => []TypeOK
<1>1. IInv => TypeOK
  BY DEF IInv
<1>2. QED
  BY <1>1, SessionInvariant, PTL

\* No user is left with the id of a deleted or of a foreign sob.
THEOREM SobIdIsOwn == Spec => []SobIsOwn
<1>1. IInv => SobIsOwn
  BY DEF IInv
<1>2. QED
  BY <1>1, SessionInvariant, PTL

\* CSobIdManager neither loses an id nor hands one out twice.
THEOREM NoIdLostOrShared == Spec => []IdsAccounted
<1>1. IInv => IdsAccounted
  BY DEF IInv
<1>2. QED
  BY <1>1, SessionInvariant, PTL

\* The table "users" is never behind m_Users.
THEOREM TableIsCurrent == Spec => []TableFollows
<1>1. IInv => TableFollows
  BY DEF IInv
<1>2. QED
  BY <1>1, SessionInvariant, PTL

\* A user who waits for the server never owns a sob the server lost track of
\* (userLogin, userLogout).
THEOREM PatientUsersKeepTheirSob == Spec => []NoOrphanUnlessRaced
<1>1. IInv => NoOrphanUnlessRaced
  BY DEF IInv
<1>2. QED
  BY <1>1, SessionInvariant, PTL

\* When the unspawn request of such a user's disconnection is processed, no sob
\* is left (cbDisconnection, userLogout).
THEOREM PatientUsersLeaveNothing == Spec => []GoneUnlessRaced
<1>1. IInv => GoneUnlessRaced
  BY DEF IInv
<1>2. QED
  BY <1>1, SessionInvariant, PTL

\* Messages to a sob go to its player, whatever stale rows the table holds.
THEOREM MessagesReachThePlayer == Spec => []RoutesToPlayer
<1>1. IInv => RoutesToPlayer
  <2> SUFFICES ASSUME IInv, NEW u \in DOMAIN users, users[u].sobId # NoSob
               PROVE  UserBySobId(users[u].sobId) = {u}
    BY DEF RoutesToPlayer
  <2>1. {v \in DOMAIN users : users[v].sobId = users[u].sobId} = {u}
    BY DEF IInv, SobIsOwn
  <2>2. QED
    BY <2>1 DEF UserBySobId
<1>2. QED
  BY <1>1, SessionInvariant, PTL

=============================================================================
