-------------------------- MODULE ClientFlowProofs --------------------------
(***************************************************************************)
(* Machine-checked proofs about ClientFlow, for any number of characters.  *)
(***************************************************************************)
EXTENDS ClientFlow, TLAPS

-----------------------------------------------------------------------------
(* The inductive invariant.                                                *)

\* The windows before there is a connection.
Menu == {"MainMenu", "Options", "ConnectLS", "ShardList"}

\* While one of them is shown, or nothing yet, nothing of the game is there.
Before ==
  start = "no" \/ shown \cap Menu # {} =>
    /\ link = "none" /\ toServer = <<>> /\ toClient = <<>>
    /\ ~self /\ ~chosen /\ ~undefined
    /\ tasks["PreGame"] = 0

\* The tasks when the program starts, and in the first menu.
AtStart ==
  /\ start = "no" => shown = {} /\ tasks = [t \in Task |-> 0]
  /\ shown \cap {"MainMenu", "Options"} # {} =>
       tasks["Network"] = IF start = "failed" THEN 1 ELSE 0

\* No task is on the lists twice, but for the two cases GameAlone names.
Counts ==
  \A t \in Task :
    tasks[t] > 1 => (t = "Network" /\ start = "failed") \/ (t = "Game" /\ late)

\* How many spawn requests, and answers to one, are under way.
NoRequest  == \A i \in 1..Len(toServer) : toServer[i] # "spawn"
NoAnswer   == \A i \in 1..Len(toClient) : toClient[i].kind # "spawn"
OneRequest == \A i, j \in 1..Len(toServer) :
                toServer[i] = "spawn" /\ toServer[j] = "spawn" => i = j
OneAnswer  == \A i, j \in 1..Len(toClient) :
                toClient[i].kind = "spawn" /\ toClient[j].kind = "spawn" => i = j

\* Before the choice nobody speaks of a spawn, and no data is freed.
AllAlive == \A i \in 1..Len(items) : items[i].alive
Unchosen ==
  ~chosen =>
    /\ ~late
    /\ tasks["Game"] = 0 \/ undefined
    /\ NoRequest /\ NoAnswer /\ AllAlive

\* A choice that was not late was the only one: one request or one answer is
\* under way, or the game runs.
OneChoice ==
  chosen /\ ~late =>
    /\ shown = {}
    /\ OneRequest /\ OneAnswer
    /\ NoRequest \/ NoAnswer
    /\ tasks["Game"] > 0 => NoRequest /\ NoAnswer

IInv ==
  /\ TypeOK /\ OneScreen /\ Before /\ AtStart /\ Counts /\ Unchosen /\ OneChoice
  /\ GameAlone /\ ChoiceIsSafe

\* The second invariant, about what the client is told of its characters.
\* Before a connection there is nothing.
Quiet == link = "none" => items = <<>> /\ toServer = <<>> /\ toClient = <<>>

\* The list is asked for by the first request, and only by that one.
Asked      == toServer # <<>> /\ toServer[1] = "LGCL"
AskedFirst == \A i \in 2..Len(toServer) : toServer[i] # "LGCL"

\* What a message makes of a client that knows the first characters.
Brings(message, before, after) ==
  \/ message.kind = "LGCL" /\ before = 0 /\ after = message.characters
  \/ message.kind = "CH_CR_ACK" /\ ~Accepted(message) /\ after = before
  \/ /\ message.kind = "CH_CR_ACK" /\ Accepted(message)
     /\ message.characters = before + 1 /\ after = before + 1

Listed(n) == [i \in 1..n |-> Item(i)]

\* known[k] characters are known to the client after the next k messages; the
\* last one brings it to what the server has, once the list was asked for.
Told(known) ==
  /\ items = Listed(known[0])
  /\ \A k \in 1..Len(toClient) : Brings(toClient[k], known[k - 1], known[k])
  /\ known[Len(toClient)] = IF Asked THEN 0 ELSE account

OnTheWay ==
  link = "open" /\ ~chosen =>
    AskedFirst /\ \E known \in [0..Len(toClient) -> 0..account] : Told(known)

\* The third invariant, about what becomes of a choice. Over an open connection
\* the network task reads, whichever way led to it.
Reading ==
  /\ shown \cap {"ConnectLS", "ShardList"} # {} => tasks["Network"] > 0
  /\ link = "open" => online /\ tasks["Network"] > 0

\* A choice is on its way there or back, or the game runs, unless it was refused.
ChoiceUnderWay ==
  chosen /\ link = "open" /\ ~undefined =>
    tasks["Game"] > 0 \/ refused \/ ~NoRequest \/ ~NoAnswer

-----------------------------------------------------------------------------
(* Facts about lists of tasks and about connections.                       *)

\* Adding tasks to the lists.
LEMMA Adding ==
  ASSUME NEW ts \in [Task -> Nat], NEW names
  PROVE  /\ Added(ts, names) \in [Task -> Nat]
         /\ \A t \in Task :
              Added(ts, names)[t] = IF t \in names THEN ts[t] + 1 ELSE ts[t]
BY DEF Added

\* A message behind the others.
LEMMA Appending ==
  ASSUME NEW S, NEW s \in Seq(S), NEW e \in S
  PROVE  /\ Append(s, e) \in Seq(S)
         /\ Len(Append(s, e)) = Len(s) + 1
         /\ \A i \in 1..Len(s) : Append(s, e)[i] = s[i]
         /\ Append(s, e)[Len(s) + 1] = e
OBVIOUS

\* The first message is taken.
LEMMA Taking ==
  ASSUME NEW S, NEW s \in Seq(S), s # <<>>
  PROVE  /\ Len(s) \in Nat /\ Len(s) >= 1 /\ Head(s) = s[1] /\ Head(s) \in S
         /\ Tail(s) \in Seq(S)
         /\ Len(Tail(s)) = Len(s) - 1
         /\ \A i \in 1..(Len(s) - 1) : Tail(s)[i] = s[i + 1]
OBVIOUS

\* The messages of the connection and the items of CharBox.
ToServer == {"LGCL", "CH_CR", "spawn"}
ToClient == [kind : {"LGCL", "CH_CR_ACK", "spawn"}, characters : Nat]
ItemData == [character : Nat, alive : BOOLEAN]

\* More items behind the others.
LEMMA Joining ==
  ASSUME NEW a \in Seq(ItemData), NEW b \in Seq(ItemData)
  PROVE  /\ a \o b \in Seq(ItemData)
         /\ Len(a \o b) = Len(a) + Len(b)
         /\ \A i \in 1..Len(a) : (a \o b)[i] = a[i]
         /\ \A i \in 1..Len(b) : (a \o b)[Len(a) + i] = b[i]
OBVIOUS

\* New items are alive.
LEMMA ListsMore ==
  ASSUME NEW a \in Seq(ItemData), NEW b \in Seq(ItemData),
         \A i \in 1..Len(a) : a[i].alive, \A i \in 1..Len(b) : b[i].alive
  PROVE  \A i \in 1..Len(a \o b) : (a \o b)[i].alive
<1> SUFFICES ASSUME NEW i \in 1..Len(a \o b)
             PROVE  (a \o b)[i].alive
  OBVIOUS
<1>1. Len(a) \in Nat /\ Len(b) \in Nat /\ i \in 1..(Len(a) + Len(b))
  BY Joining
<1>2. CASE i \in 1..Len(a)
  BY <1>2, Joining
<1>3. CASE i - Len(a) \in 1..Len(b)
  <2>1. (a \o b)[Len(a) + (i - Len(a))] = b[i - Len(a)]
    BY <1>3, Joining
  <2>2. Len(a) + (i - Len(a)) = i
    BY <1>1
  <2> QED
    BY <1>3, <2>1, <2>2
<1> QED
  BY <1>1, <1>2, <1>3

\* One new item is alive.
LEMMA ListsOne ==
  ASSUME NEW a \in Seq(ItemData), NEW e \in ItemData,
         \A i \in 1..Len(a) : a[i].alive, e.alive
  PROVE  \A i \in 1..Len(Append(a, e)) : Append(a, e)[i].alive
<1>1. Len(a) \in Nat
  OBVIOUS
<1>2. ASSUME NEW i \in 1..Len(Append(a, e))
      PROVE  i \in 1..Len(a) \/ i = Len(a) + 1
  BY <1>1, Appending
<1> QED
  BY <1>1, <1>2, Appending

\* A list of new items.
LEMMA NewItems ==
  ASSUME NEW n \in Nat
  PROVE  /\ [i \in 1..n |-> Item(i)] \in Seq(ItemData)
         /\ Len([i \in 1..n |-> Item(i)]) = n
         /\ \A i \in 1..n : [j \in 1..n |-> Item(j)][i].alive
<1>1. \A i \in 1..n : Item(i) \in ItemData /\ Item(i).alive
  BY DEF Item, ItemData
<1> QED
  BY <1>1

\* The items that stay after a choice.
LEMMA Leaving ==
  ASSUME NEW list \in Seq(ItemData)
  PROVE  Left(list) \in Seq(ItemData)
<1>1. Len(list) \div 2 \in Nat
  OBVIOUS
<1>2. ASSUME NEW i \in 1..(Len(list) \div 2)
      PROVE  [list[2 * i] EXCEPT !.alive = FALSE] \in ItemData
  <2>1. 2 * i \in 1..Len(list)
    OBVIOUS
  <2>2. list[2 * i] \in ItemData
    BY <2>1
  <2> QED
    BY <2>2 DEF ItemData
<1> QED
  BY <1>1, <1>2 DEF Left

\* What Send leaves of the connection.
LEMMA Sending ==
  ASSUME NEW m \in ToServer, toServer \in Seq(ToServer), Send(m)
  PROVE  /\ toServer' \in Seq(ToServer)
         /\ \A i \in 1..Len(toServer') :
              \/ i \in 1..Len(toServer) /\ toServer'[i] = toServer[i]
              \/ i = Len(toServer) + 1 /\ toServer'[i] = m
<1>1. CASE toServer' = toServer
  BY <1>1
<1>2. CASE toServer' = Append(toServer, m)
  <2>1. Len(toServer) \in Nat
    OBVIOUS
  <2>2. /\ toServer' \in Seq(ToServer) /\ Len(toServer') = Len(toServer) + 1
        /\ \A i \in 1..Len(toServer) : toServer'[i] = toServer[i]
        /\ toServer'[Len(toServer) + 1] = m
    BY <1>2, Appending
  <2>3. \A i \in 1..Len(toServer') : i \in 1..Len(toServer) \/ i = Len(toServer) + 1
    BY <2>1, <2>2
  <2> QED
    BY <2>2, <2>3
<1> QED
  BY <1>1, <1>2 DEF Send

\* What CNetworkTask::connect leaves when nothing was under way.
LEMMA Connecting ==
  ASSUME toServer = <<>>, Identified \/ NotConnected
  PROVE  /\ toServer' \in Seq(ToServer) /\ NoRequest'
         /\ link' \in {"open", "broken"} /\ online' \in BOOLEAN
<1>1. CASE Identified
  BY <1>1 DEF Identified, ToServer, NoRequest
<1>2. CASE NotConnected
  <2>1. toServer' = <<>> /\ link' = "broken"
    BY <1>2 DEF NotConnected
  <2>2. online' \in BOOLEAN
    BY <1>2, Zenon DEF NotConnected
  <2> QED
    BY <2>1, <2>2 DEF NoRequest
<1> QED
  BY <1>1, <1>2

\* What is taken from the connection to the client.
LEMMA TakingAnswer ==
  ASSUME NEW kind, toClient \in Seq(ToClient), Take(kind)
  PROVE  /\ Len(toClient) \in Nat /\ 1 \in 1..Len(toClient)
         /\ toClient # <<>> /\ Head(toClient) = toClient[1]
         /\ toClient[1] \in ToClient /\ toClient[1].kind = kind
         /\ toClient' \in Seq(ToClient) /\ Len(toClient') = Len(toClient) - 1
         /\ \A i \in 1..Len(toClient') :
              i + 1 \in 1..Len(toClient) /\ toClient'[i] = toClient[i + 1]
<1>1. toClient # <<>> /\ Head(toClient).kind = kind /\ toClient' = Tail(toClient)
  BY DEF Take
<1>2. /\ Len(toClient) \in Nat /\ Len(toClient) >= 1 /\ Head(toClient) = toClient[1]
      /\ Head(toClient) \in ToClient
      /\ toClient' \in Seq(ToClient) /\ Len(toClient') = Len(toClient) - 1
      /\ \A i \in 1..(Len(toClient) - 1) : toClient'[i] = toClient[i + 1]
  BY <1>1, Taking
<1> QED
  BY <1>1, <1>2

\* What an answer does to both connections.
LEMMA Answering ==
  ASSUME NEW kind \in {"LGCL", "CH_CR_ACK", "spawn"}, NEW characters \in Nat,
         toServer \in Seq(ToServer), toClient \in Seq(ToClient),
         Answer(kind, characters)
  PROVE  /\ toServer # <<>> /\ 1 \in 1..Len(toServer) /\ Head(toServer) = toServer[1]
         /\ toServer' \in Seq(ToServer)
         /\ \A i \in 1..Len(toServer') :
              i + 1 \in 1..Len(toServer) /\ toServer'[i] = toServer[i + 1]
         /\ toClient' \in Seq(ToClient)
         /\ \A i \in 1..Len(toClient') :
              \/ i \in 1..Len(toClient) /\ toClient'[i] = toClient[i]
              \/ i = Len(toClient) + 1 /\ toClient'[i].kind = kind
<1> DEFINE m == [kind |-> kind, characters |-> characters]
<1>1. m \in ToClient /\ m.kind = kind
  BY DEF ToClient
<1>2. toServer # <<>> /\ toServer' = Tail(toServer) /\ toClient' = Append(toClient, m)
  BY DEF Answer
<1> HIDE DEF m
<1>3. /\ Len(toServer) \in Nat /\ Len(toServer) >= 1 /\ Head(toServer) = toServer[1]
      /\ toServer' \in Seq(ToServer) /\ Len(toServer') = Len(toServer) - 1
      /\ \A i \in 1..(Len(toServer) - 1) : toServer'[i] = toServer[i + 1]
  BY <1>2, Taking
<1>4. /\ toClient' \in Seq(ToClient) /\ Len(toClient') = Len(toClient) + 1
      /\ \A i \in 1..Len(toClient) : toClient'[i] = toClient[i]
      /\ toClient'[Len(toClient) + 1] = m
  BY <1>1, <1>2, Appending
<1>5. \A i \in 1..Len(toClient') : i \in 1..Len(toClient) \/ i = Len(toClient) + 1
  <2>1. Len(toClient) \in Nat
    OBVIOUS
  <2> QED
    BY <1>4, <2>1
<1> QED
  BY <1>1, <1>2, <1>3, <1>4, <1>5

\* The server takes a request.
LEMMA TakenRequests ==
  ASSUME toServer \in Seq(ToServer), toServer' \in Seq(ToServer), 1 \in 1..Len(toServer),
         \A i \in 1..Len(toServer') :
           i + 1 \in 1..Len(toServer) /\ toServer'[i] = toServer[i + 1]
  PROVE  /\ NoRequest => NoRequest'
         /\ OneRequest => OneRequest'
         /\ toServer[1] = "spawn" => ~NoRequest /\ (OneRequest => NoRequest')
<1>1. NoRequest => NoRequest'
  BY DEF NoRequest
<1>2. ASSUME OneRequest, NEW i \in 1..Len(toServer'), NEW j \in 1..Len(toServer'),
             toServer'[i] = "spawn", toServer'[j] = "spawn"
      PROVE  i = j
  <2>1. i + 1 = j + 1
    BY <1>2 DEF OneRequest
  <2> QED
    BY <2>1
<1>3. ASSUME toServer[1] = "spawn"
      PROVE  ~NoRequest
  BY <1>3 DEF NoRequest
<1>4. ASSUME toServer[1] = "spawn", OneRequest, NEW i \in 1..Len(toServer'),
             toServer'[i] = "spawn"
      PROVE  FALSE
  <2>1. i + 1 = 1
    BY <1>4 DEF OneRequest
  <2> QED
    BY <2>1
<1>5. OneRequest => OneRequest'
  BY <1>2 DEF OneRequest
<1>6. toServer[1] = "spawn" /\ OneRequest => NoRequest'
  BY <1>4 DEF NoRequest
<1> QED
  BY <1>1, <1>3, <1>5, <1>6

\* The client takes an answer.
LEMMA TakenAnswers ==
  ASSUME toClient \in Seq(ToClient), toClient' \in Seq(ToClient), 1 \in 1..Len(toClient),
         \A i \in 1..Len(toClient') :
           i + 1 \in 1..Len(toClient) /\ toClient'[i] = toClient[i + 1]
  PROVE  /\ NoAnswer => NoAnswer'
         /\ OneAnswer => OneAnswer'
         /\ toClient[1].kind = "spawn" => ~NoAnswer /\ (OneAnswer => NoAnswer')
<1>1. NoAnswer => NoAnswer'
  BY DEF NoAnswer
<1>2. ASSUME OneAnswer, NEW i \in 1..Len(toClient'), NEW j \in 1..Len(toClient'),
             toClient'[i].kind = "spawn", toClient'[j].kind = "spawn"
      PROVE  i = j
  <2>1. i + 1 = j + 1
    BY <1>2 DEF OneAnswer
  <2> QED
    BY <2>1
<1>3. ASSUME toClient[1].kind = "spawn"
      PROVE  ~NoAnswer
  BY <1>3 DEF NoAnswer
<1>4. ASSUME toClient[1].kind = "spawn", OneAnswer, NEW i \in 1..Len(toClient'),
             toClient'[i].kind = "spawn"
      PROVE  FALSE
  <2>1. i + 1 = 1
    BY <1>4 DEF OneAnswer
  <2> QED
    BY <2>1
<1>5. OneAnswer => OneAnswer'
  BY <1>2 DEF OneAnswer
<1>6. toClient[1].kind = "spawn" /\ OneAnswer => NoAnswer'
  BY <1>4 DEF NoAnswer
<1> QED
  BY <1>1, <1>3, <1>5, <1>6

-----------------------------------------------------------------------------
LEMMA InitInv == Init => IInv
<1> SUFFICES ASSUME Init PROVE IInv
  OBVIOUS
<1> USE FlowAssumption DEF Init
<1>1. TypeOK
  <2>1. account \in Nat /\ creates \in 0..MaxCreates
    OBVIOUS
  <2>2. tasks \in [Task -> Nat] /\ shown \subseteq Window
    OBVIOUS
  <2>3. /\ toServer \in Seq({"LGCL", "CH_CR", "spawn"})
        /\ toClient \in Seq([kind : {"LGCL", "CH_CR_ACK", "spawn"}, characters : Nat])
    OBVIOUS
  <2>4. items \in Seq([character : Nat, alive : BOOLEAN])
    OBVIOUS
  <2>5. /\ online \in BOOLEAN /\ self \in BOOLEAN /\ refused \in BOOLEAN
        /\ chosen \in BOOLEAN /\ late \in BOOLEAN /\ undefined \in BOOLEAN
    BY Zenon
  <2> QED
    BY <2>1, <2>2, <2>3, <2>4, <2>5 DEF TypeOK
<1>2. OneScreen /\ Before /\ AtStart /\ Counts
  BY DEF OneScreen, Before, AtStart, Counts, Menu, Task
<1>3. Unchosen /\ OneChoice /\ GameAlone /\ ChoiceIsSafe
  BY DEF Unchosen, OneChoice, NoRequest, NoAnswer, AllAlive, GameAlone, ChoiceIsSafe, Task
<1> QED
  BY <1>1, <1>2, <1>3 DEF IInv

LEMMA NextInv ==
  ASSUME IInv, [Next]_vars
  PROVE  IInv'
<1> USE FlowAssumption
<1>1. ASSUME ~undefined, StartMenu
      PROVE  IInv'
  <2>1. /\ tasks \in [Task -> Nat] /\ items \in Seq(ItemData)
        /\ toServer \in Seq(ToServer) /\ toClient \in Seq(ToClient)
    BY <1>1 DEF StartMenu, IInv, TypeOK, ItemData, ToServer, ToClient
  <2>2. /\ tasks' \in [Task -> Nat]
        /\ \A t \in Task : tasks'[t] = IF t \in {"Intro", "Background"} THEN tasks[t] + 1 ELSE tasks[t]
    BY <1>1, <2>1, Adding DEF StartMenu
  <2>3. TypeOK'
    BY <1>1, <2>1, <2>2
       DEF StartMenu, IInv, TypeOK, local, Window, ItemData, ToServer, ToClient
  <2>4. OneScreen' /\ Before' /\ AtStart'
    BY <1>1, <2>1, <2>2
       DEF StartMenu, IInv, OneScreen, Before, AtStart, Menu, Window, local, Task
  <2>5. Counts'
    BY <1>1, <2>1, <2>2 DEF StartMenu, IInv, Counts, Task, Menu, local, AtStart
  <2>6. Unchosen' /\ OneChoice'
    BY <1>1, <2>1, <2>2
       DEF StartMenu, IInv, Unchosen, OneChoice, NoRequest, NoAnswer, Before, Menu,
           AtStart, local, Task, TypeOK, OneRequest, OneAnswer, AllAlive
  <2>7. GameAlone' /\ ChoiceIsSafe'
    BY <1>1, <2>1, <2>2
       DEF StartMenu, IInv, GameAlone, ChoiceIsSafe, Unchosen, OneChoice, NoRequest,
           NoAnswer, OneScreen, Before, AtStart, Menu, Counts, Task, local, TypeOK,
           OneRequest, OneAnswer, AllAlive
  <2> QED
    BY <2>3, <2>4, <2>5, <2>6, <2>7 DEF IInv
<1>2. ASSUME ~undefined, StartCookie
      PROVE  IInv'
  <2>1. /\ tasks \in [Task -> Nat] /\ items \in Seq(ItemData)
        /\ toServer \in Seq(ToServer) /\ toClient \in Seq(ToClient)
    BY <1>2 DEF StartCookie, IInv, TypeOK, ItemData, ToServer, ToClient
  <2>2. /\ tasks' \in [Task -> Nat]
        /\ \A t \in Task : tasks'[t] = IF t \in {"Network", "PreGame"} THEN tasks[t] + 1 ELSE tasks[t]
    BY <1>2, <2>1, Adding DEF StartCookie
  <2>3. /\ toServer' \in Seq(ToServer) /\ link' \in {"open", "broken"}
        /\ online' \in BOOLEAN /\ NoRequest'
    BY <1>2, <2>1, Connecting DEF StartCookie, IInv, Before, Menu, Switch
  <2>4. TypeOK'
    BY <1>2, <2>1, <2>2, <2>3
       DEF StartCookie, IInv, TypeOK, local, Window, ItemData, ToServer, ToClient
  <2>5. OneScreen' /\ Before' /\ AtStart'
    BY <1>2, <2>1, <2>2, <2>3
       DEF StartCookie, IInv, OneScreen, Before, AtStart, Menu, Window, local, Task
  <2>6. Counts'
    BY <1>2, <2>1, <2>2, <2>3 DEF StartCookie, IInv, Counts, Task, Menu, local, AtStart
  <2>7. Unchosen' /\ OneChoice'
    BY <1>2, <2>1, <2>2, <2>3
       DEF StartCookie, IInv, Unchosen, OneChoice, NoRequest, NoAnswer, Before, Menu,
           AtStart, local, Task, TypeOK, OneRequest, OneAnswer, AllAlive
  <2>8. GameAlone' /\ ChoiceIsSafe'
    BY <1>2, <2>1, <2>2, <2>3
       DEF StartCookie, IInv, GameAlone, ChoiceIsSafe, Unchosen, OneChoice, NoRequest,
           NoAnswer, OneScreen, Before, AtStart, Menu, Counts, Task, local, TypeOK,
           OneRequest, OneAnswer, AllAlive
  <2> QED
    BY <2>4, <2>5, <2>6, <2>7, <2>8 DEF IInv
<1>3. ASSUME ~undefined, StartFailed
      PROVE  IInv'
  <2>1. /\ tasks \in [Task -> Nat] /\ items \in Seq(ItemData)
        /\ toServer \in Seq(ToServer) /\ toClient \in Seq(ToClient)
    BY <1>3 DEF StartFailed, Unreachable, IInv, TypeOK, ItemData, ToServer, ToClient
  <2>2. /\ tasks' \in [Task -> Nat]
        /\ \A t \in Task : tasks'[t] = IF t \in {"Network", "Intro", "Background"} THEN tasks[t] + 1 ELSE tasks[t]
    BY <1>3, <2>1, Adding DEF StartFailed
  <2>3. TypeOK'
    BY <1>3, <2>1, <2>2
       DEF StartFailed, Unreachable, IInv, TypeOK, local, Window, ItemData, ToServer,
           ToClient
  <2>4. OneScreen' /\ Before' /\ AtStart'
    BY <1>3, <2>1, <2>2
       DEF StartFailed, Unreachable, IInv, OneScreen, Before, AtStart, Menu, Window,
           local, Task
  <2>5. Counts'
    BY <1>3, <2>1, <2>2
       DEF StartFailed, Unreachable, IInv, Counts, Task, Menu, local, AtStart
  <2>6. Unchosen' /\ OneChoice'
    BY <1>3, <2>1, <2>2
       DEF StartFailed, Unreachable, IInv, Unchosen, OneChoice, NoRequest, NoAnswer,
           Before, Menu, AtStart, local, Task, TypeOK, OneRequest, OneAnswer, AllAlive
  <2>7. GameAlone' /\ ChoiceIsSafe'
    BY <1>3, <2>1, <2>2
       DEF StartFailed, Unreachable, IInv, GameAlone, ChoiceIsSafe, Unchosen, OneChoice,
           NoRequest, NoAnswer, OneScreen, Before, AtStart, Menu, Counts, Task, local,
           TypeOK, OneRequest, OneAnswer, AllAlive
  <2> QED
    BY <2>3, <2>4, <2>5, <2>6, <2>7 DEF IInv
<1>4. ASSUME ~undefined, Options
      PROVE  IInv'
  <2>1. TypeOK'
    BY <1>4 DEF Options, Switch, IInv, TypeOK, local, Window, ItemData, ToServer, ToClient
  <2>2. OneScreen' /\ Before' /\ AtStart'
    BY <1>4
       DEF Options, Switch, IInv, OneScreen, Before, AtStart, Menu, Window, local, Task
  <2>3. Counts'
    BY <1>4 DEF Options, Switch, IInv, Counts, Task, Menu, local, AtStart
  <2>4. Unchosen' /\ OneChoice'
    BY <1>4
       DEF Options, Switch, IInv, Unchosen, OneChoice, NoRequest, NoAnswer, Before, Menu,
           AtStart, local, Task, TypeOK, OneRequest, OneAnswer, AllAlive
  <2>5. GameAlone' /\ ChoiceIsSafe'
    BY <1>4
       DEF Options, Switch, IInv, GameAlone, ChoiceIsSafe, Unchosen, OneChoice, NoRequest,
           NoAnswer, OneScreen, Before, AtStart, Menu, Counts, Task, local, TypeOK,
           OneRequest, OneAnswer, AllAlive
  <2> QED
    BY <2>1, <2>2, <2>3, <2>4, <2>5 DEF IInv
<1>5. ASSUME ~undefined, OptionsEnd
      PROVE  IInv'
  <2>1. TypeOK'
    BY <1>5
       DEF OptionsEnd, Switch, IInv, TypeOK, local, Window, ItemData, ToServer, ToClient
  <2>2. OneScreen' /\ Before' /\ AtStart'
    BY <1>5
       DEF OptionsEnd, Switch, IInv, OneScreen, Before, AtStart, Menu, Window, local, Task
  <2>3. Counts'
    BY <1>5 DEF OptionsEnd, Switch, IInv, Counts, Task, Menu, local, AtStart
  <2>4. Unchosen' /\ OneChoice'
    BY <1>5
       DEF OptionsEnd, Switch, IInv, Unchosen, OneChoice, NoRequest, NoAnswer, Before,
           Menu, AtStart, local, Task, TypeOK, OneRequest, OneAnswer, AllAlive
  <2>5. GameAlone' /\ ChoiceIsSafe'
    BY <1>5
       DEF OptionsEnd, Switch, IInv, GameAlone, ChoiceIsSafe, Unchosen, OneChoice,
           NoRequest, NoAnswer, OneScreen, Before, AtStart, Menu, Counts, Task, local,
           TypeOK, OneRequest, OneAnswer, AllAlive
  <2> QED
    BY <2>1, <2>2, <2>3, <2>4, <2>5 DEF IInv
<1>6. ASSUME ~undefined, PlayOffline
      PROVE  IInv'
  <2>1. /\ tasks \in [Task -> Nat] /\ items \in Seq(ItemData)
        /\ toServer \in Seq(ToServer) /\ toClient \in Seq(ToClient)
    BY <1>6 DEF PlayOffline, IInv, TypeOK, ItemData, ToServer, ToClient
  <2>2. /\ tasks' \in [Task -> Nat]
        /\ \A t \in Task : tasks'[t] = IF t \in {"Game"} THEN tasks[t] + 1 ELSE tasks[t]
    <3>1. tasks' = Added(tasks, {"Game"})
      BY <1>6 DEF PlayOffline
    <3> QED
      BY <2>1, <3>1, Adding
  <2>3. /\ tasks["Game"] = 0 /\ ~chosen /\ ~late /\ undefined' /\ link = "none"
    <3>1. shown \cap Menu # {}
      BY <1>6 DEF PlayOffline, Menu
    <3>2. link = "none" /\ ~self /\ ~chosen
      BY <3>1 DEF IInv, Before
    <3>3. ~late /\ tasks["Game"] = 0
      BY <1>6, <3>2 DEF IInv, Unchosen
    <3> QED
      BY <1>6, <3>2, <3>3 DEF PlayOffline
  <2>4. TypeOK'
    BY <1>6, <2>1, <2>2, <2>3
       DEF PlayOffline, IInv, TypeOK, local, Window, ItemData, ToServer, ToClient
  <2>5. OneScreen' /\ Before' /\ AtStart'
    BY <1>6, <2>1, <2>2, <2>3
       DEF PlayOffline, IInv, OneScreen, Before, AtStart, Menu, Window, local, Task
  <2>6. Counts'
    <3>1. UNCHANGED <<start, late>> /\ tasks'["Game"] = 1
      BY <1>6, <2>2, <2>3 DEF PlayOffline, Task
    <3> QED
      BY <2>2, <3>1 DEF IInv, Counts
  <2>7. Unchosen' /\ OneChoice'
    <3>1. UNCHANGED <<chosen, late, items, toServer, toClient>>
      BY <1>6 DEF PlayOffline
    <3>2. NoRequest' /\ NoAnswer' /\ AllAlive'
      BY <2>3, <3>1 DEF IInv, Unchosen, NoRequest, NoAnswer, AllAlive
    <3> QED
      BY <2>3, <3>1, <3>2 DEF Unchosen, OneChoice
  <2>8. GameAlone' /\ ChoiceIsSafe'
    <3>1. shown' = {} /\ UNCHANGED <<link, start, late>>
      BY <1>6 DEF PlayOffline, IInv, OneScreen
    <3>2. tasks'["Game"] = 1
      BY <2>2, <2>3 DEF Task
    <3> QED
      BY <2>3, <2>6, <3>1, <3>2 DEF GameAlone, ChoiceIsSafe, Counts
  <2> QED
    BY <2>4, <2>5, <2>6, <2>7, <2>8 DEF IInv
<1>7. ASSUME ~undefined, PlayOnline
      PROVE  IInv'
  <2>1. /\ tasks \in [Task -> Nat] /\ items \in Seq(ItemData)
        /\ toServer \in Seq(ToServer) /\ toClient \in Seq(ToClient)
    BY <1>7 DEF PlayOnline, Switch, IInv, TypeOK, ItemData, ToServer, ToClient
  <2>2. /\ tasks' \in [Task -> Nat]
        /\ \A t \in Task : tasks'[t] = IF t \in {"Network"} THEN tasks[t] + 1 ELSE tasks[t]
    BY <1>7, <2>1, Adding DEF PlayOnline
  <2>3. TypeOK'
    BY <1>7, <2>1, <2>2
       DEF PlayOnline, Switch, IInv, TypeOK, local, Window, ItemData, ToServer, ToClient
  <2>4. OneScreen' /\ Before' /\ AtStart'
    BY <1>7, <2>1, <2>2
       DEF PlayOnline, Switch, IInv, OneScreen, Before, AtStart, Menu, Window, local, Task
  <2>5. Counts'
    <3>1. UNCHANGED <<start, late>> /\ tasks["Network"] = IF start = "failed" THEN 1 ELSE 0
      BY <1>7 DEF PlayOnline, Switch, IInv, AtStart
    <3>2. ASSUME NEW t \in Task, tasks'[t] > 1
          PROVE  IF t = "Network" THEN start = "failed" ELSE tasks[t] > 1
      BY <2>2, <3>1, <3>2
    <3> QED
      BY <3>1, <3>2 DEF IInv, Counts
  <2>6. Unchosen' /\ OneChoice'
    <3>1. ~chosen /\ UNCHANGED <<chosen, late, undefined, items, toServer, toClient>>
      BY <1>7 DEF PlayOnline, Switch, IInv, Before, Menu
    <3>2. NoRequest' /\ NoAnswer' /\ AllAlive' /\ ~late /\ (tasks["Game"] = 0 \/ undefined)
      BY <3>1 DEF IInv, Unchosen, NoRequest, NoAnswer, AllAlive
    <3>3. tasks'["Game"] = tasks["Game"]
      BY <2>2 DEF Task
    <3> QED
      BY <3>1, <3>2, <3>3 DEF Unchosen, OneChoice
  <2>7. GameAlone' /\ ChoiceIsSafe'
    BY <1>7, <2>1, <2>2
       DEF PlayOnline, Switch, IInv, GameAlone, ChoiceIsSafe, Unchosen, OneChoice,
           NoRequest, NoAnswer, OneScreen, Before, AtStart, Menu, Counts, Task, local,
           TypeOK, OneRequest, OneAnswer, AllAlive
  <2> QED
    BY <2>3, <2>4, <2>5, <2>6, <2>7 DEF IInv
<1>8. ASSUME ~undefined, Login
      PROVE  IInv'
  <2>1. TypeOK'
    BY <1>8 DEF Login, Switch, IInv, TypeOK, local, Window, ItemData, ToServer, ToClient
  <2>2. OneScreen' /\ Before' /\ AtStart'
    BY <1>8 DEF Login, Switch, IInv, OneScreen, Before, AtStart, Menu, Window, local, Task
  <2>3. Counts'
    BY <1>8 DEF Login, Switch, IInv, Counts, Task, Menu, local, AtStart
  <2>4. Unchosen' /\ OneChoice'
    BY <1>8
       DEF Login, Switch, IInv, Unchosen, OneChoice, NoRequest, NoAnswer, Before, Menu,
           AtStart, local, Task, TypeOK, OneRequest, OneAnswer, AllAlive
  <2>5. GameAlone' /\ ChoiceIsSafe'
    BY <1>8
       DEF Login, Switch, IInv, GameAlone, ChoiceIsSafe, Unchosen, OneChoice, NoRequest,
           NoAnswer, OneScreen, Before, AtStart, Menu, Counts, Task, local, TypeOK,
           OneRequest, OneAnswer, AllAlive
  <2> QED
    BY <2>1, <2>2, <2>3, <2>4, <2>5 DEF IInv
<1>9. ASSUME ~undefined, ConnectShard
      PROVE  IInv'
  <2>1. /\ tasks \in [Task -> Nat] /\ items \in Seq(ItemData)
        /\ toServer \in Seq(ToServer) /\ toClient \in Seq(ToClient)
    BY <1>9 DEF ConnectShard, Switch, IInv, TypeOK, ItemData, ToServer, ToClient
  <2>2. tasks' = Added(tasks, {"PreGame"})
    BY <1>9 DEF ConnectShard
  <2>3. /\ tasks' \in [Task -> Nat]
        /\ \A t \in Task : tasks'[t] = IF t \in {"PreGame"} THEN tasks[t] + 1 ELSE tasks[t]
    BY <2>1, <2>2, Adding
  <2>4. /\ toServer' \in Seq(ToServer) /\ link' \in {"open", "broken"}
        /\ online' \in BOOLEAN /\ NoRequest'
    BY <1>9, <2>1, Connecting DEF ConnectShard, IInv, Before, Menu, Switch
  <2>5. TypeOK'
    BY <1>9, <2>1, <2>2, <2>3, <2>4
       DEF ConnectShard, Switch, IInv, TypeOK, local, Window, ItemData, ToServer, ToClient
  <2>6. OneScreen' /\ Before' /\ AtStart'
    <3>1. shown' = {"SelectChar"} /\ UNCHANGED start /\ start # "no"
      BY <1>9 DEF ConnectShard, Switch, IInv, OneScreen, AtStart
    <3> QED
      BY <3>1 DEF OneScreen, Before, AtStart, Menu
  <2>7. Counts'
    <3>1. tasks["PreGame"] = 0 /\ UNCHANGED <<start, late>>
      BY <1>9 DEF ConnectShard, Switch, IInv, Before, Menu
    <3>2. ASSUME NEW t \in Task, tasks'[t] > 1
          PROVE  tasks[t] > 1
      BY <2>1, <2>3, <3>1, <3>2
    <3> QED
      BY <3>1, <3>2 DEF IInv, Counts
  <2>8. Unchosen' /\ OneChoice'
    BY <1>9, <2>1, <2>2, <2>3, <2>4
       DEF ConnectShard, Switch, IInv, Unchosen, OneChoice, NoRequest, NoAnswer, Before,
           Menu, AtStart, local, Task, TypeOK, OneRequest, OneAnswer, AllAlive
  <2>9. GameAlone' /\ ChoiceIsSafe'
    BY <1>9, <2>1, <2>2, <2>3, <2>4
       DEF ConnectShard, Switch, IInv, GameAlone, ChoiceIsSafe, Unchosen, OneChoice,
           NoRequest, NoAnswer, OneScreen, Before, AtStart, Menu, Counts, Task, local,
           TypeOK, OneRequest, OneAnswer, AllAlive
  <2> QED
    BY <2>5, <2>6, <2>7, <2>8, <2>9 DEF IInv
<1>10. ASSUME ~undefined, SelectCharacter
      PROVE  IInv'
  <2>1. /\ tasks \in [Task -> Nat] /\ items \in Seq(ItemData)
        /\ toServer \in Seq(ToServer) /\ toClient \in Seq(ToClient)
    BY <1>10 DEF SelectCharacter, AfterChoice, IInv, TypeOK, ItemData, ToServer, ToClient
  <2>2. /\ toServer' \in Seq(ToServer)
        /\ \A i \in 1..Len(toServer') :
             \/ i \in 1..Len(toServer) /\ toServer'[i] = toServer[i]
             \/ i = Len(toServer) + 1 /\ toServer'[i] = "spawn"
    BY <1>10, <2>1, Sending DEF SelectCharacter, AfterChoice, ToServer
  <2>3. items' \in Seq(ItemData)
    BY <1>10, <2>1, Leaving DEF SelectCharacter
  <2>4. ~late => ~chosen
    BY <1>10 DEF SelectCharacter, AfterChoice, IInv, OneChoice
  <2>5. ~chosen => /\ ~undefined' /\ shown' = {} /\ NoRequest /\ NoAnswer
                   /\ tasks["Game"] = 0
    BY <1>10, <2>1 DEF SelectCharacter, AfterChoice, IInv, Unchosen, AllAlive, OneScreen
  <2>6. NoRequest => OneRequest'
    BY <1>10, <2>1, <2>2 DEF NoRequest, OneRequest
  <2>7. toClient' = toClient /\ OneAnswer' = OneAnswer /\ NoAnswer' = NoAnswer /\ (NoAnswer => OneAnswer)
    BY <1>10 DEF SelectCharacter, AfterChoice, OneAnswer, NoAnswer
  <2>8. TypeOK'
    BY <1>10, <2>1, <2>2, <2>3, <2>4, <2>5, <2>6, <2>7
       DEF SelectCharacter, AfterChoice, IInv, TypeOK, local, Window, ItemData, ToServer,
           ToClient
  <2>9. OneScreen' /\ Before' /\ AtStart'
    BY <1>10, <2>1, <2>2, <2>3, <2>4, <2>5, <2>6, <2>7
       DEF SelectCharacter, AfterChoice, IInv, OneScreen, Before, AtStart, Menu, Window,
           local, Task
  <2>10. Counts'
    BY <1>10, <2>1, <2>2, <2>3, <2>4, <2>5, <2>6, <2>7
       DEF SelectCharacter, AfterChoice, IInv, Counts, Task, Menu, local, AtStart
  <2>11. Unchosen' /\ OneChoice'
    BY <1>10, <2>1, <2>2, <2>3, <2>4, <2>5, <2>6, <2>7
       DEF SelectCharacter, AfterChoice, IInv, Unchosen, OneChoice, Before, Menu, AtStart,
           local, Task, TypeOK
  <2>12. GameAlone' /\ ChoiceIsSafe'
    BY <1>10, <2>1, <2>2, <2>3, <2>4, <2>5, <2>6, <2>7
       DEF SelectCharacter, AfterChoice, IInv, GameAlone, ChoiceIsSafe, Unchosen,
           OneChoice, OneScreen, Before, AtStart, Menu, Counts, Task, local, TypeOK
  <2> QED
    BY <2>8, <2>9, <2>10, <2>11, <2>12 DEF IInv
<1>11. ASSUME ~undefined, WantCharacter
      PROVE  IInv'
  <2>1. TypeOK'
    BY <1>11
       DEF WantCharacter, Switch, IInv, TypeOK, local, Window, ItemData, ToServer,
           ToClient
  <2>2. OneScreen' /\ Before' /\ AtStart'
    BY <1>11
       DEF WantCharacter, Switch, IInv, OneScreen, Before, AtStart, Menu, Window, local,
           Task
  <2>3. Counts'
    BY <1>11 DEF WantCharacter, Switch, IInv, Counts, Task, Menu, local, AtStart
  <2>4. Unchosen' /\ OneChoice'
    BY <1>11
       DEF WantCharacter, Switch, IInv, Unchosen, OneChoice, NoRequest, NoAnswer, Before,
           Menu, AtStart, local, Task, TypeOK, OneRequest, OneAnswer, AllAlive
  <2>5. GameAlone' /\ ChoiceIsSafe'
    BY <1>11
       DEF WantCharacter, Switch, IInv, GameAlone, ChoiceIsSafe, Unchosen, OneChoice,
           NoRequest, NoAnswer, OneScreen, Before, AtStart, Menu, Counts, Task, local,
           TypeOK, OneRequest, OneAnswer, AllAlive
  <2> QED
    BY <2>1, <2>2, <2>3, <2>4, <2>5 DEF IInv
<1>12. ASSUME ~undefined, CreateCharacter
      PROVE  IInv'
  <2>1. /\ tasks \in [Task -> Nat] /\ items \in Seq(ItemData)
        /\ toServer \in Seq(ToServer) /\ toClient \in Seq(ToClient)
    BY <1>12 DEF CreateCharacter, IInv, TypeOK, ItemData, ToServer, ToClient
  <2>2. /\ toServer' \in Seq(ToServer)
        /\ \A i \in 1..Len(toServer') :
             \/ i \in 1..Len(toServer) /\ toServer'[i] = toServer[i]
             \/ i = Len(toServer) + 1 /\ toServer'[i] = "CH_CR"
    BY <1>12, <2>1, Sending DEF CreateCharacter, ToServer
  <2>3. (NoRequest => NoRequest') /\ (OneRequest => OneRequest')
    BY <1>12, <2>1, <2>2 DEF NoRequest, OneRequest
  <2>4. NoAnswer' = NoAnswer /\ OneAnswer' = OneAnswer
    BY <1>12 DEF CreateCharacter, NoAnswer, OneAnswer
  <2>5. AllAlive' = AllAlive
    BY <1>12 DEF CreateCharacter, local, AllAlive
  <2>6. TypeOK'
    BY <1>12, <2>1, <2>2, <2>3, <2>4, <2>5
       DEF CreateCharacter, IInv, TypeOK, local, Window, ItemData, ToServer, ToClient
  <2>7. OneScreen' /\ Before' /\ AtStart'
    BY <1>12, <2>1, <2>2, <2>3, <2>4, <2>5
       DEF CreateCharacter, IInv, OneScreen, Before, AtStart, Menu, Window, local, Task
  <2>8. Counts'
    BY <1>12, <2>1, <2>2, <2>3, <2>4, <2>5
       DEF CreateCharacter, IInv, Counts, Task, Menu, local, AtStart
  <2>9. Unchosen' /\ OneChoice'
    BY <1>12, <2>1, <2>2, <2>3, <2>4, <2>5
       DEF CreateCharacter, IInv, Unchosen, OneChoice, Before, Menu, AtStart, local, Task,
           TypeOK
  <2>10. GameAlone' /\ ChoiceIsSafe'
    BY <1>12, <2>1, <2>2, <2>3, <2>4, <2>5
       DEF CreateCharacter, IInv, GameAlone, ChoiceIsSafe, Unchosen, OneChoice, OneScreen,
           Before, AtStart, Menu, Counts, Task, local, TypeOK
  <2> QED
    BY <2>6, <2>7, <2>8, <2>9, <2>10 DEF IInv
<1>13. ASSUME ~undefined, CancelCreate
      PROVE  IInv'
  <2>1. TypeOK'
    BY <1>13
       DEF CancelCreate, Switch, IInv, TypeOK, local, Window, ItemData, ToServer, ToClient
  <2>2. OneScreen' /\ Before' /\ AtStart'
    BY <1>13
       DEF CancelCreate, Switch, IInv, OneScreen, Before, AtStart, Menu, Window, local,
           Task
  <2>3. Counts'
    BY <1>13 DEF CancelCreate, Switch, IInv, Counts, Task, Menu, local, AtStart
  <2>4. Unchosen' /\ OneChoice'
    BY <1>13
       DEF CancelCreate, Switch, IInv, Unchosen, OneChoice, NoRequest, NoAnswer, Before,
           Menu, AtStart, local, Task, TypeOK, OneRequest, OneAnswer, AllAlive
  <2>5. GameAlone' /\ ChoiceIsSafe'
    BY <1>13
       DEF CancelCreate, Switch, IInv, GameAlone, ChoiceIsSafe, Unchosen, OneChoice,
           NoRequest, NoAnswer, OneScreen, Before, AtStart, Menu, Counts, Task, local,
           TypeOK, OneRequest, OneAnswer, AllAlive
  <2> QED
    BY <2>1, <2>2, <2>3, <2>4, <2>5 DEF IInv
<1>14. ASSUME ~undefined, RecvList
      PROVE  IInv'
  <2>1. /\ tasks \in [Task -> Nat] /\ items \in Seq(ItemData)
        /\ toServer \in Seq(ToServer) /\ toClient \in Seq(ToClient)
    BY <1>14 DEF RecvList, IInv, TypeOK, ItemData, ToServer, ToClient
  <2>2. /\ 1 \in 1..Len(toClient) /\ toClient # <<>> /\ Head(toClient) = toClient[1]
        /\ toClient[1] \in ToClient /\ toClient[1].kind = "LGCL"
        /\ toClient' \in Seq(ToClient) /\ Len(toClient') = Len(toClient) - 1
        /\ \A i \in 1..Len(toClient') :
             i + 1 \in 1..Len(toClient) /\ toClient'[i] = toClient[i + 1]
    BY <1>14, <2>1, TakingAnswer DEF RecvList
  <2>3. NoRequest' = NoRequest /\ OneRequest' = OneRequest
    BY <1>14 DEF RecvList, NoRequest, OneRequest
  <2>4. (NoAnswer => NoAnswer') /\ (OneAnswer => OneAnswer')
    BY <1>14, <2>1, <2>2, TakenAnswers
  <2>5. toClient[1].characters \in Nat
    BY <1>14, <2>2 DEF ToClient
  <2>6. /\ [i \in 1..toClient[1].characters |-> Item(i)] \in Seq(ItemData)
        /\ \A i \in 1..Len([j \in 1..toClient[1].characters |-> Item(j)]) :
             [j \in 1..toClient[1].characters |-> Item(j)][i].alive
    BY <1>14, <2>5, NewItems
  <2>7. items' = items \o [i \in 1..toClient[1].characters |-> Item(i)]
    BY <1>14, <2>2 DEF RecvList
  <2>8. /\ items' \in Seq(ItemData)
        /\ AllAlive => AllAlive'
    BY <1>14, <2>1, <2>6, <2>7, ListsMore, Joining DEF AllAlive
  <2>9. TypeOK'
    BY <1>14, <2>1, <2>2, <2>3, <2>4, <2>5, <2>6, <2>7, <2>8
       DEF RecvList, IInv, TypeOK, local, Window, ItemData, ToServer, ToClient
  <2>10. OneScreen' /\ Before' /\ AtStart'
    BY <1>14, <2>1, <2>2, <2>3, <2>4, <2>5, <2>6, <2>7, <2>8
       DEF RecvList, IInv, OneScreen, Before, AtStart, Menu, Window, local, Task
  <2>11. Counts'
    BY <1>14, <2>1, <2>2, <2>3, <2>4, <2>5, <2>6, <2>7, <2>8
       DEF RecvList, IInv, Counts, Task, Menu, local, AtStart
  <2>12. Unchosen' /\ OneChoice'
    BY <1>14, <2>1, <2>2, <2>3, <2>4, <2>5, <2>6, <2>7, <2>8
       DEF RecvList, IInv, Unchosen, OneChoice, Before, Menu, AtStart, local, Task, TypeOK
  <2>13. GameAlone' /\ ChoiceIsSafe'
    BY <1>14, <2>1, <2>2, <2>3, <2>4, <2>5, <2>6, <2>7, <2>8
       DEF RecvList, IInv, GameAlone, ChoiceIsSafe, Unchosen, OneChoice, OneScreen,
           Before, AtStart, Menu, Counts, Task, local, TypeOK
  <2> QED
    BY <2>9, <2>10, <2>11, <2>12, <2>13 DEF IInv
<1>15. ASSUME ~undefined, RecvAck
      PROVE  IInv'
  <2>1. /\ tasks \in [Task -> Nat] /\ items \in Seq(ItemData)
        /\ toServer \in Seq(ToServer) /\ toClient \in Seq(ToClient)
    BY <1>15 DEF RecvAck, AfterAck, IInv, TypeOK, ItemData, ToServer, ToClient
  <2>2. /\ 1 \in 1..Len(toClient) /\ toClient # <<>> /\ Head(toClient) = toClient[1]
        /\ toClient[1] \in ToClient /\ toClient[1].kind = "CH_CR_ACK"
        /\ toClient' \in Seq(ToClient) /\ Len(toClient') = Len(toClient) - 1
        /\ \A i \in 1..Len(toClient') :
             i + 1 \in 1..Len(toClient) /\ toClient'[i] = toClient[i + 1]
    BY <1>15, <2>1, TakingAnswer DEF RecvAck, AfterAck
  <2>3. NoRequest' = NoRequest /\ OneRequest' = OneRequest
    BY <1>15 DEF RecvAck, AfterAck, NoRequest, OneRequest
  <2>4. (NoAnswer => NoAnswer') /\ (OneAnswer => OneAnswer')
    BY <1>15, <2>1, <2>2, TakenAnswers
  <2>5. Item(toClient[1].characters) \in ItemData /\ Item(toClient[1].characters).alive
    BY <1>15, <2>2 DEF Item, ItemData, ToClient
  <2>6. items' = items \/ items' = Append(items, Item(toClient[1].characters))
    BY <1>15, <2>2 DEF RecvAck
  <2>7. /\ items' \in Seq(ItemData)
        /\ AllAlive => AllAlive'
    <3>1. CASE items' = items
      BY <2>1, <3>1 DEF AllAlive
    <3>2. CASE items' = Append(items, Item(toClient[1].characters))
      <4>1. items' \in Seq(ItemData)
        BY <2>1, <2>5, <3>2, Appending
      <4>2. AllAlive => AllAlive'
        BY <2>1, <2>5, <3>2, ListsOne DEF AllAlive
      <4> QED
        BY <4>1, <4>2
    <3> QED
      BY <2>6, <3>1, <3>2
  <2>8. shown \cap Menu = {} /\ start # "no"
    BY <2>2 DEF IInv, Before
  <2>9. TypeOK'
    BY <1>15, <2>1, <2>2, <2>3, <2>4, <2>5, <2>6, <2>7, <2>8
       DEF RecvAck, AfterAck, IInv, TypeOK, local, Window, ItemData, ToServer, ToClient
  <2>10. OneScreen' /\ Before' /\ AtStart'
    BY <1>15, <2>1, <2>2, <2>3, <2>4, <2>5, <2>6, <2>7, <2>8
       DEF RecvAck, AfterAck, IInv, OneScreen, Before, AtStart, Menu, Window, Unchosen,
           local, Task, TypeOK
  <2>11. Counts'
    BY <1>15, <2>1, <2>2, <2>3, <2>4, <2>5, <2>6, <2>7, <2>8
       DEF RecvAck, AfterAck, IInv, Counts, Task, Menu, local, AtStart
  <2>12. Unchosen' /\ OneChoice'
    BY <1>15, <2>1, <2>2, <2>3, <2>4, <2>5, <2>6, <2>7, <2>8
       DEF RecvAck, AfterAck, IInv, Unchosen, OneChoice, Before, Menu, AtStart, local,
           Task, TypeOK
  <2>13. GameAlone' /\ ChoiceIsSafe'
    <3>1. /\ UNCHANGED <<start, tasks, link, undefined>>
          /\ UNCHANGED <<late, shown>> \/ late' = (late \/ chosen)
      BY <1>15 DEF RecvAck
    <3>2. ~chosen => ~(tasks["Game"] > 0)
      BY <1>15 DEF IInv, Unchosen
    <3> QED
      BY <1>15, <3>1, <3>2 DEF IInv, GameAlone, ChoiceIsSafe
  <2> QED
    BY <2>9, <2>10, <2>11, <2>12, <2>13 DEF IInv
<1>16. ASSUME ~undefined, RecvSpawn
      PROVE  IInv'
  <2>1. /\ tasks \in [Task -> Nat] /\ items \in Seq(ItemData)
        /\ toServer \in Seq(ToServer) /\ toClient \in Seq(ToClient)
    BY <1>16 DEF RecvSpawn, IInv, TypeOK, ItemData, ToServer, ToClient
  <2>2. /\ 1 \in 1..Len(toClient) /\ toClient # <<>> /\ Head(toClient) = toClient[1]
        /\ toClient[1] \in ToClient /\ toClient[1].kind = "spawn"
        /\ toClient' \in Seq(ToClient) /\ Len(toClient') = Len(toClient) - 1
        /\ \A i \in 1..Len(toClient') :
             i + 1 \in 1..Len(toClient) /\ toClient'[i] = toClient[i + 1]
    BY <1>16, <2>1, TakingAnswer DEF RecvSpawn
  <2>3. /\ tasks' \in [Task -> Nat]
        /\ tasks'["Background"] = 0 /\ tasks'["PreGame"] = 0
        /\ tasks'["Game"] = tasks["Game"] + 1
        /\ tasks'["Intro"] = tasks["Intro"] /\ tasks'["Network"] = tasks["Network"]
    BY <1>16, <2>1 DEF RecvSpawn, Started, Added, Task
  <2>4. NoRequest' = NoRequest /\ OneRequest' = OneRequest
    BY <1>16 DEF RecvSpawn, NoRequest, OneRequest
  <2>5. (NoAnswer => NoAnswer') /\ (OneAnswer => OneAnswer')
    BY <1>16, <2>1, <2>2, TakenAnswers
  <2>6. AllAlive' = AllAlive
    BY <1>16 DEF RecvSpawn, local, AllAlive
  <2>7. ~NoAnswer /\ (OneAnswer => NoAnswer')
    BY <1>16, <2>1, <2>2, TakenAnswers
  <2>8. TypeOK'
    BY <1>16, <2>1, <2>2, <2>3, <2>4, <2>5, <2>6, <2>7
       DEF RecvSpawn, IInv, TypeOK, local, Window, ItemData, ToServer, ToClient
  <2>9. OneScreen' /\ Before' /\ AtStart'
    BY <1>16, <2>1, <2>2, <2>3, <2>4, <2>5, <2>6, <2>7
       DEF RecvSpawn, IInv, OneScreen, Before, AtStart, Menu, Window, local, Task
  <2>10. Counts'
    <3>1. late \/ tasks'["Game"] = 1
      BY <2>1, <2>3, <2>7 DEF IInv, Unchosen, OneChoice, Task
    <3>2. UNCHANGED <<start, late>>
      BY <1>16 DEF RecvSpawn
    <3> QED
      BY <2>3, <3>1, <3>2 DEF IInv, Counts, Task
  <2>11. Unchosen' /\ OneChoice'
    BY <1>16, <2>1, <2>2, <2>3, <2>4, <2>5, <2>6, <2>7
       DEF RecvSpawn, IInv, Unchosen, OneChoice, Before, Menu, AtStart, local, Task,
           TypeOK
  <2>12. GameAlone' /\ ChoiceIsSafe'
    <3>1. UNCHANGED <<start, shown, late, link, undefined>>
      BY <1>16 DEF RecvSpawn
    <3>2. ~late => shown = {}
      BY <2>7 DEF IInv, Unchosen, OneChoice
    <3> QED
      BY <1>16, <2>3, <2>10, <3>1, <3>2 DEF GameAlone, ChoiceIsSafe, Counts
  <2> QED
    BY <2>8, <2>9, <2>10, <2>11, <2>12 DEF IInv
<1>17. ASSUME ~undefined, toServer # <<>>, AnswerList
      PROVE  IInv'
  <2>1. /\ tasks \in [Task -> Nat] /\ items \in Seq(ItemData)
        /\ toServer \in Seq(ToServer) /\ toClient \in Seq(ToClient)
    BY <1>17 DEF AnswerList, IInv, TypeOK, ItemData, ToServer, ToClient
  <2>2. \E n \in Nat : Answer("LGCL", n)
    BY <1>17 DEF AnswerList, IInv, TypeOK
  <2>3. /\ toServer # <<>> /\ 1 \in 1..Len(toServer) /\ Head(toServer) = toServer[1]
        /\ toServer' \in Seq(ToServer)
        /\ \A i \in 1..Len(toServer') :
             i + 1 \in 1..Len(toServer) /\ toServer'[i] = toServer[i + 1]
        /\ toClient' \in Seq(ToClient)
        /\ \A i \in 1..Len(toClient') :
             \/ i \in 1..Len(toClient) /\ toClient'[i] = toClient[i]
             \/ i = Len(toClient) + 1 /\ toClient'[i].kind = "LGCL"
    BY <1>17, <2>1, <2>2, Answering
  <2>4. (NoRequest => NoRequest') /\ (OneRequest => OneRequest')
    BY <1>17, <2>1, <2>3, TakenRequests
  <2>5. (NoAnswer => NoAnswer') /\ (OneAnswer => OneAnswer')
    BY <1>17, <2>1, <2>3 DEF NoAnswer, OneAnswer
  <2>6. UNCHANGED <<local, link, online, refused>>
    BY <1>17, <2>2 DEF Answer
  <2>7. AllAlive' = AllAlive
    BY <1>17, <2>6 DEF local, AllAlive
  <2>8. TypeOK'
    BY <1>17, <2>1, <2>2, <2>3, <2>4, <2>5, <2>6, <2>7
       DEF AnswerList, IInv, TypeOK, local, Window, ItemData, ToServer, ToClient
  <2>9. OneScreen' /\ Before' /\ AtStart'
    BY <1>17, <2>1, <2>2, <2>3, <2>4, <2>5, <2>6, <2>7
       DEF AnswerList, IInv, OneScreen, Before, AtStart, Menu, Window, local, Task
  <2>10. Counts'
    BY <1>17, <2>1, <2>2, <2>3, <2>4, <2>5, <2>6, <2>7
       DEF AnswerList, IInv, Counts, Task, Menu, local, AtStart
  <2>11. Unchosen' /\ OneChoice'
    BY <1>17, <2>1, <2>2, <2>3, <2>4, <2>5, <2>6, <2>7
       DEF AnswerList, IInv, Unchosen, OneChoice, Before, Menu, AtStart, local, Task,
           TypeOK
  <2>12. GameAlone' /\ ChoiceIsSafe'
    BY <1>17, <2>1, <2>2, <2>3, <2>4, <2>5, <2>6, <2>7
       DEF AnswerList, IInv, GameAlone, ChoiceIsSafe, Unchosen, OneChoice, OneScreen,
           Before, AtStart, Menu, Counts, Task, local, TypeOK
  <2> QED
    BY <2>8, <2>9, <2>10, <2>11, <2>12 DEF IInv
<1>18. ASSUME ~undefined, toServer # <<>>, AnswerCreate
      PROVE  IInv'
  <2>1. /\ tasks \in [Task -> Nat] /\ items \in Seq(ItemData)
        /\ toServer \in Seq(ToServer) /\ toClient \in Seq(ToClient)
    BY <1>18 DEF AnswerCreate, IInv, TypeOK, ItemData, ToServer, ToClient
  <2>2. \E n \in Nat : Answer("CH_CR_ACK", n)
    BY <1>18 DEF AnswerCreate, IInv, TypeOK
  <2>3. /\ toServer # <<>> /\ 1 \in 1..Len(toServer) /\ Head(toServer) = toServer[1]
        /\ toServer' \in Seq(ToServer)
        /\ \A i \in 1..Len(toServer') :
             i + 1 \in 1..Len(toServer) /\ toServer'[i] = toServer[i + 1]
        /\ toClient' \in Seq(ToClient)
        /\ \A i \in 1..Len(toClient') :
             \/ i \in 1..Len(toClient) /\ toClient'[i] = toClient[i]
             \/ i = Len(toClient) + 1 /\ toClient'[i].kind = "CH_CR_ACK"
    BY <1>18, <2>1, <2>2, Answering
  <2>4. (NoRequest => NoRequest') /\ (OneRequest => OneRequest')
    BY <1>18, <2>1, <2>3, TakenRequests
  <2>5. (NoAnswer => NoAnswer') /\ (OneAnswer => OneAnswer')
    BY <1>18, <2>1, <2>3 DEF NoAnswer, OneAnswer
  <2>6. UNCHANGED <<local, link, online, refused>>
    BY <1>18, <2>2 DEF Answer
  <2>7. AllAlive' = AllAlive
    BY <1>18, <2>6 DEF local, AllAlive
  <2>8. account' \in Nat
    BY <1>18 DEF AnswerCreate, IInv, TypeOK
  <2>9. TypeOK'
    BY <1>18, <2>1, <2>2, <2>3, <2>4, <2>5, <2>6, <2>7, <2>8
       DEF AnswerCreate, IInv, TypeOK, local, Window, ItemData, ToServer, ToClient
  <2>10. OneScreen' /\ Before' /\ AtStart'
    BY <1>18, <2>1, <2>2, <2>3, <2>4, <2>5, <2>6, <2>7, <2>8
       DEF AnswerCreate, IInv, OneScreen, Before, AtStart, Menu, Window, local, Task
  <2>11. Counts'
    BY <1>18, <2>1, <2>2, <2>3, <2>4, <2>5, <2>6, <2>7, <2>8
       DEF AnswerCreate, IInv, Counts, Task, Menu, local, AtStart
  <2>12. Unchosen' /\ OneChoice'
    BY <1>18, <2>1, <2>2, <2>3, <2>4, <2>5, <2>6, <2>7, <2>8
       DEF AnswerCreate, IInv, Unchosen, OneChoice, Before, Menu, AtStart, local, Task,
           TypeOK
  <2>13. GameAlone' /\ ChoiceIsSafe'
    BY <1>18, <2>1, <2>2, <2>3, <2>4, <2>5, <2>6, <2>7, <2>8
       DEF AnswerCreate, IInv, GameAlone, ChoiceIsSafe, Unchosen, OneChoice, OneScreen,
           Before, AtStart, Menu, Counts, Task, local, TypeOK
  <2> QED
    BY <2>9, <2>10, <2>11, <2>12, <2>13 DEF IInv
<1>19. ASSUME ~undefined, toServer # <<>>, AnswerSpawn
      PROVE  IInv'
  <2>1. /\ tasks \in [Task -> Nat] /\ items \in Seq(ItemData)
        /\ toServer \in Seq(ToServer) /\ toClient \in Seq(ToClient)
    BY <1>19 DEF AnswerSpawn, IInv, TypeOK, ItemData, ToServer, ToClient
  <2>2. \E n \in Nat : Answer("spawn", n)
    BY <1>19 DEF AnswerSpawn, IInv, TypeOK
  <2>3. /\ toServer # <<>> /\ 1 \in 1..Len(toServer) /\ Head(toServer) = toServer[1]
        /\ toServer' \in Seq(ToServer)
        /\ \A i \in 1..Len(toServer') :
             i + 1 \in 1..Len(toServer) /\ toServer'[i] = toServer[i + 1]
        /\ toClient' \in Seq(ToClient)
        /\ \A i \in 1..Len(toClient') :
             \/ i \in 1..Len(toClient) /\ toClient'[i] = toClient[i]
             \/ i = Len(toClient) + 1 /\ toClient'[i].kind = "spawn"
    BY <1>19, <2>1, <2>2, Answering
  <2>4. ~NoRequest /\ (OneRequest => NoRequest' /\ OneRequest')
    BY <1>19, <2>1, <2>3, TakenRequests DEF AnswerSpawn
  <2>5. NoAnswer => OneAnswer'
    BY <1>19, <2>1, <2>3 DEF NoAnswer, OneAnswer
  <2>6. UNCHANGED <<local, link, online, refused>>
    BY <1>19, <2>2 DEF Answer
  <2>7. AllAlive' = AllAlive
    BY <1>19, <2>6 DEF local, AllAlive
  <2>8. TypeOK'
    BY <1>19, <2>1, <2>2, <2>3, <2>4, <2>5, <2>6, <2>7
       DEF AnswerSpawn, IInv, TypeOK, local, Window, ItemData, ToServer, ToClient
  <2>9. OneScreen' /\ Before' /\ AtStart'
    BY <1>19, <2>1, <2>2, <2>3, <2>4, <2>5, <2>6, <2>7
       DEF AnswerSpawn, IInv, OneScreen, Before, AtStart, Menu, Window, local, Task
  <2>10. Counts'
    BY <1>19, <2>1, <2>2, <2>3, <2>4, <2>5, <2>6, <2>7
       DEF AnswerSpawn, IInv, Counts, Task, Menu, local, AtStart
  <2>11. Unchosen' /\ OneChoice'
    BY <1>19, <2>1, <2>2, <2>3, <2>4, <2>5, <2>6, <2>7
       DEF AnswerSpawn, IInv, Unchosen, OneChoice, Before, Menu, AtStart, local, Task,
           TypeOK
  <2>12. GameAlone' /\ ChoiceIsSafe'
    BY <1>19, <2>1, <2>2, <2>3, <2>4, <2>5, <2>6, <2>7
       DEF AnswerSpawn, IInv, GameAlone, ChoiceIsSafe, Unchosen, OneChoice, OneScreen,
           Before, AtStart, Menu, Counts, Task, local, TypeOK
  <2> QED
    BY <2>8, <2>9, <2>10, <2>11, <2>12 DEF IInv
<1>20. ASSUME ~undefined, toServer # <<>>, RefuseSpawn
      PROVE  IInv'
  <2>1. toServer \in Seq(ToServer) /\ toServer' = Tail(toServer)
    BY <1>20 DEF RefuseSpawn, IInv, TypeOK, ToServer
  <2>2. /\ toServer' \in Seq(ToServer) /\ 1 \in 1..Len(toServer)
        /\ \A i \in 1..Len(toServer') :
             i + 1 \in 1..Len(toServer) /\ toServer'[i] = toServer[i + 1]
    BY <1>20, <2>1, Taking
  <2>3. (NoRequest => NoRequest') /\ (OneRequest => OneRequest')
    BY <2>1, <2>2, TakenRequests
  <2>4. NoAnswer' = NoAnswer /\ OneAnswer' = OneAnswer /\ AllAlive' = AllAlive
    BY <1>20 DEF RefuseSpawn, local, NoAnswer, OneAnswer, AllAlive
  <2>5. UNCHANGED <<local, link, online, account, toClient>>
    BY <1>20 DEF RefuseSpawn
  <2>6. refused' \in BOOLEAN
    BY <1>20 DEF RefuseSpawn
  <2>7. TypeOK'
    BY <2>2, <2>5, <2>6 DEF IInv, TypeOK, local, ToServer
  <2>8. OneScreen' /\ Before' /\ AtStart' /\ Counts' /\ GameAlone' /\ ChoiceIsSafe'
    BY <1>20, <2>5
       DEF IInv, OneScreen, Before, AtStart, Counts, GameAlone, ChoiceIsSafe, local
  <2>9. Unchosen' /\ OneChoice'
    BY <2>3, <2>4, <2>5 DEF IInv, Unchosen, OneChoice, local
  <2> QED
    BY <2>7, <2>8, <2>9 DEF IInv
<1>21. ASSUME ~undefined, Break
      PROVE  IInv'
  <2>1. TypeOK'
    BY <1>21 DEF Break, IInv, TypeOK, local, Window, ItemData, ToServer, ToClient
  <2>2. OneScreen' /\ Before' /\ AtStart'
    BY <1>21 DEF Break, IInv, OneScreen, Before, AtStart, Menu, Window, local, Task
  <2>3. Counts'
    BY <1>21 DEF Break, IInv, Counts, Task, Menu, local, AtStart
  <2>4. Unchosen' /\ OneChoice'
    BY <1>21
       DEF Break, IInv, Unchosen, OneChoice, NoRequest, NoAnswer, Before, Menu, AtStart,
           local, Task, TypeOK, OneRequest, OneAnswer, AllAlive
  <2>5. GameAlone' /\ ChoiceIsSafe'
    BY <1>21
       DEF Break, IInv, GameAlone, ChoiceIsSafe, Unchosen, OneChoice, NoRequest, NoAnswer,
           OneScreen, Before, AtStart, Menu, Counts, Task, local, TypeOK, OneRequest,
           OneAnswer, AllAlive
  <2> QED
    BY <2>1, <2>2, <2>3, <2>4, <2>5 DEF IInv
<1>22. CASE UNCHANGED vars
  <2>1. TypeOK' /\ OneScreen' /\ Before' /\ AtStart' /\ Counts'
    BY <1>22 DEF vars, local, IInv, TypeOK, OneScreen, Before, AtStart, Counts
  <2>2. /\ NoRequest' = NoRequest /\ OneRequest' = OneRequest
        /\ NoAnswer' = NoAnswer /\ OneAnswer' = OneAnswer /\ AllAlive' = AllAlive
    BY <1>22 DEF vars, local, NoRequest, NoAnswer, OneRequest, OneAnswer, AllAlive
  <2>3. Unchosen' /\ OneChoice' /\ GameAlone' /\ ChoiceIsSafe'
    BY <1>22, <2>2 DEF vars, local, IInv, Unchosen, OneChoice, GameAlone, ChoiceIsSafe
  <2> QED
    BY <2>1, <2>2, <2>3 DEF IInv
<1> QED
  BY <1>1, <1>2, <1>3, <1>4, <1>5, <1>6, <1>7, <1>8, <1>9, <1>10, <1>11, <1>12,
     <1>13, <1>14, <1>15, <1>16, <1>17, <1>18, <1>19, <1>20, <1>21, <1>22
     DEF Next, Buttons, Receive, Serve

-----------------------------------------------------------------------------
(* What the client is told of its characters: the second invariant.        *)

LEMMA SameList ==
  ASSUME NEW S, NEW a \in Seq(S), NEW b \in Seq(S), Len(a) = Len(b),
         \A i \in 1..Len(a) : a[i] = b[i]
  PROVE  a = b
OBVIOUS

\* The list of the first characters, and that list with the next one.
LEMMA ListedFacts ==
  ASSUME NEW n \in Nat
  PROVE  /\ Listed(n) \in Seq(ItemData) /\ Len(Listed(n)) = n
         /\ Append(Listed(n), Item(n + 1)) = Listed(n + 1)
         /\ Listed(0) = <<>> /\ <<>> \o Listed(n) = Listed(n)
         /\ Listed(n) = <<>> => n = 0
<1>1. \A m \in Nat : /\ Listed(m) \in Seq(ItemData) /\ Len(Listed(m)) = m
                     /\ \A i \in 1..m : Listed(m)[i] = Item(i)
  <2>1. \A i \in Nat : Item(i) \in ItemData
    BY DEF Item, ItemData
  <2> QED
    BY <2>1 DEF Listed
<1>2. Item(n + 1) \in ItemData /\ n + 1 \in Nat
  BY DEF Item, ItemData
<1>3. /\ Append(Listed(n), Item(n + 1)) \in Seq(ItemData)
      /\ Len(Append(Listed(n), Item(n + 1))) = n + 1
      /\ \A i \in 1..n : Append(Listed(n), Item(n + 1))[i] = Item(i)
      /\ Append(Listed(n), Item(n + 1))[n + 1] = Item(n + 1)
  <2>1. /\ Listed(n) \in Seq(ItemData) /\ Len(Listed(n)) = n
        /\ \A i \in 1..n : Listed(n)[i] = Item(i)
    BY <1>1
  <2>2. /\ Append(Listed(n), Item(n + 1)) \in Seq(ItemData)
        /\ Len(Append(Listed(n), Item(n + 1))) = Len(Listed(n)) + 1
        /\ \A i \in 1..Len(Listed(n)) :
             Append(Listed(n), Item(n + 1))[i] = Listed(n)[i]
        /\ Append(Listed(n), Item(n + 1))[Len(Listed(n)) + 1] = Item(n + 1)
    BY <1>2, <2>1, Appending
  <2> QED
    BY <2>1, <2>2
<1>4. \A i \in 1..(n + 1) : i \in 1..n \/ i = n + 1
  OBVIOUS
<1>5. Append(Listed(n), Item(n + 1)) = Listed(n + 1)
  <2>1. \A i \in 1..(n + 1) : Append(Listed(n), Item(n + 1))[i] = Listed(n + 1)[i]
    BY <1>1, <1>2, <1>3, <1>4
  <2> QED
    BY <1>1, <1>2, <1>3, <2>1, SameList
<1>6. Listed(0) = <<>> /\ <<>> \o Listed(n) = Listed(n)
  <2>1. Listed(0) \in Seq(ItemData) /\ Len(Listed(0)) = 0 /\ Listed(n) \in Seq(ItemData)
    BY <1>1
  <2> QED
    BY <2>1
<1>7. Listed(n) = <<>> => n = 0
  BY <1>1
<1> QED
  BY <1>1, <1>5, <1>6, <1>7

\* Nothing the client knows of its characters changes.
LEMMA SameToldKeeps ==
  ASSUME OnTheWay, UNCHANGED <<link, chosen, items, account, toServer, toClient>>
  PROVE  OnTheWay'
BY DEF OnTheWay, AskedFirst, Asked, Told

\* The first connection asks for the list and for nothing else.
LEMMA ConnectingTold ==
  ASSUME FlowAssumption, IInv, Quiet, link = "none", Identified \/ NotConnected,
         UNCHANGED <<items, account, toClient>>
  PROVE  OnTheWay'
<1>1. CASE NotConnected
  BY <1>1 DEF NotConnected, OnTheWay
<1>2. CASE Identified
  <2>1. /\ toServer' = <<"LGCL">> /\ toClient' = <<>> /\ items' = <<>> /\ account' \in Nat
        /\ Len(toServer') = 1 /\ toServer'[1] = "LGCL" /\ toServer' # <<>>
    BY <1>2 DEF Identified, Quiet, IInv, TypeOK
  <2>2. Asked' /\ AskedFirst'
    BY <2>1 DEF Asked, AskedFirst
  <2> DEFINE known == [k \in 0..0 |-> 0]
  <2>3. Len(toClient') = 0 /\ 0..0 = {0} /\ 1..0 = {}
    BY <2>1
  <2>4. known \in [0..Len(toClient') -> 0..account'] /\ known[0] = 0
    BY <2>1, <2>3
  <2>5. items' = Listed(0)
    BY <2>1, ListedFacts
  <2> HIDE DEF known
  <2>6. /\ items' = Listed(known[0])
        /\ \A k \in 1..Len(toClient') : Brings(toClient'[k], known[k - 1], known[k])
        /\ known[Len(toClient')] = 0
    BY <2>3, <2>4, <2>5
  <2> QED
    BY <2>2, <2>4, <2>6 DEF OnTheWay, Told, Asked
<1> QED
  BY <1>1, <1>2

\* A request for a character goes behind the one for the list.
LEMMA CreatingTold ==
  ASSUME IInv, OnTheWay, CreateCharacter
  PROVE  OnTheWay'
<1> SUFFICES ASSUME link = "open", ~chosen
             PROVE  OnTheWay'
  BY DEF OnTheWay, CreateCharacter
<1>1. /\ toServer' = Append(toServer, "CH_CR") /\ toServer \in Seq(ToServer)
      /\ "CH_CR" \in ToServer
      /\ UNCHANGED <<items, account, toClient>>
  BY DEF CreateCharacter, Send, IInv, TypeOK, ToServer
<1>2. /\ Len(toServer) \in Nat /\ Len(toServer') = Len(toServer) + 1
      /\ \A i \in 1..Len(toServer) : toServer'[i] = toServer[i]
      /\ toServer'[Len(toServer) + 1] = "CH_CR" /\ toServer' # <<>>
  BY <1>1, Appending
<1>3. Asked' = Asked
  BY <1>1, <1>2 DEF Asked
<1>4. AskedFirst'
  BY <1>2 DEF OnTheWay, AskedFirst
<1>5. PICK known \in [0..Len(toClient) -> 0..account] : Told(known)
  BY DEF OnTheWay
<1>6. Told(known)'
  BY <1>1, <1>3, <1>5 DEF Told
<1> QED
  BY <1>1, <1>4, <1>6 DEF OnTheWay

\* The client handles the first message: it knows what that brings.
LEMMA ReceivingTold ==
  ASSUME IInv, OnTheWay, Receive
  PROVE  OnTheWay'
<1>1. UNCHANGED <<link, chosen, account, toServer>>
  BY DEF Receive, RecvList, RecvAck, RecvSpawn
<1> SUFFICES ASSUME link = "open", ~chosen
             PROVE  OnTheWay'
  BY <1>1 DEF OnTheWay
<1> DEFINE n == Len(toClient)
           m == toClient[1]
<1>2. /\ n \in Nat /\ n >= 1 /\ m = Head(toClient) /\ m \in ToClient
      /\ Len(toClient') = n - 1
      /\ \A k \in 1..(n - 1) : toClient'[k] = toClient[k + 1]
  <2>1. toClient \in Seq(ToClient) /\ toClient # <<>> /\ toClient' = Tail(toClient)
    BY DEF Receive, RecvList, RecvAck, RecvSpawn, Take, IInv, TypeOK, ToClient
  <2> QED
    BY <2>1, Taking
<1> HIDE DEF n, m
<1>3. PICK known \in [0..n -> 0..account] : Told(known)
  BY DEF OnTheWay, n
<1>4. /\ items = Listed(known[0]) /\ Brings(m, known[0], known[1])
      /\ \A k \in 1..n : Brings(toClient[k], known[k - 1], known[k])
      /\ known[n] = IF Asked THEN 0 ELSE account
      /\ known[0] \in Nat /\ known[1] \in Nat
  <2>1. 1 \in 1..n /\ 1 - 1 = 0 /\ 0 \in 0..n /\ 1 \in 0..n /\ account \in Nat
    BY <1>2 DEF IInv, TypeOK
  <2>2. known[0] \in 0..account /\ known[1] \in 0..account
    BY <1>3, <2>1
  <2>3. /\ items = Listed(known[0])
        /\ \A k \in 1..n : Brings(toClient[k], known[k - 1], known[k])
        /\ known[n] = IF Asked THEN 0 ELSE account
    BY <1>3 DEF Told, n
  <2>4. Brings(toClient[1], known[1 - 1], known[1])
    BY <2>1, <2>3
  <2> QED
    BY <2>1, <2>2, <2>3, <2>4 DEF m
<1>5. items' = Listed(known[1])
  <2>1. CASE RecvList
    <3>1. m.kind = "LGCL" /\ items' = items \o Listed(m.characters)
      BY <1>2, <2>1 DEF RecvList, Take, Listed
    <3>2. known[0] = 0 /\ known[1] = m.characters
      BY <1>4, <3>1 DEF Brings
    <3>3. items = <<>>
      BY <1>4, <3>2, ListedFacts
    <3> QED
      BY <1>4, <3>1, <3>2, <3>3, ListedFacts
  <2>2. CASE RecvAck
    <3>1. /\ m.kind = "CH_CR_ACK"
          /\ Accepted(m) => items' = Append(items, Item(m.characters))
          /\ ~Accepted(m) => items' = items
      BY <1>2, <2>2 DEF RecvAck, Take
    <3>2. CASE Accepted(m)
      <4>1. m.characters = known[0] + 1 /\ known[1] = known[0] + 1
        BY <1>4, <3>1, <3>2 DEF Brings
      <4> QED
        BY <1>4, <3>1, <3>2, <4>1, ListedFacts
    <3>3. CASE ~Accepted(m)
      BY <1>4, <3>1, <3>3 DEF Brings
    <3> QED
      BY <3>2, <3>3
  <2>3. CASE RecvSpawn
    <3>1. m.kind = "spawn"
      BY <1>2, <2>3 DEF RecvSpawn, Take
    <3> QED
      BY <1>4, <3>1 DEF Brings
  <2> QED
    BY <2>1, <2>2, <2>3 DEF Receive
<1>6. /\ \A k \in 0..(n - 1) : k + 1 \in 0..n /\ known[k + 1] \in 0..account
      /\ n - 1 \in 0..(n - 1) /\ 0 \in 0..(n - 1) /\ (n - 1) + 1 = n
      /\ \A k \in 1..(n - 1) : /\ k \in 0..(n - 1) /\ k - 1 \in 0..(n - 1)
                               /\ k + 1 \in 1..n /\ (k + 1) - 1 = k /\ (k - 1) + 1 = k
  BY <1>2, <1>3
<1>7. PICK later \in [0..(n - 1) -> 0..account] : later = [k \in 0..(n - 1) |-> known[k + 1]]
  BY <1>6
<1>8. /\ \A k \in 1..(n - 1) : later[k] = known[k + 1] /\ later[k - 1] = known[k]
      /\ later[0] = known[1] /\ later[n - 1] = known[n]
  BY <1>6, <1>7
<1>9. \A k \in 1..(n - 1) : Brings(toClient'[k], later[k - 1], later[k])
  BY <1>2, <1>4, <1>6, <1>8
<1>10. Asked' = Asked /\ (AskedFirst => AskedFirst')
  BY <1>1 DEF Asked, AskedFirst
<1>11. Told(later)'
  BY <1>1, <1>2, <1>4, <1>5, <1>8, <1>9, <1>10 DEF Told
<1> QED
  BY <1>1, <1>2, <1>7, <1>10, <1>11 DEF OnTheWay

\* The server answers the first request: what the answer brings is what it has.
LEMMA AnsweringTold ==
  ASSUME FlowAssumption, IInv, OnTheWay, Serve
  PROVE  OnTheWay'
<1>1. UNCHANGED <<link, chosen, items>>
  BY DEF Serve, AnswerList, AnswerCreate, AnswerSpawn, RefuseSpawn, Answer, local
<1> SUFFICES ASSUME link = "open", ~chosen
             PROVE  OnTheWay'
  BY <1>1 DEF OnTheWay
<1> DEFINE n == Len(toClient)
<1>2. PICK kind \in {"LGCL", "CH_CR_ACK", "spawn"}, characters \in Nat :
        Answer(kind, characters)
  <2>1. toServer \in Seq(ToServer) /\ toServer # <<>>
    BY DEF Serve, IInv, TypeOK, ToServer
  <2>2. Head(toServer) = toServer[1] /\ 1 \in 1..Len(toServer)
    BY <2>1, Taking
  <2>3. ~RefuseSpawn
    BY <2>2 DEF RefuseSpawn, IInv, Unchosen, NoRequest
  <2> QED
    BY <2>3 DEF Serve, AnswerList, AnswerCreate, AnswerSpawn, IInv, TypeOK
<1>3. /\ toServer \in Seq(ToServer) /\ toServer # <<>> /\ Head(toServer) = toServer[1]
      /\ Len(toServer) \in Nat /\ Len(toServer') = Len(toServer) - 1
      /\ \A i \in 1..(Len(toServer) - 1) : toServer'[i] = toServer[i + 1]
      /\ 1 \in 1..Len(toServer)
  <2>1. toServer \in Seq(ToServer) /\ toServer # <<>> /\ toServer' = Tail(toServer)
    BY <1>2 DEF Answer, IInv, TypeOK, ToServer
  <2> QED
    BY <2>1, Taking
<1>4. toServer[1] # "spawn"
  BY <1>3 DEF IInv, Unchosen, NoRequest
<1>5. PICK m \in ToClient :
        /\ toClient' = Append(toClient, m)
        /\ Brings(m, IF Asked THEN 0 ELSE account, account')
        /\ account' \in Nat /\ account <= account'
  <2>1. account \in Nat
    BY DEF IInv, TypeOK
  <2>2. CASE AnswerList
    <3> DEFINE a == [kind |-> "LGCL", characters |-> account]
    <3>1. toClient' = Append(toClient, a) /\ account' = account /\ Asked
      BY <1>3, <2>2 DEF AnswerList, Answer, Asked
    <3>2. a \in ToClient /\ Brings(a, 0, account)
      BY <2>1 DEF ToClient, Brings
    <3> QED
      BY <2>1, <3>1, <3>2
  <2>3. CASE AnswerCreate
    <3>1. ~Asked
      BY <1>3, <2>3 DEF AnswerCreate, Asked
    <3>2. CASE Answer("CH_CR_ACK", 0) /\ UNCHANGED account
      <4> DEFINE a == [kind |-> "CH_CR_ACK", characters |-> 0]
      <4>1. a \in ToClient /\ Brings(a, account, account)
        BY <2>1 DEF ToClient, Brings, Accepted
      <4> QED
        BY <2>1, <3>1, <3>2, <4>1 DEF Answer
    <3>3. CASE Answer("CH_CR_ACK", account + 1) /\ account' = account + 1
      <4> DEFINE a == [kind |-> "CH_CR_ACK", characters |-> account + 1]
      <4>1. a \in ToClient /\ Brings(a, account, account + 1)
        BY <2>1 DEF ToClient, Brings, Accepted
      <4> QED
        BY <2>1, <3>1, <3>3, <4>1 DEF Answer
    <3> QED
      BY <2>3, <3>2, <3>3 DEF AnswerCreate
  <2>4. CASE AnswerSpawn
    BY <1>3, <1>4, <2>4 DEF AnswerSpawn
  <2>5. CASE RefuseSpawn
    BY <1>3, <1>4, <2>5 DEF RefuseSpawn
  <2> QED
    BY <2>2, <2>3, <2>4, <2>5 DEF Serve
<1>6. /\ n \in Nat /\ Len(toClient') = n + 1 /\ toClient'[n + 1] = m
      /\ \A k \in 1..n : toClient'[k] = toClient[k]
  <2>1. toClient \in Seq(ToClient)
    BY DEF IInv, TypeOK, ToClient
  <2> QED
    BY <1>5, <2>1, Appending
<1>7. PICK known \in [0..n -> 0..account] : Told(known)
  BY DEF OnTheWay
<1>8. /\ items = Listed(known[0])
      /\ \A k \in 1..n : Brings(toClient[k], known[k - 1], known[k])
      /\ known[n] = IF Asked THEN 0 ELSE account
  BY <1>7 DEF Told
<1>9. AskedFirst' /\ ~Asked'
  <2>1. AskedFirst
    BY DEF OnTheWay
  <2>2. AskedFirst'
    BY <1>3, <2>1 DEF AskedFirst
  <2>3. ASSUME Asked' PROVE FALSE
    <3>1. toServer' # <<>> /\ toServer'[1] = "LGCL" /\ toServer' \in Seq(ToServer)
      BY <1>2, <1>3, <2>3 DEF Asked, Answer
    <3>2. Len(toServer') >= 1
      BY <3>1
    <3>3. 2 \in 2..Len(toServer) /\ toServer'[1] = toServer[1 + 1]
      BY <1>3, <3>2
    <3> QED
      BY <2>1, <3>1, <3>3 DEF AskedFirst
  <2> QED
    BY <2>2, <2>3
<1> HIDE DEF n
<1>10. /\ \A k \in 0..(n + 1) : k \in 0..n \/ k = n + 1
       /\ \A k \in 0..n : known[k] \in 0..account' /\ k # n + 1 /\ k \in 0..(n + 1)
       /\ \A k \in 1..n : k \in 0..n /\ k - 1 \in 0..n
       /\ account' \in 0..account' /\ n + 1 \in 0..(n + 1) /\ (n + 1) - 1 = n
       /\ 0 \in 0..n /\ n \in 0..n
       /\ \A k \in 1..(n + 1) : k \in 1..n \/ k = n + 1
  <2>1. \A k \in 0..n : known[k] \in 0..account /\ account \in Nat
    BY <1>7 DEF IInv, TypeOK
  <2> QED
    BY <1>5, <1>6, <2>1
<1>11. PICK more \in [0..(n + 1) -> 0..account'] :
         more = [k \in 0..(n + 1) |-> IF k = n + 1 THEN account' ELSE known[k]]
  BY <1>10
<1>12. /\ \A k \in 0..n : more[k] = known[k]
       /\ more[n + 1] = account'
  BY <1>10, <1>11
<1>13. \A k \in 1..(n + 1) : Brings(toClient'[k], more[k - 1], more[k])
  <2>1. \A k \in 1..n : Brings(toClient'[k], more[k - 1], more[k])
    BY <1>6, <1>8, <1>10, <1>12
  <2>2. Brings(toClient'[n + 1], more[(n + 1) - 1], more[n + 1])
    BY <1>5, <1>6, <1>8, <1>10, <1>12
  <2> QED
    BY <1>10, <2>1, <2>2
<1>14. Told(more)'
  BY <1>1, <1>6, <1>8, <1>9, <1>10, <1>12, <1>13 DEF Told
<1> QED
  BY <1>6, <1>9, <1>11, <1>14 DEF OnTheWay

LEMMA NextTold ==
  ASSUME FlowAssumption, IInv, Quiet, OnTheWay, [Next]_vars
  PROVE  Quiet' /\ OnTheWay'
<1>1. CASE StartMenu \/ StartFailed
  <2>1. ~(link' = "open") /\ items = <<>> /\ toServer = <<>> /\ toClient = <<>>
    BY <1>1 DEF StartMenu, StartFailed, Unreachable, IInv, Before, Quiet
  <2>2. UNCHANGED <<items, toServer, toClient>>
    BY <1>1 DEF StartMenu, StartFailed, Unreachable
  <2> QED
    BY <2>1, <2>2 DEF Quiet, OnTheWay
<1>2. CASE StartCookie \/ ConnectShard
  <2>1. link = "none" /\ link' # "none" /\ (Identified \/ NotConnected)
    BY <1>2 DEF StartCookie, ConnectShard, Identified, NotConnected, Switch, IInv, Before, Menu
  <2>2. UNCHANGED <<items, account, toClient>>
    BY <1>2 DEF StartCookie, ConnectShard
  <2> QED
    BY <2>1, <2>2, ConnectingTold DEF Quiet
<1>3. CASE \/ Options \/ OptionsEnd \/ PlayOffline \/ PlayOnline \/ Login
           \/ WantCharacter \/ CancelCreate \/ UNCHANGED vars
  <2>1. UNCHANGED <<link, chosen, items, account, toServer, toClient>>
    BY <1>3 DEF Options, OptionsEnd, PlayOffline, PlayOnline, Login, WantCharacter,
                CancelCreate, vars, local
  <2> QED
    BY <2>1, SameToldKeeps DEF Quiet
<1>4. CASE SelectCharacter
  <2>1. chosen' = TRUE /\ items # <<>> /\ UNCHANGED link
    BY <1>4 DEF SelectCharacter
  <2> QED
    BY <2>1 DEF Quiet, OnTheWay
<1>5. CASE CreateCharacter
  <2>1. Quiet'
    BY <1>5 DEF CreateCharacter, Send, Quiet
  <2> QED
    BY <1>5, <2>1, CreatingTold
<1>6. CASE Receive
  <2>1. toClient # <<>> /\ UNCHANGED link
    BY <1>6 DEF Receive, RecvList, RecvAck, RecvSpawn, Take
  <2> QED
    BY <1>6, <2>1, ReceivingTold DEF Quiet
<1>7. CASE Serve
  <2>1. toServer # <<>> /\ UNCHANGED link
    BY <1>7 DEF Serve, AnswerList, AnswerCreate, AnswerSpawn, RefuseSpawn, Answer
  <2> QED
    BY <1>7, <2>1, AnsweringTold DEF Quiet
<1>8. CASE Break
  BY <1>8 DEF Break, Quiet, OnTheWay
<1> QED
  BY <1>1, <1>2, <1>3, <1>4, <1>5, <1>6, <1>7, <1>8 DEF Next, Buttons

-----------------------------------------------------------------------------
(* What becomes of a choice: the third invariant.                          *)

\* A request that is not the first stays when the first one is taken.
LEMMA RequestStays ==
  ASSUME toServer \in Seq(ToServer), toServer # <<>>, toServer' = Tail(toServer),
         NEW i \in 2..Len(toServer), toServer[i] = "spawn"
  PROVE  ~NoRequest'
<1>1. /\ Len(toServer) \in Nat /\ Len(toServer') = Len(toServer) - 1
      /\ \A k \in 1..(Len(toServer) - 1) : toServer'[k] = toServer[k + 1]
  BY Taking
<1>2. i - 1 \in 1..Len(toServer') /\ (i - 1) + 1 = i /\ i - 1 \in 1..(Len(toServer) - 1)
  BY <1>1
<1>3. toServer'[i - 1] = "spawn"
  BY <1>1, <1>2
<1> QED
  BY <1>2, <1>3 DEF NoRequest

\* An answer to a choice stays when the client takes another message.
LEMMA AnswerStays ==
  ASSUME NEW kind \in {"LGCL", "CH_CR_ACK"}, toClient \in Seq(ToClient), Take(kind),
         ~NoAnswer
  PROVE  ~NoAnswer'
<1>1. /\ toClient # <<>> /\ toClient' = Tail(toClient) /\ Head(toClient).kind = kind
  BY DEF Take
<1>2. /\ Len(toClient) \in Nat /\ Head(toClient) = toClient[1]
      /\ Len(toClient') = Len(toClient) - 1
      /\ \A k \in 1..(Len(toClient) - 1) : toClient'[k] = toClient[k + 1]
  BY <1>1, Taking
<1>3. PICK i \in 1..Len(toClient) : toClient[i].kind = "spawn"
  BY DEF NoAnswer
<1>4. i # 1
  BY <1>1, <1>2, <1>3
<1>5. i - 1 \in 1..Len(toClient') /\ (i - 1) + 1 = i /\ i - 1 \in 1..(Len(toClient) - 1)
  BY <1>2, <1>3, <1>4
<1>6. toClient'[i - 1].kind = "spawn"
  BY <1>2, <1>3, <1>5
<1> QED
  BY <1>5, <1>6 DEF NoAnswer

\* What is sent over an open connection is there, and so is what was there.
LEMMA Sent ==
  ASSUME NEW m \in ToServer, toServer \in Seq(ToServer), link = "open", Send(m)
  PROVE  m = "spawn" \/ ~NoRequest => ~NoRequest'
<1>1. /\ Len(toServer) \in Nat /\ Len(toServer') = Len(toServer) + 1
      /\ \A i \in 1..Len(toServer) : toServer'[i] = toServer[i]
      /\ toServer'[Len(toServer) + 1] = m
  BY Appending DEF Send
<1>2. m = "spawn" => ~NoRequest'
  <2>1. Len(toServer) + 1 \in 1..Len(toServer')
    BY <1>1
  <2> QED
    BY <1>1, <2>1 DEF NoRequest
<1>3. ~NoRequest => ~NoRequest'
  <2>1. \A i \in 1..Len(toServer) : i \in 1..Len(toServer')
    BY <1>1
  <2> QED
    BY <1>1, <2>1 DEF NoRequest
<1> QED
  BY <1>2, <1>3

\* The server answers the first request, or refuses it.
LEMMA ServedUnderWay ==
  ASSUME IInv, ChoiceUnderWay, Serve
  PROVE  ChoiceUnderWay'
<1>1. /\ toServer \in Seq(ToServer) /\ toServer # <<>> /\ toServer' = Tail(toServer)
      /\ toClient \in Seq(ToClient)
  BY DEF Serve, AnswerList, AnswerCreate, AnswerSpawn, RefuseSpawn, Answer, IInv, TypeOK,
         ToServer, ToClient
<1>2. Head(toServer) = toServer[1] /\ Len(toServer) \in Nat
  BY <1>1, Taking
<1>3. UNCHANGED local /\ UNCHANGED link
  BY DEF Serve, AnswerList, AnswerCreate, AnswerSpawn, RefuseSpawn, Answer
<1>4. CASE AnswerList \/ AnswerCreate
  <2>1. PICK m \in ToClient : toClient' = Append(toClient, m)
    <3>1. account \in Nat
      BY DEF IInv, TypeOK
    <3>2. \A kind \in {"LGCL", "CH_CR_ACK"}, n \in Nat :
            [kind |-> kind, characters |-> n] \in ToClient
      BY DEF ToClient
    <3> QED
      BY <1>4, <3>1, <3>2 DEF AnswerList, AnswerCreate, Answer
  <2>2. ~NoAnswer => ~NoAnswer'
    <3>1. /\ Len(toClient) \in Nat /\ Len(toClient') = Len(toClient) + 1
          /\ \A i \in 1..Len(toClient) : toClient'[i] = toClient[i]
      BY <1>1, <2>1, Appending
    <3>2. \A i \in 1..Len(toClient) : i \in 1..Len(toClient')
      BY <3>1
    <3> QED
      BY <3>1, <3>2 DEF NoAnswer
  <2>3. ~NoRequest => ~NoRequest'
    <3>1. SUFFICES ASSUME NEW i \in 1..Len(toServer), toServer[i] = "spawn"
                   PROVE  ~NoRequest'
      BY DEF NoRequest
    <3>2. toServer[1] # "spawn"
      BY <1>2, <1>4 DEF AnswerList, AnswerCreate
    <3>3. i \in 2..Len(toServer)
      BY <1>2, <3>1, <3>2
    <3> QED
      BY <1>1, <3>1, <3>3, RequestStays
  <2>4. UNCHANGED refused
    BY <1>4 DEF AnswerList, AnswerCreate, Answer
  <2> QED
    BY <1>3, <2>2, <2>3, <2>4 DEF ChoiceUnderWay, local
<1>5. CASE AnswerSpawn
  <2> DEFINE m == [kind |-> "spawn", characters |-> 0]
  <2>1. m \in ToClient /\ m.kind = "spawn" /\ toClient' = Append(toClient, m)
    BY <1>5 DEF AnswerSpawn, Answer, ToClient
  <2> HIDE DEF m
  <2>2. /\ Len(toClient) \in Nat /\ Len(toClient') = Len(toClient) + 1
        /\ toClient'[Len(toClient) + 1] = m
    BY <1>1, <2>1, Appending
  <2>3. Len(toClient) + 1 \in 1..Len(toClient')
    BY <2>2
  <2>4. ~NoAnswer'
    BY <2>1, <2>2, <2>3 DEF NoAnswer
  <2> QED
    BY <2>4 DEF ChoiceUnderWay
<1>6. CASE RefuseSpawn
  <2>1. ~refused' => \E i \in 2..Len(toServer) : toServer[i] = "spawn"
    BY <1>6 DEF RefuseSpawn
  <2>2. ~refused' => ~NoRequest'
    BY <1>1, <2>1, RequestStays
  <2> QED
    BY <2>2 DEF ChoiceUnderWay
<1> QED
  BY <1>4, <1>5, <1>6 DEF Serve

LEMMA NextUnderWay ==
  ASSUME IInv, Reading, ChoiceUnderWay, [Next]_vars
  PROVE  Reading' /\ ChoiceUnderWay'
<1>1. /\ tasks \in [Task -> Nat]
      /\ toServer \in Seq(ToServer) /\ toClient \in Seq(ToClient)
  BY DEF IInv, TypeOK, ToServer, ToClient
<1>2. CASE StartMenu \/ StartFailed
  <2>1. ~(link' = "open") /\ shown' = {"MainMenu"}
    BY <1>2 DEF StartMenu, StartFailed, Unreachable, IInv, Before
  <2> QED
    BY <2>1 DEF Reading, ChoiceUnderWay
<1>3. CASE StartCookie \/ ConnectShard
  <2>1. ~chosen' /\ (link' = "open" => online')
    BY <1>3 DEF StartCookie, ConnectShard, Identified, NotConnected, Switch, IInv, Before,
                Menu
  <2>2. tasks'["Network"] > 0
    <3>1. CASE StartCookie
      BY <1>1, <3>1, Adding DEF StartCookie, Task
    <3>2. CASE ConnectShard
      BY <1>1, <3>2, Adding DEF ConnectShard, Switch, Reading, Task
    <3> QED
      BY <1>3, <3>1, <3>2
  <2> QED
    BY <2>1, <2>2 DEF Reading, ChoiceUnderWay
<1>4. CASE Options \/ OptionsEnd \/ Login \/ WantCharacter \/ CancelCreate
  <2>1. UNCHANGED <<tasks, link, online, chosen, undefined, refused, toServer, toClient>>
    BY <1>4 DEF Options, OptionsEnd, Login, WantCharacter, CancelCreate
  <2>2. shown' \cap {"ConnectLS", "ShardList"} # {} =>
          shown \cap {"ConnectLS", "ShardList"} # {}
    BY <1>4 DEF Options, OptionsEnd, Login, WantCharacter, CancelCreate, Switch
  <2> QED
    BY <2>1, <2>2 DEF Reading, ChoiceUnderWay, NoRequest, NoAnswer
<1>5. CASE PlayOffline \/ PlayOnline
  <2>1. link' = "none"
    BY <1>5 DEF PlayOffline, PlayOnline, Switch, IInv, Before, Menu
  <2>2. CASE PlayOffline
    <3>1. shown' \subseteq shown /\ tasks'["Network"] = tasks["Network"]
      BY <1>1, <2>2, Adding DEF PlayOffline, Task
    <3> QED
      BY <2>1, <3>1 DEF Reading, ChoiceUnderWay
  <2>3. CASE PlayOnline
    <3>1. tasks'["Network"] > 0
      BY <1>1, <2>3, Adding DEF PlayOnline, Task
    <3> QED
      BY <2>1, <3>1 DEF Reading, ChoiceUnderWay
  <2> QED
    BY <1>5, <2>2, <2>3
<1>6. CASE SelectCharacter \/ CreateCharacter
  <2>1. shown' \subseteq shown /\ UNCHANGED <<tasks, link, online>>
    BY <1>6 DEF SelectCharacter, CreateCharacter, AfterChoice
  <2>2. ASSUME link = "open", SelectCharacter
        PROVE  ~NoRequest'
    BY <1>1, <2>2, Sent DEF SelectCharacter, ToServer
  <2>3. ASSUME link = "open", CreateCharacter, ~NoRequest
        PROVE  ~NoRequest'
    BY <1>1, <2>3, Sent DEF CreateCharacter, ToServer
  <2>4. CreateCharacter => UNCHANGED <<chosen, undefined, refused, toClient>>
    BY DEF CreateCharacter
  <2>5. CreateCharacter => NoAnswer' = NoAnswer
    BY <2>4 DEF NoAnswer
  <2> QED
    BY <1>6, <2>1, <2>2, <2>3, <2>4, <2>5 DEF Reading, ChoiceUnderWay
<1>7. CASE RecvList \/ RecvAck
  <2>1. UNCHANGED <<tasks, link, online, chosen, undefined, refused, toServer>>
    BY <1>7 DEF RecvList, RecvAck
  <2>2. ~NoAnswer => ~NoAnswer'
    BY <1>1, <1>7, AnswerStays DEF RecvList, RecvAck
  <2>3. shown' \cap {"ConnectLS", "ShardList"} \subseteq shown
    BY <1>7 DEF RecvList, RecvAck, AfterAck
  <2> QED
    BY <2>1, <2>2, <2>3 DEF Reading, ChoiceUnderWay, NoRequest
<1>8. CASE RecvSpawn
  <2>1. UNCHANGED <<shown, link, online>> /\ tasks' = Started
    BY <1>8 DEF RecvSpawn
  <2>2. tasks'["Game"] > 0 /\ tasks'["Network"] = tasks["Network"]
    <3> DEFINE ts == [tasks EXCEPT !["Background"] = 0, !["PreGame"] = 0]
    <3>1. /\ ts \in [Task -> Nat]
          /\ ts["Network"] = tasks["Network"] /\ ts["Game"] = tasks["Game"]
      BY <1>1 DEF Task
    <3>2. tasks' = Added(ts, {"Game"})
      BY <2>1 DEF Started
    <3> HIDE DEF ts
    <3>3. \A t \in Task : tasks'[t] = IF t \in {"Game"} THEN ts[t] + 1 ELSE ts[t]
      BY <3>1, <3>2, Adding
    <3>4. tasks["Game"] \in Nat
      BY <1>1 DEF Task
    <3> QED
      BY <3>1, <3>3, <3>4 DEF Task
  <2> QED
    BY <2>1, <2>2 DEF Reading, ChoiceUnderWay
<1>9. CASE Serve
  <2>1. UNCHANGED <<local, link, online>>
    BY <1>9 DEF Serve, AnswerList, AnswerCreate, AnswerSpawn, RefuseSpawn, Answer
  <2>2. ChoiceUnderWay'
    BY <1>9, ServedUnderWay
  <2> QED
    BY <2>1, <2>2 DEF Reading, local
<1>10. CASE Break
  BY <1>10 DEF Break, Reading, ChoiceUnderWay, local
<1>11. CASE UNCHANGED vars
  BY <1>11 DEF vars, local, Reading, ChoiceUnderWay, NoRequest, NoAnswer
<1> QED
  BY <1>2, <1>3, <1>4, <1>5, <1>6, <1>7, <1>8, <1>9, <1>10, <1>11
     DEF Next, Buttons, Receive

-----------------------------------------------------------------------------
\* Windows, tasks, lists and what is under way agree in every order of buttons,
\* callbacks and answers.
THEOREM ClientFlowInvariant == Spec => []IInv
<1>1. Init => IInv
  BY InitInv
<1>2. IInv /\ [Next]_vars => IInv'
  BY NextInv
<1> QED
  BY <1>1, <1>2, PTL DEF Spec

\* The variables of the client and of its connection keep their types.
THEOREM TypeCorrect == Spec => []TypeOK
<1>1. IInv => TypeOK
  BY DEF IInv
<1> QED
  BY <1>1, ClientFlowInvariant, PTL

\* Whatever the server answers when: one window at a time (CPreGameTask,
\* cbCH_CR_ACK).
THEOREM OneWindow == Spec => []OneScreen
<1>1. IInv => OneScreen
  BY DEF IInv
<1> QED
  BY <1>1, ClientFlowInvariant, PTL

\* A game that no late acknowledgement disturbs runs alone (startGame).
THEOREM GameRunsAlone == Spec => []GameAlone
<1>1. IInv => GameAlone
  BY DEF IInv
<1> QED
  BY <1>1, ClientFlowInvariant, PTL

\* Freed and missing data are used in the named cases only
\* (handleCharSelectBtn, CGameTask::init).
THEOREM ChoicesAreSafe == Spec => []ChoiceIsSafe
<1>1. IInv => ChoiceIsSafe
  BY DEF IInv
<1> QED
  BY <1>1, ClientFlowInvariant, PTL

\* When everything sent has been handled, CharBox offers the characters of the
\* account, each once, however requests for new ones and their acknowledgements
\* cross the list (cbLGCharList, cbCH_CR_ACK, cbCHCR).
THEOREM TheAccountIsOffered == Spec => []OffersAccount
<1>1. Init => Quiet /\ OnTheWay
  BY DEF Init, Quiet, OnTheWay
<1>2. IInv /\ Quiet /\ OnTheWay /\ [Next]_vars => Quiet' /\ OnTheWay'
  BY FlowAssumption, NextTold
<1>3. IInv /\ OnTheWay => OffersAccount
  <2> SUFFICES ASSUME OnTheWay, link = "open", ~chosen, toServer = <<>>, toClient = <<>>
               PROVE  items = [i \in 1..account |-> Item(i)]
    BY DEF OffersAccount
  <2>1. PICK known \in [0..Len(toClient) -> 0..account] : Told(known)
    BY DEF OnTheWay
  <2>2. Len(toClient) = 0 /\ ~Asked
    BY DEF Asked
  <2>3. items = Listed(account)
    BY <2>1, <2>2 DEF Told
  <2> QED
    BY <2>3 DEF Listed
<1> QED
  BY <1>1, <1>2, <1>3, ClientFlowInvariant, PTL DEF Spec

\* A character that was chosen is asked for or its spawn is on the way back, and
\* the network task is there to read it, until the game runs; only a broken
\* connection or a refusal by userLogin loses it (handleCharSelectBtn,
\* CSimulationImpl::userLogin).
THEOREM NoChoiceIsLost ==
  Spec => [](/\ ChoiceUnderWay
             /\ link = "open" => online /\ tasks["Network"] > 0)
<1>1. Init => Reading /\ ChoiceUnderWay
  BY DEF Init, Reading, ChoiceUnderWay
<1>2. IInv /\ Reading /\ ChoiceUnderWay /\ [Next]_vars => Reading' /\ ChoiceUnderWay'
  BY NextUnderWay
<1>3. Reading => (link = "open" => online /\ tasks["Network"] > 0)
  BY DEF Reading
<1> QED
  BY <1>1, <1>2, <1>3, ClientFlowInvariant, PTL DEF Spec

=============================================================================
