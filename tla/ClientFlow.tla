------------------------------ MODULE ClientFlow ------------------------------
(***************************************************************************)
(* A client from its start to the game: CWWTask::init, the windows of       *)
(* CIntroTask and CPreGameTask with what their buttons do, the connection   *)
(* of CNetworkTask with its callbacks, and the frontend service's answers.  *)
(*                                                                         *)
(* Connections are ordered and lose nothing until they break.  What a       *)
(* button posts to the client's own event queue is sent in the same frame,  *)
(* so it is on its way at once.                                            *)
(***************************************************************************)
EXTENDS Naturals, Sequences

CONSTANTS Owned,       \* how many characters the user may have at the start
          Allowed,     \* CharactersAllowed
          MaxCreates   \* bound on the characters asked for

ASSUME FlowAssumption ==
  /\ Owned \subseteq Nat /\ {Allowed, MaxCreates} \subseteq Nat

Window == {"MainMenu", "Options", "ConnectLS", "ShardList", "SelectChar", "CreateChar"}
Task   == {"Intro", "Background", "Network", "PreGame", "Game"}

VARIABLES start,       \* which branch CWWTask::init took
          shown,       \* the windows that are shown
          tasks,       \* how often a task is on the task manager's lists
          link,        \* m_Client: none, open, or broken (also never open)
          online,      \* m_NetworkState = eOnline
          items,       \* CharBox: characters, and whether their data is alive
          self,        \* m_SelfSob is there
          account,     \* the server's characters of the user, 1..account
          refused,     \* history: the last character chosen was refused
          creates,     \* CH_CR sent so far
          chosen,      \* history: a character was chosen
          late,        \* history: a character was acknowledged after that
          undefined,   \* freed or NULL memory was used
          toServer, toClient    \* the connection

local  == <<start, shown, tasks, items, self, creates, chosen, late, undefined>>
vars   == <<local, link, online, account, refused, toServer, toClient>>

Init ==
  /\ start = "no" /\ shown = {} /\ tasks = [t \in Task |-> 0]
  /\ link = "none" /\ online = FALSE
  /\ items = <<>> /\ self = FALSE
  /\ account \in Owned /\ refused = FALSE /\ creates = 0
  /\ chosen = FALSE /\ late = FALSE /\ undefined = FALSE
  /\ toServer = <<>> /\ toClient = <<>>

-----------------------------------------------------------------------------
(* The connection.                                                         *)

\* Slip: CPreGameTask asks for the list as well.
IdentifiedAskingTwice ==
  /\ link' = "open" /\ online' = TRUE
  /\ toServer' = <<"LGCL", "LGCL">>

\* CNetworkTask::connect, with what its loop waits for: cbIdentification, which
\* asks for the character list.
Identified ==
  /\ link' = "open" /\ online' = TRUE
  /\ toServer' = <<"LGCL">>

\* The frontend refuses, or the connection breaks before the identification: the
\* loop ends all the same, and connect returns no reason.
NotConnected ==
  /\ link' = "broken" /\ online' = FALSE
  /\ UNCHANGED toServer

\* ESocket: the client is released, and connect returns a reason.
Unreachable ==
  /\ link' = "none" /\ online' = FALSE
  /\ UNCHANGED toServer

\* Slip: what is not yet flushed is overwritten.
SendOver(m) == toServer' = IF link = "open" THEN <<m>> ELSE toServer

\* Whatever is sent once the connection is broken goes nowhere.
Send(m) == toServer' = IF link = "open" THEN Append(toServer, m) ELSE toServer

\* The connection breaks; m_NetworkState stays what it is.
Break ==
  /\ link = "open"
  /\ link' = "broken"
  /\ toServer' = <<>> /\ toClient' = <<>>
  /\ UNCHANGED <<local, online, account, refused>>

-----------------------------------------------------------------------------
(* CWWTask::init and CIntroTask.                                           *)

Added(ts, names) == [t \in Task |-> IF t \in names THEN ts[t] + 1 ELSE ts[t]]

\* Without an address and a cookie: CIntroTask, whose init adds CBackgroundTask.
StartMenu ==
  /\ start = "no"
  /\ start' = "menu" /\ shown' = {"MainMenu"}
  /\ tasks' = Added(tasks, {"Intro", "Background"})
  /\ UNCHANGED <<link, online, items, self, account, refused, creates, chosen, late,
                 undefined, toServer, toClient>>

\* With both, and no reason from connect.
StartCookie ==
  /\ start = "no"
  /\ Identified \/ NotConnected
  /\ start' = "cookie" /\ shown' = {"SelectChar"}
  /\ tasks' = Added(tasks, {"Network", "PreGame"})
  /\ UNCHANGED <<items, self, account, refused, creates, chosen, late, undefined,
                 toClient>>

\* With both, and a reason: the menu, and CNetworkTask stays on the lists.
StartFailed ==
  /\ start = "no"
  /\ Unreachable
  /\ start' = "failed" /\ shown' = {"MainMenu"}
  /\ tasks' = Added(tasks, {"Network", "Intro", "Background"})
  /\ UNCHANGED <<items, self, account, refused, creates, chosen, late, undefined,
                 toClient>>

\* A button of a window that leaves it for another one.
Switch(from, to) ==
  /\ from \in shown
  /\ shown' = (shown \ {from}) \cup {to}

Options ==
  /\ Switch("MainMenu", "Options")
  /\ UNCHANGED <<start, tasks, link, online, items, self, account, refused, creates,
                 chosen, late, undefined, toServer, toClient>>

\* handleOptionsSave and handleOptionsCancel.
OptionsEnd ==
  /\ Switch("Options", "MainMenu")
  /\ UNCHANGED <<start, tasks, link, online, items, self, account, refused, creates,
                 chosen, late, undefined, toServer, toClient>>

\* handlePlayOffline; CGameTask::init uses the own sob.
PlayOffline ==
  /\ "MainMenu" \in shown
  /\ shown' = shown \ {"MainMenu"}
  /\ tasks' = Added(tasks, {"Game"})
  /\ undefined' = ~self
  /\ UNCHANGED <<start, link, online, items, self, account, refused, creates,
                 chosen, late, toServer, toClient>>

\* handlePlayOnline; CNetworkTask::init takes the client offline.
PlayOnline ==
  /\ Switch("MainMenu", "ConnectLS")
  /\ tasks' = Added(tasks, {"Network"})
  /\ online' = FALSE
  /\ UNCHANGED <<start, link, items, self, account, refused, creates, chosen, late,
                 undefined, toServer, toClient>>

\* handleConnect, when the login service accepts; the window stays otherwise.
Login ==
  /\ Switch("ConnectLS", "ShardList")
  /\ UNCHANGED <<start, tasks, link, online, items, self, account, refused, creates,
                 chosen, late, undefined, toServer, toClient>>

\* handleConnectShard, with a shard selected. (A reason of connect changes
\* nothing: the window stays.)
ConnectShard ==
  /\ Identified \/ NotConnected
  /\ Switch("ShardList", "SelectChar")
  /\ tasks' = Added(tasks, {"PreGame"})
  /\ UNCHANGED <<start, items, self, account, refused, creates, chosen, late,
                 undefined, toClient>>

-----------------------------------------------------------------------------
(* CPreGameTask.                                                           *)

\* Slip: the window is not hidden.
AfterChoiceSame == shown

\* What is shown after a choice.
AfterChoice == shown \ {"SelectChar"}

\* The loop over the indices of a list that shrinks removes the first, third,
\* fifth item; the data of all of them is freed before.
Left(list) == [i \in 1..(Len(list) \div 2) |-> [list[2 * i] EXCEPT !.alive = FALSE]]

\* handleCharSelectBtn, with a character selected. Data that was freed before is
\* read, or freed once more.
SelectCharacter ==
  /\ "SelectChar" \in shown /\ items # <<>>
  /\ shown' = AfterChoice
  /\ Send("spawn")
  /\ undefined' = \E i \in DOMAIN items : ~items[i].alive
  /\ items' = Left(items)
  /\ chosen' = TRUE /\ refused' = FALSE
  /\ UNCHANGED <<start, tasks, link, online, self, account, creates, late, toClient>>

\* handleCharSelectCreateBtn.
WantCharacter ==
  /\ Switch("SelectChar", "CreateChar")
  /\ UNCHANGED <<start, tasks, link, online, items, self, account, refused, creates,
                 chosen, late, undefined, toServer, toClient>>

\* handleCharCreateCreateBtn, with a type selected: the window stays.
CreateCharacter ==
  /\ "CreateChar" \in shown
  /\ creates < MaxCreates
  /\ creates' = creates + 1
  /\ Send("CH_CR")
  /\ UNCHANGED <<start, shown, tasks, link, online, items, self, account, refused,
                 chosen, late, undefined, toClient>>

\* handleCharCreateCancelBtn, whatever was asked for.
CancelCreate ==
  /\ Switch("CreateChar", "SelectChar")
  /\ UNCHANGED <<start, tasks, link, online, items, self, account, refused, creates,
                 chosen, late, undefined, toServer, toClient>>

-----------------------------------------------------------------------------
(* CNetworkTask::update, a message at a time.                              *)

Take(kind) ==
  /\ online /\ tasks["Network"] > 0
  /\ toClient # <<>> /\ Head(toClient).kind = kind
  /\ toClient' = Tail(toClient)

Item(c) == [character |-> c, alive |-> TRUE]

\* cbLGCharList.
RecvList ==
  /\ Take("LGCL")
  /\ items' = items \o [i \in 1..Head(toClient).characters |-> Item(i)]
  /\ UNCHANGED <<start, shown, tasks, link, online, self, account, refused, creates,
                 chosen, late, undefined, toServer>>

\* An empty reason.
Accepted(answer) == answer.characters > 0

\* What is shown after an acknowledgement, whatever was shown before.
AfterAck == (shown \cup {"SelectChar"}) \ {"CreateChar"}

\* cbCH_CR_ACK.
RecvAck ==
  /\ Take("CH_CR_ACK")
  /\ IF Accepted(Head(toClient))
       THEN /\ items' = Append(items, Item(Head(toClient).characters))
            /\ shown' = AfterAck
            /\ late' = (late \/ chosen)
       ELSE UNCHANGED <<items, shown, late>>
  /\ UNCHANGED <<start, tasks, link, online, self, account, refused, creates,
                 chosen, undefined, toServer>>

\* Slip: the game starts beside what was there.
StartedBeside == Added(tasks, {"Game"})

\* startGame: CBackgroundTask and CPreGameTask are removed, CGameTask is added.
Started == Added([tasks EXCEPT !["Background"] = 0, !["PreGame"] = 0], {"Game"})

\* CClientEventManager::spawn: the own sob, then startGame.
RecvSpawn ==
  /\ Take("spawn")
  /\ self' = TRUE
  /\ tasks' = Started
  /\ UNCHANGED <<start, shown, link, online, items, account, refused, creates,
                 chosen, late, undefined, toServer>>

-----------------------------------------------------------------------------
(* The frontend service.                                                   *)

Answer(kind, characters) ==
  /\ toServer # <<>>
  /\ toServer' = Tail(toServer)
  /\ toClient' = Append(toClient, [kind |-> kind, characters |-> characters])
  /\ UNCHANGED <<local, link, online, refused>>

\* cbLGCharList.
AnswerList ==
  /\ Head(toServer) = "LGCL"
  /\ Answer("LGCL", account)
  /\ UNCHANGED account

\* cbCHCR: no more than allowed; 0 stands for a reason.
AnswerCreate ==
  /\ Head(toServer) = "CH_CR"
  /\ \/ account >= Allowed /\ Answer("CH_CR_ACK", 0) /\ UNCHANGED account
     \/ account < Allowed /\ Answer("CH_CR_ACK", account + 1) /\ account' = account + 1

\* CSimulationImpl::userLogin, and the spawn event of the new sob.
AnswerSpawn ==
  /\ Head(toServer) = "spawn"
  /\ Answer("spawn", 0)
  /\ UNCHANGED account

\* userLogin finds that the character is not the user's, or cannot find out: it
\* returns before it makes a sob, and nothing is sent. Only a choice behind this
\* one may still be answered.
RefuseSpawn ==
  /\ Head(toServer) = "spawn"
  /\ toServer' = Tail(toServer)
  /\ refused' = \A i \in 2..Len(toServer) : toServer[i] # "spawn"
  /\ UNCHANGED <<local, link, online, account, toClient>>

-----------------------------------------------------------------------------
Buttons ==
  \/ Options \/ OptionsEnd \/ PlayOffline \/ PlayOnline \/ Login \/ ConnectShard
  \/ SelectCharacter \/ WantCharacter \/ CreateCharacter \/ CancelCreate

Receive == RecvList \/ RecvAck \/ RecvSpawn

Serve ==
  /\ toServer # <<>>
  /\ AnswerList \/ AnswerCreate \/ AnswerSpawn \/ RefuseSpawn

\* Nothing is known of the program once it has used memory it may not use.
Next ==
  /\ ~undefined
  /\ StartMenu \/ StartCookie \/ StartFailed \/ Buttons \/ Receive \/ Serve \/ Break

Spec == Init /\ [][Next]_vars

\* The client runs its frames, the server its callbacks. Whether a choice is
\* answered or refused is the database's decision: nothing is assumed of it.
LiveSpec == Spec /\ WF_vars(~undefined /\ Receive) /\ WF_vars(~undefined /\ Serve)

-----------------------------------------------------------------------------
(* Properties.                                                             *)

TypeOK ==
  /\ start \in {"no", "menu", "cookie", "failed"}
  /\ shown \subseteq Window /\ tasks \in [Task -> Nat]
  /\ link \in {"none", "open", "broken"}
  /\ online \in BOOLEAN /\ self \in BOOLEAN
  /\ items \in Seq([character : Nat, alive : BOOLEAN])
  /\ account \in Nat /\ refused \in BOOLEAN /\ creates \in 0..MaxCreates
  /\ chosen \in BOOLEAN /\ late \in BOOLEAN /\ undefined \in BOOLEAN
  /\ toServer \in Seq({"LGCL", "CH_CR", "spawn"})
  /\ toClient \in Seq([kind : {"LGCL", "CH_CR_ACK", "spawn"}, characters : Nat])

\* The player sees one window at most, although the answers of the server switch
\* windows whatever the player has opened meanwhile.
OneScreen == \A w, v \in shown : w = v

\* The characters offered are those of the account, each once and as long as
\* none was chosen with its data, however the list and the acknowledgements of
\* new characters cross the player's requests for more.
OffersAccount ==
  link = "open" /\ ~chosen /\ toServer = <<>> /\ toClient = <<>> =>
    items = [i \in 1..account |-> Item(i)]

\* Memory that may not be used is used only by a player who chooses again after
\* the late acknowledgement of a new character brought the window back, with
\* items whose data the first choice freed, or who plays offline, without a sob.
ChoiceIsSafe ==
  undefined => late \/ (tasks["Game"] > 0 /\ link = "none")

\* In the game no window of the way to it is left, nor the background and the
\* pre-game task, the game runs once, and so does everything else; unless a late
\* acknowledgement brought the window back, or a start with a cookie failed and
\* left CNetworkTask on the lists.
GameAlone ==
  tasks["Game"] > 0 /\ ~late =>
    /\ shown = {}
    /\ link # "none" => tasks["PreGame"] = 0 /\ tasks["Background"] = 0
    /\ \A t \in Task : tasks[t] > 1 => t = "Network" /\ start = "failed"

\* Whoever has chosen a character plays, unless the connection breaks or userLogin
\* refuses the character: then the client hears nothing and, its window hidden by
\* the choice, waits for ever. A refusal excuses the last choice only.
ChoicePlays ==
  chosen ~> (tasks["Game"] > 0 \/ refused \/ link # "open" \/ undefined)

=============================================================================
