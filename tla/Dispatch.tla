------------------------------ MODULE Dispatch ------------------------------
(***************************************************************************)
(* The listeners of CGameEventServer, and how an event is handed to them.  *)
(*                                                                         *)
(* EventServer models the queue and takes processEvent as one step.  Here  *)
(* processEvent is opened up: four registries, each a set of listeners     *)
(* that is walked with an iterator while the handlers it calls register    *)
(* and remove listeners, destroy listeners and sobs, and post events that  *)
(* are dispatched at once, in a frame of their own above the walk.         *)
(*                                                                         *)
(* A listener is its address: a std::set of pointers is walked by address. *)
(* The overloads that take vectors of ids are loops over the single ids.   *)
(***************************************************************************)
EXTENDS Integers, Sequences, FiniteSets

CONSTANTS Listener,       \* addresses of the IGameEventListener objects
          Sob,            \* ids of sobs
          GameEvent,      \* event ids below ISobEventID
          SobEvent,       \* event ids above ISobEventID; no event has that id
          MaxRegistered,  \* bound on the entries of the registries
          MaxOps,         \* bound on what handlers do in a dispatch
          MaxDepth        \* bound on dispatches inside dispatches

ASSUME ListenerAssumption == Listener \subseteq Nat \ {0}
ASSUME EventAssumption    == GameEvent \cap SobEvent = {}
ASSUME BoundAssumption    == MaxRegistered \in Nat /\ MaxOps \in Nat /\ MaxDepth \in Nat

PRE_EVENT  == 0
EVENT      == 1
POST_EVENT == 2
ALL_TYPES  == 3

\* The types an EListenerType stands for.
TypesOf(type) == IF type = ALL_TYPES THEN PRE_EVENT..POST_EVENT ELSE {type}

\* The sets of listeners: all events, one event, one sob, one event of one sob.
Key == {<<"all">>}
       \cup {<<"event", e>> : e \in GameEvent \cup SobEvent}
       \cup {<<"sob", s>> : s \in Sob}
       \cup {<<"both", e, s>> : e \in SobEvent, s \in Sob}

Entry == [key : Key, type : PRE_EVENT..POST_EVENT, who : Listener]

\* An event is its id and, for a sob event, its TargetID.
Event == [id : GameEvent] \cup [id : SobEvent, target : Sob]

\* The registries processEvent goes through, in this order.
Places(event) ==
  <<<<"all">>, <<"event", event.id>>>>
  \o IF event.id \in SobEvent
       THEN <<<<"sob", event.target>>, <<"both", event.id, event.target>>>>
       ELSE <<>>

VARIABLES listeners,  \* the entries of the four registries
          stack,      \* the dispatches that are going on, innermost last
          busy,       \* the handler of the innermost one is on the call stack
          undefined,  \* an iterator was used whose entry had been erased
          ops,        \* what handlers have done in this dispatch
          dead        \* listeners that were destroyed

vars == <<listeners, stack, busy, undefined, ops, dead>>

\* A dispatch.  steady, told and vetoed are history: the entries there have
\* been since this phase began, those called, and how many had been when one
\* returned false.
Frame == [event : Event, type : PRE_EVENT..POST_EVENT, place : 1..5,
          at : Listener \cup {0}, ret : BOOLEAN, dangling : BOOLEAN,
          steady : SUBSET Entry, told : Seq(Entry), vetoed : Nat]

Depth == Len(stack)
Top   == stack[Depth]

\* The stack with other fields in its innermost dispatch.
WithTop(frame) == [stack EXCEPT ![Depth] = frame]

-----------------------------------------------------------------------------
Init ==
  /\ listeners = {} /\ stack = <<>>
  /\ busy = FALSE /\ undefined = FALSE
  /\ ops = 0 /\ dead = {}

\* Code outside of a dispatch, or a handler, is running.
InCode ==
  /\ ~undefined
  /\ stack = <<>> \/ (busy /\ ops < MaxOps)

\* What every step of such code does besides its own doing.
CodeRuns ==
  /\ ops' = IF stack = <<>> THEN 0 ELSE ops + 1
  /\ UNCHANGED <<busy, undefined>>

\* The entry the iterator of a dispatch stands on.
Node(frame) == [key |-> Places(frame.event)[frame.place], type |-> frame.type,
                who |-> frame.at]

\* Entries are erased: an iterator that stands on one of them dangles.
Erase(gone) ==
  /\ listeners' = listeners \ gone
  /\ stack' = [i \in 1..Depth |->
                 [stack[i] EXCEPT !.dangling = @ \/ Node(stack[i]) \in gone,
                                  !.steady = @ \ gone]]

-----------------------------------------------------------------------------
(* addListener.                                                            *)

\* Slip: the larger array of a sob does not take over its old entries.
AddListenerGrowsEmpty(key, type, l) ==
  /\ InCode /\ l \notin dead
  /\ listeners' = (IF key[1] = "both"
                     THEN {e \in listeners : e.key[1] # "both" \/ e.key[3] # key[3] \/ e.key[2] = key[2]}
                     ELSE listeners)
                  \cup {[key |-> key, type |-> t, who |-> l] : t \in TypesOf(type)}
  /\ Cardinality(listeners') <= MaxRegistered
  /\ CodeRuns
  /\ UNCHANGED <<stack, dead>>

\* A listener is put into one of the sets; it is there at most once.
AddListener(key, type, l) ==
  /\ InCode /\ l \notin dead
  /\ listeners' = listeners \cup {[key |-> key, type |-> t, who |-> l] : t \in TypesOf(type)}
  /\ Cardinality(listeners') <= MaxRegistered
  /\ CodeRuns
  /\ UNCHANGED <<stack, dead>>

-----------------------------------------------------------------------------
(* removeListener.                                                         *)

Of(l, type) == {e \in listeners : e.who = l /\ e.type \in TypesOf(type)}

\* The sets for an event, be it of any sob or of one sob.
ForEvent(id) == {e \in listeners : e.key[1] \in {"event", "both"} /\ e.key[2] = id}

\* The sets for a sob, be it for any event or for one event.
ForSob(s) == {e \in listeners : \/ e.key = <<"sob", s>>
                                \/ e.key[1] = "both" /\ e.key[3] = s}

\* Slip: the arrays of the sobs are forgotten.
ForListenerNotBoth(l, type) == {e \in Of(l, type) : e.key[1] # "both"}

\* removeListener(l, type): from everything.
ForListener(l, type) == Of(l, type)

\* What a call of removeListener with these arguments erases.
Removable(l, type) ==
  {ForListener(l, type)}
  \cup {Of(l, type) \cap ForEvent(id) : id \in GameEvent \cup SobEvent}
  \cup {Of(l, type) \cap ForSob(s) : s \in Sob}
  \cup {Of(l, type) \cap {e \in listeners : e.key = <<"both", id, s>>} : id \in SobEvent, s \in Sob}

RemoveListener(l, type) ==
  /\ InCode
  /\ \E gone \in Removable(l, type) : Erase(gone)
  /\ CodeRuns
  /\ UNCHANGED dead

\* The destructor of a listener: it removes itself from everything.
Destroy(l) ==
  /\ InCode /\ l \notin dead
  /\ Erase(ForListener(l, ALL_TYPES))
  /\ dead' = dead \cup {l}
  /\ CodeRuns

\* removeListeners(sobID), from the destructor of a sob.
RemoveListenersOfSob(s) ==
  /\ InCode
  /\ Erase(ForSob(s))
  /\ CodeRuns
  /\ UNCHANGED dead

\* removeListeners(eventID, type): all types of the event's own sets go,
\* and this type of those of the sobs.
RemoveListenersOfEvent(id, type) ==
  /\ InCode
  /\ Erase({e \in ForEvent(id) : e.key[1] = "event" \/ e.type \in TypesOf(type)})
  /\ CodeRuns
  /\ UNCHANGED dead

-----------------------------------------------------------------------------
(* processEvent.                                                           *)

\* A dispatch at the beginning of a phase.
NewFrame(event, type, told) ==
  [event |-> event, type |-> type, place |-> 1, at |-> 0,
   ret |-> TRUE, dangling |-> FALSE,
   steady |-> {e \in listeners :
                 /\ e.type = type
                 /\ \E p \in 1..Len(Places(event)) : e.key = Places(event)[p]},
   told |-> told, vetoed |-> 0]

\* processEventQueue takes an event from the queue ...
HandOut(event) ==
  /\ ~undefined /\ stack = <<>>
  /\ stack' = <<NewFrame(event, PRE_EVENT, <<>>)>>
  /\ ops' = 0
  /\ UNCHANGED <<listeners, busy, undefined, dead>>

\* ... or a handler posts one that is due.
Post(event) ==
  /\ ~undefined /\ busy /\ ops < MaxOps /\ Depth < MaxDepth
  /\ stack' = Append(stack, NewFrame(event, PRE_EVENT, <<>>))
  /\ busy' = FALSE
  /\ ops' = ops + 1
  /\ UNCHANGED <<listeners, undefined, dead>>

Walking == ~undefined /\ stack # <<>> /\ ~busy

\* The listeners the walk has before it in this set.
Ahead == {l \in Listener : /\ l > Top.at
                           /\ [key |-> Places(Top.event)[Top.place],
                               type |-> Top.type, who |-> l] \in listeners}

InPlace == Top.place <= Len(Places(Top.event))

\* Slip: a veto is remembered, and the rest are told all the same.
TellAnyway(l) ==
  /\ Walking /\ InPlace
  /\ l \in Ahead /\ \A m \in Ahead : l <= m
  /\ LET frame == [Top EXCEPT !.at = l] IN
       stack' = WithTop([frame EXCEPT !.told = Append(@, Node(frame))])
  /\ busy' = TRUE
  /\ UNCHANGED <<listeners, undefined, ops, dead>>

\* The walk calls the handler of the next listener.
Tell(l) ==
  /\ Walking /\ InPlace /\ Top.ret
  /\ l \in Ahead /\ \A m \in Ahead : l <= m
  /\ LET frame == [Top EXCEPT !.at = l] IN
       stack' = WithTop([frame EXCEPT !.told = Append(@, Node(frame))])
  /\ busy' = TRUE
  /\ UNCHANGED <<listeners, undefined, ops, dead>>

\* Slip: the walk begins at the front of the set again after every handler.
ReplyAtFront(answer) ==
  /\ ~undefined /\ busy
  /\ undefined' = Top.dangling
  /\ stack' = WithTop([Top EXCEPT !.ret = @ /\ answer, !.at = 0])
  /\ busy' = FALSE
  /\ UNCHANGED <<listeners, ops, dead>>

\* A handler returns; the iterator goes to the next entry.
Reply(answer) ==
  /\ ~undefined /\ busy
  /\ undefined' = Top.dangling
  /\ stack' = WithTop([Top EXCEPT
                 !.ret = @ /\ answer,
                 !.vetoed = IF answer \/ @ # 0 THEN @ ELSE Len(Top.told)])
  /\ busy' = FALSE
  /\ UNCHANGED <<listeners, ops, dead>>

\* The walk is at the end of a set, or passes over the rest of it after a veto.
NextPlace ==
  /\ Walking /\ InPlace
  /\ ~Top.ret \/ Ahead = {}
  /\ stack' = WithTop([Top EXCEPT !.place = @ + 1, !.at = 0])
  /\ UNCHANGED <<listeners, busy, undefined, ops, dead>>

\* The event is done with.
Finished == Top.type = POST_EVENT \/ ~Top.ret

EndPhase ==
  /\ Walking /\ ~InPlace
  /\ IF Finished
       THEN /\ stack' = SubSeq(stack, 1, Depth - 1)
            /\ busy' = (Depth > 1)
       ELSE /\ stack' = WithTop([NewFrame(Top.event, Top.type + 1, Top.told)
                                   EXCEPT !.vetoed = Top.vetoed])
            /\ UNCHANGED busy
  /\ UNCHANGED <<listeners, undefined, ops, dead>>

-----------------------------------------------------------------------------
Code ==
  \/ \E l \in Listener :
       \/ \E type \in PRE_EVENT..ALL_TYPES :
            \/ \E key \in Key : AddListener(key, type, l)
            \/ RemoveListener(l, type)
       \/ Destroy(l)
  \/ \E s \in Sob : RemoveListenersOfSob(s)
  \/ \E id \in GameEvent \cup SobEvent, type \in PRE_EVENT..ALL_TYPES :
       RemoveListenersOfEvent(id, type)

Walk ==
  \/ \E l \in Listener : Tell(l)
  \/ \E answer \in BOOLEAN : Reply(answer)
  \/ NextPlace
  \/ EndPhase

Next == \/ Code
        \/ \E event \in Event : HandOut(event) \/ Post(event)
        \/ Walk

Spec == Init /\ [][Next]_vars

-----------------------------------------------------------------------------
(* Properties.                                                             *)

TypeOK ==
  /\ listeners \subseteq Entry
  /\ stack \in Seq(Frame)
  /\ busy \in BOOLEAN /\ undefined \in BOOLEAN
  /\ ops \in Nat
  /\ dead \subseteq Listener
  /\ busy => stack # <<>> /\ InPlace

\* Every listener that was registered all the time a phase of an event lasted
\* has been told when the phase ends, unless one before it returned false:
\* whatever handlers registered, removed, destroyed and posted meanwhile.
ToldAll ==
  \A i \in 1..Depth :
    ~undefined /\ stack[i].vetoed = 0 /\ stack[i].place > Len(Places(stack[i].event)) =>
      \A e \in stack[i].steady : \E k \in 1..Len(stack[i].told) : stack[i].told[k] = e

\* No listener is told twice by one registry in one phase of an event, also not
\* if it is removed and registered again in between.
ToldOnce ==
  \A i \in 1..Depth : \A j, k \in 1..Len(stack[i].told) :
    j # k => stack[i].told[j] # stack[i].told[k]

\* When a handler has returned false, no other is told of this event: not in
\* the rest of its set, not in the other registries and not in a later phase.
VetoHolds ==
  \A i \in 1..Depth : stack[i].vetoed # 0 => Len(stack[i].told) = stack[i].vetoed

\* A listener that was destroyed is never called again, in no dispatch that goes
\* on and in none to come: what the destructors of the views and controllers
\* rely on.
DeadIsDeaf ==
  [][\A l \in dead : ~Tell(l)]_vars

=============================================================================
