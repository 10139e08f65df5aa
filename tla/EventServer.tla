---------------------------- MODULE EventServer -----------------------------
(***************************************************************************)
(* CGameEventServer: the time-ordered event queue that client and server   *)
(* share, the three-phase dispatch (PRE_EVENT, EVENT, POST_EVENT) and the  *)
(* recursion that arises when a listener posts an event while another one  *)
(* is being dispatched.                                                    *)
(*                                                                         *)
(* Listeners are abstract here: during a phase they may post any event not *)
(* posted before, and the phase as a whole answers TRUE or FALSE (one      *)
(* listener that answers FALSE filters the event).                         *)
(***************************************************************************)
EXTENDS EventQueue, FiniteSets

CONSTANTS Event,        \* the event objects that may be posted, each once
          MaxTime,      \* bound on timestamps and on the clock
          MaxRewinds    \* how often the clock may be corrected backwards

ASSUME EventAssumption   == IsFiniteSet(Event)
ASSUME MaxTimeAssumption == MaxTime \in Nat
ASSUME RewindAssumption  == MaxRewinds \in Nat

Time  == 0..MaxTime
Phase == {"pre", "event", "post"}

VARIABLES timestamp,    \* the Timestamp field of every event object
          now,          \* getTestTime(): the adjusted simulation time
          rewinds,      \* backward corrections so far (bounded by MaxRewinds)
          queue,        \* m_EventQueue, front at index 1, back at Len(queue)
          processing,   \* m_Processing
          cutoff,       \* the local "time" of processEventQueue
          stack,        \* dispatches under way, innermost last
          posted,       \* history: events handed to postEvent
          delivered     \* history: events whose dispatch has begun

clockVars == <<now, rewinds>>
vars == <<timestamp, now, rewinds, queue, processing, cutoff, stack, posted,
          delivered>>

-----------------------------------------------------------------------------
(* The queue.                                                              *)

Back == queue[Len(queue)]

\* The entries of q with a smaller timestamp than e.
Overtaken(q, e) == {i \in 1..Len(q) : timestamp[q[i]] < timestamp[e]}

\* Slips: the event goes to the back of the list; it is dropped when it
\* overtakes nothing.
EnqueueAtBack(q, e)          == Append(q, e)
EnqueueWithoutPushBack(q, e) == Looped(q, e, Overtaken(q, e))[Len(q)]

\* postEvent puts e into the queue.
Enqueue(q, e) == Inserted(q, e, Overtaken(q, e))

-----------------------------------------------------------------------------
Init ==
  /\ timestamp \in [Event -> Time]
  /\ now \in Time
  /\ rewinds = 0
  /\ queue = <<>>
  /\ processing = FALSE
  /\ cutoff = 0
  /\ stack = <<>>
  /\ posted = {}
  /\ delivered = {}

\* IBaseSimulation::updateTime, between two runs of processEventQueue.
UpdateTime ==
  /\ ~processing
  /\ now' \in {t \in Time : t > now}
  /\ UNCHANGED <<timestamp, rewinds, queue, processing, cutoff, stack, posted,
                 delivered>>

\* The client learns a smaller offset to the server's clock (recvPing), or
\* the smoothed frame time in getTestTime shrinks: time goes backwards.
RewindTime ==
  /\ ~processing
  /\ rewinds < MaxRewinds
  /\ now' \in {t \in Time : t < now}
  /\ rewinds' = rewinds + 1
  /\ UNCHANGED <<timestamp, queue, processing, cutoff, stack, posted,
                 delivered>>

\* postEvent while the queue is not being processed (network callbacks,
\* controllers, the user interface): the event is always queued.
PostOutside(e) ==
  /\ ~processing
  /\ e \notin posted
  /\ queue' = Enqueue(queue, e)
  /\ posted' = posted \cup {e}
  /\ UNCHANGED <<timestamp, now, rewinds, processing, cutoff, stack, delivered>>

\* Head of processEventQueue.
BeginProcessing ==
  /\ ~processing
  /\ processing' = TRUE
  /\ cutoff' = now
  /\ UNCHANGED <<timestamp, now, rewinds, queue, stack, posted, delivered>>

\* Slip: the loop does not look at the timestamp.
DispatchBackUnchecked ==
  /\ processing
  /\ stack = <<>>
  /\ queue # <<>>
  /\ stack' = <<[ev |-> Back, phase |-> "pre"]>>
  /\ delivered' = delivered \cup {Back}
  /\ UNCHANGED <<timestamp, now, rewinds, queue, processing, cutoff, posted>>

\* The loop condition holds: the entry at the back enters its PRE phase.
DispatchBack ==
  /\ processing
  /\ stack = <<>>
  /\ queue # <<>>
  /\ timestamp[Back] <= cutoff
  /\ stack' = <<[ev |-> Back, phase |-> "pre"]>>
  /\ delivered' = delivered \cup {Back}
  /\ UNCHANGED <<timestamp, now, rewinds, queue, processing, cutoff, posted>>

\* postEvent from inside a handler, for an event that is due: dispatched at
\* once, on top of the dispatch whose handler posted it.
PostNested(e) ==
  /\ processing
  /\ stack # <<>>
  /\ e \notin posted
  /\ timestamp[e] <= now
  /\ stack' = Append(stack, [ev |-> e, phase |-> "pre"])
  /\ posted' = posted \cup {e}
  /\ delivered' = delivered \cup {e}
  /\ UNCHANGED <<timestamp, now, rewinds, queue, processing, cutoff>>

\* postEvent from inside a handler, for an event of the future: queued.
PostDeferred(e) ==
  /\ processing
  /\ stack # <<>>
  /\ e \notin posted
  /\ timestamp[e] > now
  /\ queue' = Enqueue(queue, e)
  /\ posted' = posted \cup {e}
  /\ UNCHANGED <<timestamp, now, rewinds, processing, cutoff, stack, delivered>>

\* Every listener of the phase answered TRUE and there is a next phase. The
\* outermost dispatch reads m_EventQueue.back() afresh for every phase.
NextPhase(p) == IF p = "pre" THEN "event" ELSE "post"

PhasePasses ==
  LET n == Len(stack)
  IN  /\ stack # <<>>
      /\ stack[n].phase # "post"
      /\ stack' = [stack EXCEPT
                     ![n] = [ev    |-> IF n = 1 THEN Back ELSE @.ev,
                             phase |-> NextPhase(@.phase)]]
      /\ UNCHANGED <<timestamp, now, rewinds, queue, processing, cutoff,
                     posted, delivered>>

\* The POST phase is over, or a listener filtered the event in an earlier
\* phase: a nested dispatch returns to the handler below it ...
NestedEnds ==
  /\ Len(stack) > 1
  /\ stack' = SubSeq(stack, 1, Len(stack) - 1)
  /\ UNCHANGED <<timestamp, now, rewinds, queue, processing, cutoff, posted,
                 delivered>>

OutermostForgetsPop ==
  /\ Len(stack) = 1
  /\ stack' = <<>>
  /\ UNCHANGED <<timestamp, now, rewinds, queue, processing, cutoff, posted,
                 delivered>>

\* ... and the outermost one pops whatever entry is now at the back.
OutermostEnds ==
  /\ Len(stack) = 1
  /\ stack' = <<>>
  /\ queue' = SubSeq(queue, 1, Len(queue) - 1)
  /\ UNCHANGED <<timestamp, now, rewinds, processing, cutoff, posted, delivered>>

\* The loop condition fails.
EndProcessing ==
  /\ processing
  /\ stack = <<>>
  /\ queue # <<>> => timestamp[Back] > cutoff
  /\ processing' = FALSE
  /\ UNCHANGED <<timestamp, now, rewinds, queue, cutoff, stack, posted,
                 delivered>>

Next ==
  \/ UpdateTime
  \/ RewindTime
  \/ \E e \in Event : PostOutside(e)
  \/ BeginProcessing
  \/ DispatchBack
  \/ \E e \in Event : PostNested(e)
  \/ \E e \in Event : PostDeferred(e)
  \/ PhasePasses
  \/ NestedEnds
  \/ OutermostEnds
  \/ EndProcessing

Spec == Init /\ [][Next]_vars

\* The main loop calls updateTime and processEventQueue every frame, and every
\* handler returns. updateTime is enabled again and again rather than always
\* (not while the queue is processed), so its fairness is the strong one.
Fairness ==
  /\ SF_vars(UpdateTime)
  /\ WF_vars(BeginProcessing)
  /\ WF_vars(DispatchBack)
  /\ WF_vars(PhasePasses)
  /\ WF_vars(NestedEnds)
  /\ WF_vars(OutermostEnds)
  /\ WF_vars(EndProcessing)

FairSpec == Spec /\ Fairness

-----------------------------------------------------------------------------
(* Properties.                                                             *)

Entries == {queue[i] : i \in 1..Len(queue)}

\* The shape of every variable.
TypeOK ==
  /\ timestamp \in [Event -> Time]
  /\ now \in Time
  /\ rewinds \in 0..MaxRewinds
  /\ queue \in Seq(Event)
  /\ processing \in BOOLEAN
  /\ cutoff \in Time
  /\ stack \in Seq([ev : Event, phase : Phase])
  /\ posted \subseteq Event
  /\ delivered \subseteq posted

\* While an event from the queue is being dispatched it stays at the back of
\* the queue, whatever its handlers post: processEventQueue never names the
\* event again, it re-reads back() for every phase and pops the back at the
\* end, so anything a handler put behind it would be popped undelivered.
BackIsCurrent ==
  stack # <<>> => queue # <<>> /\ stack[1].ev = Back

\* No event is in the hands of a listener before its Timestamp, neither one
\* taken from the queue nor one a handler posted on the spot.
NeverEarly ==
  \A i \in 1..Len(stack) : timestamp[stack[i].ev] <= now

\* No posted event is lost: it has been dispatched or an entry for it waits.
NothingLost ==
  posted \subseteq delivered \cup Entries

\* How the machinery's own variables hang together.
DispatchInv ==
  /\ stack # <<>> => processing
  /\ processing => cutoff = now
  /\ \A i \in 1..Len(stack) : stack[i].ev \in delivered
  /\ Entries \subseteq posted

\* The inductive invariant behind the four above.
IInv ==
  /\ TypeOK
  /\ BackIsCurrent
  /\ NeverEarly
  /\ NothingLost
  /\ DispatchInv

\* The outermost dispatch carries one event through all its phases.
OneEventThroughPhases ==
  [][stack # <<>> /\ stack' # <<>> => stack'[1].ev = stack[1].ev]_vars

\* The abstract mailbox, over the same variables.
Mailbox == INSTANCE EventMailbox

\* The queue, its phases and its recursion implement the mailbox.
ImplementsMailbox == Mailbox!MailboxSafety

\* Every posted event reaches its listeners, however its entry is shuffled
\* behind entries of later events.
EventuallyDelivered ==
  \A e \in Event : e \in posted ~> e \in delivered

\* processEventQueue returns.
ProcessingEnds == processing ~> ~processing

=============================================================================
