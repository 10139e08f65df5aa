---------------------------- MODULE EventMailbox ----------------------------
(***************************************************************************)
(* What CGameEventServer promises the rest of the simulation, with no      *)
(* queue, no phases and no recursion: an event that was posted is handed   *)
(* to its listeners, at least once, and never before its Timestamp is due. *)
(* "At least once" is deliberate: the queue of the code can hold several   *)
(* entries for one event (see EventServer!Enqueue).                        *)
(***************************************************************************)
EXTENDS Naturals

CONSTANTS Event,        \* the event objects that may be posted
          MaxTime       \* bound on timestamps and on the clock

VARIABLES timestamp,    \* the Timestamp field of every event object
          now,          \* CGameEventServer::getTestTime()
          posted,       \* events handed to postEvent
          delivered     \* events whose dispatch has begun

mailboxVars == <<timestamp, now, posted, delivered>>

MailboxInit ==
  /\ timestamp \in [Event -> 0..MaxTime]
  /\ now \in 0..MaxTime
  /\ posted = {}
  /\ delivered = {}

\* The clock moves, forwards or (client offset correction) backwards.
Clock ==
  /\ now' \in 0..MaxTime
  /\ UNCHANGED <<timestamp, posted, delivered>>

\* An event is handed in; it stays undelivered for now.
Accept(e) ==
  /\ e \notin posted
  /\ posted' = posted \cup {e}
  /\ UNCHANGED <<timestamp, now, delivered>>

\* A due event is handed to the listeners.
Deliver(e) ==
  /\ e \in posted
  /\ timestamp[e] <= now
  /\ delivered' = delivered \cup {e}
  /\ UNCHANGED <<timestamp, now, posted>>

\* A handler posts an event that is already due: delivered on the spot.
AcceptAndDeliver(e) ==
  /\ e \notin posted
  /\ timestamp[e] <= now
  /\ posted' = posted \cup {e}
  /\ delivered' = delivered \cup {e}
  /\ UNCHANGED <<timestamp, now>>

MailboxNext ==
  \/ Clock
  \/ \E e \in Event : Accept(e) \/ Deliver(e) \/ AcceptAndDeliver(e)

MailboxSafety == MailboxInit /\ [][MailboxNext]_mailboxVars

=============================================================================
