----------------------------- MODULE ClientClock -----------------------------
(***************************************************************************)
(* How a client learns the offset of the server's clock: updatePing,        *)
(* sendPing and recvPing of the client's CSimulationImpl, and the server's  *)
(* cbPingRequestClient.                                                    *)
(*                                                                         *)
(* Only differences of times matter, so a message carries its age and the   *)
(* clock has no bound; the clocks run at the same speed, the server's ahead *)
(* of the client's by skew.  The averages are fractions of a tick: a tick   *)
(* is Scale parts, and Scale is chosen so that the divisions are exact.     *)
(***************************************************************************)
EXTENDS Integers, Sequences, FiniteSets

CONSTANTS Skew,        \* how far the server's clock may be ahead, in ticks
          Delay,       \* how long a message may take at most, in ticks
          FastPings,   \* pings sent in quick succession (25 in the code)
          Fast, Slow,  \* ticks to the next ping (0.4 s and 5 s)
          Window,      \* the samples an average remembers (5)
          Improving,   \* pings until all samples count for the offset (50)
          Epsilon,     \* m_Epsilon, in parts of a tick
          Scale,       \* parts of a tick
          MaxPings     \* bound on the answers taken

ASSUME ClockAssumption ==
  /\ Skew \subseteq Int /\ Delay \subseteq Nat
  /\ {FastPings, Fast, Slow, Window, Improving, Epsilon, MaxPings} \subseteq Nat
  /\ Scale \in Nat \ {0}

\* The first answer is not averaged with an offset nobody measured, and the pings
\* counted here are too few for a tick to fall below epsilon.
ASSUME ImprovingAssumption == Improving > 1 /\ Epsilon * MaxPings < Scale

None == -1    \* m_PingLocalTimeStamp is 0: no ping was sent

VARIABLES skew,        \* the server's time() less the client's
          delay,       \* the longest way of a message on this connection
          self,        \* m_SelfSob is there
          online,      \* connected()
          since,       \* time since the last ping was sent (its time stamp)
          untilNext,   \* time until m_NextPingTime
          count,       \* m_PingCount
          noPing,      \* m_NoPing
          latency,     \* m_PingLatency, in parts
          offset,      \* m_OffsetTime, in parts
          toServer,    \* PINGREQ under way: the age of each
          toClient     \* PINGACK under way: age of the ping, time on the way back

clockVars == <<skew, delay, self, online, since, untilNext, count, noPing, latency, offset,
          toServer, toClient>>

ClockInit ==
  /\ skew \in Skew /\ delay \in Delay
  /\ self = FALSE /\ online = TRUE
  /\ since = None /\ untilNext = 0
  /\ count = 0 /\ noPing = FALSE /\ latency = 0 /\ offset = 0
  /\ toServer = <<>> /\ toClient = <<>>

\* spawnSelf: from here on pings are sent.
Spawn ==
  /\ online /\ ~self
  /\ self' = TRUE
  /\ UNCHANGED <<skew, delay, online, since, untilNext, count, noPing, latency, offset,
                 toServer, toClient>>

\* Time passes; no message stays longer than delay on its way.
Tick ==
  /\ \A i \in DOMAIN toServer : toServer[i] < delay
  /\ \A i \in DOMAIN toClient : toClient[i].back < delay
  /\ since' = IF since = None THEN None
              ELSE IF since > 2 * delay THEN since ELSE since + 1
  /\ untilNext' = IF untilNext = 0 THEN 0 ELSE untilNext - 1
  /\ toServer' = [i \in DOMAIN toServer |-> toServer[i] + 1]
  /\ toClient' = [i \in DOMAIN toClient |->
                    [age |-> toClient[i].age + 1, back |-> toClient[i].back + 1]]
  /\ UNCHANGED <<skew, delay, self, online, count, noPing, latency, offset>>

\* The connection breaks; what was under way is lost.
Disconnect ==
  /\ online
  /\ online' = FALSE
  /\ toServer' = <<>> /\ toClient' = <<>>
  /\ UNCHANGED <<skew, delay, self, since, untilNext, count, noPing, latency, offset>>

-----------------------------------------------------------------------------
\* Slip: the next ping is sent before the answer can be back.
IntervalTooShort == 1

\* When the next ping is due.
Interval == IF count < FastPings THEN Fast ELSE Slow

\* updatePing and sendPing.
SendPing ==
  /\ ~noPing /\ self /\ untilNext = 0 /\ online
  /\ count < MaxPings
  /\ since' = 0
  /\ untilNext' = Interval
  /\ toServer' = Append(toServer, 0)
  /\ UNCHANGED <<skew, delay, self, online, count, noPing, latency, offset, toClient>>

\* cbPingRequestClient.
AnswerPing ==
  /\ toServer # <<>>
  /\ toServer' = Tail(toServer)
  /\ toClient' = Append(toClient, [age |-> Head(toServer), back |-> 0])
  /\ UNCHANGED <<skew, delay, self, online, since, untilNext, count, noPing, latency,
                 offset>>

-----------------------------------------------------------------------------
Smaller(a, b) == IF a < b THEN a ELSE b

\* The latency after an answer to a ping of this age.
NewLatency(age) ==
  LET weight == Smaller(Window, count)
  IN  (weight * latency + age * Scale) \div (weight + 1)

\* serverTimeStamp - localRecvTimeStamp + m_PingLatency: the offset as this
\* answer shows it.
Shown(answer) == (skew - answer.back) * Scale + NewLatency(answer.age)

\* Slip: the weight counts the new sample as well.
OffsetWeightOfAll ==
  IF count + 1 < Improving THEN Smaller(Window, count + 1) ELSE count + 1

\* The weight of what was known before.
OffsetWeight == IF count + 1 < Improving THEN Smaller(Window, count) ELSE count

\* recvPing, for the answer to the last ping.
TakeAnswer(answer) ==
  /\ count' = count + 1
  /\ latency' = NewLatency(answer.age)
  /\ IF Shown(answer) > Epsilon * (count + 1)
       THEN /\ offset' = (offset * OffsetWeight + Shown(answer)) \div (OffsetWeight + 1)
            /\ noPing' = noPing
       ELSE noPing' = TRUE /\ offset' = offset

\* An answer that is not to the last ping sent is dropped.
RecvPing ==
  /\ toClient # <<>> /\ count < MaxPings
  /\ toClient' = Tail(toClient)
  /\ IF Head(toClient).age = since
       THEN TakeAnswer(Head(toClient))
       ELSE UNCHANGED <<count, latency, offset, noPing>>
  /\ UNCHANGED <<skew, delay, self, online, since, untilNext, toServer>>

ClockNext ==
  \/ Spawn \/ Tick \/ Disconnect
  \/ SendPing \/ AnswerPing \/ RecvPing

ClockSpec == ClockInit /\ [][ClockNext]_clockVars

\* Both processes go on with their frames, and the network delivers in time.
LiveSpec ==
  /\ ClockSpec
  /\ WF_clockVars(Spawn) /\ WF_clockVars(Tick)
  /\ WF_clockVars(SendPing) /\ WF_clockVars(AnswerPing) /\ WF_clockVars(RecvPing)

-----------------------------------------------------------------------------
(* Properties.                                                             *)

Distance(a, b) == IF a < b THEN b - a ELSE a - b

ClockTypeOK ==
  /\ skew \in Skew /\ delay \in Delay /\ {self, online, noPing} \subseteq BOOLEAN
  /\ since \in None..(2 * delay + 1) /\ untilNext \in Nat
  /\ count \in 0..MaxPings
  /\ latency \in 0..(2 * delay * Scale) /\ offset \in Int
  /\ toServer \in Seq(0..delay)
  /\ toClient \in Seq([age : 0..(2 * delay), back : 0..delay])

\* A client that started after the server has, from its first answer on, an offset
\* that is too large by a round trip or too small by one way at most, and goes on
\* pinging: the averages and their weights keep it there.
OffsetNear ==
  skew > delay /\ count > 0 =>
    /\ offset \in (skew - delay) * Scale .. (skew + 2 * delay) * Scale
    /\ ~noPing

\* As long as a round trip is shorter than the time between two pings, every ping
\* is answered before the next one replaces its time stamp: the samples are taken
\* unless the connection breaks or the pings are stopped.
PingsAnswered ==
  <>(delay + delay >= Fast \/ ~online \/ noPing \/ count = MaxPings)

\* The comment on m_NoPing in recvPing: no need for pings anymore since we already
\* have what we believe to be the correct offset.
StoppedIsCorrect ==
  noPing => Distance(offset, skew * Scale) <= 2 * delay * Scale

=============================================================================
