----------------------------- MODULE TimeProofs ------------------------------
(***************************************************************************)
(* Proofs about time on the client: what StateLayers counts of it and      *)
(* PerformerView shows, for frames of any length, events of any age and    *)
(* any number of changes in a frame; and what ClientClock learns of the    *)
(* server's, for servers ahead by any number of ticks, messages that take  *)
(* any time, and any weights of the averages.                              *)
(***************************************************************************)
EXTENDS PerformerView, ClientClock, TLAPS

-----------------------------------------------------------------------------
(* The state layers of a sob and the view of a performer.                  *)

\* All layers and the controller remember the same time.
Agree == \A l \in Layer : correction[l] = moveCorrection

\* What is remembered is what was counted, as long as one change did it; the
\* update settles it.
Settled ==
  /\ updated => moveCorrection = 0
  /\ updated /\ changes <= 1 => moved = delta
  /\ ~updated /\ changes <= 1 => moved = moveCorrection
  /\ ~updated /\ changes = 0 => moveCorrection = 0

\* A layer is ahead of its age by what was counted ahead.
AheadOfAge == \A l \in exact : duration[l] = age[l] + correction[l]

IInv == TypeOK /\ MovedAsHandled /\ Agree /\ Settled /\ AheadOfAge

-----------------------------------------------------------------------------
LEMMA InitInv == Init => IInv
<1> SUFFICES ASSUME Init PROVE IInv
  OBVIOUS
<1> USE DEF Init
<1>1. TypeOK
  <2>1. MaxDelta \in Nat /\ 0 \in 0..MaxChanges
    BY BoundAssumption
  <2>2. active \in [Layer -> State]
    BY DEF State
  <2>3. updated \in BOOLEAN
    BY Zenon
  <2>4. delta \in 1..MaxDelta /\ changes \in 0..MaxChanges
    BY <2>1
  <2>5. /\ duration \in [Layer -> Int] /\ correction \in [Layer -> Int]
        /\ counted \in [Layer -> Int] /\ age \in [Layer -> Int]
        /\ moved \in Int /\ moveCorrection \in Int /\ exact \subseteq Layer
    OBVIOUS
  <2> QED
    BY <2>2, <2>3, <2>4, <2>5, Zenon DEF TypeOK
<1>2. MovedAsHandled /\ Agree /\ Settled /\ AheadOfAge
  BY DEF MovedAsHandled, Agree, Settled, AheadOfAge
<1> QED
  BY <1>1, <1>2 DEF IInv

\* A new frame only resets what the last one counted.
LEMMA NewFrameStep ==
  ASSUME IInv, NEW d \in 1..MaxDelta, NewFrame(d)
  PROVE  IInv'
<1> USE DEF IInv, NewFrame
<1>1. TypeOK'
  <2>1. changes' \in 0..MaxChanges
    BY BoundAssumption
  <2>2. counted' \in [Layer -> Int]
    OBVIOUS
  <2>3. updated' \in BOOLEAN
    BY Zenon
  <2>4. delta' \in 1..MaxDelta /\ moved' \in Int
    OBVIOUS
  <2> QED
    BY <2>1, <2>2, <2>3, <2>4, Zenon DEF TypeOK
<1>2. MovedAsHandled' /\ Agree'
  BY DEF MovedAsHandled, Agree
<1>3. Settled'
  BY DEF Settled
<1>4. AheadOfAge'
  BY DEF AheadOfAge
<1> QED
  BY <1>1, <1>2, <1>3, <1>4

\* A change moves every layer and the controller by the same time and notes it
\* everywhere; the durations of the layers follow their ages unless an earlier
\* change of the frame is overwritten.
LEMMA ChangeStateStep ==
  ASSUME IInv, NEW layer \in Layer, NEW state \in State,
         NEW dt \in (-MaxLate)..delta, ChangeState(layer, state, dt)
  PROVE  IInv'
<1>1. dt \in Int /\ delta \in Int
  BY BoundAssumption DEF IInv, TypeOK
<1>2. /\ duration' = [l \in Layer |-> IF l = layer THEN 0 ELSE duration[l] + dt]
      /\ counted' = [l \in Layer |-> counted[l] + dt]
      /\ correction' = [l \in Layer |-> dt]
      /\ moved' = moved + dt /\ moveCorrection' = dt
  BY DEF ChangeState, Exit, Remember, UpdatedBy
<1>3. /\ ~updated /\ changes < MaxChanges
      /\ active' = [active EXCEPT ![layer] = state]
      /\ changes' = changes + 1
      /\ exact' = {layer} \cup (IF changes = 0 THEN exact ELSE {})
      /\ age' = [l \in Layer |-> IF l = layer THEN -dt
                                 ELSE IF l \in exact' THEN age[l] ELSE 0]
      /\ delta' = delta /\ updated' = updated
  BY DEF ChangeState
<1> HIDE DEF ChangeState
<1>4. TypeOK'
  <2>1. age' \in [Layer -> Int] /\ duration' \in [Layer -> Int]
    BY <1>1, <1>2, <1>3 DEF IInv, TypeOK
  <2>2. counted' \in [Layer -> Int] /\ correction' \in [Layer -> Int]
    BY <1>1, <1>2 DEF IInv, TypeOK
  <2>3. changes' \in 0..MaxChanges
    BY <1>3, BoundAssumption DEF IInv, TypeOK
  <2>4. exact' \subseteq Layer
    BY <1>3 DEF IInv, TypeOK
  <2> QED
    BY <1>1, <1>2, <1>3, <2>1, <2>2, <2>3, <2>4 DEF IInv, TypeOK
<1>5. MovedAsHandled' /\ Agree'
  BY <1>1, <1>2 DEF IInv, MovedAsHandled, Agree
<1>6. Settled'
  BY <1>1, <1>2, <1>3 DEF IInv, Settled, TypeOK
<1>7. AheadOfAge'
  <2> SUFFICES ASSUME NEW l \in exact'
               PROVE  duration'[l] = age'[l] + correction'[l]
    BY DEF AheadOfAge
  <2>1. l \in Layer
    BY <1>3 DEF IInv, TypeOK
  <2>2. CASE l = layer
    BY <2>1, <2>2, <1>1, <1>2, <1>3
  <2>3. CASE l # layer
    <3>1. changes = 0 /\ l \in exact
      BY <2>3, <1>3
    <3>2. duration[l] = age[l] /\ duration[l] \in Int
      BY <3>1, <2>1, <1>3 DEF IInv, AheadOfAge, Agree, Settled, TypeOK
    <3> QED
      BY <3>1, <3>2, <2>1, <2>3, <1>1, <1>2, <1>3
  <2> QED
    BY <2>2, <2>3
<1> QED
  BY <1>4, <1>5, <1>6, <1>7 DEF IInv

\* The update of the sob handles what is left of the frame.
LEMMA UpdateStep ==
  ASSUME IInv, Update
  PROVE  IInv'
<1> USE DEF IInv, Update, Elapsed
<1>1. TypeOK'
  BY DEF TypeOK
<1>2. MovedAsHandled' /\ Agree'
  BY DEF MovedAsHandled, Agree, TypeOK
<1>3. Settled'
  BY DEF Settled, TypeOK
<1>4. AheadOfAge'
  BY DEF AheadOfAge, TypeOK
<1> QED
  BY <1>1, <1>2, <1>3, <1>4

LEMMA NextInv == IInv /\ [Next]_vars => IInv'
<1> SUFFICES ASSUME IInv, [Next]_vars PROVE IInv'
  OBVIOUS
<1>1. ASSUME NEW d \in 1..MaxDelta, NewFrame(d) PROVE IInv'
  BY <1>1, NewFrameStep
<1>2. ASSUME NEW l \in Layer, NEW s \in State, NEW dt \in (-MaxLate)..delta,
             ChangeState(l, s, dt)
      PROVE  IInv'
  BY <1>2, ChangeStateStep
<1>3. CASE Update
  BY <1>3, UpdateStep
<1>4. CASE UNCHANGED vars
  BY <1>4 DEF vars, IInv, TypeOK, MovedAsHandled, Agree, Settled, AheadOfAge
<1> QED
  BY <1>1, <1>2, <1>3, <1>4 DEF Next

LEMMA Invariant == Spec => []IInv
  BY InitInv, NextInv, PTL DEF Spec

-----------------------------------------------------------------------------
\* The states, durations and corrections of the layers keep their types.
THEOREM TypeCorrect == Spec => []TypeOK
  BY Invariant, PTL DEF IInv

\* Whatever changes in a frame, and however late: what sets the speeds and what
\* moves the sob is handled with the same time (updateAll, update).
THEOREM MovesAsHandled == Spec => []MovedAsHandled
  BY Invariant, PTL DEF IInv

\* A frame with one change is handled for its length, split at the event.
THEOREM FramesAreCounted == Spec => []FrameIsCounted
<1>1. IInv => FrameIsCounted
  BY DEF IInv, Settled, MovedAsHandled, FrameIsCounted
<1> QED
  BY <1>1, Invariant, PTL

\* The duration of a layer is the time since the event that began its state.
THEOREM DurationsAreAges == Spec => []DurationIsAge
<1>1. IInv => DurationIsAge
  BY DEF IInv, Settled, Agree, AheadOfAge, DurationIsAge, TypeOK
<1> QED
  BY <1>1, Invariant, PTL

-----------------------------------------------------------------------------
(* The view of the client.                                                 *)

\* The marks of the controller and of the media come and go together, so that no
\* mark stops at a controller that is still marked; what is not marked is shown.
Marks ==
  /\ dirty \in {{}, Node}
  /\ viewed /\ dirty = {} => playing = Animation(active[ST_MOVEMENT])
  /\ viewed /\ updated => dirty = {}
  /\ ~viewed => ~updated /\ ~heard /\ dirty = Node

\* What plays is in the slot that is faded in.
InItsSlot == slot \in {0, 1} /\ DOMAIN slots = {0, 1} /\ slots[slot] = playing

\* The body is the one of the last event.
BodyHeard == heard => body = Mesh(active[ST_MOVEMENT])

ViewInv == Marks /\ InItsSlot /\ BodyHeard

LEMMA ViewInitInv == ViewInit => ViewInv
  BY DEF ViewInit, Init, ViewInv, Marks, InItsSlot, BodyHeard

LEMMA AddSobStep ==
  ASSUME ViewInv, NEW states \in [Layer -> State], AddSob(states)
  PROVE  ViewInv'
  BY DEF AddSob, ViewInv, Marks, InItsSlot, BodyHeard, Node

\* A change of the movement marks both, as neither or both are marked before.
LEMMA ViewedChangeStep ==
  ASSUME ViewInv, active \in [Layer -> State], NEW layer \in Layer, NEW state \in State,
         NEW dt, ViewedChange(layer, state, dt)
  PROVE  ViewInv'
<1>1. /\ viewed /\ viewed' /\ ~updated /\ ~updated'
      /\ active' = [active EXCEPT ![layer] = state]
      /\ playing' = playing /\ slot' = slot /\ slots' = slots
  BY DEF ViewedChange, ChangeState
<1>2. CASE layer = ST_MOVEMENT
  <2>1. dirty' = Node
    BY <1>2 DEF ViewedChange, Changed, SetDirty, Outputs, ViewInv, Marks, Node
  <2>2. body' = Mesh(active'[ST_MOVEMENT])
    BY <1>1, <1>2 DEF ViewedChange
  <2> QED
    BY <1>1, <2>1, <2>2 DEF ViewInv, Marks, InItsSlot, BodyHeard, Node
<1>3. CASE layer # ST_MOVEMENT
  <2>1. active'[ST_MOVEMENT] = active[ST_MOVEMENT]
    BY <1>1, <1>3 DEF Layer
  <2>2. dirty' = dirty /\ body' = body /\ heard' = heard
    BY <1>3 DEF ViewedChange, Changed
  <2> QED
    BY <1>1, <2>1, <2>2 DEF ViewInv, Marks, InItsSlot, BodyHeard
<1> QED
  BY <1>2, <1>3

LEMMA ViewedUpdateStep ==
  ASSUME ViewInv, ViewedUpdate
  PROVE  ViewInv'
<1>1. /\ viewed /\ viewed' /\ active' = active /\ updated'
      /\ body' = body /\ heard' = heard
  BY DEF ViewedUpdate, Update
<1>2. dirty' = {}
  BY DEF ViewedUpdate, Clean, ViewInv, Marks, Node
<1>3. playing' = Animation(active[ST_MOVEMENT]) /\ InItsSlot'
  <2>1. CASE dirty = {}
    BY <2>1, <1>1 DEF ViewedUpdate, ViewInv, Marks, InItsSlot, Node
  <2>2. CASE dirty = Node
    BY <2>2 DEF ViewedUpdate, Play, ViewInv, InItsSlot
  <2> QED
    BY <2>1, <2>2 DEF ViewInv, Marks
<1> QED
  BY <1>1, <1>2, <1>3 DEF ViewInv, Marks, BodyHeard

LEMMA ViewNextInv == ViewInv /\ IInv /\ [ViewNext]_allVars => ViewInv' /\ IInv'
<1> SUFFICES ASSUME ViewInv, IInv, [ViewNext]_allVars PROVE ViewInv' /\ IInv'
  OBVIOUS
<1>1. ASSUME NEW states \in [Layer -> State], AddSob(states) PROVE ViewInv' /\ IInv'
  <2>1. IInv'
    BY <1>1 DEF AddSob, IInv, TypeOK, MovedAsHandled, Agree, Settled, AheadOfAge
  <2> QED
    BY <1>1, <2>1, AddSobStep
<1>2. ASSUME NEW l \in Layer, NEW s \in State, NEW dt \in (-MaxLate)..delta,
             ViewedChange(l, s, dt)
      PROVE  ViewInv' /\ IInv'
  <2>1. IInv'
    BY <1>2, ChangeStateStep DEF ViewedChange
  <2> QED
    BY <1>2, <2>1, ViewedChangeStep DEF IInv, TypeOK
<1>3. CASE ViewedUpdate
  BY <1>3, ViewedUpdateStep, UpdateStep DEF ViewedUpdate
<1>4. ASSUME NEW d \in 1..MaxDelta, NewFrame(d), UNCHANGED viewVars
      PROVE  ViewInv' /\ IInv'
  BY <1>4, NewFrameStep DEF NewFrame, viewVars, ViewInv, Marks, InItsSlot, BodyHeard
<1>5. CASE UNCHANGED allVars
  BY <1>5 DEF allVars, vars, viewVars, ViewInv, Marks, InItsSlot, BodyHeard,
              IInv, TypeOK, MovedAsHandled, Agree, Settled, AheadOfAge
<1> QED
  BY <1>1, <1>2, <1>3, <1>4, <1>5 DEF ViewNext

\* What a client shows of a performer is what the performer does: no mark is lost
\* between the property, the controller and the media (setDirty, update).
THEOREM ShowsWhatItDoes == ViewSpec => []ShowsTheState
<1>1. ViewInit => IInv
  BY InitInv DEF ViewInit
<1>2. ViewInv => ShowsTheState
  BY DEF ViewInv, Marks, InItsSlot, BodyHeard, ShowsTheState, Node
<1> QED
  BY <1>1, <1>2, ViewInitInv, ViewNextInv, PTL DEF ViewSpec


-----------------------------------------------------------------------------
(* The clock.                                                              *)

\* A quotient lies between two bounds if the dividend lies between their multiples.
LEMMA QuotientBetween ==
  ASSUME NEW x \in Int, NEW d \in Nat \ {0}, NEW low \in Int, NEW high \in Int,
         low * d <= x, x <= high * d
  PROVE  x \div d \in low..high
<1> DEFINE q == x \div d
<1>1. q \in Int /\ q * d <= x /\ x < (q + 1) * d
  OBVIOUS
<1>2. low <= q
  <2> SUFFICES ASSUME q + 1 <= low PROVE FALSE
    BY <1>1
  <2>1. (q + 1) * d <= low * d
    BY <1>1
  <2> QED
    BY <2>1, <1>1
<1>3. q <= high
  <2> SUFFICES ASSUME high + 1 <= q PROVE FALSE
    BY <1>1
  <2>1. (high + 1) * d <= q * d
    BY <1>1
  <2> QED
    BY <2>1, <1>1
<1> QED
  BY <1>1, <1>2, <1>3

\* A weighted average of two values lies between the bounds of both.
LEMMA AverageBetween ==
  ASSUME NEW w \in Nat, NEW low \in Int, NEW high \in Int,
         NEW a \in low..high, NEW b \in low..high
  PROVE  (w * a + b) \div (w + 1) \in low..high
<1>1. low * (w + 1) <= w * a + b
  OBVIOUS
<1>2. w * a + b <= high * (w + 1)
  OBVIOUS
<1> QED
  BY <1>1, <1>2, QuotientBetween

-----------------------------------------------------------------------------
\* The parts of a sequence are of its type.
LEMMA PartsOf ==
  ASSUME NEW S, NEW s \in Seq(S)
  PROVE  /\ \A i \in 1..Len(s) : s[i] \in S /\ i \in DOMAIN s
         /\ s # <<>> => /\ Head(s) \in S /\ Tail(s) \in Seq(S)
                       /\ \A i \in DOMAIN Tail(s) : i + 1 \in DOMAIN s
                                                  /\ Tail(s)[i] = s[i + 1]
  OBVIOUS

\* A ping was on its way to the server for at most delay.
WayThere == \A i \in DOMAIN toClient : toClient[i].age <= toClient[i].back + delay

Near == (skew - delay) * Scale .. (skew + 2 * delay) * Scale

\* Only an answer stops the pings.
Started == count = 0 => ~noPing

ClockInv == ClockTypeOK /\ WayThere /\ Started /\ OffsetNear

LEMMA ConstantTypes ==
  ASSUME ClockTypeOK
  PROVE  /\ skew \in Int /\ delay \in Nat /\ Scale \in Nat /\ Scale >= 1
         /\ 2 * delay * Scale \in Nat
         /\ {FastPings, Fast, Slow, Window, Improving, Epsilon, MaxPings} \subseteq Nat
  BY ClockAssumption DEF ClockTypeOK

LEMMA ClockInitInv == ClockInit => ClockInv
<1> SUFFICES ASSUME ClockInit PROVE ClockInv
  OBVIOUS
<1>1. ClockTypeOK
  <2>1. {self, online, noPing} \subseteq BOOLEAN
    BY Zenon DEF ClockInit
  <2>2. /\ skew \in Skew /\ delay \in Delay
        /\ delay \in Nat /\ Scale \in Nat /\ 2 * delay * Scale \in Nat
        /\ MaxPings \in Nat
    BY ClockAssumption DEF ClockInit
  <2>3. toServer \in Seq(0..delay)
    BY DEF ClockInit
  <2>4. toClient \in Seq([age : 0..(2 * delay), back : 0..delay])
    BY DEF ClockInit
  <2>5. /\ since \in None..(2 * delay + 1) /\ untilNext \in Nat
        /\ count \in 0..MaxPings /\ offset \in Int
        /\ latency \in 0..(2 * delay * Scale)
    BY <2>2 DEF ClockInit, None
  <2> QED
    BY <2>1, <2>2, <2>3, <2>4, <2>5, Zenon DEF ClockTypeOK
<1>2. WayThere /\ Started /\ OffsetNear
  BY DEF ClockInit, WayThere, Started, OffsetNear
<1> QED
  BY <1>1, <1>2 DEF ClockInv

-----------------------------------------------------------------------------
\* Nothing on its way gets older than the ways take.
LEMMA TickStep ==
  ASSUME ClockInv, Tick
  PROVE  ClockInv'
<1> USE DEF ClockInv
<1>1. /\ skew \in Int /\ delay \in Nat /\ delay' = delay
      /\ toServer \in Seq(0..delay)
      /\ toClient \in Seq([age : 0..(2 * delay), back : 0..delay])
  BY ConstantTypes DEF ClockTypeOK, Tick
<1>2. /\ toServer' \in Seq(0..delay')
  <2>1. \A i \in 1..Len(toServer) : toServer[i] + 1 \in 0..delay
    BY <1>1 DEF Tick
  <2>2. toServer' = [i \in 1..Len(toServer) |-> toServer[i] + 1]
    BY <1>1 DEF Tick
  <2> QED
    BY <1>1, <2>1, <2>2
<1>3. /\ toClient' \in Seq([age : 0..(2 * delay'), back : 0..delay'])
      /\ WayThere'
  <2> DEFINE Older(a) == [age |-> a.age + 1, back |-> a.back + 1]
  <2>1. \A i \in 1..Len(toClient) :
          /\ Older(toClient[i]) \in [age : 0..(2 * delay), back : 0..delay]
          /\ Older(toClient[i]).age <= Older(toClient[i]).back + delay
    <3> SUFFICES ASSUME NEW i \in 1..Len(toClient)
                 PROVE  /\ Older(toClient[i]) \in [age : 0..(2 * delay), back : 0..delay]
                        /\ Older(toClient[i]).age <= Older(toClient[i]).back + delay
      OBVIOUS
    <3> DEFINE a == toClient[i]
    <3>1. i \in DOMAIN toClient /\ a \in [age : 0..(2 * delay), back : 0..delay]
      BY <1>1, PartsOf, Zenon
    <3>2. a.back < delay /\ a.age <= a.back + delay
      BY <3>1 DEF Tick, WayThere
    <3>3. a.age + 1 \in 0..(2 * delay) /\ a.back + 1 \in 0..delay
          /\ a.age + 1 <= (a.back + 1) + delay
      BY <1>1, <3>1, <3>2
    <3> QED
      BY <3>3
  <2>2. toClient' = [i \in 1..Len(toClient) |-> Older(toClient[i])]
    BY <1>1 DEF Tick
  <2> HIDE DEF Older
  <2> QED
    BY <1>1, <2>1, <2>2 DEF WayThere
<1>4. /\ since' \in None..(2 * delay' + 1) /\ untilNext' \in Nat
  BY <1>1 DEF Tick, ClockTypeOK, None
<1>5. UNCHANGED <<skew, delay, self, online, count, noPing, latency, offset>>
  BY DEF Tick
<1>6. ClockTypeOK'
  BY <1>2, <1>3, <1>4, <1>5, Zenon DEF ClockTypeOK
<1>7. OffsetNear' /\ Started'
  BY <1>5 DEF OffsetNear, Started
<1> QED
  BY <1>3, <1>6, <1>7

LEMMA SendPingStep ==
  ASSUME ClockInv, SendPing
  PROVE  ClockInv'
<1> USE DEF ClockInv
<1>1. /\ delay \in Nat /\ Interval \in Nat
  BY ConstantTypes DEF Interval
<1>2. toServer' \in Seq(0..delay')
  BY <1>1 DEF SendPing, ClockTypeOK
<1>3. since' \in None..(2 * delay' + 1) /\ untilNext' \in Nat
  BY <1>1 DEF SendPing, None
<1>4. UNCHANGED <<skew, delay, self, online, count, noPing, latency, offset, toClient>>
  BY DEF SendPing
<1>5. ClockTypeOK'
  BY <1>2, <1>3, <1>4, Zenon DEF ClockTypeOK
<1> QED
  BY <1>4, <1>5 DEF WayThere, Started, OffsetNear

LEMMA AnswerPingStep ==
  ASSUME ClockInv, AnswerPing
  PROVE  ClockInv'
<1> USE DEF ClockInv
<1>1. /\ delay \in Nat /\ toServer \in Seq(0..delay)
      /\ toClient \in Seq([age : 0..(2 * delay), back : 0..delay])
  BY ConstantTypes DEF ClockTypeOK
<1> DEFINE answer == [age |-> Head(toServer), back |-> 0]
<1>2. Head(toServer) \in 0..delay /\ toServer' \in Seq(0..delay)
  BY <1>1 DEF AnswerPing
<1>3. answer \in [age : 0..(2 * delay), back : 0..delay]
  BY <1>1, <1>2
<1>4. toClient' = Append(toClient, answer)
  BY DEF AnswerPing
<1>5. toClient' \in Seq([age : 0..(2 * delay), back : 0..delay])
  BY <1>1, <1>3, <1>4
<1>6. WayThere'
  <2> SUFFICES ASSUME NEW i \in DOMAIN toClient'
               PROVE  toClient'[i].age <= toClient'[i].back + delay'
    BY DEF WayThere
  <2>1. delay' = delay
    BY DEF AnswerPing
  <2>2. CASE i \in DOMAIN toClient
    BY <1>1, <1>4, <2>1, <2>2 DEF WayThere
  <2>3. CASE i \notin DOMAIN toClient
    <3>1. toClient'[i] = answer
      BY <1>1, <1>3, <1>4, <2>3
    <3> QED
      BY <3>1, <1>1, <1>2, <2>1
  <2> QED
    BY <2>2, <2>3
<1>7. UNCHANGED <<skew, delay, self, online, since, untilNext, count, noPing, latency,
                  offset>>
  BY DEF AnswerPing
<1>8. ClockTypeOK'
  BY <1>2, <1>5, <1>7, Zenon DEF ClockTypeOK
<1> QED
  BY <1>6, <1>7, <1>8 DEF Started, OffsetNear

-----------------------------------------------------------------------------
\* The latency is an average of round trips.
LEMMA LatencyIsRoundTrip ==
  ASSUME ClockInv, NEW a \in 0..(2 * delay)
  PROVE  NewLatency(a) \in 0..(2 * delay * Scale)
<1> DEFINE high   == 2 * delay * Scale
           weight == Smaller(Window, count)
           trip   == a * Scale
<1>1. /\ delay \in Nat /\ Scale \in Nat /\ high \in Nat /\ Window \in Nat
      /\ count \in Nat /\ latency \in 0..high
  BY ConstantTypes DEF ClockInv, ClockTypeOK
<1>2. trip \in 0..high
  BY <1>1
<1>3. weight \in Nat
  BY <1>1 DEF Smaller
<1>4. NewLatency(a) = (weight * latency + trip) \div (weight + 1)
  BY DEF NewLatency
<1> HIDE DEF high, weight, trip
<1>5. (weight * latency + trip) \div (weight + 1) \in 0..high
  BY <1>1, <1>2, <1>3, AverageBetween
<1> QED
  BY <1>4, <1>5 DEF high

\* An answer shows the offset too large by a round trip or too small by one way.
LEMMA ShownIsNear ==
  ASSUME ClockInv, NEW answer \in [age : 0..(2 * delay), back : 0..delay]
  PROVE  Shown(answer) \in Near
<1>1. skew \in Int /\ delay \in Nat /\ Scale \in Nat
  BY ConstantTypes DEF ClockInv
<1>2. NewLatency(answer.age) \in 0..(2 * delay * Scale)
  BY LatencyIsRoundTrip
<1>3. answer.back \in 0..delay
  OBVIOUS
<1> DEFINE back == answer.back
           late == NewLatency(answer.age)
<1> HIDE DEF back, late
<1>4. back \in 0..delay /\ late \in 0..(2 * delay * Scale)
  BY <1>2, <1>3 DEF back, late
<1>5. (skew - back) * Scale + late \in Near
  <2>1. (skew - delay) * Scale <= (skew - back) * Scale
    BY <1>1, <1>4
  <2>2. (skew - back) * Scale <= skew * Scale
    BY <1>1, <1>4
  <2>3. (skew + 2 * delay) * Scale = skew * Scale + 2 * delay * Scale
    BY <1>1
  <2> QED
    BY <1>1, <1>4, <2>1, <2>2, <2>3 DEF Near
<1> QED
  BY <1>5 DEF Shown, back, late

\* The offset after an answer from a server that is ahead: the first is taken as
\* it is, later ones are averaged with an offset that is near already, and none
\* falls below epsilon.
LEMMA TakeAnswerNear ==
  ASSUME ClockInv, skew > delay, count < MaxPings,
         NEW answer \in [age : 0..(2 * delay), back : 0..delay],
         TakeAnswer(answer)
  PROVE  offset' \in Near /\ noPing' = noPing
<1> DEFINE shown == Shown(answer)
           low == (skew - delay) * Scale
           high == (skew + 2 * delay) * Scale
<1>1. /\ skew \in Int /\ delay \in Nat /\ Scale \in Nat /\ count \in Nat /\ Scale >= 1
      /\ Window \in Nat /\ Improving \in Nat /\ Epsilon \in Nat /\ MaxPings \in Nat
      /\ offset \in Int
  BY ConstantTypes DEF ClockInv, ClockTypeOK
<1>2. low \in Int /\ high \in Int /\ shown \in low..high
  BY <1>1, ShownIsNear DEF Near
<1>3. shown > Epsilon * (count + 1)
  <2>1. Epsilon * (count + 1) <= Epsilon * MaxPings
    BY <1>1
  <2>2. low >= Scale
    BY <1>1
  <2>3. Epsilon * MaxPings < Scale /\ Epsilon * (count + 1) \in Int
        /\ Epsilon * MaxPings \in Int
    BY <1>1, ImprovingAssumption
  <2> HIDE DEF shown, low, high
  <2> QED
    BY <1>1, <1>2, <2>1, <2>2, <2>3
<1>4. OffsetWeight \in Nat
  BY <1>1 DEF OffsetWeight, Smaller
<1>5. offset' = (offset * OffsetWeight + shown) \div (OffsetWeight + 1) /\ noPing' = noPing
  BY <1>3 DEF TakeAnswer
<1>6. (offset * OffsetWeight + shown) \div (OffsetWeight + 1) \in low..high
  <2>1. CASE count = 0
    <3>1. OffsetWeight = 0
      BY <2>1, <1>1, ImprovingAssumption DEF OffsetWeight, Smaller
    <3> HIDE DEF shown, low, high
    <3>2. (offset * OffsetWeight + shown) \div (OffsetWeight + 1) = shown
      BY <3>1, <1>1, <1>2
    <3> QED
      BY <3>2, <1>2
  <2>2. CASE count > 0
    <3>1. offset \in low..high
      BY <2>2 DEF ClockInv, OffsetNear
    <3> HIDE DEF shown, low, high
    <3>2. offset * OffsetWeight = OffsetWeight * offset
      BY <1>1, <1>4
    <3> QED
      BY <1>2, <1>4, <3>1, <3>2, AverageBetween
  <2> QED
    BY <2>1, <2>2, <1>1
<1> QED
  BY <1>5, <1>6 DEF Near

LEMMA RecvPingStep ==
  ASSUME ClockInv, RecvPing
  PROVE  ClockInv'
<1> USE DEF ClockInv
<1> DEFINE answer == Head(toClient)
<1>1. /\ skew \in Int /\ delay \in Nat /\ MaxPings \in Nat /\ count \in Nat
      /\ toClient \in Seq([age : 0..(2 * delay), back : 0..delay]) /\ toClient # <<>>
  BY ConstantTypes DEF ClockTypeOK, RecvPing
<1>2. /\ answer \in [age : 0..(2 * delay), back : 0..delay]
      /\ toClient' \in Seq([age : 0..(2 * delay), back : 0..delay])
  BY <1>1, PartsOf, Zenon DEF RecvPing
<1>3. UNCHANGED <<skew, delay, self, online, since, untilNext, toServer>>
  BY DEF RecvPing
<1>4. WayThere'
  <2>1. \A i \in DOMAIN toClient' : i + 1 \in DOMAIN toClient /\ toClient'[i] = toClient[i + 1]
    BY <1>1, PartsOf, Zenon DEF RecvPing
  <2> QED
    BY <2>1, <1>3 DEF WayThere
<1>5. CASE answer.age = since
  <2>1. TakeAnswer(answer) /\ count < MaxPings
    BY <1>5 DEF RecvPing
  <2> HIDE DEF answer
  <2>2. count' = count + 1 /\ latency' = NewLatency(answer.age)
    BY <2>1 DEF TakeAnswer
  <2>3. latency' \in 0..(2 * delay' * Scale)
    BY <2>2, <1>2, <1>3, LatencyIsRoundTrip
  <2>4. offset' \in Int /\ noPing' \in BOOLEAN
    <3>1. Shown(answer) \in Int
      BY <1>1, <1>2, ShownIsNear, ConstantTypes DEF Near
    <3>2. OffsetWeight \in Nat
      BY ConstantTypes, <1>1 DEF OffsetWeight, Smaller
    <3>3. offset \in Int /\ noPing \in BOOLEAN
      BY DEF ClockTypeOK
    <3>4. offset * OffsetWeight + Shown(answer) \in Int /\ OffsetWeight + 1 \in Nat \ {0}
      BY <3>1, <3>2, <3>3
    <3>5. (offset * OffsetWeight + Shown(answer)) \div (OffsetWeight + 1) \in Int
      BY <3>4
    <3>6. CASE Shown(answer) > Epsilon * (count + 1)
      BY <3>6, <3>3, <3>5, <2>1 DEF TakeAnswer
    <3>7. CASE ~(Shown(answer) > Epsilon * (count + 1))
      <4>1. noPing' = TRUE /\ offset' = offset
        BY <3>7, <2>1 DEF TakeAnswer
      <4> QED
        BY <4>1, <3>3
    <3> QED
      BY <3>6, <3>7
  <2>5. count' \in 0..MaxPings
    BY <2>1, <2>2, <1>1
  <2>6. ClockTypeOK'
    <3>1. {self', online', noPing'} \subseteq BOOLEAN
      BY <2>4, <1>3 DEF ClockTypeOK
    <3> QED
      BY <1>2, <1>3, <2>3, <2>4, <2>5, <3>1, Zenon DEF ClockTypeOK
  <2>7. OffsetNear'
    <3> SUFFICES ASSUME skew' > delay' PROVE offset' \in Near' /\ ~noPing'
      BY DEF OffsetNear, Near
    <3>1. skew > delay
      BY <1>3
    <3>2. offset' \in Near /\ noPing' = noPing /\ Near' = Near
      BY <3>1, <2>1, <1>1, <1>2, <1>3, TakeAnswerNear DEF Near
    <3>3. ~noPing
      BY <3>1, <1>1 DEF Started, OffsetNear
    <3> QED
      BY <3>2, <3>3
  <2>8. Started'
    BY <2>2, <1>1 DEF Started
  <2> QED
    BY <1>4, <2>6, <2>7, <2>8
<1>6. CASE answer.age # since
  <2>1. UNCHANGED <<count, latency, offset, noPing>>
    BY <1>6 DEF RecvPing
  <2>2. ClockTypeOK'
    BY <2>1, <1>2, <1>3, Zenon DEF ClockTypeOK
  <2> QED
    BY <1>3, <1>4, <2>1, <2>2 DEF Started, OffsetNear
<1> QED
  BY <1>5, <1>6

-----------------------------------------------------------------------------
LEMMA ClockNextInv == ClockInv /\ [ClockNext]_clockVars => ClockInv'
<1> SUFFICES ASSUME ClockInv, [ClockNext]_clockVars PROVE ClockInv'
  OBVIOUS
<1>1. CASE Spawn
  <2>1. {self', online', noPing'} \subseteq BOOLEAN
    BY <1>1, Zenon DEF Spawn, ClockInv, ClockTypeOK
  <2>2. UNCHANGED <<skew, delay, online, since, untilNext, count, noPing, latency, offset,
                    toServer, toClient>>
    BY <1>1 DEF Spawn
  <2> QED
    BY <2>1, <2>2, Zenon DEF ClockInv, ClockTypeOK, WayThere, Started, OffsetNear
<1>2. CASE Disconnect
  <2>1. {self', online', noPing'} \subseteq BOOLEAN
    BY <1>2, Zenon DEF Disconnect, ClockInv, ClockTypeOK
  <2>2. UNCHANGED <<skew, delay, self, since, untilNext, count, noPing, latency, offset>>
    BY <1>2 DEF Disconnect
  <2>3. /\ toServer' = <<>> /\ toClient' = <<>>
    BY <1>2 DEF Disconnect
  <2>4. /\ toServer' \in Seq(0..delay')
        /\ toClient' \in Seq([age : 0..(2 * delay'), back : 0..delay'])
        /\ WayThere'
    BY <2>3 DEF WayThere
  <2> QED
    BY <2>1, <2>2, <2>4, Zenon DEF ClockInv, ClockTypeOK, Started, OffsetNear
<1>3. CASE UNCHANGED clockVars
  BY <1>3 DEF clockVars, ClockInv, ClockTypeOK, WayThere, Started, OffsetNear
<1> QED
  BY <1>1, <1>2, <1>3, TickStep, SendPingStep, AnswerPingStep, RecvPingStep DEF ClockNext

LEMMA ClockInvariant == ClockSpec => []ClockInv
  BY ClockInitInv, ClockNextInv, PTL DEF ClockSpec

-----------------------------------------------------------------------------
\* The variables of the clock keep their types, and no message is older than the
\* ways it took.
THEOREM ClockTypeCorrect == ClockSpec => []ClockTypeOK
  BY ClockInvariant, PTL DEF ClockInv

\* However long the messages take and whatever the samples weigh: the offset to a
\* server that is ahead is too large by a round trip or too small by one way at
\* most from the first answer on (recvPing).
THEOREM OffsetStaysNear == ClockSpec => []OffsetNear
  BY ClockInvariant, PTL DEF ClockInv

=============================================================================
