---------------------------- MODULE StateLayers -----------------------------
(***************************************************************************)
(* The state layers of one performer (ISimulationObj, ISimulationState,    *)
(* CMovementState, CStrafeState, COrientState and CMotionController): which *)
(* states follow each other, and how the time of a frame is divided among  *)
(* the old and the new state when the event of a change is older than the  *)
(* frame.                                                                  *)
(*                                                                         *)
(* Time is counted in ticks.  What a state does with the time it is        *)
(* handled with (speeds, position, yaw) is left out; how much time it is   *)
(* handled with is what the position of every sob is integrated over.      *)
(***************************************************************************)
EXTENDS Integers, FiniteSets

CONSTANTS MaxDelta,    \* bound on the length of a frame
          MaxLate,     \* bound on how old a change may be when a frame begins
          MaxChanges,  \* bound on the changes in one frame
          MaxTime      \* bound on the durations

ASSUME BoundAssumption ==
  MaxDelta \in Nat /\ MaxLate \in Nat /\ MaxChanges \in Nat /\ MaxTime \in Nat

ST_MOVEMENT    == "movement"
ST_STRAFE      == "strafe"
ST_ORIENTATION == "orientation"

\* The layers CPerformer adds; posture and action have no states.
Layer == {ST_MOVEMENT, ST_STRAFE, ST_ORIENTATION}

\* The states of a layer: none of the two directions, or one of them.
Idle      == "idle"
Direction == {"one", "other"}
State     == {Idle} \cup Direction

\* addTransitionable in the constructors: only the movement layer may go from
\* idle to idle.
Transitions(layer, state) ==
  IF state = Idle /\ layer # ST_MOVEMENT THEN Direction ELSE State

VARIABLES active,      \* ActiveState of every layer
          duration,    \* Duration of every layer
          correction,  \* CorrectionDt of every layer
          moveCorrection,  \* CMotionController::m_CorrectionDt
          delta,       \* m_DeltaTime of the simulation
          updated,     \* the sob was updated in this frame
          counted,     \* history: time every layer was handled with in the frame
          moved,       \* history: time the controller moved for in the frame
          changes,     \* history: changes in this frame
          age,         \* history: time since the event that began the state
          exact        \* history: layers whose age no second change disturbed

vars == <<active, duration, correction, moveCorrection, delta, updated,
          counted, moved, changes, age, exact>>

-----------------------------------------------------------------------------
Init ==
  /\ active = [l \in Layer |-> Idle]
  /\ duration = [l \in Layer |-> 0] /\ correction = [l \in Layer |-> 0]
  /\ moveCorrection = 0
  /\ delta \in 1..MaxDelta /\ updated = FALSE
  /\ counted = [l \in Layer |-> 0] /\ moved = 0
  /\ changes = 0
  /\ age = [l \in Layer |-> 0] /\ exact = Layer

\* updateTime: the next frame begins, and with it the events are processed.
NewFrame(d) ==
  /\ updated
  /\ \A l \in Layer : duration[l] < MaxTime
  /\ delta' = d /\ updated' = FALSE
  /\ counted' = [l \in Layer |-> 0] /\ moved' = 0
  /\ changes' = 0
  /\ UNCHANGED <<active, duration, correction, moveCorrection, age, exact>>

-----------------------------------------------------------------------------
(* ISimulationState::exit and updateAll: the old states are handled, and   *)
(* the sob is moved, up to the time of the event.                          *)

\* The layers updateAll updates when the state of this layer ends.
UpdatedBy(layer) == Layer

\* Slip: what was counted ahead is not remembered.
RememberNothing(layer, dt) == correction

\* update notes what it counted ahead.
Remember(layer, dt) ==
  [l \in Layer |-> IF l \in UpdatedBy(layer) THEN dt ELSE correction[l]]

Exit(layer, dt) ==
  /\ duration' = [l \in Layer |->
       IF l = layer THEN 0    \* enter
       ELSE IF l \in UpdatedBy(layer) THEN duration[l] + dt ELSE duration[l]]
  /\ counted' = [l \in Layer |->
       IF l \in UpdatedBy(layer) THEN counted[l] + dt ELSE counted[l]]
  /\ correction' = Remember(layer, dt)
  /\ moved' = moved + dt
  /\ moveCorrection' = dt

\* canTransition; block() is never called.
CanTransition(layer, state) == state \in Transitions(layer, active[layer])

\* changeState, for an event dt after the beginning of the frame (before it, if
\* the event is late).  A state that may not follow leaves everything as it is,
\* and the event is filtered.
ChangeState(layer, state, dt) ==
  /\ ~updated /\ changes < MaxChanges
  /\ CanTransition(layer, state)
  /\ Exit(layer, dt)
  /\ active' = [active EXCEPT ![layer] = state]
  /\ changes' = changes + 1
  /\ exact' = {layer} \cup (IF changes = 0 THEN exact ELSE {})
  /\ age' = [l \in Layer |-> IF l = layer THEN -dt
                            ELSE IF l \in exact' THEN age[l] ELSE 0]
  /\ UNCHANGED <<delta, updated>>

-----------------------------------------------------------------------------
\* Slip: the whole frame is handled, whatever was counted ahead.
ElapsedOfFrame(ahead) == delta

\* What is left of the frame.
Elapsed(ahead) == delta - ahead

\* ISimulationObj::update: updateStates, then updateControllers.
Update ==
  /\ ~updated
  /\ duration' = [l \in Layer |-> duration[l] + Elapsed(correction[l])]
  /\ counted' = [l \in Layer |-> counted[l] + Elapsed(correction[l])]
  /\ correction' = [l \in Layer |-> 0]
  /\ moved' = moved + (delta - moveCorrection)
  /\ moveCorrection' = 0
  /\ age' = [l \in Layer |-> IF l \in exact THEN age[l] + delta ELSE 0]
  /\ updated' = TRUE
  /\ UNCHANGED <<active, delta, changes, exact>>

Next ==
  \/ \E d \in 1..MaxDelta : NewFrame(d)
  \/ \E l \in Layer, s \in State, dt \in (-MaxLate)..delta : ChangeState(l, s, dt)
  \/ Update

Spec == Init /\ [][Next]_vars

-----------------------------------------------------------------------------
(* Properties.                                                             *)

TypeOK ==
  /\ active \in [Layer -> State]
  /\ duration \in [Layer -> Int] /\ correction \in [Layer -> Int]
  /\ moveCorrection \in Int
  /\ delta \in 1..MaxDelta /\ updated \in BOOLEAN
  /\ counted \in [Layer -> Int] /\ moved \in Int
  /\ changes \in 0..MaxChanges
  /\ age \in [Layer -> Int] /\ exact \subseteq Layer

\* The states that set the speeds and the controller that moves the sob agree on
\* the time, whatever changed in a frame: no layer sets a speed that the sob is
\* not moved with.
MovedAsHandled == \A l \in Layer : counted[l] = moved

\* A frame with at most one change handles every layer for its whole length,
\* split at the event, and moves the sob for it: nothing is counted twice or
\* lost, also when the event is older than the frame.
FrameIsCounted ==
  updated /\ changes <= 1 => moved = delta /\ \A l \in Layer : counted[l] = delta

\* The Duration of a layer, which requests carry, is the time since the event
\* that began its state.  A second change in a frame spoils that for the layers
\* it does not itself change.
DurationIsAge == updated => \A l \in exact : duration[l] = age[l]

=============================================================================
