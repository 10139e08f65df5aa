---------------------------- MODULE PerformerView ----------------------------
(***************************************************************************)
(* What a client shows of a performer: CPerformer3DView, its copy of the    *)
(* media (CEntityMedia, CAnimLayer, CMeshGroup) and the controller that     *)
(* chooses animations (CAnimationController), over the state layers.        *)
(*                                                                         *)
(* Nobody tells the view that a state changed: the state's property marks   *)
(* what depends on it (IDirtyPropagator), and the next update looks at what *)
(* is marked.  Meshes and animations are taken to be loaded; matrices and   *)
(* the weights of a transition are left out.                                *)
(***************************************************************************)
EXTENDS StateLayers

VARIABLES viewed,    \* the view exists
          dirty,     \* the objects whose m_Dirty is set
          playing,   \* m_Playing of the animation layer "motion"
          slot,      \* m_CurrentSlotIndex
          slots,     \* the animation in each of its two slots of the play list
          body,      \* m_displayedMesh of the group "body"
          heard      \* history: the view observed a CSobMoveEvent

viewVars == <<viewed, dirty, playing, slot, slots, body, heard>>
allVars  == <<vars, viewVars>>

Backward == "other"    \* ST_MV_BACKWARD

Node    == {"controller", "media"}
Nothing == "nothing"

\* makeInputConnection: CAnimationController::init and addController.
Outputs(node) == IF node = "controller" THEN {"media"} ELSE {}

\* The animation the controller's list has for a state of the movement layer.
Animation(state) == IF state = Idle THEN "idle" ELSE "walk"

\* The mesh observePostGameEvent shows.
Mesh(state) == IF state = Backward THEN "armored" ELSE "normal"

ViewInit ==
  /\ Init
  /\ viewed = FALSE /\ dirty = Node
  /\ playing = Nothing /\ slot = 0 /\ slots = [i \in {0, 1} |-> Nothing]
  /\ body = Nothing /\ heard = FALSE

-----------------------------------------------------------------------------
\* CSimulationImpl::addSob: the states of the event, whatever they were, and a
\* new view.  All that is new is dirty; no event is posted for the states.
AddSob(states) ==
  /\ ~viewed /\ ~updated
  /\ active' = states
  /\ viewed' = TRUE
  /\ body' = "normal"
  /\ UNCHANGED <<duration, correction, moveCorrection, delta, updated, counted, moved,
                 changes, age, exact, dirty, playing, slot, slots, heard>>

-----------------------------------------------------------------------------
\* setDirty: who is dirty already passes nothing on.
SetDirty(node) == IF node \in dirty THEN dirty ELSE dirty \cup {node} \cup Outputs(node)

\* setValue of ActiveState: a property has no mark of its own, it only passes on.
Changed(layer) == IF layer = ST_MOVEMENT THEN SetDirty("controller") ELSE dirty

\* A change of state, and after it the view's observePostGameEvent.
ViewedChange(layer, state, dt) ==
  /\ viewed
  /\ ChangeState(layer, state, dt)
  /\ dirty' = Changed(layer)
  /\ IF layer = ST_MOVEMENT
       THEN body' = Mesh(state) /\ heard' = TRUE
       ELSE UNCHANGED <<body, heard>>
  /\ UNCHANGED <<viewed, playing, slot, slots>>

-----------------------------------------------------------------------------
\* CAnimLayer::play: what plays goes on, another animation gets the other slot.
Play(animation) ==
  IF playing = animation
    THEN UNCHANGED <<playing, slot, slots>>
    ELSE /\ playing' = animation
         /\ slot' = 1 - slot
         /\ slots' = [slots EXCEPT ![slot'] = animation]

\* Slip: the controller stays marked.
CleanMedia == dirty \ {"media"}

\* setClean of all that was looked at.
Clean == IF "media" \in dirty THEN {} ELSE dirty

\* The update of the sob ends with its views: CEntityMedia::update.
ViewedUpdate ==
  /\ viewed
  /\ Update
  /\ IF Node \subseteq dirty
       THEN Play(Animation(active[ST_MOVEMENT]))
       ELSE UNCHANGED <<playing, slot, slots>>
  /\ dirty' = Clean
  /\ UNCHANGED <<viewed, body, heard>>

ViewNext ==
  \/ \E states \in [Layer -> State] : AddSob(states)
  \/ \E l \in Layer, s \in State, dt \in (-MaxLate)..delta : ViewedChange(l, s, dt)
  \/ ViewedUpdate
  \/ \E d \in 1..MaxDelta : NewFrame(d) /\ UNCHANGED viewVars

ViewSpec == ViewInit /\ [][ViewNext]_allVars

-----------------------------------------------------------------------------
(* Properties.                                                             *)

\* Whenever the media have nothing marked, and after every update, the animation
\* of the state the sob is in plays, in the slot that is faded in: no change is
\* lost between the marks, however many fall into a frame.  The body is that of
\* the state as soon as the view observed one event; the states a sob is added
\* with show no mesh of theirs.
ShowsTheState ==
  /\ viewed /\ (updated \/ "media" \notin dirty) =>
       playing = Animation(active[ST_MOVEMENT]) /\ slots[slot] = playing
  /\ heard => body = Mesh(active[ST_MOVEMENT])

=============================================================================
