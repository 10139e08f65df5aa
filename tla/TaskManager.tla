----------------------------- MODULE TaskManager ----------------------------
(***************************************************************************)
(* CTaskManager::execute: the frame loop of the client, which walks the    *)
(* list of tasks while the tasks it runs add and remove tasks.             *)
(*                                                                         *)
(* A task is code of the program: while its update(), render() or init()   *)
(* is on the call stack it may call any operation of the manager and of    *)
(* the tasks, in any order.  An iterator is the index of the node it       *)
(* stands on; it moves with its node.  Using an iterator whose node was    *)
(* erased is undefined, and the model stops there.                         *)
(***************************************************************************)
EXTENDS TaskLists

CONSTANTS None,     \* no task
          MaxOps    \* bound on what the code of the tasks does

ASSUME NoneAssumption    == None \notin Task
ASSUME MaxOpsAssumption  == MaxOps \in Nat

VARIABLES tasks,     \* m_Tasks
          sorted,    \* m_OrderSortedTasks
          execute,   \* m_Execute of every task
          extract,   \* m_Extract of every task
          exiting,   \* m_Exit
          phase,     \* where main and execute are
          at,        \* the iterator of the walk of this phase
          running,   \* a task's update() or render() is on the call stack
          dangling,  \* the node the iterator stands on was erased
          calls,     \* tasks whose init() is on the call stack, innermost last
          erasing,   \* the task remove() is erasing, or None
          undefined, \* a dangling iterator was used
          ops,       \* operations the code of the tasks has called
          owed,      \* history: calls of init minus calls of release
          raced,     \* history: tasks removed when not in the list exactly once
          steady,    \* history: tasks left alone since this update walk began
          ran        \* history: calls of update in this update walk

lists   == <<tasks, sorted>>
flags   == <<execute, extract, exiting>>
walk    == <<phase, at, running, dangling>>
stack   == <<calls, erasing, undefined>>
history == <<ops, owed, raced, steady, ran>>
vars    == <<lists, flags, walk, stack, history>>

Walks == {"update", "render"}

-----------------------------------------------------------------------------
Init ==
  /\ tasks = <<>> /\ sorted = <<>>
  /\ execute = [t \in Task |-> TRUE]
  /\ extract = [t \in Task |-> FALSE]
  /\ exiting = FALSE
  /\ phase = "start" /\ at = 1
  /\ running = FALSE /\ dangling = FALSE
  /\ calls = <<>> /\ erasing = None /\ undefined = FALSE
  /\ ops = 0
  /\ owed = [t \in Task |-> 0]
  /\ raced = {} /\ steady = {}
  /\ ran = [t \in Task |-> 0]

Defined == erasing = None /\ ~undefined

\* Code of main, or of a task, is running and may call the manager.
InCode ==
  /\ Defined /\ (phase = "start" \/ running \/ calls # <<>>)
  /\ ops < MaxOps

\* No code of a task is running: the frame loop has control.
InLoop == Defined /\ ~running /\ calls = <<>>

\* Slip: the walk does not follow its node when one is inserted before it.
ShiftForgotten(p) == at

\* The iterator stays on its node when a node is inserted at p.
Shift(p) == IF phase \in Walks /\ p <= at THEN at + 1 ELSE at

\* CTaskManager::add, up to the call of init.
AddTask(t, startNow) ==
  /\ InCode
  /\ tasks' = Append(tasks, t)
  /\ \E p \in 1..(Len(sorted) + 1) :
       /\ IsPlace(sorted, t, p)
       /\ sorted' = InsertAt(sorted, p, t)
       /\ at' = Shift(p)
  /\ execute' = [execute EXCEPT ![t] = startNow]
  /\ extract' = [extract EXCEPT ![t] = FALSE]
  /\ calls' = Append(calls, t)
  /\ ops' = ops + 1
  /\ owed' = [owed EXCEPT ![t] = @ + 1]
  /\ steady' = steady \ {t}
  /\ UNCHANGED <<exiting, phase, running, dangling, erasing, undefined, raced,
                 ran>>

\* init() returns, and with it add.
InitReturns ==
  /\ Defined /\ calls # <<>>
  /\ calls' = SubSeq(calls, 1, Len(calls) - 1)
  /\ UNCHANGED <<lists, flags, walk, erasing, undefined, history>>

\* ITask::stop and ITask::restart.
SetExecute(t, on) ==
  /\ InCode
  /\ execute' = [execute EXCEPT ![t] = on]
  /\ steady' = IF on THEN steady ELSE steady \ {t}
  /\ ops' = ops + 1
  /\ UNCHANGED <<lists, extract, exiting, walk, stack, owed, raced, ran>>

\* ITask::remove: the task is to be removed at the end of the frame.
MarkForRemoval(t) ==
  /\ InCode
  /\ extract' = [extract EXCEPT ![t] = TRUE]
  /\ execute' = [execute EXCEPT ![t] = FALSE]
  /\ steady' = steady \ {t}
  /\ ops' = ops + 1
  /\ UNCHANGED <<lists, exiting, walk, stack, owed, raced, ran>>

\* CTaskManager::exit.
Exit ==
  /\ InCode
  /\ exiting' = TRUE
  /\ ops' = ops + 1
  /\ UNCHANGED <<lists, execute, extract, walk, stack, owed, raced, steady,
                 ran>>

-----------------------------------------------------------------------------
(* CTaskManager::remove.                                                   *)

\* What a call of remove does to the history.
NotesRemoval(t) ==
  /\ raced' = IF Cardinality(Nodes(tasks, t)) = 1 THEN raced ELSE raced \cup {t}
  /\ steady' = steady \ {t}

\* remove is called, by a task on any task.
RemoveTask(t) ==
  /\ InCode
  /\ IF Adjacent(tasks, t) \/ Adjacent(sorted, t)
       THEN undefined' = TRUE /\ UNCHANGED erasing
       ELSE erasing' = t /\ UNCHANGED undefined
  /\ NotesRemoval(t)
  /\ ops' = ops + 1
  /\ UNCHANGED <<lists, flags, walk, calls, owed, ran>>

\* The first loop erases the nodes of m_Tasks ...
EraseFromTasks ==
  /\ erasing # None /\ ~undefined
  /\ \E i \in Nodes(tasks, erasing) : tasks' = RemoveAt(tasks, i)
  /\ UNCHANGED <<sorted, flags, walk, stack, history>>

\* The iterator of a walk stays on its node.
AfterErase(i) == IF phase \in Walks /\ i < at THEN at - 1 ELSE at

\* ... and the second those of m_OrderSortedTasks.
EraseFromSorted ==
  /\ erasing # None /\ ~undefined
  /\ Nodes(tasks, erasing) = {}
  /\ \E i \in Nodes(sorted, erasing) :
       /\ sorted' = RemoveAt(sorted, i)
       /\ at' = AfterErase(i)
       /\ dangling' = (dangling \/ (phase \in Walks /\ i = at))
  /\ UNCHANGED <<tasks, flags, phase, running, stack, history>>

\* Slip: the extracting loop goes on from where it was.
AfterErasingGoesOn == IF phase = "extract" THEN at + 1 ELSE at

\* Where the extracting loop goes on: it begins again.
AfterErasing == IF phase = "extract" THEN 1 ELSE at

ErasedEverywhere == Nodes(tasks, erasing) = {} /\ Nodes(sorted, erasing) = {}

\* Slip: remove does not release the task.
EraseEndsUnreleased ==
  /\ erasing # None /\ ~undefined
  /\ ErasedEverywhere
  /\ at' = AfterErasing
  /\ erasing' = None
  /\ UNCHANGED <<lists, flags, phase, running, dangling, calls, undefined,
                 history>>

\* Slip: the loops of remove end when m_Tasks has no node of the task any more.
EraseEndsEarly ==
  /\ erasing # None /\ ~undefined
  /\ Nodes(tasks, erasing) = {}
  /\ owed' = [owed EXCEPT ![erasing] = @ - 1]
  /\ at' = AfterErasing
  /\ erasing' = None
  /\ UNCHANGED <<lists, flags, phase, running, dangling, calls, undefined,
                 ops, raced, steady, ran>>

\* The task is released and remove returns.
EraseEnds ==
  /\ erasing # None /\ ~undefined
  /\ ErasedEverywhere
  /\ owed' = [owed EXCEPT ![erasing] = @ - 1]
  /\ at' = AfterErasing
  /\ erasing' = None
  /\ UNCHANGED <<lists, flags, phase, running, dangling, calls, undefined,
                 ops, raced, steady, ran>>

-----------------------------------------------------------------------------
(* CTaskManager::execute.                                                  *)

\* A new frame: the update walk begins.
BeginFrame ==
  /\ phase' = "update" /\ at' = 1
  /\ steady' = {t \in Members(sorted) : execute[t]}
  /\ ran' = [t \in Task |-> 0]

\* main calls execute; an exit() of before is forgotten.
Execute ==
  /\ InLoop /\ phase = "start"
  /\ exiting' = FALSE
  /\ BeginFrame
  /\ UNCHANGED <<lists, execute, extract, running, dangling, stack, ops, owed,
                 raced>>

\* A walk calls the update() or the render() of the task it stands on ...
RunTask ==
  /\ InLoop /\ phase \in Walks
  /\ at <= Len(sorted) /\ execute[sorted[at]]
  /\ running' = TRUE
  /\ ran' = IF phase = "update" THEN [ran EXCEPT ![sorted[at]] = @ + 1] ELSE ran
  /\ UNCHANGED <<lists, flags, phase, at, dangling, stack, ops, owed, raced,
                 steady>>

\* ... or passes over it.
SkipTask ==
  /\ InLoop /\ phase \in Walks
  /\ at <= Len(sorted) /\ ~execute[sorted[at]]
  /\ at' = at + 1
  /\ UNCHANGED <<lists, flags, phase, running, dangling, stack, history>>

\* update() or render() returns; the walk reads its iterator once more, for the
\* timer, and goes to the next node.
TaskReturns ==
  /\ Defined /\ running /\ calls = <<>>
  /\ running' = FALSE
  /\ IF dangling
       THEN undefined' = TRUE /\ UNCHANGED at
       ELSE at' = at + 1 /\ UNCHANGED undefined
  /\ UNCHANGED <<lists, flags, phase, dangling, calls, erasing, history>>

\* The update walk is at the end of the list, and the render walk begins.
EndUpdates ==
  /\ InLoop /\ phase = "update" /\ at > Len(sorted)
  /\ phase' = "render" /\ at' = 1
  /\ steady' = {}
  /\ ran' = [t \in Task |-> 0]
  /\ UNCHANGED <<lists, flags, running, dangling, stack, ops, owed, raced>>

EndRenders ==
  /\ InLoop /\ phase = "render" /\ at > Len(sorted)
  /\ phase' = "extract" /\ at' = 1
  /\ UNCHANGED <<lists, flags, running, dangling, stack, history>>

\* The extracting loop over m_Tasks calls remove, or passes over a task.
ExtractTask ==
  /\ InLoop /\ phase = "extract" /\ at <= Len(tasks)
  /\ LET t == tasks[at] IN
       /\ extract[t]
       /\ IF Adjacent(tasks, t) \/ Adjacent(sorted, t)
            THEN undefined' = TRUE /\ UNCHANGED erasing
            ELSE erasing' = t /\ UNCHANGED undefined
       /\ NotesRemoval(t)
  /\ UNCHANGED <<lists, flags, walk, calls, ops, owed, ran>>

KeepTask ==
  /\ InLoop /\ phase = "extract" /\ at <= Len(tasks)
  /\ ~extract[tasks[at]]
  /\ at' = at + 1
  /\ UNCHANGED <<lists, flags, phase, running, dangling, stack, history>>

\* Slip: exit() is only looked at when there is no task left.
EndFrameUnlessTasks ==
  /\ InLoop /\ phase = "extract" /\ at > Len(tasks)
  /\ IF exiting /\ tasks = <<>>
       THEN phase' = "release" /\ at' = Len(tasks) /\ UNCHANGED <<steady, ran>>
       ELSE BeginFrame
  /\ UNCHANGED <<lists, flags, running, dangling, stack, ops, owed, raced>>

\* The end of a frame: the next one, or the releases if exit() was called.
EndFrame ==
  /\ InLoop /\ phase = "extract" /\ at > Len(tasks)
  /\ IF exiting
       THEN phase' = "release" /\ at' = Len(tasks) /\ UNCHANGED <<steady, ran>>
       ELSE BeginFrame
  /\ UNCHANGED <<lists, flags, running, dangling, stack, ops, owed, raced>>

\* The releasing loop walks m_Tasks from its back; then execute returns.
Release ==
  /\ InLoop /\ phase = "release"
  /\ IF at > 0
       THEN owed' = [owed EXCEPT ![tasks[at]] = @ - 1] /\ at' = at - 1 /\ UNCHANGED phase
       ELSE phase' = "done" /\ UNCHANGED <<owed, at>>
  /\ UNCHANGED <<lists, flags, running, dangling, stack, ops, raced, steady,
                 ran>>

-----------------------------------------------------------------------------
\* What the code of main and of the tasks may do ...
Code ==
  \/ \E t \in Task : \/ \E b \in BOOLEAN : AddTask(t, b) \/ SetExecute(t, b)
                     \/ MarkForRemoval(t)
                     \/ RemoveTask(t)
  \/ Exit

\* ... and what goes on without its doing.
Erase   == EraseFromTasks \/ EraseFromSorted \/ EraseEnds
Frame   == \/ RunTask \/ SkipTask \/ EndUpdates \/ EndRenders
           \/ ExtractTask \/ KeepTask \/ EndFrame \/ Release
Returns == InitReturns \/ TaskReturns

Next == Code \/ Erase \/ Frame \/ Returns \/ Execute

Spec == Init /\ [][Next]_vars

\* main calls execute, the loop goes on, and every init(), update() and
\* render() returns sooner or later.
Fairness == WF_vars(Erase) /\ WF_vars(Frame) /\ WF_vars(Returns) /\ WF_vars(Execute)
LiveSpec == Spec /\ Fairness

-----------------------------------------------------------------------------
(* Properties.                                                             *)

TypeOK ==
  /\ tasks \in Seq(Task) /\ sorted \in Seq(Task)
  /\ execute \in [Task -> BOOLEAN] /\ extract \in [Task -> BOOLEAN]
  /\ exiting \in BOOLEAN
  /\ phase \in {"start", "update", "render", "extract", "release", "done"}
  /\ at \in Nat
  /\ phase \notin {"release", "done"} => at >= 1
  /\ phase \in Walks => at <= Len(sorted) + 1
  /\ running \in BOOLEAN /\ dangling \in BOOLEAN
  /\ calls \in Seq(Task)
  /\ erasing \in Task \cup {None}
  /\ undefined \in BOOLEAN
  /\ ops \in Nat
  /\ owed \in [Task -> Int]
  /\ raced \in SUBSET Task /\ steady \in SUBSET Task
  /\ ran \in [Task -> Nat]

\* Unless remove is in the middle of it, the two lists hold the same tasks: what
\* the walks run is what execute will release, whatever the tasks did.
ListsAgree ==
  /\ erasing = None => Members(tasks) = Members(sorted)
  /\ Members(tasks) \ {erasing} = Members(sorted) \ {erasing}

\* The walks follow the orders the tasks were added with: tasks added during a
\* walk are put in their place, and tasks without an order disturb nobody.
Ordered ==
  \A i, j \in 1..Len(sorted) :
    /\ i < j
    /\ Order[sorted[i]] # Bottom /\ Order[sorted[j]] # Bottom
    => Order[sorted[i]] <= Order[sorted[j]]

\* An update walk runs every task once for every time it is in the list, unless
\* the task was added, removed or stopped meanwhile: what other tasks do to the
\* list under the iterator neither skips it nor runs it twice.
OncePerFrame ==
  phase = "update" /\ at > Len(sorted) /\ InLoop =>
    \A t \in steady : ran[t] = Cardinality(Nodes(sorted, t))

\* A task is in the list as often as it was initialised and not yet released,
\* and when execute has returned everything is released.  Only a task that was
\* removed when it was twice in the list, or not at all, is out of balance.
Balanced ==
  ~undefined =>
    \A t \in Task \ (raced \cup {erasing}) :
      owed[t] = Cardinality({i \in Nodes(tasks, t) :
                               phase \in {"release", "done"} => i <= at})

\* A removal that was asked for with ITask::remove is done when the frame ends,
\* also when several tasks ask for it in one frame.
NoneLeft ==
  phase = "extract" /\ at > Len(tasks) /\ InLoop =>
    \A t \in Members(tasks) : ~extract[t]

\* exit() is obeyed: unless it was called before execute, the loop ends at the
\* end of the frame and every task is released.
ExitEnds == exiting /\ phase # "start" ~> phase = "done" \/ undefined

=============================================================================
