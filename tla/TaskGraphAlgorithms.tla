------------------------ MODULE TaskGraphAlgorithms ------------------------
(***************************************************************************)
(* The loops behind module TaskGraph, one iteration per step, over every   *)
(* graph on Tasks: the Kahn pass of TaskGraph.compile with its critical    *)
(* paths (sips_runtime/dag.py), and the two worklists of                   *)
(* sips_runtime/controller.py, which close a run's required tasks and      *)
(* block what a stopped task leaves behind.                                *)
(*                                                                         *)
(* Task ids are numbers: the loops take them in sorted order.  Weights are *)
(* whole numbers.                                                          *)
(***************************************************************************)
EXTENDS Integers, Sequences, FiniteSets

CONSTANTS
  Tasks,      \* a set of numbers
  Weight      \* Weight[t]: the declared weight of t

ASSUME AlgorithmsAssumption ==
  /\ Tasks \subseteq Int /\ IsFiniteSet(Tasks)
  /\ Weight \in [Tasks -> Nat]

VARIABLES
  phase,      \* which loop runs, or how the last one ended
  deps,       \* the graph: depends_on
  indegree,   \* dependencies not yet visited
  queue,      \* Kahn's queue, kept sorted by the code
  visited,    \* the order of the visit
  critical,   \* critical[t]: the weight of t and its longest way down
  required,   \* the tasks found to be required
  stack,      \* found, their dependencies not yet looked at
  status,     \* task states under _block_descendants
  next,       \* the tasks this sweep has still to look at
  changed,    \* this sweep blocked one
  marked,     \* the tasks whose spec says required = True
  before      \* the task states the sweeps started from

graph == <<deps, indegree, queue, visited, critical>>
worklists == <<required, stack, status, next, changed, marked, before>>
vars == <<phase, graph, worklists>>

G == INSTANCE TaskGraph WITH Deps <- deps, Required <- marked

Least(S) == CHOOSE t \in S : \A u \in S : t <= u
Most(S) == CHOOSE w \in S : \A v \in S : v <= w

Children(t) == {u \in Tasks : t \in deps[u]}
Visited == {visited[i] : i \in 1..Len(visited)}

Init ==
  /\ phase = "kahn"
  /\ deps \in [Tasks -> SUBSET Tasks]
  /\ indegree = [t \in Tasks |-> Cardinality(deps[t])]
  /\ queue = {t \in Tasks : deps[t] = {}}
  /\ visited = <<>>
  /\ critical = [t \in Tasks |-> 0]
  /\ required = {} /\ stack = {} /\ status = <<>>
  /\ next = {} /\ changed = FALSE /\ marked = {} /\ before = <<>>

-----------------------------------------------------------------------------
(* TaskGraph.compile *)

\* A task that names itself is refused before the loop.
SelfDependent == \E t \in Tasks : t \in deps[t]

RejectSelf ==
  /\ phase = "kahn" /\ SelfDependent
  /\ phase' = "rejected"
  /\ UNCHANGED <<graph, worklists>>

\* One turn of the loop: the least queued task, and the children it frees.
Visit ==
  /\ phase = "kahn" /\ ~SelfDependent /\ queue # {}
  /\ LET current == Least(queue)
     IN  /\ visited' = Append(visited, current)
         /\ indegree' = [t \in Tasks |->
                           IF t \in Children(current) THEN indegree[t] - 1 ELSE indegree[t]]
         /\ queue' = (queue \ {current}) \cup {t \in Children(current) : indegree[t] = 1}
  /\ UNCHANGED <<phase, deps, critical, worklists>>

\* Fault: a graph is taken once its queue is empty and something was visited.
JudgeByQueue ==
  /\ phase = "kahn" /\ ~SelfDependent /\ queue = {}
  /\ phase' = IF visited # <<>> THEN "weighing" ELSE "rejected"
  /\ UNCHANGED <<graph, worklists>>

\* The queue is empty: a task never visited is on a cycle, or behind one.
Judge ==
  /\ phase = "kahn" /\ ~SelfDependent /\ queue = {}
  /\ phase' = IF Len(visited) = Cardinality(Tasks) THEN "weighing" ELSE "rejected"
  /\ UNCHANGED <<graph, worklists>>

\* Fault: first visited, first weighed.
WeighForward ==
  /\ phase = "weighing"
  /\ LET t == visited[Cardinality({u \in Tasks : critical[u] # 0}) + 1]
     IN  critical' = [critical EXCEPT ![t] =
                        Weight[t] + Most({0} \cup {critical[u] : u \in Children(t)})]
  /\ phase' = IF \A u \in Tasks : critical'[u] # 0 THEN "accepted" ELSE "weighing"
  /\ UNCHANGED <<deps, indegree, queue, visited, worklists>>

\* The critical paths, last visited first; the visit is used up on the way.
Weigh ==
  /\ phase = "weighing"
  /\ LET t == visited[Len(visited)]
     IN  critical' = [critical EXCEPT ![t] =
                        Weight[t] + Most({0} \cup {critical[u] : u \in Children(t)})]
  /\ visited' = SubSeq(visited, 1, Len(visited) - 1)
  /\ phase' = IF visited' = <<>> THEN "accepted" ELSE "weighing"
  /\ UNCHANGED <<deps, indegree, queue, worklists>>

-----------------------------------------------------------------------------
(* _effective_required_ids *)

StartRequired ==
  /\ phase = "accepted"
  /\ marked' \in SUBSET Tasks
  /\ required' = marked' /\ stack' = marked'
  /\ phase' = "requiring"
  /\ UNCHANGED <<graph, status, next, changed, before>>

\* Fault: a dependency is stacked, not added.
AddUnmarked ==
  /\ phase = "requiring" /\ stack # {}
  /\ \E t \in stack : stack' = (stack \ {t}) \cup (deps[t] \ required)
  /\ UNCHANGED <<phase, graph, required, status, next, changed, marked, before>>

\* stack.pop(): any task, the stack starts from an unordered set.
AddRequired ==
  /\ phase = "requiring" /\ stack # {}
  /\ \E t \in stack :
       /\ required' = required \cup deps[t]
       /\ stack' = (stack \ {t}) \cup (deps[t] \ required)
  /\ UNCHANGED <<phase, graph, status, next, changed, marked, before>>

EndRequired ==
  /\ phase = "requiring" /\ stack = {}
  /\ phase' = "required"
  /\ UNCHANGED <<graph, worklists>>

-----------------------------------------------------------------------------
(* _block_descendants *)

\* It runs on the state right after a task has stopped.
StartSweep ==
  /\ phase = "accepted"
  /\ status' \in [Tasks -> {"pending", "succeeded", "failed"}]
  /\ before' = status'
  /\ next' = Tasks /\ changed' = FALSE
  /\ phase' = "sweeping"
  /\ UNCHANGED <<graph, required, stack, marked>>

\* Fault: a closed task is blocked, over and over.
SweepClosed ==
  /\ phase = "sweeping" /\ next # {}
  /\ LET t == Least(next)
         stopped == \E d \in deps[t] : status[d] \in G!StoppedStates
     IN  /\ next' = next \ {t}
         /\ IF stopped
            THEN /\ status' = [status EXCEPT ![t] = "blocked"]
                 /\ changed' = TRUE
            ELSE UNCHANGED <<status, changed>>
  /\ UNCHANGED <<phase, graph, required, stack, marked, before>>

\* The body of the for loop.
Sweep ==
  /\ phase = "sweeping" /\ next # {}
  /\ LET t == Least(next)
         stopped == \E d \in deps[t] : status[d] \in G!StoppedStates
     IN  /\ next' = next \ {t}
         /\ IF status[t] \notin G!TerminalTaskStates /\ stopped
            THEN /\ status' = [status EXCEPT ![t] = "blocked"]
                 /\ changed' = TRUE
            ELSE UNCHANGED <<status, changed>>
  /\ UNCHANGED <<phase, graph, required, stack, marked, before>>

\* Fault: one sweep is taken to be enough.
EndSweepAtOnce ==
  /\ phase = "sweeping" /\ next = {}
  /\ phase' = "swept"
  /\ UNCHANGED <<graph, worklists>>

\* while changed.
EndSweep ==
  /\ phase = "sweeping" /\ next = {}
  /\ IF changed
     THEN next' = Tasks /\ changed' = FALSE /\ UNCHANGED phase
     ELSE phase' = "swept" /\ UNCHANGED <<next, changed>>
  /\ UNCHANGED <<graph, required, stack, status, marked, before>>

Next ==
  \/ RejectSelf \/ Visit \/ Judge \/ Weigh
  \/ StartRequired \/ AddRequired \/ EndRequired
  \/ StartSweep \/ Sweep \/ EndSweep

\* The loops run on one thread, and nothing in them waits.
Spec == Init /\ [][Next]_vars /\ WF_vars(Next)

-----------------------------------------------------------------------------
(* Properties *)

\* What GraphAssumption of module TaskGraph asks of a plan.
Acyclic == \A S \in SUBSET Tasks : S # {} => \E t \in S : deps[t] \cap S = {}

\* TaskGraph.compile takes a plan exactly when it has no cycle, through whatever
\* number of tasks.
TakesExactlyDags ==
  /\ phase = "rejected" => ~Acyclic
  /\ phase \notin {"kahn", "rejected"} => Acyclic

\* The ways down from t: tasks, each depending on the one before.
WaysDown(t) ==
  {way \in UNION {[1..n -> Tasks] : n \in 1..Cardinality(Tasks)} :
     way[1] = t /\ \A i \in DOMAIN way : i > 1 => way[i - 1] \in deps[way[i]]}

\* The weight of a way: that of its tasks, none of which it meets twice.
WeightOf(way) ==
  LET part[n \in 0..Len(way)] == IF n = 0 THEN 0 ELSE part[n - 1] + Weight[way[n]]
  IN  part[Len(way)]

\* The number the scheduler ranks a task by is the weight of its heaviest way down.
CriticalIsHeaviestWay ==
  phase = "accepted" =>
    \A t \in Tasks : critical[t] = Most({WeightOf(way) : way \in WaysDown(t)})

\* The worklist ends with what module TaskGraph, and the run controller's rule for
\* closing a run, call EffectiveRequired.
RequiredIsEffective == phase = "required" => required = G!EffectiveRequired

\* The sweeps end with what module TaskGraph calls BlockDescendants, at whatever
\* depth and in whatever order of task ids.
SweepsBlockDescendants == phase = "swept" => status = G!BlockDescendants(before)

\* The two worklists of the controller compute the closures they are named for.
WorklistsAgree == RequiredIsEffective /\ SweepsBlockDescendants

\* Every loop ends.
LoopsEnd == phase \in {"kahn", "weighing", "requiring", "sweeping"} ~>
            phase \notin {"kahn", "weighing", "requiring", "sweeping"}
=============================================================================
