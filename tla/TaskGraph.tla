------------------------------ MODULE TaskGraph ------------------------------
(***************************************************************************)
(* The static part of a run: its tasks, their AND dependencies and the     *)
(* closures the controller computes over them (sips_runtime/dag.py and the *)
(* two worklists of sips_runtime/controller.py).  The worklists are given  *)
(* by what they compute, the least set closed under their step; module     *)
(* TaskGraphAlgorithms runs the worklists themselves against these.        *)
(***************************************************************************)
EXTENDS Integers, FiniteSets

CONSTANTS
  Tasks,      \* task ids of the accepted plan
  Deps,       \* Deps[t]: the tasks t.depends_on names
  Required    \* the tasks whose spec says required = True

\* What TaskGraph.compile accepts: known dependencies, and no cycle (every
\* non-empty set of tasks has one that depends on nothing inside the set).
ASSUME GraphAssumption ==
  /\ IsFiniteSet(Tasks)
  /\ Deps \in [Tasks -> SUBSET Tasks]
  /\ Required \subseteq Tasks
  /\ \A S \in SUBSET Tasks : S # {} => \E t \in S : Deps[t] \cap S = {}

TaskStates == {"pending", "leased", "running",
               "succeeded", "blocked", "failed", "canceled"}
TerminalTaskStates == {"succeeded", "blocked", "failed", "canceled"}
StoppedStates      == {"blocked", "failed", "canceled"}

\* Tasks the run cannot close without: required ones and all they depend on.
EffectiveRequired ==
  {t \in Tasks : \A S \in SUBSET Tasks :
     (Required \subseteq S /\ \A u \in S : Deps[u] \subseteq S) => t \in S}

\* Sets that hold every open task with a stopped predecessor, or one inside.
ClosedUnderBlocking(status) ==
  {S \in SUBSET Tasks :
     \A t \in Tasks \ S :
       status[t] \notin TerminalTaskStates =>
         \A d \in Deps[t] : status[d] \notin StoppedStates /\ d \notin S}

\* The least of them: the open tasks that can no longer run.
Doomed(status) ==
  LET closed == ClosedUnderBlocking(status)
  IN  {t \in Tasks : \A S \in closed : t \in S}

\* Fault: one pass only, so grandchildren stay open.
BlockChildren(status) ==
  [t \in Tasks |->
     IF /\ status[t] \notin TerminalTaskStates
        /\ \E d \in Deps[t] : status[d] \in StoppedStates
     THEN "blocked" ELSE status[t]]

\* Fault: every open task is closed, descendant or not.
BlockEverything(status) ==
  [t \in Tasks |-> IF status[t] \in TerminalTaskStates THEN status[t] ELSE "blocked"]

\* _block_descendants: close every descendant of a stopped task as blocked.
BlockDescendants(status) ==
  LET doomed == Doomed(status)
  IN  [t \in Tasks |-> IF t \in doomed THEN "blocked" ELSE status[t]]

\* Fault: a dependency under way is good enough.
ReadyEarly(completed, running) ==
  {t \in Tasks \ (completed \cup running) : Deps[t] \subseteq completed \cup running}

\* ready(): not completed, not running, every dependency completed.
ReadyTasks(completed, running) ==
  {t \in Tasks \ (completed \cup running) : Deps[t] \subseteq completed}
=============================================================================
