--------------------- MODULE TaskGraphAlgorithmsProofs ---------------------
(***************************************************************************)
(* Theorems about TaskGraphAlgorithms: what the loops of the task graph    *)
(* compute, for every finite set of tasks, every graph on it and all       *)
(* weights.                                                                *)
(***************************************************************************)
EXTENDS TaskGraphAlgorithms, TLAPS, FiniteSetTheorems, SequenceTheorems

-----------------------------------------------------------------------------
(* Numbers and finite sets of them *)

Less == {ss \in Nat \X Nat : ss[1] < ss[2]}

\* Induction, for a set of naturals.
LEMMA Inductive ==
  ASSUME NEW S, 0 \in S, \A n \in Nat : n \in S => n + 1 \in S
  PROVE  \A n \in Nat : n \in S
<1> DEFINE rest == Nat \ S
<1>1. SUFFICES ASSUME rest # {} PROVE FALSE
  OBVIOUS
<1>2. OpToRel(<, Nat) = Less
  BY Zenon DEF OpToRel, Less
<1>3. IsWellFoundedOn(Less, Nat)
  BY <1>2, NatLessThanWellFounded, Zenon
<1>4. PICK x \in rest : \A y \in rest : <<y, x>> \notin Less
  <2>1. rest \subseteq Nat
    OBVIOUS
  <2>2. QED
    BY <1>1, <1>3, <2>1, WFMin
<1>5. x \in Nat \ {0} /\ x - 1 \in Nat /\ (x - 1) + 1 = x
  <2>1. x \in Nat /\ x # 0
    OBVIOUS
  <2>2. QED
    BY <2>1
<1>6. x - 1 \notin S
  BY <1>5
<1>7. <<x - 1, x>> \in Less
  BY <1>5 DEF Less
<1>8. QED
  BY <1>4, <1>5, <1>6, <1>7

\* A finite set of numbers has a least and a greatest member.
LEMMA Extremes ==
  ASSUME NEW R, R \subseteq Int, IsFiniteSet(R), R # {}
  PROVE  /\ \E x \in R : \A y \in R : x <= y
         /\ \E x \in R : \A y \in R : y <= x
<1> DEFINE Bounded(Q) == /\ \E x \in Q : \A y \in Q : x <= y
                         /\ \E x \in Q : \A y \in Q : y <= x
<1> DEFINE S == {n \in Nat : \A Q \in SUBSET R :
                   Cardinality(Q) = n + 1 => Bounded(Q)}
<1>1. \A Q \in SUBSET R : IsFiniteSet(Q) /\ Cardinality(Q) \in Nat
  BY FS_Subset, FS_CardinalityType
<1>2. 0 \in S
  <2>1. ASSUME NEW Q \in SUBSET R, Cardinality(Q) = 1 PROVE Bounded(Q)
    <3>1. PICK x : Q = {x}
      BY <1>1, <2>1, FS_Singleton
    <3>2. QED
      BY <3>1
  <2>2. QED
    BY <2>1
<1>3. ASSUME NEW n \in Nat, n \in S PROVE n + 1 \in S
  <2>1. ASSUME NEW Q \in SUBSET R, Cardinality(Q) = (n + 1) + 1 PROVE Bounded(Q)
    <3>1. Q # {}
      BY <2>1, FS_EmptySet
    <3>2. PICK q \in Q : TRUE
      BY <3>1
    <3>3. Cardinality(Q \ {q}) = n + 1
      BY <1>1, <2>1, <3>2, FS_RemoveElement
    <3>4. Bounded(Q \ {q})
      BY <1>3, <3>3
    <3>5. PICK a \in Q \ {q} : \A y \in Q \ {q} : a <= y
      BY <3>4
    <3>6. PICK b \in Q \ {q} : \A y \in Q \ {q} : y <= b
      BY <3>4
    <3>7. \E x \in Q : \A y \in Q : x <= y
      <4>1. CASE q <= a
        BY <3>2, <3>5, <4>1
      <4>2. CASE ~(q <= a)
        BY <3>2, <3>5, <4>2
      <4>3. QED
        BY <4>1, <4>2
    <3>8. \E x \in Q : \A y \in Q : y <= x
      <4>1. CASE b <= q
        BY <3>2, <3>6, <4>1
      <4>2. CASE ~(b <= q)
        BY <3>2, <3>6, <4>2
      <4>3. QED
        BY <4>1, <4>2
    <3>9. QED
      BY <3>7, <3>8
  <2>2. QED
    BY <2>1
<1>4. \A n \in Nat : n \in S
  <2> HIDE DEF S
  <2>1. QED
    BY <1>2, <1>3, Inductive
<1>5. Cardinality(R) - 1 \in Nat
  BY <1>1, FS_EmptySet
<1>6. QED
  BY <1>1, <1>4, <1>5

LEMMA LeastIsLeast ==
  ASSUME NEW R, R \subseteq Int, IsFiniteSet(R), R # {}
  PROVE  Least(R) \in R
BY Extremes DEF Least

LEMMA MostIsMost ==
  ASSUME NEW R, R \subseteq Int, NEW w \in R, \A v \in R : v <= w
  PROVE  Most(R) = w
<1>1. \E x \in R : \A v \in R : v <= x
  OBVIOUS
<1>2. Most(R) \in R
  BY <1>1, Zenon DEF Most
<1>3. \A v \in R : v <= Most(R)
  BY <1>1, Zenon DEF Most
<1>4. w <= Most(R) /\ Most(R) <= w
  BY <1>2, <1>3
<1>5. w \in Int /\ Most(R) \in Int
  BY <1>2
<1>6. QED
  BY <1>4, <1>5

\* A finite set of naturals and 0 has a greatest member.
LEMMA MostExists ==
  ASSUME NEW R, R \subseteq Nat, IsFiniteSet(R)
  PROVE  /\ Most({0} \cup R) \in {0} \cup R
         /\ \A v \in {0} \cup R : v <= Most({0} \cup R)
<1> DEFINE Q == {0} \cup R
<1>0. Q = R \cup {0} /\ IsFiniteSet(R \cup {0})
  BY FS_AddElement
<1>1. IsFiniteSet(Q) /\ Q \subseteq Int /\ Q # {}
  BY <1>0
<1> HIDE DEF Q
<1>2. PICK w \in Q : \A v \in Q : v <= w
  BY <1>1, Extremes
<1>3. Most(Q) = w
  BY MostIsMost, <1>1, <1>2
<1>4. QED
  BY <1>2, <1>3 DEF Q

-----------------------------------------------------------------------------
(* Types *)

Phases == {"kahn", "rejected", "weighing", "accepted",
           "requiring", "required", "sweeping", "swept"}

TypeOK ==
  /\ phase \in Phases
  /\ deps \in [Tasks -> SUBSET Tasks]
  /\ indegree \in [Tasks -> Int]
  /\ queue \subseteq Tasks
  /\ visited \in Seq(Tasks)
  /\ critical \in [Tasks -> Nat]
  /\ required \subseteq Tasks /\ stack \subseteq Tasks /\ marked \subseteq Tasks
  /\ next \subseteq Tasks /\ changed \in BOOLEAN
  /\ phase \in {"sweeping", "swept"} =>
       status \in [Tasks -> G!TaskStates] /\ before \in [Tasks -> G!TaskStates]

\* Every set of tasks is finite.
LEMMA SubsetsFinite ==
  ASSUME NEW S \in SUBSET Tasks
  PROVE  IsFiniteSet(S) /\ Cardinality(S) \in Nat /\ S \subseteq Int
BY AlgorithmsAssumption, FS_Subset, FS_CardinalityType

Below(t) == {critical[u] : u \in Children(t)}

\* What a task's weight is added to.
LEMMA BelowIsNatural ==
  ASSUME TypeOK, NEW t
  PROVE  /\ Most({0} \cup Below(t)) \in {0} \cup Below(t)
         /\ Most({0} \cup Below(t)) \in Nat
         /\ \A v \in {0} \cup Below(t) : v <= Most({0} \cup Below(t))
<1>1. Children(t) \in SUBSET Tasks
  BY DEF Children
<1>2. Below(t) \subseteq Nat
  BY <1>1 DEF TypeOK, Below
<1>3. IsFiniteSet(Below(t))
  <2> DEFINE f == [u \in Children(t) |-> critical[u]]
  <2>1. f \in Surjection(Children(t), Below(t))
    BY DEF Surjection, Below
  <2>2. QED
    BY <1>1, <2>1, SubsetsFinite, FS_Surjection
<1>4. QED
  BY <1>2, <1>3, MostExists

LEMMA InitType == Init => TypeOK
<1> SUFFICES ASSUME Init PROVE TypeOK
  OBVIOUS
<1>1. \A t \in Tasks : Cardinality(deps[t]) \in Nat
  BY SubsetsFinite DEF Init
<1>2. indegree \in [Tasks -> Int]
  BY <1>1 DEF Init
<1>3. critical \in [Tasks -> Nat] /\ visited \in Seq(Tasks)
  BY DEF Init
<1>4. deps \in [Tasks -> SUBSET Tasks] /\ queue \subseteq Tasks
  BY DEF Init
<1>5. QED
  BY <1>2, <1>3, <1>4 DEF Init, TypeOK, Phases

LEMMA TypeStep == TypeOK /\ [Next]_vars => TypeOK'
<1> SUFFICES ASSUME TypeOK, [Next]_vars PROVE TypeOK'
  OBVIOUS
<1> USE DEF TypeOK, Phases
<1>1. CASE RejectSelf
  BY <1>1 DEF RejectSelf, graph, worklists
<1>2. CASE Visit
  <2>1. queue \in SUBSET Tasks /\ queue # {}
    BY <1>2 DEF Visit
  <2>2. Least(queue) \in Tasks
    BY <2>1, SubsetsFinite, LeastIsLeast
  <2>3. QED
    BY <1>2, <2>2 DEF Visit, worklists, Children
<1>3. CASE Judge
  BY <1>3 DEF Judge, graph, worklists
<1>4. CASE Weigh
  <2> DEFINE t == visited[Len(visited)]
             heaviest == Most({0} \cup Below(t))
  <2>1. heaviest \in Nat
    BY BelowIsNatural
  <2>2. critical' = [critical EXCEPT ![t] = Weight[t] + heaviest]
    BY <1>4 DEF Weigh, Below
  <2> HIDE DEF t, heaviest
  <2>3. critical' \in [Tasks -> Nat]
    <3>1. CASE t \in Tasks
      <4>1. Weight[t] + heaviest \in Nat
        BY <2>1, <3>1, AlgorithmsAssumption
      <4>2. QED
        BY <2>2, <4>1
    <3>2. CASE t \notin Tasks
      BY <2>2, <3>2
    <3>3. QED
      BY <3>1, <3>2
  <2>4. visited' \in Seq(Tasks)
    <3>1. CASE visited = <<>>
      BY <1>4, <3>1 DEF Weigh
    <3>2. CASE visited # <<>>
      BY <1>4, <3>2 DEF Weigh
    <3>3. QED
      BY <3>1, <3>2
  <2>5. QED
    BY <1>4, <2>3, <2>4 DEF Weigh, worklists
<1>5. CASE StartRequired
  BY <1>5 DEF StartRequired, graph
<1>6. CASE AddRequired
  BY <1>6 DEF AddRequired, graph
<1>7. CASE EndRequired
  BY <1>7 DEF EndRequired, graph, worklists
<1>8. CASE StartSweep
  BY <1>8 DEF StartSweep, graph, G!TaskStates
<1>9. CASE Sweep
  BY <1>9 DEF Sweep, graph, G!TaskStates
<1>10. CASE EndSweep
  BY <1>10 DEF EndSweep, graph
<1>11. CASE UNCHANGED vars
  BY <1>11 DEF vars, graph, worklists
<1>12. QED
  BY <1>1, <1>2, <1>3, <1>4, <1>5, <1>6, <1>7, <1>8, <1>9, <1>10, <1>11 DEF Next

\* Every loop keeps to the types of its variables.
THEOREM TypeCorrect == Spec => []TypeOK
BY InitType, TypeStep, PTL DEF Spec

-----------------------------------------------------------------------------
(* The Kahn pass *)

\* No task is visited twice, and each comes after all it depends on.
Ordered ==
  /\ \A i, j \in 1..Len(visited) : visited[i] = visited[j] => i = j
  /\ \A i \in 1..Len(visited) : \A d \in deps[visited[i]] :
       \E j \in 1..Len(visited) : j < i /\ visited[j] = d

\* Between two turns of the loop.
Queued ==
  /\ Ordered
  /\ Cardinality(Visited) = Len(visited)
  /\ queue = {t \in Tasks \ Visited : deps[t] \subseteq Visited}
  /\ \A t \in Tasks : indegree[t] = Cardinality(deps[t] \ Visited)

KahnInv ==
  /\ phase = "kahn" => Queued
  /\ phase = "weighing" => Ordered /\ (visited = <<>> => Tasks = {})
  /\ TakesExactlyDags

\* What was visited in order has no cycle.
LEMMA OrderedIsAcyclic ==
  ASSUME TypeOK, Ordered, Visited = Tasks PROVE Acyclic
<1> SUFFICES ASSUME NEW S \in SUBSET Tasks, S # {}
             PROVE  \E t \in S : deps[t] \cap S = {}
  BY DEF Acyclic
<1> DEFINE places == {i \in 1..Len(visited) : visited[i] \in S}
<1>1. Len(visited) \in Nat
  BY DEF TypeOK
<1>2. places # {} /\ places \subseteq 1..Len(visited) /\ places \subseteq Int
  BY DEF Visited
<1>3. IsFiniteSet(places)
  <2>1. IsFiniteSet(1..Len(visited))
    BY <1>1, FS_Interval
  <2>2. places \in SUBSET (1..Len(visited))
    OBVIOUS
  <2>3. QED
    BY <2>1, <2>2, FS_Subset
<1>4. PICK i \in places : \A j \in places : i <= j
  <2> HIDE DEF places
  <2>1. QED
    BY <1>2, <1>3, Extremes
<1>5. i \in 1..Len(visited) /\ visited[i] \in S
  OBVIOUS
<1>6. ASSUME NEW d \in deps[visited[i]], d \in S PROVE FALSE
  <2>1. PICK j \in 1..Len(visited) : j < i /\ visited[j] = d
    BY <1>5 DEF Ordered
  <2>2. j \in places
    BY <1>6, <2>1
  <2>3. i <= j
    BY <1>4, <2>2
  <2>4. QED
    BY <1>1, <1>5, <2>1, <2>3
<1>7. QED
  BY <1>5, <1>6

\* The task next in turn, and the sequence with it.
LEMMA VisitAppends ==
  ASSUME TypeOK, Visit
  PROVE  \E current \in queue :
           /\ visited' = Append(visited, current)
           /\ Len(visited) \in Nat /\ Len(visited') = Len(visited) + 1
           /\ \A i \in 1..Len(visited) : visited'[i] = visited[i]
           /\ visited'[Len(visited) + 1] = current
           /\ Visited' = Visited \cup {current}
           /\ deps' = deps /\ phase' = phase /\ phase = "kahn"
           /\ current \notin deps[current]
           /\ indegree' = [t \in Tasks |-> IF current \in deps[t]
                                           THEN indegree[t] - 1 ELSE indegree[t]]
           /\ queue' = (queue \ {current}) \cup
                         {t \in Tasks : current \in deps[t] /\ indegree[t] = 1}
<1> DEFINE current == Least(queue)
<1>1. queue \in SUBSET Tasks /\ queue # {}
  BY DEF Visit, TypeOK
<1>2. current \in queue /\ current \in Tasks
  BY <1>1, SubsetsFinite, LeastIsLeast
<1>3. visited' = Append(visited, current)
  BY DEF Visit
<1> HIDE DEF current
<1>4. /\ Len(visited) \in Nat /\ Len(visited') = Len(visited) + 1
      /\ \A i \in 1..Len(visited) : visited'[i] = visited[i]
      /\ visited'[Len(visited) + 1] = current
  BY <1>2, <1>3 DEF TypeOK
<1>5. Visited' = Visited \cup {current}
  <2>1. 1..(Len(visited) + 1) = 1..Len(visited) \cup {Len(visited) + 1}
    BY <1>4
  <2>2. QED
    BY <1>4, <2>1 DEF Visited
<1>6. /\ indegree' = [t \in Tasks |-> IF current \in deps[t]
                                      THEN indegree[t] - 1 ELSE indegree[t]]
      /\ queue' = (queue \ {current}) \cup
                    {t \in Tasks : current \in deps[t] /\ indegree[t] = 1}
  <2>1. Children(current) = {t \in Tasks : current \in deps[t]}
    BY DEF Children
  <2>2. /\ indegree' = [t \in Tasks |-> IF t \in Children(current)
                                        THEN indegree[t] - 1 ELSE indegree[t]]
        /\ queue' = (queue \ {current}) \cup {t \in Children(current) : indegree[t] = 1}
    BY DEF Visit, current
  <2>3. QED
    BY <2>1, <2>2
<1>7. deps' = deps /\ phase' = phase /\ phase = "kahn" /\ current \notin deps[current]
  BY <1>2 DEF Visit, SelfDependent
<1>8. QED
  BY <1>2, <1>3, <1>4, <1>5, <1>6, <1>7

LEMMA VisitQueues == TypeOK /\ Queued /\ Visit => Queued'
<1> SUFFICES ASSUME TypeOK, Queued, Visit PROVE Queued'
  OBVIOUS
<1>1. PICK current \in queue :
           /\ visited' = Append(visited, current)
           /\ Len(visited) \in Nat /\ Len(visited') = Len(visited) + 1
           /\ \A i \in 1..Len(visited) : visited'[i] = visited[i]
           /\ visited'[Len(visited) + 1] = current
           /\ Visited' = Visited \cup {current}
           /\ deps' = deps /\ phase' = phase /\ phase = "kahn"
           /\ current \notin deps[current]
           /\ indegree' = [t \in Tasks |-> IF current \in deps[t]
                                           THEN indegree[t] - 1 ELSE indegree[t]]
           /\ queue' = (queue \ {current}) \cup
                         {t \in Tasks : current \in deps[t] /\ indegree[t] = 1}
  BY VisitAppends
<1>2. current \in Tasks \ Visited /\ deps[current] \subseteq Visited
  BY DEF Queued
<1>3. Visited \in SUBSET Tasks /\ IsFiniteSet(Visited)
  <2>1. Visited \in SUBSET Tasks
    BY DEF TypeOK, Visited
  <2>2. QED
    BY <2>1, SubsetsFinite
<1>4. Ordered'
  <2>1. ASSUME NEW i \in 1..Len(visited'), NEW j \in 1..Len(visited'),
               visited'[i] = visited'[j]
        PROVE  i = j
    <3>1. \A k \in 1..Len(visited) : visited'[k] # current
      BY <1>1, <1>2 DEF Visited
    <3>2. CASE i \in 1..Len(visited) /\ j \in 1..Len(visited)
      BY <1>1, <2>1, <3>2 DEF Queued, Ordered
    <3>3. CASE i = Len(visited) + 1 \/ j = Len(visited) + 1
      <4>1. visited'[i] = current /\ visited'[j] = current
        BY <1>1, <2>1, <3>3
      <4>2. i \notin 1..Len(visited) /\ j \notin 1..Len(visited)
        BY <3>1, <4>1
      <4>3. QED
        BY <1>1, <4>2
    <3>4. QED
      BY <1>1, <3>2, <3>3
  <2>2. ASSUME NEW i \in 1..Len(visited'), NEW d \in deps'[visited'[i]]
        PROVE  \E j \in 1..Len(visited') : j < i /\ visited'[j] = d
    <3>1. CASE i \in 1..Len(visited)
      <4>1. PICK j \in 1..Len(visited) : j < i /\ visited[j] = d
        BY <1>1, <2>2, <3>1 DEF Queued, Ordered
      <4>2. QED
        BY <1>1, <4>1
    <3>2. CASE i = Len(visited) + 1
      <4>1. d \in Visited
        BY <1>1, <1>2, <2>2, <3>2
      <4>2. PICK j \in 1..Len(visited) : visited[j] = d
        BY <4>1 DEF Visited
      <4>3. QED
        BY <1>1, <3>2, <4>2
    <3>3. QED
      BY <1>1, <3>1, <3>2
  <2>3. QED
    BY <2>1, <2>2 DEF Ordered
<1>5. Cardinality(Visited') = Len(visited')
  BY <1>1, <1>2, <1>3, FS_AddElement DEF Queued
<1>6. ASSUME NEW t \in Tasks
      PROVE  /\ indegree'[t] = Cardinality(deps'[t] \ Visited')
             /\ t \in queue' <=> t \notin Visited' /\ deps'[t] \subseteq Visited'
  <2> DEFINE open == deps[t] \ Visited
  <2>1. deps'[t] \ Visited' = open \ {current}
    BY <1>1
  <2>2. IsFiniteSet(open) /\ Cardinality(open) = indegree[t]
    <3>1. open \in SUBSET Tasks
      BY DEF TypeOK
    <3>2. QED
      BY <3>1, SubsetsFinite DEF Queued
  <2>3. current \in deps[t] <=> current \in open
    BY <1>2
  <2>4. t \in queue <=> t \notin Visited /\ open = {}
    BY DEF Queued
  <2>5. open = {} <=> Cardinality(open) = 0
    BY <2>2, FS_EmptySet
  <2>6. Cardinality(open \ {current}) =
          IF current \in open THEN Cardinality(open) - 1 ELSE Cardinality(open)
    BY <2>2, FS_RemoveElement
  <2>7. indegree'[t] = Cardinality(deps'[t] \ Visited')
    BY <1>1, <2>1, <2>2, <2>3, <2>6
  <2>8. t \in Visited => open = {}
    <3>1. ASSUME NEW d \in deps[t], t \in Visited PROVE d \in Visited
      <4>1. PICK i \in 1..Len(visited) : visited[i] = t
        BY <3>1 DEF Visited
      <4>2. PICK j \in 1..Len(visited) : visited[j] = d
        BY <3>1, <4>1 DEF Queued, Ordered
      <4>3. QED
        BY <4>2 DEF Visited
    <3>2. QED
      BY <3>1
  <2>9. ASSUME current \in open
        PROVE  indegree[t] = 1 <=> open \ {current} = {}
    <3>1. IsFiniteSet(open \ {current})
      BY <2>2, FS_RemoveElement
    <3>2. open \ {current} = {} <=> Cardinality(open \ {current}) = 0
      BY <3>1, FS_EmptySet
    <3>3. indegree[t] \in Int
      BY DEF TypeOK
    <3>4. QED
      BY <2>2, <2>6, <2>9, <3>2, <3>3
  <2>10. deps'[t] \subseteq Visited' <=> open \ {current} = {}
    BY <2>1
  <2> HIDE DEF open
  <2>11. CASE t = current
    <3>1. t \notin queue'
      BY <1>1, <2>11
    <3>2. QED
      BY <1>1, <2>7, <2>11, <3>1
  <2>12. CASE t # current /\ current \in open
    <3>1. t \in queue' <=> indegree[t] = 1
      BY <1>1, <2>3, <2>4, <2>12
    <3>2. t \notin Visited'
      BY <1>1, <2>8, <2>12
    <3>3. QED
      BY <2>7, <2>9, <2>10, <2>12, <3>1, <3>2
  <2>13. CASE t # current /\ current \notin open
    <3>1. open \ {current} = open
      BY <2>13
    <3>2. t \in queue' <=> t \in queue
      BY <1>1, <2>3, <2>13
    <3>3. t \in Visited' <=> t \in Visited
      BY <1>1, <2>13
    <3>4. QED
      BY <2>4, <2>7, <2>10, <3>1, <3>2, <3>3
  <2>14. QED
    BY <2>11, <2>12, <2>13
<1>7. queue' \subseteq Tasks
  BY <1>1 DEF TypeOK
<1>8. queue' = {t \in Tasks \ Visited' : deps'[t] \subseteq Visited'}
  BY <1>6, <1>7
<1>9. QED
  BY <1>4, <1>5, <1>6, <1>8 DEF Queued

\* The loop's own test for a cycle is right.
LEMMA JudgeIsRight ==
  ASSUME TypeOK, Queued, Judge
  PROVE  /\ Acyclic <=> phase' = "weighing"
         /\ ~Acyclic <=> phase' = "rejected"
         /\ visited = <<>> /\ phase' = "weighing" => Tasks = {}
<1>1. Visited \in SUBSET Tasks
  BY DEF TypeOK, Visited
<1>2. Len(visited) = Cardinality(Tasks) <=> Visited = Tasks
  BY <1>1, AlgorithmsAssumption, FS_Subset DEF Queued
<1>3. Visited = Tasks => Acyclic
  BY OrderedIsAcyclic DEF Queued
<1>4. ASSUME Visited # Tasks PROVE ~Acyclic
  <2> DEFINE S == Tasks \ Visited
  <2>1. S # {} /\ S \in SUBSET Tasks
    BY <1>1, <1>4
  <2>2. ASSUME NEW t \in S, deps[t] \cap S = {} PROVE FALSE
    <3>1. deps[t] \subseteq Visited
      BY <2>2 DEF TypeOK
    <3>2. t \in queue
      BY <3>1 DEF Queued
    <3>3. QED
      BY <3>2 DEF Judge
  <2>3. QED
    BY <2>1, <2>2 DEF Acyclic
<1>5. visited = <<>> => Visited = {}
  BY DEF Visited
<1>6. QED
  BY <1>2, <1>3, <1>4, <1>5 DEF Judge

\* What weighing leaves of the visit.
LEMMA WeighTakesLast ==
  ASSUME TypeOK, Weigh, visited # <<>>
  PROVE  /\ Len(visited) \in Nat \ {0} /\ Len(visited') = Len(visited) - 1
         /\ \A i \in 1..Len(visited') : visited'[i] = visited[i]
<1>1. visited \in Seq(Tasks) /\ Len(visited) \in Nat \ {0}
  BY DEF TypeOK
<1>2. visited' = SubSeq(visited, 1, Len(visited) - 1)
  BY DEF Weigh
<1>3. /\ Len(visited') = IF 1 <= Len(visited) - 1 THEN (Len(visited) - 1) - 1 + 1 ELSE 0
      /\ \A i \in 1..(Len(visited) - 1) - 1 + 1 : visited'[i] = visited[1 + i - 1]
  <2>1. \A i \in 1..(Len(visited) - 1) : visited[i] \in Tasks
    BY <1>1
  <2>2. Len(visited) - 1 \in Int
    BY <1>1
  <2>3. QED
    BY <1>2, <2>1, <2>2, SubSeqProperties
<1>4. ASSUME NEW n \in Nat \ {0}
      PROVE  /\ (IF 1 <= n - 1 THEN (n - 1) - 1 + 1 ELSE 0) = n - 1
             /\ (n - 1) - 1 + 1 = n - 1
             /\ \A i \in 1..(n - 1) : 1 + i - 1 = i
  OBVIOUS
<1>5. Len(visited') = Len(visited) - 1
  BY <1>1, <1>3, <1>4, Zenon
<1>6. \A i \in 1..(Len(visited) - 1) : visited'[i] = visited[i]
  BY <1>1, <1>3, <1>4
<1>7. QED
  BY <1>1, <1>5, <1>6

LEMMA KahnStep == TypeOK /\ KahnInv /\ [Next]_vars => KahnInv'
<1> SUFFICES ASSUME TypeOK, KahnInv, [Next]_vars PROVE KahnInv'
  OBVIOUS
<1> USE DEF KahnInv, TakesExactlyDags
<1>0. deps' = deps => (Acyclic' <=> Acyclic)
  BY DEF Acyclic
<1>1. CASE RejectSelf
  <2>1. PICK t \in Tasks : t \in deps[t]
    BY <1>1 DEF RejectSelf, SelfDependent
  <2>2. ~Acyclic
    <3>1. {t} \in SUBSET Tasks /\ {t} # {}
      OBVIOUS
    <3>2. \A u \in {t} : deps[u] \cap {t} # {}
      BY <2>1
    <3>3. QED
      BY <3>1, <3>2 DEF Acyclic
  <2>3. QED
    BY <1>0, <1>1, <2>2 DEF RejectSelf, graph
<1>2. CASE Visit
  BY <1>2, VisitQueues DEF Visit
<1>3. CASE Judge
  <2>1. Queued
    BY <1>3 DEF Judge
  <2>2. /\ Acyclic <=> phase' = "weighing"
        /\ ~Acyclic <=> phase' = "rejected"
        /\ visited = <<>> /\ phase' = "weighing" => Tasks = {}
    BY <1>3, <2>1, JudgeIsRight
  <2>3. deps' = deps /\ visited' = visited /\ phase' \in {"weighing", "rejected"}
    BY <1>3 DEF Judge, graph
  <2>4. Ordered'
    BY <2>1, <2>3 DEF Queued, Ordered
  <2>5. QED
    BY <1>0, <2>2, <2>3, <2>4
<1>4. CASE Weigh
  <2>1. deps' = deps /\ phase = "weighing" /\ phase' \in {"weighing", "accepted"}
    BY <1>4 DEF Weigh
  <2>2. visited' = <<>> => phase' = "accepted"
    BY <1>4 DEF Weigh
  <2>3. ASSUME phase' = "weighing" PROVE Ordered'
    <3>1. visited # <<>>
      <4>1. ASSUME visited = <<>> PROVE visited' = <<>>
        BY <1>4, <4>1 DEF Weigh
      <4>2. QED
        BY <2>2, <2>3, <4>1
    <3>2. /\ Len(visited) \in Nat /\ Len(visited') = Len(visited) - 1
          /\ \A i \in 1..Len(visited') : visited'[i] = visited[i]
      BY <1>4, <3>1, WeighTakesLast
    <3>3. Ordered
      BY <2>1
    <3>4. ASSUME NEW i \in 1..Len(visited'), NEW d \in deps'[visited'[i]]
          PROVE  \E j \in 1..Len(visited') : j < i /\ visited'[j] = d
      <4>1. i \in 1..Len(visited) /\ d \in deps[visited[i]]
        BY <2>1, <3>2
      <4>2. PICK j \in 1..Len(visited) : j < i /\ visited[j] = d
        BY <3>3, <4>1 DEF Ordered
      <4>3. QED
        BY <3>2, <4>1, <4>2
    <3>5. \A i, j \in 1..Len(visited') : visited'[i] = visited'[j] => i = j
      BY <3>2, <3>3 DEF Ordered
    <3>6. QED
      BY <3>4, <3>5 DEF Ordered
  <2>4. QED
    BY <1>0, <2>1, <2>2, <2>3
<1>5. CASE StartRequired
  BY <1>0, <1>5 DEF StartRequired, graph
<1>6. CASE AddRequired
  BY <1>0, <1>6 DEF AddRequired, graph
<1>7. CASE EndRequired
  BY <1>0, <1>7 DEF EndRequired, graph
<1>8. CASE StartSweep
  BY <1>0, <1>8 DEF StartSweep, graph
<1>9. CASE Sweep
  BY <1>0, <1>9 DEF Sweep, graph
<1>10. CASE EndSweep
  BY <1>0, <1>10 DEF EndSweep, graph
<1>11. CASE UNCHANGED vars
  <2>1. UNCHANGED <<phase, deps, indegree, queue, visited>>
    BY <1>11 DEF vars, graph
  <2>2. (Ordered' <=> Ordered) /\ Visited' = Visited
    BY <2>1 DEF Ordered, Visited
  <2>3. Queued' <=> Queued
    BY <2>1, <2>2 DEF Queued
  <2>4. QED
    BY <1>0, <2>1, <2>2, <2>3
<1>12. QED
  BY <1>1, <1>2, <1>3, <1>4, <1>5, <1>6, <1>7, <1>8, <1>9, <1>10, <1>11 DEF Next

LEMMA InitQueued == Init => KahnInv
<1> SUFFICES ASSUME Init PROVE Queued
  BY DEF KahnInv, TakesExactlyDags, Init
<1>1. Visited = {} /\ Len(visited) = 0
  BY DEF Init, Visited
<1>2. Ordered
  BY <1>1 DEF Ordered
<1>3. Cardinality(Visited) = Len(visited)
  BY <1>1, FS_EmptySet
<1>4. \A t \in Tasks : deps[t] \ Visited = deps[t]
  BY <1>1
<1>5. QED
  BY <1>1, <1>2, <1>3, <1>4 DEF Queued, Init

LEMMA KahnCorrect == Spec => []KahnInv
BY InitQueued, KahnStep, TypeCorrect, PTL DEF Spec

\* TaskGraph.compile rejects a plan exactly when some of its tasks depend on one
\* another in a circle, whatever the number of tasks and in whatever order of
\* ids the queue is served: what is left unvisited is the circle, and what was
\* visited can be taken apart in the order of the visit.
THEOREM CompileTakesDags == Spec => []TakesExactlyDags
BY KahnCorrect, PTL DEF KahnInv

-----------------------------------------------------------------------------
(* The worklists *)

\* What is found is required; what was looked at has its dependencies found.
Requiring ==
  /\ marked \subseteq required /\ stack \subseteq required
  /\ required \subseteq G!EffectiveRequired
  /\ \A t \in required \ stack : deps[t] \subseteq required

\* A sweep has found nothing to do at t.
Settled(t) ==
  status[t] \in G!TerminalTaskStates \/ \A d \in deps[t] : status[d] \notin G!StoppedStates

\* Sweeps block doomed tasks and nothing else; the tasks a sweep has passed
\* without a change are settled.
Sweeping ==
  /\ \A t \in Tasks : \/ status[t] = before[t]
                      \/ status[t] = "blocked" /\ t \in G!Doomed(before)
  /\ phase = "swept" => \A t \in Tasks : Settled(t)
  /\ phase = "sweeping" /\ ~changed => \A t \in Tasks \ next : Settled(t)

WorklistInv ==
  /\ phase = "requiring" => Requiring
  /\ RequiredIsEffective
  /\ phase \in {"sweeping", "swept"} => Sweeping

\* The required tasks are closed under dependency.
LEMMA EffectiveIsClosed ==
  ASSUME TypeOK
  PROVE  /\ marked \subseteq G!EffectiveRequired
         /\ \A t \in G!EffectiveRequired : deps[t] \subseteq G!EffectiveRequired
         /\ \A S \in SUBSET Tasks :
              marked \subseteq S /\ (\A u \in S : deps[u] \subseteq S) =>
                G!EffectiveRequired \subseteq S
<1>1. marked \subseteq G!EffectiveRequired
  BY DEF TypeOK, G!EffectiveRequired
<1>2. ASSUME NEW t \in G!EffectiveRequired, NEW d \in deps[t]
      PROVE  d \in G!EffectiveRequired
  BY <1>2 DEF TypeOK, G!EffectiveRequired
<1>3. ASSUME NEW S \in SUBSET Tasks, marked \subseteq S, \A u \in S : deps[u] \subseteq S
      PROVE  G!EffectiveRequired \subseteq S
  BY <1>3 DEF G!EffectiveRequired
<1>4. QED
  BY <1>1, <1>2, <1>3

\* An open task behind a stopped or doomed one is doomed.
LEMMA DoomSpreads ==
  ASSUME TypeOK, NEW old, NEW t \in Tasks, old[t] \notin G!TerminalTaskStates,
         NEW d \in deps[t], old[d] \in G!StoppedStates \/ d \in G!Doomed(old)
  PROVE  t \in G!Doomed(old)
<1> SUFFICES ASSUME NEW S \in G!ClosedUnderBlocking(old), t \notin S PROVE FALSE
  BY DEF G!Doomed
<1>1. old[d] \notin G!StoppedStates /\ d \notin S
  BY DEF G!ClosedUnderBlocking
<1>2. QED
  BY <1>1 DEF G!Doomed

\* What is settled everywhere is what block_descendants is said to do.
LEMMA SettledIsBlocked ==
  ASSUME TypeOK, phase = "swept", Sweeping
  PROVE  status = G!BlockDescendants(before)
<1> USE DEF G!TerminalTaskStates, G!StoppedStates
<1> DEFINE blocked == {t \in Tasks : status[t] # before[t]}
<1>1. blocked \in G!ClosedUnderBlocking(before)
  <2>1. SUFFICES ASSUME NEW t \in Tasks \ blocked,
                        before[t] \notin G!TerminalTaskStates, NEW d \in deps[t]
                 PROVE  before[d] \notin G!StoppedStates /\ d \notin blocked
    BY DEF G!ClosedUnderBlocking
  <2>2. Settled(t) /\ status[t] = before[t] /\ d \in Tasks
    BY DEF Sweeping, TypeOK
  <2>3. status[d] \notin G!StoppedStates
    BY <2>1, <2>2 DEF Settled
  <2>4. status[d] = before[d]
    BY <2>2, <2>3 DEF Sweeping
  <2>5. QED
    BY <2>3, <2>4
<1>2. ASSUME NEW t \in Tasks
      PROVE  status[t] = IF t \in G!Doomed(before) THEN "blocked" ELSE before[t]
  <2>1. CASE t \in G!Doomed(before)
    <3>1. t \in blocked
      BY <1>1, <2>1 DEF G!Doomed
    <3>2. QED
      BY <2>1, <3>1 DEF Sweeping
  <2>2. CASE t \notin G!Doomed(before)
    BY <2>2 DEF Sweeping
  <2>3. QED
    BY <2>1, <2>2
<1>3. status \in [Tasks -> G!TaskStates]
  BY DEF TypeOK
<1>4. QED
  BY <1>2, <1>3 DEF G!BlockDescendants

LEMMA WorklistStep == TypeOK /\ WorklistInv /\ [Next]_vars => WorklistInv'
<1> SUFFICES ASSUME TypeOK, WorklistInv, [Next]_vars PROVE WorklistInv'
  OBVIOUS
<1> USE DEF WorklistInv, RequiredIsEffective
<1>0. deps' = deps /\ marked' = marked =>
        (G!EffectiveRequired)' = G!EffectiveRequired
  BY DEF G!EffectiveRequired
<1>00. deps' = deps /\ before' = before => (G!Doomed(before))' = G!Doomed(before)
  BY DEF G!Doomed, G!ClosedUnderBlocking
<1>1. CASE RejectSelf
  BY <1>1 DEF RejectSelf
<1>2. CASE Visit
  BY <1>2 DEF Visit
<1>3. CASE Judge
  BY <1>3 DEF Judge
<1>4. CASE Weigh
  BY <1>4 DEF Weigh
<1>5. CASE StartRequired
  <2>1. phase' = "requiring" /\ required' = marked' /\ stack' = marked'
    BY <1>5 DEF StartRequired
  <2>2. marked' \subseteq (G!EffectiveRequired)'
    BY <1>5 DEF StartRequired, G!EffectiveRequired
  <2>3. QED
    BY <2>1, <2>2 DEF Requiring
<1>6. CASE AddRequired
  <2>1. UNCHANGED <<phase, deps, marked>> /\ phase = "requiring" /\ Requiring
    BY <1>6 DEF AddRequired, graph
  <2>2. PICK t \in stack :
          /\ required' = required \cup deps[t]
          /\ stack' = (stack \ {t}) \cup (deps[t] \ required)
    BY <1>6 DEF AddRequired
  <2>3. deps[t] \subseteq G!EffectiveRequired
    BY <2>1, EffectiveIsClosed DEF Requiring
  <2>4. ASSUME NEW u \in required' \ stack' PROVE deps[u] \subseteq required'
    <3>1. u = t \/ u \in required \ stack
      BY <2>2
    <3>2. QED
      BY <2>1, <2>2, <3>1 DEF Requiring
  <2>5. required' \subseteq (G!EffectiveRequired)'
    BY <1>0, <2>1, <2>2, <2>3 DEF Requiring
  <2>6. Requiring'
    BY <2>1, <2>2, <2>4, <2>5 DEF Requiring
  <2>7. QED
    BY <2>1, <2>6
<1>7. CASE EndRequired
  <2>1. /\ UNCHANGED <<deps, marked, required>> /\ Requiring /\ stack = {}
        /\ phase' = "required"
    BY <1>7 DEF EndRequired, graph, worklists
  <2>2. \A u \in required : deps[u] \subseteq required
    BY <2>1 DEF Requiring
  <2>3. required = G!EffectiveRequired
    BY <2>1, <2>2, EffectiveIsClosed DEF Requiring, TypeOK
  <2>4. QED
    BY <1>0, <2>1, <2>3
<1>8. CASE StartSweep
  BY <1>8 DEF StartSweep, Sweeping
<1>9. CASE Sweep
  <2> DEFINE t == Least(next)
             stopped == \E d \in deps[t] : status[d] \in G!StoppedStates
  <2>1. /\ UNCHANGED <<phase, deps, before>> /\ phase = "sweeping" /\ Sweeping
        /\ next' = next \ {t}
    BY <1>9 DEF Sweep, graph
  <2>2. t \in Tasks /\ t \in next
    <3>1. next \in SUBSET Tasks /\ next # {}
      BY <1>9 DEF Sweep, TypeOK
    <3>2. QED
      BY <3>1, SubsetsFinite, LeastIsLeast
  <2>3. CASE status[t] \notin G!TerminalTaskStates /\ stopped
    <3>1. status' = [status EXCEPT ![t] = "blocked"] /\ changed' = TRUE
      BY <1>9, <2>3 DEF Sweep
    <3>2. status[t] = before[t]
      BY <2>1, <2>2, <2>3 DEF Sweeping, G!TerminalTaskStates
    <3>3. PICK d \in deps[t] : status[d] \in G!StoppedStates
      BY <2>3
    <3>4. d \in Tasks
      BY <2>2, <3>3 DEF TypeOK
    <3>5. t \in G!Doomed(before)
      BY <2>1, <2>2, <2>3, <3>2, <3>3, <3>4, DoomSpreads DEF Sweeping
    <3>6. status \in [Tasks -> G!TaskStates]
      BY <2>1 DEF TypeOK
    <3>7. \A u \in Tasks : \/ status'[u] = before'[u]
                           \/ status'[u] = "blocked" /\ u \in (G!Doomed(before))'
      BY <1>00, <2>1, <2>2, <3>1, <3>5, <3>6 DEF Sweeping
    <3>8. QED
      BY <2>1, <3>1, <3>7 DEF Sweeping
  <2>4. CASE ~(status[t] \notin G!TerminalTaskStates /\ stopped)
    <3>1. UNCHANGED <<status, changed>>
      BY <1>9, <2>4 DEF Sweep
    <3>2. Settled(t)
      BY <2>4 DEF Settled
    <3>3. \A u \in Tasks : Settled(u)' <=> Settled(u)
      BY <2>1, <3>1 DEF Settled, G!TerminalTaskStates, G!StoppedStates
    <3>4. \A u \in Tasks : \/ status'[u] = before'[u]
                           \/ status'[u] = "blocked" /\ u \in (G!Doomed(before))'
      BY <1>00, <2>1, <3>1 DEF Sweeping
    <3>5. ~changed => \A u \in Tasks \ next' : Settled(u)'
      BY <2>1, <3>2, <3>3 DEF Sweeping
    <3>6. QED
      BY <2>1, <3>1, <3>4, <3>5 DEF Sweeping
  <2>5. QED
    BY <2>3, <2>4
<1>10. CASE EndSweep
  <2>1. /\ UNCHANGED <<deps, status, before>> /\ phase = "sweeping" /\ Sweeping
        /\ next = {}
    BY <1>10 DEF EndSweep, graph
  <2>2. \A u \in Tasks : Settled(u)' <=> Settled(u)
    BY <2>1 DEF Settled, G!TerminalTaskStates, G!StoppedStates
  <2>3. \A u \in Tasks : \/ status'[u] = before'[u]
                         \/ status'[u] = "blocked" /\ u \in (G!Doomed(before))'
    BY <1>00, <2>1 DEF Sweeping
  <2>4. CASE changed
    <3>1. next' = Tasks /\ phase' = "sweeping"
      BY <1>10, <2>1, <2>4 DEF EndSweep
    <3>2. QED
      BY <2>3, <3>1 DEF Sweeping
  <2>5. CASE ~changed
    <3>1. phase' = "swept" /\ \A u \in Tasks : Settled(u)
      BY <1>10, <2>1, <2>5 DEF EndSweep, Sweeping
    <3>2. QED
      BY <2>2, <2>3, <3>1 DEF Sweeping
  <2>6. QED
    BY <2>4, <2>5
<1>11. CASE UNCHANGED vars
  <2>1. UNCHANGED <<phase, deps, required, stack, status, next, changed, marked, before>>
    BY <1>11 DEF vars, graph, worklists
  <2>2. \A u \in Tasks : Settled(u)' <=> Settled(u)
    BY <2>1 DEF Settled, G!TerminalTaskStates, G!StoppedStates
  <2>3. Requiring' <=> Requiring
    BY <1>0, <2>1 DEF Requiring
  <2>4. Sweeping' <=> Sweeping
    BY <1>00, <2>1, <2>2 DEF Sweeping
  <2>5. QED
    BY <1>0, <2>1, <2>3, <2>4
<1>12. QED
  BY <1>1, <1>2, <1>3, <1>4, <1>5, <1>6, <1>7, <1>8, <1>9, <1>10, <1>11 DEF Next

\* The worklists of the controller compute the closures they are named for: the
\* tasks a run cannot close without, and the open tasks a stopped one leaves
\* behind, whatever the graph, the marks and the order tasks are taken in.
THEOREM WorklistsCompute == Spec => []WorklistsAgree
<1>1. Init => WorklistInv
  BY DEF Init, WorklistInv, RequiredIsEffective
<1>2. TypeOK /\ WorklistInv => WorklistsAgree
  BY SettledIsBlocked
     DEF WorklistInv, WorklistsAgree, SweepsBlockDescendants, RequiredIsEffective
<1>3. QED
  BY <1>1, <1>2, WorklistStep, TypeCorrect, PTL DEF Spec

-----------------------------------------------------------------------------
(* The critical paths *)

\* The sums of the weights of a way, task by task.
Adds(sum, way, n) ==
  /\ sum \in [0..n -> Nat]
  /\ sum[0] = 0
  /\ \A k \in 1..n : sum[k] = sum[k - 1] + Weight[way[k]]

LEMMA TaskOnWay ==
  ASSUME NEW n \in Nat, NEW way \in [1..n -> Tasks], NEW k \in 1..n
  PROVE  way[k] \in Tasks /\ Weight[way[k]] \in Nat
<1>1. way[k] \in Tasks
  OBVIOUS
<1>2. QED
  BY <1>1, AlgorithmsAssumption

LEMMA AddsExists ==
  ASSUME NEW n \in Nat, NEW way \in [1..n -> Tasks]
  PROVE  \E sum : Adds(sum, way, n)
<1> DEFINE S == {m \in Nat : m <= n => \E sum : Adds(sum, way, m)}
<1>1. 0 \in S
  <2>1. Adds([k \in 0..0 |-> 0], way, 0)
    BY DEF Adds
  <2>2. QED
    BY <2>1
<1>2. ASSUME NEW m \in Nat, m <= n => \E sum : Adds(sum, way, m), m + 1 <= n
      PROVE  \E sum : Adds(sum, way, m + 1)
  <2>1. PICK g : Adds(g, way, m)
    BY <1>2
  <2> DEFINE f == [k \in 0..(m + 1) |->
                     IF k <= m THEN g[k] ELSE g[m] + Weight[way[m + 1]]]
  <2>2. Weight[way[m + 1]] \in Nat
    <3>1. m + 1 \in 1..n
      BY <1>2
    <3>2. QED
      BY <3>1, TaskOnWay
  <2>3. f \in [0..(m + 1) -> Nat] /\ f[0] = 0
    BY <2>1, <2>2 DEF Adds
  <2>4. ASSUME NEW k \in 1..(m + 1) PROVE f[k] = f[k - 1] + Weight[way[k]]
    <3>1. CASE k <= m
      BY <2>1, <3>1 DEF Adds
    <3>2. CASE k = m + 1
      BY <3>2
    <3>3. QED
      BY <3>1, <3>2
  <2>5. Adds(f, way, m + 1)
    BY <2>3, <2>4 DEF Adds
  <2>6. QED
    BY <2>5
<1>3. \A m \in Nat : m \in S => m + 1 \in S
  BY <1>2
<1>4. \A m \in Nat : m \in S
  <2> HIDE DEF S
  <2>1. QED
    BY <1>1, <1>3, Inductive
<1>5. QED
  BY <1>4

\* WeightOf is the last of them.
LEMMA Sums ==
  ASSUME NEW n \in Nat, NEW way \in [1..n -> Tasks]
  PROVE  \E sum : Adds(sum, way, n) /\ WeightOf(way) = sum[n]
<1> DEFINE part[k \in 0..Len(way)] ==
             IF k = 0 THEN 0 ELSE part[k - 1] + Weight[way[k]]
<1>1. WeightOf(way) = part[Len(way)]
  BY DEF WeightOf
<1>2. Len(way) = n
  OBVIOUS
<1> DEFINE Solves(f) == f = [k \in 0..n |-> IF k = 0 THEN 0 ELSE f[k - 1] + Weight[way[k]]]
<1>3. part = CHOOSE f : Solves(f)
  BY <1>2
<1>4. PICK sum : Adds(sum, way, n)
  BY AddsExists
<1>5. Solves(sum)
  <2>1. \A k \in 0..n : sum[k] = IF k = 0 THEN 0 ELSE sum[k - 1] + Weight[way[k]]
    BY <1>4 DEF Adds
  <2>2. sum = [k \in 0..n |-> sum[k]]
    BY <1>4 DEF Adds
  <2>3. QED
    BY <2>1, <2>2
<1> HIDE DEF part
<1>6. Solves(part)
  <2> HIDE DEF Solves
  <2>1. QED
    BY <1>3, <1>5, Zenon
<1> DEFINE S == {k \in Nat : k <= n => part[k] = sum[k]}
<1>7. 0 \in S
  <2>1. part[0] = 0
    BY <1>6
  <2>2. QED
    BY <1>4, <2>1 DEF Adds
<1>8. ASSUME NEW k \in Nat, k \in S PROVE k + 1 \in S
  <2>1. SUFFICES ASSUME k + 1 <= n PROVE part[k + 1] = sum[k + 1]
    OBVIOUS
  <2>2. part[k + 1] = part[k] + Weight[way[k + 1]]
    BY <1>6, <2>1
  <2>3. sum[k + 1] = sum[k] + Weight[way[k + 1]]
    BY <1>4, <2>1 DEF Adds
  <2>4. part[k] = sum[k]
    BY <1>8, <2>1
  <2>5. QED
    BY <2>2, <2>3, <2>4
<1>9. \A k \in Nat : k \in S
  <2> HIDE DEF S
  <2>1. QED
    BY <1>7, <1>8, Inductive
<1>10. WeightOf(way) = sum[n]
  BY <1>1, <1>2, <1>9
<1>11. QED
  BY <1>4, <1>10

LEMMA WeightType ==
  ASSUME NEW n \in Nat, NEW way \in [1..n -> Tasks] PROVE WeightOf(way) \in Nat
BY Sums DEF Adds

\* A way weighs what its first task does, and the rest of it.
LEMMA WeightOfFirst ==
  ASSUME NEW n \in Nat, NEW way \in [1..(n + 1) -> Tasks], NEW rest \in [1..n -> Tasks],
         \A i \in 1..n : way[i + 1] = rest[i]
  PROVE  WeightOf(way) = Weight[way[1]] + WeightOf(rest)
<1>1. PICK long : Adds(long, way, n + 1) /\ WeightOf(way) = long[n + 1]
  BY Sums
<1>2. PICK short : Adds(short, rest, n) /\ WeightOf(rest) = short[n]
  BY Sums
<1> DEFINE S == {k \in Nat : k <= n => long[k + 1] = Weight[way[1]] + short[k]}
<1>3. Weight[way[1]] \in Nat
  <2>1. n + 1 \in Nat /\ 1 \in 1..(n + 1)
    OBVIOUS
  <2>2. QED
    BY <2>1, TaskOnWay
<1>4. 0 \in S
  <2>1. long[1] = long[0] + Weight[way[1]] /\ long[0] = 0 /\ short[0] = 0
    BY <1>1, <1>2 DEF Adds
  <2>2. QED
    BY <1>3, <2>1
<1>5. ASSUME NEW k \in Nat, k \in S PROVE k + 1 \in S
  <2>1. SUFFICES ASSUME k + 1 <= n
                 PROVE  long[(k + 1) + 1] = Weight[way[1]] + short[k + 1]
    OBVIOUS
  <2>2. long[(k + 1) + 1] = long[k + 1] + Weight[rest[k + 1]]
    BY <1>1, <2>1 DEF Adds
  <2>3. short[k + 1] = short[k] + Weight[rest[k + 1]] /\ short[k] \in Nat
    BY <1>2, <2>1 DEF Adds
  <2>4. Weight[rest[k + 1]] \in Nat
    <3>1. k + 1 \in 1..n
      BY <2>1
    <3>2. QED
      BY <3>1, TaskOnWay
  <2>5. QED
    BY <1>3, <1>5, <2>1, <2>2, <2>3, <2>4
<1>6. \A k \in Nat : k \in S
  <2> HIDE DEF S
  <2>1. QED
    BY <1>4, <1>5, Inductive
<1>7. QED
  BY <1>1, <1>2, <1>6

\* A way of n tasks down from t.
Way(way, n, t) ==
  /\ n \in Nat \ {0} /\ way \in [1..n -> Tasks] /\ way[1] = t
  /\ \A i \in 1..n : i > 1 => way[i - 1] \in deps[way[i]]

\* Without a cycle no way meets a task twice.
LEMMA WaysAreShort ==
  ASSUME TypeOK, Acyclic, NEW n, NEW way, NEW t, Way(way, n, t)
  PROVE  n <= Cardinality(Tasks)
<1>1. n \in Nat \ {0} /\ way \in [1..n -> Tasks]
  BY DEF Way
<1>2. ASSUME NEW i \in 1..n, NEW j \in 1..n, way[i] = way[j], i < j PROVE FALSE
  <2> DEFINE S == {way[k] : k \in (i + 1)..j}
  <2>1. S \in SUBSET Tasks /\ S # {}
    <3>1. (i + 1)..j \subseteq 1..n /\ j \in (i + 1)..j
      BY <1>1, <1>2
    <3>2. QED
      BY <1>1, <3>1
  <2>2. PICK u \in S : deps[u] \cap S = {}
    BY <2>1 DEF Acyclic
  <2>3. PICK k \in (i + 1)..j : u = way[k]
    BY <2>2
  <2>4. k \in 1..n /\ k > 1
    BY <1>1, <1>2, <2>3
  <2>5. way[k - 1] \in deps[u]
    BY <2>3, <2>4 DEF Way
  <2>6. way[k - 1] \in S
    <3>1. CASE k = i + 1
      <4>1. way[k - 1] = way[j] /\ j \in (i + 1)..j
        BY <1>1, <1>2, <3>1
      <4>2. QED
        BY <4>1
    <3>2. CASE k # i + 1
      <4>1. k - 1 \in (i + 1)..j
        BY <1>1, <1>2, <2>3, <3>2
      <4>2. QED
        BY <4>1
    <3>3. QED
      BY <3>1, <3>2
  <2>7. QED
    BY <2>2, <2>5, <2>6
<1>3. way \in Injection(1..n, Tasks)
  <2>1. ASSUME NEW i \in 1..n, NEW j \in 1..n, way[i] = way[j] PROVE i = j
    <3>1. ~(i < j) /\ ~(j < i)
      BY <1>2, <2>1
    <3>2. QED
      BY <1>1, <3>1
  <2>2. QED
    BY <1>1, <2>1 DEF Injection, IsInjective
<1>4. Cardinality(1..n) <= Cardinality(Tasks)
  BY <1>3, AlgorithmsAssumption, FS_Injection
<1>5. Cardinality(1..n) = n
  BY <1>1, FS_Interval
<1>6. QED
  BY <1>4, <1>5

LEMMA WaysDownAreWays ==
  ASSUME TypeOK, Acyclic, NEW t, NEW way
  PROVE  way \in WaysDown(t) <=> \E n : Way(way, n, t)
<1>1. Cardinality(Tasks) \in Nat
  BY AlgorithmsAssumption, FS_CardinalityType
<1>2. ASSUME way \in WaysDown(t) PROVE \E n : Way(way, n, t)
  <2>1. PICK n \in 1..Cardinality(Tasks) : way \in [1..n -> Tasks]
    BY <1>2 DEF WaysDown
  <2>2. Way(way, n, t)
    BY <1>1, <1>2, <2>1 DEF WaysDown, Way
  <2>3. QED
    BY <2>2
<1>3. ASSUME NEW n, Way(way, n, t) PROVE way \in WaysDown(t)
  <2>1. n \in 1..Cardinality(Tasks)
    <3>1. n <= Cardinality(Tasks)
      BY <1>3, WaysAreShort
    <3>2. n \in Nat \ {0}
      BY <1>3 DEF Way
    <3>3. QED
      BY <1>1, <3>1, <3>2
  <2>2. way \in [1..n -> Tasks] /\ DOMAIN way = 1..n
    BY <1>3 DEF Way
  <2>3. way \in UNION {[1..k -> Tasks] : k \in 1..Cardinality(Tasks)}
    BY <2>1, <2>2
  <2>4. QED
    BY <1>3, <2>2, <2>3 DEF WaysDown, Way
<1>4. QED
  BY <1>2, <1>3

\* w is the weight of the heaviest way down from t.
Heaviest(t, w) ==
  /\ \E way \in WaysDown(t) : WeightOf(way) = w
  /\ \A way \in WaysDown(t) : WeightOf(way) <= w

\* Weighing a task whose children are weighed weighs it right.
LEMMA WeighingIsRight ==
  ASSUME TypeOK, Acyclic, NEW t \in Tasks,
         \A u \in Children(t) : Heaviest(u, critical[u])
  PROVE  Heaviest(t, Weight[t] + Most({0} \cup Below(t)))
<1> DEFINE m == Most({0} \cup Below(t))
<1>1. /\ m \in {0} \cup Below(t) /\ m \in Nat
      /\ \A v \in {0} \cup Below(t) : v <= m
  BY BelowIsNatural
<1> HIDE DEF m
<1>2. Weight[t] \in Nat
  BY AlgorithmsAssumption
<1>3. \E way \in WaysDown(t) : WeightOf(way) = Weight[t] + m
  <2>1. ASSUME NEW n \in Nat, NEW rest \in [1..n -> Tasks],
               \A i \in 1..n : i > 1 => rest[i - 1] \in deps[rest[i]],
               n > 0 => t \in deps[rest[1]],
               WeightOf(rest) = m
        PROVE  \E way \in WaysDown(t) : WeightOf(way) = Weight[t] + m
    <3> DEFINE way == [i \in 1..(n + 1) |-> IF i = 1 THEN t ELSE rest[i - 1]]
    <3>1. way \in [1..(n + 1) -> Tasks] /\ way[1] = t
      OBVIOUS
    <3>2. \A i \in 1..n : way[i + 1] = rest[i]
      OBVIOUS
    <3>3. ASSUME NEW i \in 1..(n + 1), i > 1 PROVE way[i - 1] \in deps[way[i]]
      <4>1. CASE i = 2
        <5>1. way[i] = rest[1] /\ way[i - 1] = t /\ n > 0
          BY <4>1
        <5>2. QED
          BY <2>1, <5>1
      <4>2. CASE i > 2
        <5>1. /\ way[i] = rest[i - 1] /\ way[i - 1] = rest[(i - 1) - 1]
              /\ i - 1 \in 1..n /\ i - 1 > 1
          BY <4>2
        <5>2. QED
          BY <2>1, <5>1
      <4>3. QED
        BY <3>3, <4>1, <4>2
    <3> HIDE DEF way
    <3>4. Way(way, n + 1, t)
      BY <3>1, <3>3 DEF Way
    <3>5. WeightOf(way) = Weight[t] + m
      BY <2>1, <3>1, <3>2, WeightOfFirst
    <3>6. QED
      BY <3>4, <3>5, WaysDownAreWays
  <2>2. CASE m = 0
    <3> DEFINE none == [i \in 1..0 |-> t]
    <3>1. none \in [1..0 -> Tasks]
      OBVIOUS
    <3>2. WeightOf(none) = 0
      BY <3>1, Sums DEF Adds
    <3>3. \A i \in 1..0 : i > 1 => none[i - 1] \in deps[none[i]]
      OBVIOUS
    <3>4. 0 \in Nat /\ ~(0 > 0)
      OBVIOUS
    <3> HIDE DEF none
    <3>5. QED
      BY <2>1, <2>2, <3>1, <3>2, <3>3, <3>4
  <2>3. CASE m \in Below(t)
    <3>1. PICK u \in Children(t) : m = critical[u]
      BY <2>3 DEF Below
    <3>2. PICK rest \in WaysDown(u) : WeightOf(rest) = m
      BY <3>1 DEF Heaviest
    <3>3. PICK n : Way(rest, n, u)
      BY <3>2, WaysDownAreWays
    <3>4. t \in deps[rest[1]]
      BY <3>1, <3>3 DEF Way, Children
    <3>5. QED
      BY <2>1, <3>2, <3>3, <3>4 DEF Way
  <2>4. QED
    BY <1>1, <2>2, <2>3
<1>4. ASSUME NEW way \in WaysDown(t) PROVE WeightOf(way) <= Weight[t] + m
  <2>1. PICK n \in Nat \ {0} : Way(way, n, t)
    BY WaysDownAreWays DEF Way
  <2> DEFINE rest == [i \in 1..(n - 1) |-> way[i + 1]]
             k == n - 1
  <2>2. k \in Nat /\ n = k + 1
    BY <2>1
  <2>3. way \in [1..(k + 1) -> Tasks] /\ way[1] = t
    BY <2>1, <2>2 DEF Way
  <2>4. rest \in [1..k -> Tasks] /\ \A i \in 1..k : way[i + 1] = rest[i]
    BY <2>2, <2>3
  <2> HIDE DEF rest, k
  <2>5. WeightOf(way) = Weight[t] + WeightOf(rest)
    BY <2>2, <2>3, <2>4, WeightOfFirst
  <2>6. WeightOf(rest) \in Nat
    BY <2>2, <2>4, WeightType
  <2>7. CASE k = 0
    <3>1. WeightOf(rest) = 0
      BY <2>4, <2>7, Sums DEF Adds
    <3>2. QED
      BY <1>1, <1>2, <2>5, <3>1
  <2>8. CASE k > 0
    <3> DEFINE u == rest[1]
    <3>1. u = way[2] /\ u \in Tasks /\ way[2 - 1] \in deps[way[2]]
      BY <2>1, <2>2, <2>4, <2>8 DEF Way
    <3>2. u \in Children(t)
      BY <2>3, <3>1 DEF Children
    <3>3. ASSUME NEW i \in 1..k, i > 1 PROVE rest[i - 1] \in deps[rest[i]]
      <4>1. i + 1 \in 1..n /\ i + 1 > 1 /\ (i + 1) - 1 = i /\ i - 1 \in 1..k
        BY <2>2, <3>3
      <4>2. way[i] \in deps[way[i + 1]]
        BY <2>1, <4>1 DEF Way
      <4>3. way[i] = rest[i - 1] /\ way[i + 1] = rest[i]
        BY <2>4, <4>1
      <4>4. QED
        BY <4>2, <4>3
    <3>4. Way(rest, k, u)
      BY <2>2, <2>4, <2>8, <3>3 DEF Way
    <3>5. WeightOf(rest) <= critical[u]
      BY <3>2, <3>4, WaysDownAreWays DEF Heaviest
    <3>6. critical[u] <= m /\ critical[u] \in Nat
      BY <1>1, <3>1, <3>2 DEF Below, TypeOK
    <3>7. QED
      BY <1>1, <1>2, <2>5, <2>6, <3>5, <3>6
  <2>9. QED
    BY <2>2, <2>7, <2>8
<1>5. QED
  BY <1>3, <1>4 DEF Heaviest, m

\* The tasks off the visit have their weight.
WeighInv ==
  /\ phase = "accepted" => visited = <<>>
  /\ phase \in {"weighing", "accepted"} =>
       \A t \in Tasks \ Visited : Heaviest(t, critical[t])

\* The task weighed is the last of the visit: all its children are behind it.
LEMMA WeighWeighs ==
  ASSUME TypeOK, KahnInv, WeighInv, Weigh
  PROVE  \A t \in Tasks \ Visited' : Heaviest(t, critical'[t])
<1>0. phase = "weighing" /\ Ordered /\ Acyclic
  BY DEF Weigh, KahnInv, TakesExactlyDags
<1>1. CASE visited = <<>>
  BY <1>0, <1>1 DEF KahnInv
<1>2. CASE visited # <<>>
  <2> DEFINE last == Len(visited)
             t == visited[last]
             m == Most({0} \cup Below(t))
  <2>1. /\ last \in Nat \ {0} /\ Len(visited') = last - 1
        /\ \A i \in 1..Len(visited') : visited'[i] = visited[i]
    BY <1>2, WeighTakesLast
  <2>2. t \in Tasks
    BY <2>1 DEF TypeOK
  <2>3. critical' = [critical EXCEPT ![t] = Weight[t] + m]
    BY DEF Weigh, Below
  <2>4. ASSUME NEW u \in Children(t), u \in Visited PROVE FALSE
    <3>1. PICK i \in 1..last : visited[i] = u
      BY <2>4 DEF Visited
    <3>2. t \in deps[visited[i]]
      BY <3>1 DEF Children
    <3>3. PICK j \in 1..last : j < i /\ visited[j] = t
      BY <1>0, <3>2 DEF Ordered
    <3>4. j = last
      BY <1>0, <2>1, <3>3 DEF Ordered
    <3>5. QED
      BY <2>1, <3>1, <3>3, <3>4
  <2>5. \A u \in Children(t) : Heaviest(u, critical[u])
    BY <1>0, <2>4 DEF WeighInv, Children
  <2>6. Heaviest(t, Weight[t] + m)
    BY <1>0, <2>2, <2>5, WeighingIsRight
  <2>7. Visited \subseteq Visited' \cup {t}
    <3>1. ASSUME NEW i \in 1..last PROVE visited[i] \in Visited' \cup {t}
      <4>1. CASE i = last
        BY <4>1
      <4>2. CASE i # last
        <5>1. i \in 1..Len(visited') /\ visited'[i] = visited[i]
          BY <2>1, <4>2
        <5>2. QED
          BY <5>1 DEF Visited
      <4>3. QED
        BY <4>1, <4>2
    <3>2. QED
      BY <3>1 DEF Visited
  <2>8. critical \in [Tasks -> Nat]
    BY DEF TypeOK
  <2> HIDE DEF m, t
  <2>9. ASSUME NEW u \in Tasks \ Visited' PROVE Heaviest(u, critical'[u])
    <3>1. CASE u = t
      <4>1. critical'[u] = Weight[t] + m
        BY <2>2, <2>3, <2>8, <3>1
      <4>2. QED
        BY <2>6, <3>1, <4>1
    <3>2. CASE u # t
      <4>1. u \in Tasks \ Visited /\ critical'[u] = critical[u]
        BY <2>3, <2>7, <2>8, <3>2
      <4>2. QED
        BY <1>0, <4>1 DEF WeighInv
    <3>3. QED
      BY <3>1, <3>2
  <2>10. QED
    BY <2>9
<1>3. QED
  BY <1>1, <1>2

LEMMA WeighStep == TypeOK /\ KahnInv /\ WeighInv /\ [Next]_vars => WeighInv'
<1> SUFFICES ASSUME TypeOK, KahnInv, WeighInv, [Next]_vars PROVE WeighInv'
  OBVIOUS
<1>0. deps' = deps => \A t, w : Heaviest(t, w)' <=> Heaviest(t, w)
  BY DEF Heaviest, WaysDown
<1>1. CASE RejectSelf
  BY <1>1 DEF RejectSelf, WeighInv
<1>2. CASE Visit
  BY <1>2 DEF Visit, WeighInv
<1>3. CASE Judge
  <2>1. Queued /\ UNCHANGED <<deps, visited, critical>>
    BY <1>3 DEF Judge, graph, KahnInv
  <2>2. phase' = "weighing" => Visited = Tasks
    <3>1. Visited \in SUBSET Tasks
      BY DEF TypeOK, Visited
    <3>2. QED
      BY <1>3, <2>1, <3>1, AlgorithmsAssumption, FS_Subset DEF Judge, Queued
  <2>3. Visited' = Visited
    BY <2>1 DEF Visited
  <2>4. phase' # "accepted"
    BY <1>3 DEF Judge
  <2>5. QED
    BY <2>2, <2>3, <2>4 DEF WeighInv
<1>4. CASE Weigh
  <2>1. \A t \in Tasks \ Visited' : Heaviest(t, critical'[t])
    BY <1>4, WeighWeighs
  <2>2. deps' = deps /\ (phase' = "accepted" => visited' = <<>>)
    BY <1>4 DEF Weigh
  <2>3. QED
    BY <1>0, <2>1, <2>2 DEF WeighInv
<1>5. CASE StartRequired
  BY <1>5 DEF StartRequired, WeighInv
<1>6. CASE AddRequired
  BY <1>6 DEF AddRequired, WeighInv
<1>7. CASE EndRequired
  BY <1>7 DEF EndRequired, WeighInv
<1>8. CASE StartSweep
  BY <1>8 DEF StartSweep, WeighInv
<1>9. CASE Sweep
  BY <1>9 DEF Sweep, WeighInv
<1>10. CASE EndSweep
  BY <1>10 DEF EndSweep, WeighInv
<1>11. CASE UNCHANGED vars
  BY <1>0, <1>11 DEF vars, graph, WeighInv, Visited
<1>12. QED
  BY <1>1, <1>2, <1>3, <1>4, <1>5, <1>6, <1>7, <1>8, <1>9, <1>10, <1>11 DEF Next

\* The number the scheduler ranks a task by is the weight of the heaviest way
\* down from it, on every acyclic graph and for all weights: the reverse of the
\* visit weighs a task after all that depend on it, and no way is longer than
\* there are tasks.
THEOREM CriticalPaths == Spec => []CriticalIsHeaviestWay
<1>1. Init => WeighInv
  BY DEF Init, WeighInv
<1>2. TypeOK /\ KahnInv /\ WeighInv => CriticalIsHeaviestWay
  <2> SUFFICES ASSUME TypeOK, KahnInv, WeighInv, phase = "accepted", NEW t \in Tasks
               PROVE  critical[t] = Most({WeightOf(way) : way \in WaysDown(t)})
    BY DEF CriticalIsHeaviestWay
  <2> DEFINE weights == {WeightOf(way) : way \in WaysDown(t)}
  <2>1. Acyclic /\ Visited = {}
    BY DEF KahnInv, TakesExactlyDags, WeighInv, Visited
  <2>2. Heaviest(t, critical[t])
    BY <2>1 DEF WeighInv
  <2>3. weights \subseteq Int
    <3>1. ASSUME NEW way \in WaysDown(t) PROVE WeightOf(way) \in Int
      <4>1. PICK n \in Nat : way \in [1..n -> Tasks]
        BY <2>1, WaysDownAreWays DEF Way
      <4>2. QED
        BY <4>1, WeightType
    <3>2. QED
      BY <3>1
  <2>4. critical[t] \in weights /\ \A v \in weights : v <= critical[t]
    BY <2>2 DEF Heaviest
  <2> HIDE DEF weights
  <2>5. Most(weights) = critical[t]
    BY <2>3, <2>4, MostIsMost
  <2>6. QED
    BY <2>5 DEF weights
<1>3. QED
  BY <1>1, <1>2, WeighStep, TypeCorrect, KahnCorrect, PTL DEF Spec
=============================================================================
