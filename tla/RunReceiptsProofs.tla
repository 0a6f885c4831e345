-------------------------- MODULE RunReceiptsProofs --------------------------
(***************************************************************************)
(* Theorems about RunReceipts: which result a slice file holds, what a     *)
(* refused repetition has left behind, and what readers of the graph       *)
(* receipt get, for any number of tasks, attempts and readers, and any     *)
(* repetitions and deaths.                                                 *)
(***************************************************************************)
EXTENDS RunReceipts, TLAPS, FiniteSetTheorems

-----------------------------------------------------------------------------
(* Types *)

Writings == [revision : 1..Len(log), next : {"result", "slice", "graph"}]

TypeOK ==
  /\ log \in Seq(Events)
  /\ closedAt \in Nat
  /\ DOMAIN slices = Tasks
  /\ \A t \in Tasks : slices[t] \in [1..Attempts[t] -> 0..Len(log)]
  /\ graph \in Nat
  /\ call # NoCall => call \in Writings
  /\ refused \subseteq 1..Len(log)

\* The stream of a step: unchanged, or one event longer.
Grows == log' = log \/ \E e \in Events : log' = Append(log, e)

LEMMA Growth ==
  ASSUME log \in Seq(Events), [Next]_vars
  PROVE  Grows
<1>1. ASSUME NEW t \in Tasks \cup {NoTask}, NEW kind \in Kinds, Record(kind, t) PROVE Grows
  BY <1>1 DEF Record, Events, Grows
<1>2. ASSUME NEW t \in Tasks, NEW kind \in {"retry", "final"}, Advance(t, kind) PROVE Grows
  BY <1>1, <1>2 DEF Advance, Kinds
<1>3. ASSUME NEW t \in Tasks, Lease(t) PROVE Grows
  BY <1>1, <1>3 DEF Lease, Kinds
<1>4. CASE Submit \/ Cancel
  BY <1>1, <1>4 DEF Submit, Cancel, Kinds
<1>5. CASE UNCHANGED log
  BY <1>5 DEF Grows
<1>6. QED
  BY <1>2, <1>3, <1>4, <1>5
     DEF Next, vars, Repeat, Write, WriteResult, WriteSlice, WriteGraph, Crash, ReadReceipt, AnswerReader

LEMMA Kept ==
  ASSUME log \in Seq(Events), Grows
  PROVE  /\ log' \in Seq(Events)
         /\ Len(log) \in Nat /\ Len(log') \in Nat /\ Len(log) <= Len(log')
         /\ \A n \in 1..Len(log) : log'[n] = log[n]
<1>1. CASE log' = log
  BY <1>1
<1>2. ASSUME NEW e \in Events, log' = Append(log, e)
      PROVE  /\ log' \in Seq(Events)
             /\ Len(log') = Len(log) + 1
             /\ \A n \in 1..Len(log) : log'[n] = log[n]
  BY <1>2
<1>3. QED
  BY <1>1, <1>2 DEF Grows

-----------------------------------------------------------------------------
(* Counting leases *)

LeaseSet(t, n) == {m \in 1..n : Is(m, "leased", t)}

LEMMA Counting ==
  ASSUME NEW t, NEW n \in Nat
  PROVE  /\ IsFiniteSet(LeaseSet(t, n))
         /\ LeasesUpTo(t, n) \in Nat
         /\ LeasesUpTo(t, n) = Cardinality(LeaseSet(t, n))
<1>1. IsFiniteSet(1..n)
  BY FS_Interval
<1>2. LeaseSet(t, n) \subseteq 1..n
  BY DEF LeaseSet
<1>3. IsFiniteSet(LeaseSet(t, n))
  BY <1>1, <1>2, FS_Subset
<1>4. QED
  BY <1>3, FS_CardinalityType DEF LeasesUpTo, LeaseSet

\* A longer stretch of the stream has no fewer leases, and more if it has one that
\* the shorter has not.
LEMMA CountingOn ==
  ASSUME NEW t, NEW m \in Nat, NEW n \in Nat, m <= n
  PROVE  /\ LeasesUpTo(t, m) <= LeasesUpTo(t, n)
         /\ (\E p \in m+1..n : Is(p, "leased", t)) => LeasesUpTo(t, m) < LeasesUpTo(t, n)
<1>1. LeaseSet(t, m) \subseteq LeaseSet(t, n)
  BY DEF LeaseSet
<1>2. Cardinality(LeaseSet(t, m)) <= Cardinality(LeaseSet(t, n))
  BY <1>1, Counting, FS_Subset
<1>3. ASSUME NEW p \in m+1..n, Is(p, "leased", t)
      PROVE  Cardinality(LeaseSet(t, m)) < Cardinality(LeaseSet(t, n))
  <2>1. p \in LeaseSet(t, n) /\ p \notin LeaseSet(t, m)
    BY <1>3 DEF LeaseSet
  <2>2. LeaseSet(t, m) # LeaseSet(t, n)
    BY <2>1
  <2>3. Cardinality(LeaseSet(t, m)) # Cardinality(LeaseSet(t, n))
    BY <1>1, <2>2, Counting, FS_Subset
  <2>4. QED
    BY <1>2, <2>3, Counting
<1>4. QED
  BY <1>2, <1>3, Counting

\* What was counted on a stream is the same on a longer one.
LEMMA CountsStay ==
  ASSUME log \in Seq(Events), Grows, NEW t, NEW n \in 0..Len(log)
  PROVE  LeasesUpTo(t, n)' = LeasesUpTo(t, n)
<1>1. \A m \in 1..n : log'[m] = log[m]
  BY Kept
<1>2. {m \in 1..n : Is(m, "leased", t)'} = {m \in 1..n : Is(m, "leased", t)}
  BY <1>1 DEF Is
<1>3. QED
  BY <1>2 DEF LeasesUpTo
-----------------------------------------------------------------------------
(* The invariant *)

\* No task is leased more often than it has attempts.
Bounded == \A t \in Tasks : LeasesUpTo(t, Len(log)) <= Attempts[t]

\* A result is about a task that was leased before it ...
ResultsOfLeases ==
  \A n \in 1..Len(log) : IsResult(n) =>
    log[n].task \in Tasks /\ LeasesUpTo(log[n].task, n) >= 1

\* ... and again between it and any earlier result of the task.
OneResultEach ==
  \A m, n \in 1..Len(log) :
    m < n /\ IsResult(m) /\ IsResult(n) /\ log[m].task = log[n].task
      => LeasesUpTo(log[n].task, m) < LeasesUpTo(log[n].task, n)

\* Event n is the result of attempt a of task t ...
Matches(n, t, a) == log[n].task = t /\ IsResult(n) /\ LeasesUpTo(t, n) = a

\* ... as is the one in the slice file of that name.
Matched ==
  \A t \in Tasks : \A a \in 1..Attempts[t] : \A n \in 1..Len(log) :
    n = slices[t][a] => Matches(n, t, a)

HasFiles(n) ==
  /\ n \in results
  /\ \E t \in Tasks : \E a \in 1..Attempts[t] : Matches(n, t, a) /\ slices[t][a] = n

\* How far the call is with the files of its event.
InHand ==
  call # NoCall => \A n \in 1..Len(log) : n = call.revision =>
    /\ call.next # "graph" => IsResult(n)
    /\ call.next = "slice" => n \in results
    /\ call.next = "graph" /\ IsResult(n) => HasFiles(n)

Refusals ==
  \A n \in refused : graph \notin {Absent, n} /\ (IsResult(n) => HasFiles(n))

\* A graph receipt on disk holds what the stream of a closed run says, and is all
\* that readers have found and were given.
Receipt ==
  /\ closedAt # Absent => log # <<>>
  /\ graph # Absent => closedAt # Absent /\ content = Outcomes
  /\ \A n \in found : n = graph /\ n # Absent
  /\ \A a \in answers : graph # Absent /\ a = [revision |-> graph, outcomes |-> content]
  /\ denied = {}

StreamOK == Bounded /\ ResultsOfLeases /\ OneResultEach
IInv == TypeOK /\ StreamOK /\ Matched /\ InHand /\ Refusals /\ Receipt

LEMMA SlicesAreEvents ==
  ASSUME TypeOK, NEW t \in Tasks, NEW a \in 1..Attempts[t]
  PROVE  slices[t][a] # Absent => slices[t][a] \in 1..Len(log)
<1>1. slices[t][a] \in 0..Len(log)
  BY DEF TypeOK
<1>2. Len(log) \in Nat
  BY DEF TypeOK
<1>3. QED
  BY <1>1, <1>2 DEF Absent

LEMMA Safe == IInv => SlicesMatchAttempts /\ RefusedResultsAreFiled /\ ReadersGetOneReceipt
<1> SUFFICES ASSUME IInv
             PROVE  SlicesMatchAttempts /\ RefusedResultsAreFiled /\ ReadersGetOneReceipt
  OBVIOUS
<1>1. SlicesMatchAttempts
  BY SlicesAreEvents DEF IInv, Matched, Matches, SlicesMatchAttempts
<1>2. RefusedResultsAreFiled
  BY DEF IInv, Refusals, HasFiles, Matches, RefusedResultsAreFiled, Attempt
<1>3. ReadersGetOneReceipt
  BY DEF IInv, Receipt, ReadersGetOneReceipt
<1>4. QED
  BY <1>1, <1>2, <1>3

LEMMA InitHolds == Init => IInv
<1> SUFFICES ASSUME Init PROVE IInv
  OBVIOUS
<1>1. log = <<>> /\ Len(log) = 0 /\ log \in Seq(Events)
  BY DEF Init
<1>2. TypeOK
  BY <1>1, ReceiptsAssumption DEF Init, TypeOK, Absent
<1>3. Bounded
  <2>1. ASSUME NEW t PROVE LeasesUpTo(t, 0) = 0
    <3>1. LeaseSet(t, 0) = {}
      BY DEF LeaseSet
    <3>2. QED
      BY <3>1, Counting, FS_EmptySet
  <2>2. QED
    BY <1>1, <2>1, ReceiptsAssumption DEF Bounded
<1>4. ResultsOfLeases /\ OneResultEach
  BY <1>1 DEF ResultsOfLeases, OneResultEach
<1>5. Matched /\ InHand /\ Refusals /\ Receipt
  BY <1>1 DEF Init, Matched, InHand, Refusals, Receipt
<1>6. QED
  BY <1>2, <1>3, <1>4, <1>5 DEF IInv, StreamOK

LEMMA Types == ASSUME TypeOK, [Next]_vars PROVE TypeOK'
<1>0. log \in Seq(Events)
  BY DEF TypeOK
<1>1. Grows
  BY <1>0, Growth
<1>2. /\ log' \in Seq(Events) /\ Len(log) \in Nat /\ Len(log') \in Nat
      /\ Len(log) <= Len(log')
  BY <1>0, <1>1, Kept
<1>3. closedAt' \in Nat
  BY <1>2 DEF TypeOK, Next, vars, Submit, Cancel, Lease, Advance, Repeat, Write,
              WriteResult, WriteSlice, WriteGraph, Crash, ReadReceipt,
              AnswerReader, Absent
<1>4. ASSUME NEW n \in 1..Len(log'), NEW kind, Writing(n, kind)
      PROVE  call' \in Writings'
  BY <1>4 DEF Writing, Writings
<1>5. ASSUME NEW next \in {"slice", "graph"}, call # NoCall, UNCHANGED log,
             call' = [call EXCEPT !.next = next]
      PROVE  call' \in Writings'
  BY <1>5 DEF TypeOK, Writings
<1>6. call' # NoCall => call' \in Writings'
  <2>1. ASSUME NEW t \in Tasks, NEW kind \in {"retry", "final"}, Advance(t, kind)
        PROVE  call' \in Writings'
    <3>1. Len(log') = Len(log) + 1
      BY <1>0, <2>1 DEF Advance, Record
    <3>2. QED
      BY <1>2, <1>4, <2>1, <3>1 DEF Advance
  <2>2. ASSUME Cancel PROVE call' \in Writings'
    <3>1. Len(log') = Len(log) + 1
      BY <1>0, <2>2 DEF Cancel, Record
    <3>2. QED
      BY <1>2, <1>4, <2>2, <3>1 DEF Cancel
  <2>3. ASSUME NEW n \in 1..Len(log), Repeat(n) PROVE call' \in Writings'
    BY <1>2, <1>4, <2>3 DEF Repeat
  <2>4. ASSUME Write PROVE call' # NoCall => call' \in Writings'
    BY <1>5, <2>4 DEF Write, WriteResult, WriteSlice, WriteGraph
  <2>5. CASE \/ Submit \/ (\E t \in Tasks : Lease(t)) \/ Crash \/ UNCHANGED vars
            \/ ReadReceipt \/ \E n \in found : AnswerReader(n)
    <3>1. call' \in {call, NoCall}
      BY <2>5 DEF Submit, Lease, Crash, vars, ReadReceipt, AnswerReader
    <3>2. Writings \subseteq Writings'
      BY <1>2 DEF Writings
    <3>3. QED
      BY <3>1, <3>2 DEF TypeOK
  <2>6. QED
    BY <2>1, <2>2, <2>3, <2>4, <2>5 DEF Next
<1>7. CASE UNCHANGED <<slices, graph, refused>>
  BY <1>2, <1>3, <1>6, <1>7 DEF TypeOK
<1>8. ASSUME WriteSlice PROVE TypeOK'
  <2>1. call \in Writings /\ log' = log /\ graph' = graph
    BY <1>8 DEF WriteSlice, TypeOK
  <2>2. /\ DOMAIN slices' = Tasks
        /\ \A t \in Tasks : slices'[t] \in [1..Attempts[t] -> 0..Len(log)]
    <3>1. /\ call.revision \in 1..Len(log) /\ call.revision \in 0..Len(log)
      BY <1>2, <2>1 DEF Writings
    <3>2. CASE slices' = slices
      BY <3>2 DEF TypeOK
    <3>3. ASSUME NEW t, NEW a, slices' = [slices EXCEPT ![t][a] = call.revision]
          PROVE  /\ DOMAIN slices' = Tasks
                 /\ \A u \in Tasks : slices'[u] \in [1..Attempts[u] -> 0..Len(log)]
      BY <3>1, <3>3 DEF TypeOK
    <3>4. QED
      BY <1>8, <3>2, <3>3 DEF WriteSlice
  <2>3. refused' \subseteq 1..Len(log)
    <3>1. call.revision \in 1..Len(log)
      BY <2>1 DEF Writings
    <3>2. refused' \subseteq refused \cup {call.revision}
      BY <1>8 DEF WriteSlice
    <3>3. QED
      BY <3>1, <3>2 DEF TypeOK
  <2>4. QED
    BY <1>2, <1>3, <1>6, <2>1, <2>2, <2>3 DEF TypeOK
<1>9. ASSUME WriteGraph PROVE TypeOK'
  <2>1. call \in Writings /\ log' = log /\ slices' = slices
    BY <1>9 DEF WriteGraph, TypeOK
  <2>2. graph' \in Nat /\ refused' \subseteq 1..Len(log)
    <3>1. call.revision \in 1..Len(log)
      BY <2>1 DEF Writings
    <3>2. graph' \in {graph, call.revision} /\ refused' \subseteq refused \cup {call.revision}
      BY <1>9 DEF WriteGraph
    <3>3. QED
      BY <1>2, <3>1, <3>2 DEF TypeOK
  <2>3. QED
    BY <1>2, <1>3, <1>6, <2>1, <2>2 DEF TypeOK
<1>10. QED
  BY <1>7, <1>8, <1>9
     DEF Next, vars, Submit, Cancel, Lease, Advance, Repeat, Write, WriteResult, Crash, ReadReceipt, AnswerReader

-----------------------------------------------------------------------------
(* The stream *)

\* Every step leaves the stream, has it lease an open task, or has it take a result.
Leases(t) ==
  /\ log' = Append(log, [kind |-> "leased", task |-> t])
  /\ LeasesUpTo(t, Len(log)) < Attempts[t]

Reports(t, kind) ==
  log' = Append(log, [kind |-> kind, task |-> t]) /\ Out(t)

Silent == log' = log \/ \E kind \in {"submitted", "canceled"} :
                          log' = Append(log, [kind |-> kind, task |-> NoTask])

LEMMA Cases ==
  ASSUME [Next]_vars
  PROVE  \/ \E t \in Tasks : Leases(t)
         \/ \E t \in Tasks, kind \in {"retry", "final"} : Reports(t, kind)
         \/ Silent
<1>1. ASSUME NEW t \in Tasks, Lease(t) PROVE Leases(t)
  BY <1>1 DEF Lease, Record, Leases
<1>2. ASSUME NEW t \in Tasks, NEW kind \in {"retry", "final"}, Advance(t, kind)
      PROVE  Reports(t, kind)
  BY <1>2 DEF Advance, Record, Reports
<1>3. CASE Submit \/ Cancel
  BY <1>3 DEF Submit, Cancel, Record, Silent
<1>4. CASE UNCHANGED log
  BY <1>4 DEF Silent
<1>5. QED
  BY <1>1, <1>2, <1>3, <1>4
     DEF Next, vars, Repeat, Write, WriteResult, WriteSlice, WriteGraph, Crash, ReadReceipt, AnswerReader

\* An event that is no lease adds to no count, a lease adds one to that of its task.
LEMMA CountsOfAppend ==
  ASSUME log \in Seq(Events), NEW e \in Events, log' = Append(log, e), NEW t
  PROVE  /\ LeasesUpTo(t, Len(log))' \in Nat
         /\ ~(e.kind = "leased" /\ e.task = t)
              => LeasesUpTo(t, Len(log))' = LeasesUpTo(t, Len(log))
         /\ LeasesUpTo(t, Len(log))' <= LeasesUpTo(t, Len(log)) + 1
<1> DEFINE n == Len(log)
<1>0. n \in Nat /\ Len(log') = n + 1 /\ log'[n + 1] = e /\ \A m \in 1..n : log'[m] = log[m]
  OBVIOUS
<1>1. LeaseSet(t, Len(log))' = LeaseSet(t, n) \cup
        (IF e.kind = "leased" /\ e.task = t THEN {n + 1} ELSE {})
  <2>1. LeaseSet(t, Len(log))' = {m \in 1..n+1 : log'[m].kind = "leased" /\ log'[m].task = t}
    BY <1>0 DEF LeaseSet, Is
  <2>2. QED
    BY <1>0, <2>1 DEF LeaseSet, Is
<1>2. LeasesUpTo(t, Len(log))' = Cardinality(LeaseSet(t, Len(log))')
  BY DEF LeasesUpTo, LeaseSet
<1>3. IsFiniteSet(LeaseSet(t, n)) /\ Cardinality(LeaseSet(t, n)) \in Nat
      /\ LeasesUpTo(t, n) = Cardinality(LeaseSet(t, n))
  BY <1>0, Counting
<1>4. Cardinality(LeaseSet(t, n) \cup {n + 1}) = Cardinality(LeaseSet(t, n)) + 1
  <2>1. n + 1 \notin LeaseSet(t, n)
    BY <1>0 DEF LeaseSet
  <2>2. QED
    BY <1>3, <2>1, FS_AddElement
<1>5. CASE e.kind = "leased" /\ e.task = t
  BY <1>1, <1>2, <1>3, <1>4, <1>5
<1>6. CASE ~(e.kind = "leased" /\ e.task = t)
  <2>1. LeaseSet(t, Len(log))' = LeaseSet(t, n)
    BY <1>1, <1>6
  <2>2. LeasesUpTo(t, Len(log))' = LeasesUpTo(t, Len(log))
    BY <1>2, <1>3, <2>1
  <2>3. QED
    BY <1>3, <2>2
<1>7. QED
  BY <1>5, <1>6

LEMMA BoundedStays ==
  ASSUME TypeOK, Bounded, [Next]_vars PROVE Bounded'
<1>0. /\ log \in Seq(Events) /\ Len(log) \in Nat
      /\ \A u \in Tasks : LeasesUpTo(u, Len(log)) \in Nat /\ Attempts[u] \in Nat
  BY Counting, ReceiptsAssumption DEF TypeOK
<1>1. ASSUME NEW e \in Events, log' = Append(log, e), NEW u \in Tasks,
             e.kind = "leased" /\ e.task = u => LeasesUpTo(u, Len(log)) < Attempts[u]
      PROVE  LeasesUpTo(u, Len(log))' <= Attempts[u]
  <2>1. /\ LeasesUpTo(u, Len(log))' \in Nat
        /\ ~(e.kind = "leased" /\ e.task = u)
              => LeasesUpTo(u, Len(log))' = LeasesUpTo(u, Len(log))
        /\ LeasesUpTo(u, Len(log))' <= LeasesUpTo(u, Len(log)) + 1
    BY <1>0, <1>1, CountsOfAppend
  <2>2. LeasesUpTo(u, Len(log)) <= Attempts[u]
    BY DEF Bounded
  <2>3. QED
    BY <1>0, <1>1, <2>1, <2>2
<1>2. ASSUME NEW t \in Tasks, Leases(t) PROVE Bounded'
  BY <1>1, <1>2 DEF Leases, Bounded, Events, Kinds
<1>3. ASSUME NEW t \in Tasks, NEW kind \in {"retry", "final"}, Reports(t, kind)
      PROVE  Bounded'
  BY <1>1, <1>3 DEF Reports, Bounded, Events, Kinds
<1>4. CASE Silent
  <2>1. CASE log' = log
    <3>1. ASSUME NEW u \in Tasks PROVE LeasesUpTo(u, Len(log))' = LeasesUpTo(u, Len(log))
      BY <2>1 DEF LeasesUpTo, Is
    <3>2. QED
      BY <3>1 DEF Bounded
  <2>2. ASSUME NEW kind \in {"submitted", "canceled"},
               log' = Append(log, [kind |-> kind, task |-> NoTask])
        PROVE  Bounded'
    BY <1>1, <2>2 DEF Bounded, Events, Kinds
  <2>3. QED
    BY <1>4, <2>1, <2>2 DEF Silent
<1>5. QED
  BY <1>2, <1>3, <1>4, Cases

\* What is known of two events stays known of them.
LEMMA OldEvents ==
  ASSUME TypeOK, Grows, NEW n \in 1..Len(log)
  PROVE  /\ n \in 1..Len(log')
         /\ log'[n] = log[n]
         /\ IsResult(n)' <=> IsResult(n)
         /\ \A t : LeasesUpTo(t, n)' = LeasesUpTo(t, n)
<1>1. log \in Seq(Events) /\ Len(log) \in Nat /\ Len(log') \in Nat /\ Len(log) <= Len(log')
  BY Kept DEF TypeOK
<1>2. log'[n] = log[n]
  BY <1>1, Kept
<1>3. \A t : LeasesUpTo(t, n)' = LeasesUpTo(t, n)
  BY <1>1, CountsStay
<1>4. QED
  BY <1>1, <1>2, <1>3 DEF IsResult

\* A new result is about a task whose latest event was a lease: it was leased since
\* any earlier result.
LEMMA NewResult ==
  ASSUME TypeOK, NEW t \in Tasks, NEW kind \in {"retry", "final"}, Reports(t, kind)
  PROVE  /\ Len(log') = Len(log) + 1 /\ log'[Len(log')].task = t
         /\ LeasesUpTo(t, Len(log))' >= 1
         /\ \A m \in 1..Len(log) : IsResult(m) /\ log[m].task = t
               => LeasesUpTo(t, m) < LeasesUpTo(t, Len(log))'
<1> DEFINE e == [kind |-> kind, task |-> t]
<1>0. log \in Seq(Events) /\ Len(log) \in Nat /\ e \in Events /\ log' = Append(log, e)
  BY DEF TypeOK, Reports, Events, Kinds
<1>1. Len(log') = Len(log) + 1 /\ log'[Len(log')] = e
  BY <1>0
<1>2. LeasesUpTo(t, Len(log))' = LeasesUpTo(t, Len(log))
  BY <1>0, CountsOfAppend
<1>3. PICK p \in 1..Len(log) :
        Is(p, "leased", t) /\ \A m \in (p + 1)..Len(log) : log[m].task # t
  BY DEF Reports, Out
<1>4. ASSUME NEW m \in 1..Len(log), IsResult(m), log[m].task = t
      PROVE  LeasesUpTo(t, m) < LeasesUpTo(t, Len(log))
  <2>1. m # p
    BY <1>3, <1>4 DEF IsResult, Is
  <2>2. m < p
    BY <1>0, <1>3, <1>4, <2>1
  <2>3. p \in m + 1..Len(log) /\ m \in Nat /\ m <= Len(log)
    BY <1>0, <2>2
  <2>4. QED
    BY <1>0, <1>3, <2>3, CountingOn
<1>5. LeasesUpTo(t, Len(log)) >= 1
  <2>1. p \in 0 + 1..Len(log) /\ 0 <= Len(log)
    BY <1>0
  <2>2. LeasesUpTo(t, 0) < LeasesUpTo(t, Len(log))
    BY <1>0, <1>3, <2>1, CountingOn
  <2>3. LeasesUpTo(t, 0) \in Nat /\ LeasesUpTo(t, Len(log)) \in Nat
    BY <1>0, Counting
  <2>4. QED
    BY <2>2, <2>3
<1>6. QED
  BY <1>1, <1>2, <1>4, <1>5

LEMMA StreamStays ==
  ASSUME TypeOK, StreamOK, [Next]_vars PROVE StreamOK'
<1>0. /\ log \in Seq(Events) /\ Len(log) \in Nat /\ Len(log') \in Nat /\ Grows
  BY Growth, Kept DEF TypeOK
<1>1. Bounded'
  BY BoundedStays DEF StreamOK
<1>2. ASSUME NEW n \in 1..Len(log'), n \notin 1..Len(log), IsResult(n)'
      PROVE  \E t \in Tasks, kind \in {"retry", "final"} : Reports(t, kind)
  <2>1. CASE \E t \in Tasks : Leases(t)
    BY <1>0, <1>2, <2>1 DEF Leases, IsResult
  <2>2. CASE Silent
    BY <1>0, <1>2, <2>2 DEF Silent, IsResult
  <2>3. QED
    BY <2>1, <2>2, Cases
<1>3. ASSUME NEW n \in 1..Len(log'), n \notin 1..Len(log), IsResult(n)'
      PROVE  \E t \in Tasks :
               /\ log'[n].task = t /\ n = Len(log) + 1 /\ Len(log') = n
               /\ LeasesUpTo(t, n)' >= 1
               /\ \A m \in 1..Len(log) : IsResult(m) /\ log[m].task = t
                     => LeasesUpTo(t, m) < LeasesUpTo(t, n)'
  <2>1. PICK t \in Tasks, kind \in {"retry", "final"} : Reports(t, kind)
    BY <1>2, <1>3
  <2>2. /\ Len(log') = Len(log) + 1 /\ log'[Len(log')].task = t
        /\ LeasesUpTo(t, Len(log))' >= 1
        /\ \A m \in 1..Len(log) : IsResult(m) /\ log[m].task = t
              => LeasesUpTo(t, m) < LeasesUpTo(t, Len(log))'
    BY <2>1, NewResult
  <2>3. n = Len(log')
    BY <1>0, <1>3, <2>2
  <2>4. LeasesUpTo(t, n)' = LeasesUpTo(t, Len(log))'
    BY <2>3 DEF LeasesUpTo
  <2>5. QED
    BY <2>2, <2>3, <2>4
<1>4. ResultsOfLeases'
  BY <1>0, <1>3, OldEvents DEF StreamOK, ResultsOfLeases
<1>5. OneResultEach'
  BY <1>0, <1>3, OldEvents DEF StreamOK, OneResultEach
<1>6. QED
  BY <1>1, <1>4, <1>5 DEF StreamOK
-----------------------------------------------------------------------------
(* The files *)

LEMMA MatchesStays ==
  ASSUME TypeOK, Grows, NEW n \in 1..Len(log), NEW t, NEW a
  PROVE  Matches(n, t, a)' <=> Matches(n, t, a)
BY OldEvents DEF Matches

\* The slice of the event in hand is free, or holds that event: another result of
\* the same attempt there is not.
LEMMA SliceIsFree ==
  ASSUME IInv, WriteSlice
  PROVE  \E n \in 1..Len(log) : \E t \in Tasks : \E a \in 1..Attempts[t] :
           /\ n = call.revision /\ n \in results /\ Matches(n, t, a)
           /\ slices[t][a] \in {Absent, n}
           /\ slices' = [slices EXCEPT ![t][a] = n]
           /\ call' = [call EXCEPT !.next = "graph"]
           /\ refused' = refused
<1> DEFINE n == call.revision
           t == log[n].task
           a == LeasesUpTo(t, n)
<1>0. log \in Seq(Events) /\ Len(log) \in Nat
  BY DEF IInv, TypeOK
<1>1. n \in 1..Len(log) /\ n \in Nat /\ n <= Len(log)
  BY <1>0 DEF IInv, TypeOK, WriteSlice, Writings
<1>2. IsResult(n) /\ n \in results
  BY <1>1 DEF IInv, InHand, WriteSlice
<1>3. t \in Tasks /\ a >= 1
  BY <1>1, <1>2 DEF IInv, StreamOK, ResultsOfLeases
<1>4. a \in 1..Attempts[t]
  <2>1. a <= LeasesUpTo(t, Len(log)) /\ a \in Nat /\ LeasesUpTo(t, Len(log)) \in Nat
    BY <1>0, <1>1, CountingOn, Counting
  <2>2. LeasesUpTo(t, Len(log)) <= Attempts[t] /\ Attempts[t] \in Nat
    BY <1>3, ReceiptsAssumption DEF IInv, StreamOK, Bounded
  <2>3. QED
    BY <1>3, <2>1, <2>2
<1>5. Matches(n, t, a)
  BY <1>2 DEF Matches
<1>6. slices[t][a] \in {Absent, n}
  <2>1. SUFFICES ASSUME slices[t][a] # Absent PROVE slices[t][a] = n
    OBVIOUS
  <2>2. slices[t][a] \in 1..Len(log)
    BY <1>3, <1>4, <2>1, SlicesAreEvents DEF IInv
  <2>3. PICK m \in 1..Len(log) : m = slices[t][a]
    BY <2>2
  <2>4. Matches(m, t, a)
    BY <1>3, <1>4, <2>3 DEF IInv, Matched
  <2>5. IsResult(m) /\ log[m].task = t /\ LeasesUpTo(t, m) = a
    BY <2>4 DEF Matches
  <2>6. a \in Nat
    BY <1>4
  <2>7. ~(m < n)
    BY <1>1, <1>2, <2>5, <2>6 DEF IInv, StreamOK, OneResultEach
  <2>8. ~(n < m)
    BY <1>1, <1>2, <2>5, <2>6 DEF IInv, StreamOK, OneResultEach
  <2>9. QED
    BY <1>0, <1>1, <2>3, <2>7, <2>8
<1>7. /\ slices' = [slices EXCEPT ![t][a] = n]
      /\ call' = [call EXCEPT !.next = "graph"]
      /\ refused' = refused
  BY <1>6 DEF WriteSlice, Attempt
<1>8. QED
  BY <1>1, <1>2, <1>3, <1>4, <1>5, <1>6, <1>7

LEMMA SliceWritten ==
  ASSUME TypeOK, NEW u \in Tasks, NEW b \in 1..Attempts[u], NEW m,
         slices' = [slices EXCEPT ![u][b] = m]
  PROVE  \A t \in Tasks : \A a \in 1..Attempts[t] :
           slices'[t][a] = IF t = u /\ a = b THEN m ELSE slices[t][a]
<1>1. DOMAIN slices = Tasks /\ DOMAIN slices[u] = 1..Attempts[u]
  BY DEF TypeOK
<1>2. \A t \in Tasks :
        slices'[t] = IF t = u THEN [slices[u] EXCEPT ![b] = m] ELSE slices[t]
  BY <1>1
<1>3. QED
  BY <1>1, <1>2

\* A slice is written once.
LEMMA SlicesLast ==
  ASSUME IInv, [Next]_vars, NEW t \in Tasks, NEW a \in 1..Attempts[t], slices[t][a] # Absent
  PROVE  slices'[t][a] = slices[t][a]
<1>1. CASE UNCHANGED slices
  BY <1>1
<1>2. CASE WriteSlice
  <2>1. PICK m \in 1..Len(log), u \in Tasks : \E b \in 1..Attempts[u] :
          slices[u][b] \in {Absent, m} /\ slices' = [slices EXCEPT ![u][b] = m]
    BY <1>2, SliceIsFree
  <2>2. PICK b \in 1..Attempts[u] :
          slices[u][b] \in {Absent, m} /\ slices' = [slices EXCEPT ![u][b] = m]
    BY <2>1
  <2>3. QED
    BY <2>2, SliceWritten DEF IInv
<1>3. QED
  BY <1>1, <1>2
     DEF Next, vars, Submit, Cancel, Lease, Advance, Repeat, Write, WriteResult,
         WriteGraph, Crash, ReadReceipt, AnswerReader

LEMMA FilesLast ==
  ASSUME IInv, [Next]_vars, NEW n \in 1..Len(log), HasFiles(n)
  PROVE  HasFiles(n)'
<1>0. Grows /\ n # Absent
  BY Growth DEF IInv, TypeOK, Absent
<1>1. n \in results'
  BY DEF HasFiles, Next, vars, Submit, Cancel, Lease, Advance, Repeat, Write, WriteResult,
         WriteSlice, WriteGraph, Crash, ReadReceipt, AnswerReader
<1>2. PICK t \in Tasks : \E a \in 1..Attempts[t] : Matches(n, t, a) /\ slices[t][a] = n
  BY DEF HasFiles
<1>3. PICK a \in 1..Attempts[t] : Matches(n, t, a) /\ slices[t][a] = n
  BY <1>2
<1>4. Matches(n, t, a)' /\ slices'[t][a] = n
  BY <1>0, <1>3, MatchesStays, SlicesLast DEF IInv
<1>5. QED
  BY <1>1, <1>4 DEF HasFiles

LEMMA MatchedStays == ASSUME IInv, [Next]_vars PROVE Matched'
<1>0. TypeOK /\ Grows /\ Len(log) \in Nat
  BY Growth DEF IInv, TypeOK
<1>1. ASSUME NEW t \in Tasks, NEW a \in 1..Attempts[t], NEW n \in 1..Len(log'),
             n = slices'[t][a], n = slices[t][a]
      PROVE  Matches(n, t, a)'
  <2>1. n # Absent
    BY <1>1 DEF Absent
  <2>2. n \in 1..Len(log)
    BY <1>0, <1>1, <2>1, SlicesAreEvents
  <2>3. QED
    BY <1>0, <1>1, <2>2, MatchesStays DEF IInv, Matched
<1>2. CASE UNCHANGED slices
  BY <1>1, <1>2 DEF Matched
<1>3. CASE WriteSlice
  <2>0. PICK m \in 1..Len(log), u \in Tasks : \E b \in 1..Attempts[u] :
          Matches(m, u, b) /\ slices' = [slices EXCEPT ![u][b] = m]
    BY <1>3, SliceIsFree
  <2>1. PICK b \in 1..Attempts[u] : Matches(m, u, b) /\ slices' = [slices EXCEPT ![u][b] = m]
    BY <2>0
  <2>2. Matches(m, u, b)'
    BY <1>0, <2>1, MatchesStays
  <2>3. /\ slices'[u][b] = m
        /\ \A t \in Tasks : \A a \in 1..Attempts[t] :
             t # u \/ a # b => slices'[t][a] = slices[t][a]
    <3>1. DOMAIN slices = Tasks /\ DOMAIN slices[u] = 1..Attempts[u]
      BY <1>0 DEF TypeOK
    <3>2. slices' = [slices EXCEPT ![u] = [slices[u] EXCEPT ![b] = m]]
      BY <2>1
    <3>3. slices'[u] = [slices[u] EXCEPT ![b] = m]
          /\ \A t \in Tasks : t # u => slices'[t] = slices[t]
      BY <3>1, <3>2
    <3>4. QED
      BY <3>1, <3>3
  <2>4. ASSUME NEW t \in Tasks, NEW a \in 1..Attempts[t], NEW n \in 1..Len(log'),
               n = slices'[t][a]
        PROVE  Matches(n, t, a)'
    <3>1. CASE t = u /\ a = b
      BY <2>2, <2>3, <2>4, <3>1
    <3>2. CASE ~(t = u /\ a = b)
      <4>1. slices'[t][a] = slices[t][a]
        BY <2>3, <3>2
      <4>2. QED
        BY <1>1, <2>4, <4>1
    <3>3. QED
      BY <3>1, <3>2
  <2>5. QED
    BY <2>4 DEF Matched
<1>4. QED
  BY <1>2, <1>3
     DEF Next, vars, Submit, Cancel, Lease, Advance, Repeat, Write, WriteResult,
         WriteGraph, Crash, ReadReceipt, AnswerReader

LEMMA InHandStays == ASSUME IInv, [Next]_vars PROVE InHand'
<1>0. TypeOK /\ TypeOK' /\ Grows /\ Len(log) \in Nat /\ InHand
  BY Types, Growth DEF IInv, TypeOK
<1>1. CASE call' = NoCall
  BY <1>1 DEF InHand
\* Nothing is filed, nothing is called: what was known of the call is still known.
<1>2. CASE call' = call
  <2>1. SUFFICES ASSUME call # NoCall, NEW n \in 1..Len(log'), n = call.revision
                 PROVE  /\ call.next # "graph" => IsResult(n)'
                        /\ call.next = "slice" => n \in results'
                        /\ call.next = "graph" /\ IsResult(n)' => HasFiles(n)'
    BY <1>2 DEF InHand
  <2>2. n \in 1..Len(log)
    BY <1>0, <2>1 DEF TypeOK, Writings
  <2>3. (IsResult(n)' <=> IsResult(n)) /\ results \subseteq results'
    BY <1>0, <2>2, OldEvents
       DEF Next, vars, Submit, Cancel, Lease, Advance, Repeat, Write, WriteResult,
           WriteSlice, WriteGraph, Crash, ReadReceipt, AnswerReader
  <2>4. QED
    BY <1>0, <2>1, <2>2, <2>3, FilesLast DEF InHand
<1>3. ASSUME NEW n \in 1..Len(log'), Writing(n, log'[n].kind) PROVE InHand'
  BY <1>3 DEF Writing, InHand, IsResult
<1>4. ASSUME NEW t \in Tasks, NEW kind \in {"retry", "final"}, Advance(t, kind)
      PROVE  InHand'
  <2>1. Len(log') = Len(log) + 1 /\ log'[Len(log')].kind = kind
    BY <1>0, <1>4 DEF Advance, Record, TypeOK
  <2>2. QED
    BY <1>0, <1>3, <1>4, <2>1 DEF Advance
<1>5. ASSUME Cancel PROVE InHand'
  <2>1. Len(log') = Len(log) + 1 /\ log'[Len(log')].kind = "canceled"
    BY <1>0, <1>5 DEF Cancel, Record, TypeOK
  <2>2. QED
    BY <1>0, <1>3, <1>5, <2>1 DEF Cancel
<1>6. ASSUME NEW n \in 1..Len(log), Repeat(n) PROVE InHand'
  BY <1>3, <1>6 DEF Repeat
<1>7. ASSUME WriteResult PROVE InHand'
  <2>1. call \in Writings /\ log' = log
    BY <1>0, <1>7 DEF WriteResult, TypeOK
  <2>2. call'.revision = call.revision /\ call'.next = "slice"
    BY <1>7, <2>1 DEF WriteResult, Writings
  <2>3. call.revision \in 1..Len(log) /\ IsResult(call.revision)
    BY <1>0, <1>7, <2>1 DEF WriteResult, InHand, Writings
  <2>4. QED
    BY <1>7, <2>1, <2>2, <2>3 DEF InHand, WriteResult, IsResult
<1>8. ASSUME WriteSlice PROVE InHand'
  <2>0. PICK n \in 1..Len(log), t \in Tasks : \E a \in 1..Attempts[t] :
          /\ n = call.revision /\ n \in results /\ Matches(n, t, a)
          /\ slices' = [slices EXCEPT ![t][a] = n]
          /\ call' = [call EXCEPT !.next = "graph"]
    BY <1>8, SliceIsFree
  <2>1. PICK a \in 1..Attempts[t] :
          /\ n = call.revision /\ n \in results /\ Matches(n, t, a)
          /\ slices' = [slices EXCEPT ![t][a] = n]
          /\ call' = [call EXCEPT !.next = "graph"]
    BY <2>0
  <2>2. call \in Writings /\ log' = log /\ results' = results
    BY <1>0, <1>8 DEF WriteSlice, TypeOK
  <2>3. call'.revision = n /\ call'.next = "graph"
    BY <2>1, <2>2 DEF Writings
  <2>4. Matches(n, t, a)' /\ slices'[t][a] = n
    BY <1>0, <2>1, MatchesStays DEF TypeOK
  <2>5. HasFiles(n)'
    BY <2>1, <2>2, <2>4 DEF HasFiles
  <2>6. QED
    BY <2>3, <2>5 DEF InHand
<1>9. QED
  BY <1>1, <1>2, <1>4, <1>5, <1>6, <1>7, <1>8
     DEF Next, vars, Submit, Lease, Write, WriteGraph, Crash, ReadReceipt, AnswerReader

LEMMA RefusalsStay == ASSUME IInv, [Next]_vars PROVE Refusals'
<1>0. TypeOK /\ Grows /\ Refusals /\ InHand /\ Receipt
  BY Growth DEF IInv, TypeOK
<1>1. ASSUME NEW n \in 1..Len(log), graph' \notin {Absent, n}, IsResult(n) => HasFiles(n)
      PROVE  graph' \notin {Absent, n} /\ (IsResult(n)' => HasFiles(n)')
  BY <1>0, <1>1, FilesLast, OldEvents
<1>2. CASE UNCHANGED <<graph, refused>>
  BY <1>0, <1>1, <1>2 DEF Refusals, TypeOK
<1>3. CASE WriteSlice
  BY <1>2, <1>3, SliceIsFree DEF WriteSlice
<1>4. CASE WriteGraph
  <2>1. call.revision \in 1..Len(log)
    BY <1>0, <1>4 DEF WriteGraph, TypeOK, Writings
  <2>2. IsResult(call.revision) => HasFiles(call.revision)
    BY <1>0, <1>4, <2>1 DEF WriteGraph, InHand
  <2>3. graph # Absent => graph' = graph
    BY <1>4 DEF WriteGraph
  <2>4. ASSUME NEW n \in refused
        PROVE  graph' \notin {Absent, n} /\ (IsResult(n)' => HasFiles(n)')
    BY <1>0, <1>1, <2>3 DEF Refusals, TypeOK
  <2>5. ASSUME refused' # refused
        PROVE  /\ refused' = refused \cup {call.revision}
               /\ graph' \notin {Absent, call.revision}
    BY <1>0, <1>4, <2>5 DEF WriteGraph, Receipt
  <2>6. QED
    BY <1>1, <2>1, <2>2, <2>4, <2>5 DEF Refusals
<1>5. QED
  BY <1>2, <1>3, <1>4
     DEF Next, vars, Submit, Cancel, Lease, Advance, Repeat, Write, WriteResult, Crash, ReadReceipt, AnswerReader

\* Nothing is appended to the stream of a closed run, and it is closed once.
LEMMA ClosedForGood ==
  ASSUME IInv, [Next]_vars, closedAt # Absent
  PROVE  log' = log /\ closedAt' = closedAt
BY DEF IInv, Receipt, Next, vars, Submit, Cancel, Lease, Advance, Repeat, Write, WriteResult,
       WriteSlice, WriteGraph, Crash, ReadReceipt, AnswerReader

LEMMA ReceiptStays == ASSUME IInv, [Next]_vars PROVE Receipt'
<1>1. TypeOK /\ Receipt /\ (closedAt # Absent => log' = log /\ closedAt' = closedAt)
  BY ClosedForGood DEF IInv
<1>2. closedAt' # Absent => log' # <<>>
  <2>1. ASSUME NEW t \in Tasks \cup {NoTask}, NEW kind \in Kinds, Record(kind, t)
        PROVE  log' # <<>>
    <3>1. [kind |-> kind, task |-> t] \in Events /\ log \in Seq(Events)
      BY <1>1 DEF Events, TypeOK
    <3>2. Len(log') = Len(log) + 1 /\ Len(log) \in Nat
      BY <2>1, <3>1 DEF Record
    <3>3. QED
      BY <3>2
  <2>2. ASSUME NEW t \in Tasks, NEW kind \in {"retry", "final"}, Advance(t, kind)
        PROVE  log' # <<>>
    BY <2>1, <2>2 DEF Advance, Kinds
  <2>3. ASSUME Cancel PROVE log' # <<>>
    BY <2>1, <2>3 DEF Cancel, Kinds
  <2>4. CASE closedAt # Absent
    BY <1>1, <2>4 DEF Receipt
  <2>5. QED
    BY <2>2, <2>3, <2>4
       DEF Next, vars, Submit, Lease, Repeat, Write, WriteResult, WriteSlice, WriteGraph,
           Crash, ReadReceipt, AnswerReader
<1>3. closedAt # Absent => Outcomes' = Outcomes
  BY <1>1 DEF Outcomes, Decides, IsResult, Is
<1>4. CASE UNCHANGED <<graph, content, readers>>
  BY <1>1, <1>2, <1>3, <1>4 DEF Receipt, readers
<1>5. CASE WriteGraph
  <2>1. UNCHANGED <<log, closedAt, found, answers, denied>>
    BY <1>5 DEF WriteGraph, readers
  <2>2. CASE closedAt # Absent /\ graph = Absent
    <3>1. content' = Outcomes /\ found = {} /\ answers = {}
      BY <1>1, <1>5, <2>2 DEF WriteGraph, Receipt
    <3>2. QED
      BY <1>1, <1>2, <1>3, <2>1, <2>2, <3>1 DEF Receipt
  <2>3. CASE ~(closedAt # Absent /\ graph = Absent)
    BY <1>1, <1>2, <1>3, <1>5, <2>1, <2>3 DEF WriteGraph, Receipt
  <2>4. QED
    BY <2>2, <2>3
<1>6. CASE ReadReceipt
  BY <1>1, <1>2, <1>3, <1>6 DEF ReadReceipt, Receipt
<1>7. ASSUME NEW n \in found, AnswerReader(n) PROVE Receipt'
  <2>1. closedAt # Absent /\ graph = n /\ content = Outcomes /\ n # Absent
    BY <1>1 DEF Receipt
  <2>2. /\ answers' = answers \cup {[revision |-> graph, outcomes |-> content]}
        /\ UNCHANGED <<denied, found, graph, content>>
    BY <1>7, <2>1 DEF AnswerReader
  <2>3. QED
    BY <1>1, <1>2, <1>3, <2>1, <2>2 DEF Receipt
<1>8. QED
  BY <1>4, <1>5, <1>6, <1>7
     DEF Next, vars, Submit, Cancel, Lease, Advance, Repeat, Write, WriteResult, WriteSlice,
         Crash

-----------------------------------------------------------------------------
(* Theorems *)

LEMMA Invariance == Spec => []IInv
<1>1. ASSUME IInv, [Next]_vars PROVE IInv'
  <2>1. TypeOK' /\ StreamOK'
    BY <1>1, Types, StreamStays DEF IInv
  <2>2. Matched' /\ InHand' /\ Refusals' /\ Receipt'
    BY <1>1, MatchedStays, InHandStays, RefusalsStay, ReceiptStays
  <2>3. QED
    BY <2>1, <2>2 DEF IInv
<1>2. QED
  BY InitHolds, <1>1, PTL DEF Spec

\* The slice file of an attempt holds the one result that the attempt reported, for any
\* tasks and retry limits, whichever calls died and whatever was repeated when.
THEOREM Slices == Spec => []SlicesMatchAttempts
BY Invariance, Safe, PTL

\* A repeated result is never refused over the slice of another attempt: what is refused
\* is refused by a graph receipt that names another event, its own files being there.
THEOREM Refused == Spec => []RefusedResultsAreFiled
BY Invariance, Safe, PTL

\* Every reader of the graph receipt of a run gets one and the same, which is on disk,
\* of a closed run and true of its stream, and none is refused it: for any tasks,
\* retry limits and readers, whichever calls died and whatever was repeated when.
THEOREM OneReceipt == Spec => []ReadersGetOneReceipt
BY Invariance, Safe, PTL
=============================================================================
