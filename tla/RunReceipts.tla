----------------------------- MODULE RunReceipts -----------------------------
(***************************************************************************)
(* The immutable files a run leaves beside its event stream                *)
(* (RuntimeController._write_result_receipt, _write_graph_receipt and      *)
(* read_receipt in sips_runtime/controller.py): for every result event a   *)
(* receipt named after the event and a slice file named after the attempt, *)
(* and one graph receipt when the run has closed.                          *)
(*                                                                         *)
(* They are written after the event is durable, one by one, by the call    *)
(* that appended it; the call may die in between, and a caller that got no *)
(* answer, or asks twice, repeats it under its idempotency key.  A repeated *)
(* call appends nothing and goes through the same writes.  All of this     *)
(* happens under the run's transition lock, which dies with its holder.    *)
(* Readers of the graph receipt take no lock: they read the file, and then *)
(* rebuild it from the stream as it is by then.                            *)
(*                                                                         *)
(* Leases may expire and be reissued at any time (RunController says when); *)
(* here the latest lease of an open task is the one that may report.       *)
(***************************************************************************)
EXTENDS Integers, Sequences, FiniteSets

CONSTANTS
  Tasks,
  Attempts,      \* Attempts[t]: 1 + retry_limit, the most t is leased
  NoTask,        \* the task of an event that is about the whole run
  NoCall         \* no call is between its append and its return

ASSUME ReceiptsAssumption ==
  /\ NoTask \notin Tasks
  /\ Attempts \in [Tasks -> Nat \ {0}]
  /\ IsFiniteSet(Tasks) /\ Tasks # {}

Kinds == {"submitted", "leased", "retry", "final", "canceled"}
Events == [kind : Kinds, task : Tasks \cup {NoTask}]

Absent == 0   \* the revision in a file that does not exist

VARIABLES
  log,          \* the event stream; an event's revision is its position
  closedAt,     \* revision of the event that closed the run, Absent before
  results,      \* revisions whose receipts/<revision>-<task>-... file exists
  slices,       \* slices[t][n]: revision in slices/<t>/attempt-<n>.json
  graph,        \* revision in receipts/graph-receipt.json
  content,      \* content[t]: revision of the event whose outcome for t it holds
  call,         \* the event whose files are being written, and the next one
  refused,      \* revisions of events whose repetition was refused
  found,        \* revisions that readers of the graph receipt have found in it
  answers,      \* history: the graph receipts readers were answered with
  denied        \* history: revisions found in one that was refused to a reader

readers == <<found, answers, denied>>
vars == <<log, closedAt, results, slices, graph, content, call, refused, readers>>

Init ==
  /\ log = <<>>
  /\ closedAt = Absent
  /\ results = {}
  /\ slices = [t \in Tasks |-> [n \in 1..Attempts[t] |-> Absent]]
  /\ graph = Absent
  /\ content = [t \in Tasks |-> Absent]
  /\ call = NoCall
  /\ refused = {}
  /\ found = {} /\ answers = {} /\ denied = {}

-----------------------------------------------------------------------------
(* What the stream says *)

Is(n, kind, t) == log[n].kind = kind /\ log[n].task = t

LeasesUpTo(t, n) == Cardinality({m \in 1..n : Is(m, "leased", t)})

Finished(t) == \E n \in 1..Len(log) : Is(n, "final", t)

\* The latest event about t is a lease.
Out(t) ==
  \E n \in 1..Len(log) :
    Is(n, "leased", t) /\ \A m \in (n + 1)..Len(log) : log[m].task # t

IsResult(n) == log[n].kind \in {"retry", "final"}

\* The event that says what became of t: its latest result, or the cancel that
\* found it unfinished.
Decides(n, t) ==
  \/ IsResult(n) /\ log[n].task = t
  \/ log[n].kind = "canceled" /\ ~\E m \in 1..n : Is(m, "final", t)

Outcomes ==
  [t \in Tasks |->
     LET about == {n \in 1..Len(log) : Decides(n, t)}
     IN  IF about = {} THEN Absent ELSE CHOOSE n \in about : \A m \in about : m <= n]

-----------------------------------------------------------------------------
(* Calls that append *)

Record(kind, t) == log' = Append(log, [kind |-> kind, task |-> t])

Writing(n, kind) ==
  call' = [revision |-> n,
           next |-> IF kind \in {"retry", "final"} THEN "result" ELSE "graph"]

Submit ==
  /\ call = NoCall
  /\ log = <<>>
  /\ Record("submitted", NoTask)
  /\ UNCHANGED <<closedAt, results, slices, graph, content, call, refused, readers>>

Lease(t) ==
  /\ call = NoCall
  /\ log # <<>>
  /\ closedAt = Absent
  /\ ~Finished(t)
  /\ LeasesUpTo(t, Len(log)) < Attempts[t]
  /\ Record("leased", t)
  /\ UNCHANGED <<closedAt, results, slices, graph, content, call, refused, readers>>

\* Fault: a result that comes after a cancel is taken.
AdvanceWhenClosed(t, kind) ==
  /\ call = NoCall
  /\ Out(t)
  /\ kind = "retry" => LeasesUpTo(t, Len(log)) < Attempts[t]
  /\ Record(kind, t)
  /\ closedAt' = IF closedAt = Absent /\ kind = "final" /\ \A u \in Tasks \ {t} : Finished(u)
                 THEN Len(log) + 1 ELSE closedAt
  /\ Writing(Len(log) + 1, kind)
  /\ UNCHANGED <<results, slices, graph, content, refused, readers>>

\* advance up to its append; the last task to finish closes the run.
Advance(t, kind) ==
  /\ call = NoCall
  /\ closedAt = Absent
  /\ Out(t)
  /\ kind = "retry" => LeasesUpTo(t, Len(log)) < Attempts[t]
  /\ Record(kind, t)
  /\ closedAt' = IF kind = "final" /\ \A u \in Tasks \ {t} : Finished(u)
                 THEN Len(log) + 1 ELSE Absent
  /\ Writing(Len(log) + 1, kind)
  /\ UNCHANGED <<results, slices, graph, content, refused, readers>>

\* cancel closes the run whatever is out.
Cancel ==
  /\ call = NoCall
  /\ log # <<>>
  /\ closedAt = Absent
  /\ Record("canceled", NoTask)
  /\ closedAt' = Len(log) + 1
  /\ Writing(Len(log) + 1, "canceled")
  /\ UNCHANGED <<results, slices, graph, content, refused, readers>>

\* Fault: repeating a result rebuilds the graph receipt only.
RepeatGraphOnly(n) ==
  /\ call = NoCall
  /\ log[n].kind # "leased"
  /\ call' = [revision |-> n, next |-> "graph"]
  /\ UNCHANGED <<log, closedAt, results, slices, graph, content, refused, readers>>

\* A submit, advance or cancel under the key of event n, with the same payload.
Repeat(n) ==
  /\ call = NoCall
  /\ log[n].kind # "leased"
  /\ Writing(n, log[n].kind)
  /\ UNCHANGED <<log, closedAt, results, slices, graph, content, refused, readers>>

-----------------------------------------------------------------------------
(* The writes *)

\* _write_result_receipt, the receipts/ file.  Its name holds the event's
\* digest, so a file that is there already is equal.
WriteResult ==
  /\ call # NoCall /\ call.next = "result"
  /\ results' = results \cup {call.revision}
  /\ call' = [call EXCEPT !.next = "slice"]
  /\ UNCHANGED <<log, closedAt, slices, graph, content, refused, readers>>

\* Fault: the attempt is read from the current state.
AttemptNow(n) == LeasesUpTo(log[n].task, Len(log))

\* The attempt that produced event n: its lease is the latest one before it.
Attempt(n) == LeasesUpTo(log[n].task, n)

\* _write_result_receipt, the slices/ file: a different one is never replaced.
WriteSlice ==
  /\ call # NoCall /\ call.next = "slice"
  /\ LET t == log[call.revision].task
         a == Attempt(call.revision)
     IN  IF slices[t][a] \in {Absent, call.revision}
         THEN /\ slices' = [slices EXCEPT ![t][a] = call.revision]
              /\ call' = [call EXCEPT !.next = "graph"]
              /\ UNCHANGED refused
         ELSE /\ refused' = refused \cup {call.revision}
              /\ call' = NoCall
              /\ UNCHANGED slices
  /\ UNCHANGED <<log, closedAt, results, graph, content, readers>>

\* _write_graph_receipt for the call's event, whose revision, digest and time go
\* into the receipt: nothing while the run is open, and a receipt that names
\* another event or holds other results is never replaced.
WriteGraph ==
  /\ call # NoCall /\ call.next = "graph"
  /\ IF closedAt # Absent /\ graph = Absent
     THEN graph' = call.revision /\ content' = Outcomes
     ELSE UNCHANGED <<graph, content>>
  /\ refused' = IF \/ closedAt = Absent \/ graph = Absent
                   \/ graph = call.revision /\ content = Outcomes
                THEN refused ELSE refused \cup {call.revision}
  /\ call' = NoCall
  /\ UNCHANGED <<log, closedAt, results, slices, readers>>

\* The process dies, or a write fails.
Crash ==
  /\ call # NoCall
  /\ call' = NoCall
  /\ UNCHANGED <<log, closedAt, results, slices, graph, content, refused, readers>>

Write == WriteResult \/ WriteSlice \/ WriteGraph

-----------------------------------------------------------------------------
(* Readers *)

\* read_receipt finds the file and takes the revision in it.  While there is none
\* it answers with the state, marked provisional, and is done.
ReadReceipt ==
  /\ graph # Absent
  /\ found' = found \cup {graph}
  /\ UNCHANGED <<log, closedAt, results, slices, graph, content, call, refused,
                 answers, denied>>

\* ... then has _write_graph_receipt rebuild the receipt of that revision and
\* compare it with the file, each as it is by now.  (The event is on the stream,
\* which only grows.)  Any number of readers may have found n, and one that is
\* answered says nothing of the others: n stays found.
AnswerReader(n) ==
  /\ n \in found
  /\ IF closedAt # Absent /\ graph = n /\ content = Outcomes
     THEN /\ answers' = answers \cup {[revision |-> n, outcomes |-> Outcomes]}
          /\ UNCHANGED denied
     ELSE /\ denied' = denied \cup {n}
          /\ UNCHANGED answers
  /\ UNCHANGED <<log, closedAt, results, slices, graph, content, call, refused, found>>

Next ==
  \/ Submit \/ Cancel
  \/ \E t \in Tasks : Lease(t) \/ \E kind \in {"retry", "final"} : Advance(t, kind)
  \/ \E n \in 1..Len(log) : Repeat(n)
  \/ Write
  \/ Crash
  \/ ReadReceipt
  \/ \E n \in found : AnswerReader(n)

Spec == Init /\ [][Next]_vars

\* Event n has left all the files it is owed by now.
Filed(n) ==
  /\ IsResult(n) => n \in results /\ slices[log[n].task][Attempt(n)] = n
  /\ log[n].kind # "leased" /\ closedAt # Absent => graph # Absent

Unfiled == \E n \in 1..Len(log) : ~Filed(n) /\ Repeat(n)
UnfiledCall == call # NoCall /\ ~Filed(call.revision)

\* A call goes on or dies.  A caller that was never answered keeps asking, and
\* not every process that serves it dies.  Nothing is owed by workers or
\* schedulers.
FairSpec ==
  /\ Spec
  /\ WF_vars(Write \/ Crash)
  /\ SF_vars(Unfiled)
  /\ SF_vars(UnfiledCall /\ WriteResult)
  /\ SF_vars(UnfiledCall /\ WriteSlice)
  /\ SF_vars(UnfiledCall /\ WriteGraph)

-----------------------------------------------------------------------------
(* Properties *)

\* The slice file of an attempt holds the one result that attempt reported,
\* however late it is rebuilt and whatever was leased since.
SlicesMatchAttempts ==
  \A t \in Tasks : \A a \in 1..Attempts[t] :
    slices[t][a] # Absent =>
      /\ log[slices[t][a]].task = t /\ IsResult(slices[t][a])
      /\ LeasesUpTo(t, slices[t][a]) = a

\* Repeating a result never collides with the slice of another attempt: what is
\* refused is refused by the graph receipt, after the files of the result are
\* there.
RefusedResultsAreFiled ==
  \A n \in refused :
    /\ graph \notin {Absent, n}
    /\ IsResult(n) => n \in results /\ slices[log[n].task][Attempt(n)] = n

\* Whoever reads the graph receipt of a run, however many calls died before it was
\* there, under whichever event it was rebuilt, and whatever was canceled or
\* repeated between the reader's steps, gets one and the same: the one on disk,
\* of a closed run, with the results the stream holds to this day.  No reader is
\* refused it.
ReadersGetOneReceipt ==
  /\ denied = {}
  /\ \A a \in answers :
       /\ closedAt # Absent
       /\ a = [revision |-> graph, outcomes |-> content]
       /\ a.outcomes = Outcomes

\* Every accepted result ends up filed under its attempt and a closed run gets
\* its graph receipt, although any number of the calls that should have seen to
\* it died.
EverythingGetsFiled == <>[](\A n \in 1..Len(log) : Filed(n))

\* "A repeated identical result is idempotent" (Graph-Theory/contracts.md): the
\* repetition of an accepted result is answered like the first time.
RepeatedResultAccepted == \A n \in refused : ~IsResult(n)
=============================================================================
