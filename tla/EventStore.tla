----------------------------- MODULE EventStore -----------------------------
(***************************************************************************)
(* One run directory on disk and the processes that use it                 *)
(* (sips_runtime/events.py): events.jsonl, head.json and the file lock     *)
(* around them.  A file's write and its replacement are separate steps, and *)
(* a process may die between any two of them; the kernel then drops its    *)
(* lock.                                                                   *)
(*                                                                         *)
(* An event is abstracted to its idempotency key and its body (type and    *)
(* payload).  The hash chain makes an event's digest stand for the whole   *)
(* log up to it, so the head's revision and hash are one number here.      *)
(***************************************************************************)
EXTENDS Integers, Sequences, SequencesExt

CONSTANTS
  Processes,
  NoProcess,
  Keys,         \* idempotency keys
  NoKey,        \* idempotency_key = None
  Bodies,       \* event types with their payloads
  Created,      \* the body of run.created
  MaxEvents     \* bound on the length of the log

ASSUME EventStoreAssumption ==
  /\ NoProcess \notin Processes
  /\ NoKey \notin Keys
  /\ Created \in Bodies
  /\ MaxEvents \in Nat

NoHead      == -1   \* head.json does not exist
AnyRevision == -1   \* expected_revision = None

Entries == [key : Keys \cup {NoKey}, body : Bodies]

VARIABLES
  log,      \* the complete lines of events.jsonl
  torn,     \* a partial line follows them
  head,     \* the revision head.json holds
  lock,     \* the process holding .events.lock
  store,    \* store[p]: how far p is with its EventStore object
  seen,     \* seen[p]: what the last read of p returned
  answers,  \* events append has returned, with their revisions
  crashed   \* some process died after its event was begun and before the head was replaced

vars == <<log, torn, head, lock, store, seen, answers, crashed>>

Init ==
  /\ log = <<>> /\ torn = FALSE
  /\ head = NoHead
  /\ lock = NoProcess
  /\ store = [p \in Processes |-> "none"]
  /\ seen = [p \in Processes |-> <<>>]
  /\ answers = {}
  /\ crashed = FALSE

-----------------------------------------------------------------------------
(* Opening *)

\* The constructor's first look at head.json, without the lock.
Open(p) ==
  /\ store[p] = "none"
  /\ store' = [store EXCEPT ![p] = IF head = NoHead THEN "initialising" ELSE "open"]
  /\ UNCHANGED <<log, torn, head, lock, seen, answers, crashed>>

\* Fault: what the first look saw is trusted.
InitHeadUnchecked(p) ==
  /\ store[p] = "initialising"
  /\ lock = NoProcess
  /\ head' = 0
  /\ store' = [store EXCEPT ![p] = "open"]
  /\ UNCHANGED <<log, torn, lock, seen, answers, crashed>>

\* The second look, under the lock: revision 0 is written unless another
\* process was first; events without a head are refused.
InitHead(p) ==
  /\ store[p] = "initialising"
  /\ lock = NoProcess
  /\ head # NoHead \/ (log = <<>> /\ ~torn)
  /\ head' = IF head = NoHead THEN 0 ELSE head
  /\ store' = [store EXCEPT ![p] = "open"]
  /\ UNCHANGED <<log, torn, lock, seen, answers, crashed>>

-----------------------------------------------------------------------------
(* Reading and appending *)

\* _read_events_unlocked accepts the stream.
Reads == ~torn /\ head = Len(log)

\* events, replay, find_idempotency and event_snapshot.
Read(p) ==
  /\ store[p] = "open"
  /\ lock = NoProcess
  /\ Reads
  /\ seen' = [seen EXCEPT ![p] = log]
  /\ UNCHANGED <<log, torn, head, lock, store, answers, crashed>>

Positions(key) == {n \in 1..Len(log) : log[n].key = key}

\* An event of the same key, type and payload is returned as it is; one of the
\* same key but another type or payload is a conflict, which answers nothing.
Replay(p, e) ==
  /\ store[p] = "open"
  /\ lock = NoProcess
  /\ Reads
  /\ e.key # NoKey
  /\ \E n \in Positions(e.key) :
       /\ log[n].body = e.body
       /\ answers' = answers \cup {[at |-> n, entry |-> log[n]]}
  /\ UNCHANGED <<log, torn, head, lock, store, seen, crashed>>

\* Fault: only an event of the same key and body counts as prior.
MayAppendSameKey(e, expected) ==
  /\ \A n \in Positions(e.key) : log[n] # e
  /\ e.body = Created => log = <<>>
  /\ expected \in {AnyRevision, Len(log)}

\* Fault: the expected revision may be behind.
MayAppendLate(e, expected) ==
  /\ e.key # NoKey => Positions(e.key) = {}
  /\ e.body = Created => log = <<>>
  /\ expected \in AnyRevision..Len(log)

\* The tests of append: the key is new, run.created comes first or not at all,
\* and the caller's revision is the current one.
MayAppend(e, expected) ==
  /\ e.key # NoKey => Positions(e.key) = {}
  /\ e.body = Created => log = <<>>
  /\ expected \in {AnyRevision, Len(log)}

\* Fault: the head goes first.
WriteHeadFirst(p, e, expected) ==
  /\ store[p] = "open"
  /\ lock = NoProcess
  /\ Reads
  /\ MayAppend(e, expected)
  /\ Len(log) < MaxEvents
  /\ lock' = p
  /\ head' = Len(log) + 1
  /\ UNCHANGED <<log, torn, store, seen, answers, crashed>>

\* append up to the fsync of the line; the lock stays with p.
WriteEvent(p, e, expected) ==
  /\ store[p] = "open"
  /\ lock = NoProcess
  /\ Reads
  /\ MayAppend(e, expected)
  /\ Len(log) < MaxEvents
  /\ lock' = p
  /\ log' = Append(log, e)
  /\ UNCHANGED <<torn, head, store, seen, answers, crashed>>

\* Fault: the answer names the next revision.
ReplaceHeadOneOff(p) ==
  /\ lock = p
  /\ head' = Len(log)
  /\ lock' = NoProcess
  /\ answers' = answers \cup {[at |-> Len(log) + 1, entry |-> Last(log)]}
  /\ UNCHANGED <<log, torn, store, seen, crashed>>

\* The rest of append: the head is replaced, the lock released, the event returned.
ReplaceHead(p) ==
  /\ lock = p
  /\ head' = Len(log)
  /\ lock' = NoProcess
  /\ answers' = answers \cup {[at |-> Len(log), entry |-> Last(log)]}
  /\ UNCHANGED <<log, torn, store, seen, crashed>>

-----------------------------------------------------------------------------
(* Dying *)

\* p dies with its line written and the head not replaced.
CrashBeforeHead(p) ==
  /\ lock = p
  /\ lock' = NoProcess
  /\ store' = [store EXCEPT ![p] = "none"]
  /\ crashed' = TRUE
  /\ UNCHANGED <<log, torn, head, seen, answers>>

\* p dies with its head replaced, before it can tell its caller.
DieUnanswered(p) ==
  /\ lock = p
  /\ head' = Len(log)
  /\ lock' = NoProcess
  /\ store' = [store EXCEPT ![p] = "none"]
  /\ UNCHANGED <<log, torn, seen, answers, crashed>>

\* p dies, or the disk fills up, part-way through the line.
CrashInLine(p) ==
  /\ store[p] = "open"
  /\ lock = NoProcess
  /\ Reads
  /\ torn' = TRUE
  /\ store' = [store EXCEPT ![p] = "none"]
  /\ crashed' = TRUE
  /\ UNCHANGED <<log, head, lock, seen, answers>>

\* p dies, or drops its EventStore object, without the lock.
Leave(p) ==
  /\ store[p] # "none"
  /\ lock # p
  /\ store' = [store EXCEPT ![p] = "none"]
  /\ UNCHANGED <<log, torn, head, lock, seen, answers, crashed>>

Next ==
  \E p \in Processes :
    \/ Open(p)
    \/ InitHead(p)
    \/ Read(p)
    \/ \E e \in Entries :
         \/ Replay(p, e)
         \/ \E expected \in {AnyRevision} \cup 0..Len(log) : WriteEvent(p, e, expected)
    \/ ReplaceHead(p)
    \/ CrashBeforeHead(p)
    \/ DieUnanswered(p)
    \/ CrashInLine(p)
    \/ Leave(p)

Spec == Init /\ [][Next]_vars

-----------------------------------------------------------------------------
(* Properties *)

\* Types of the files and of what processes know; answers name written lines.
TypeOK ==
  /\ log \in Seq(Entries) /\ Len(log) <= MaxEvents
  /\ torn \in BOOLEAN /\ crashed \in BOOLEAN
  /\ head \in {NoHead} \cup 0..MaxEvents
  /\ lock \in Processes \cup {NoProcess}
  /\ store \in [Processes -> {"none", "initialising", "open"}]
  /\ seen \in [Processes -> Seq(Entries)]
  /\ answers \subseteq [at : 1..Len(log), entry : Entries]

\* The head never gets ahead of the events and never falls behind by more than
\* the event being appended, whoever opens the store when and dies where.
HeadTrailsEvents ==
  /\ head <= Len(log)
  /\ log # <<>> => head \in {Len(log) - 1, Len(log)}
  /\ lock # NoProcess => head = Len(log) - 1

\* As long as no process has died inside an append, whoever gets the lock finds
\* stream and head in agreement: opening stores races with nothing.
OnlyCrashesBreak ==
  lock = NoProcess /\ ~crashed /\ head # NoHead => Reads

\* What dies where, and who opens the store when, the head follows the stream.
HeadFollowsStream == HeadTrailsEvents /\ OnlyCrashesBreak

\* An event returned to a caller is on disk, in its place, and below the head.
AnsweredIsDurable ==
  \A a \in answers : a.at <= head /\ log[a.at] = a.entry

\* A caller that passes the length of what it last read as its expected
\* revision appends to exactly what it read, however long it waited: no event
\* it has not seen slips in between.
AppendsToWhatItRead ==
  [][\A p \in Processes, e \in Entries :
       WriteEvent(p, e, Len(seen[p])) => log = seen[p]]_vars

Log == INSTANCE RunLog WITH
         Creation <- [key : Keys \cup {NoKey}, body : {Created}],
         Key <- LAMBDA e : e.key,
         Keyless <- NoKey,
         answered <- answers,
         intact <- ~crashed

\* The store implements RunLog: a log of unique keys that only grows, whose
\* answers stay true and that is closed by the first append that dies.
ImplementsRunLog == Log!Spec
=============================================================================
