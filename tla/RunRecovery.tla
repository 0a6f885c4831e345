----------------------------- MODULE RunRecovery -----------------------------
(***************************************************************************)
(* recover_run (sips_runtime/recovery.py): forking a new run from whatever *)
(* of a damaged one still verifies.                                        *)
(*                                                                         *)
(* The source is one run directory, audited without its lock while its     *)
(* writers go on, die or have died.  A fork is made under the fork's own   *)
(* transition lock, in two appends: the source's creation, then a          *)
(* provenance event that holds the audit.  A fork is an ordinary run to    *)
(* everybody else, from its first event on.                                *)
(*                                                                         *)
(* A call that names no new run is one to a fork nobody else knows.  Lines *)
(* stand for events: the first of the source is its run.created.           *)
(***************************************************************************)
EXTENDS Integers, Sequences

CONSTANTS
  Callers,
  Forks,        \* run ids that callers recover to
  Nobody,       \* the holder of a free lock
  MaxLines,     \* bound on the source's stream
  MaxEvents     \* bound on a fork's stream

ASSUME RecoveryAssumption ==
  /\ Nobody \notin Callers
  /\ MaxLines \in Nat \ {0} /\ MaxEvents \in Nat \ {0}

Missing == -1   \* head.json is not there
Garbled == -2   \* head.json does not parse, or breaks its schema

\* Why a run cannot be written to, in the order the audit looks.
Reasons == {"truncated_event", "corrupt_event", "missing_head", "invalid_head",
            "head_mismatch", "ok"}

Audits == [prefix : 1..MaxLines, reason : Reasons]

Created == [type |-> "created"]
Other   == [type |-> "other"]
Recovered(audit) == [type |-> "recovered", audit |-> audit]
Events == {Created, Other} \cup {Recovered(audit) : audit \in Audits}

VARIABLES
  source,       \* lines that verify, lines from the first bad one on, the head
  standard,     \* the source's budget profile is the one the controller has
  appending,    \* a writer of the source is inside append
  sound,        \* the lengths at which the source's stream and head have agreed
  fork,         \* fork[f]: the events of run f
  unreadable,   \* forks an append died in
  lock,         \* lock[f]: the caller that holds f's transition lock
  call,         \* call[c]: what c is doing, and what it has read
  interrupted,  \* forks a caller died in, holding the lock
  answers       \* what calls have returned

sourceVars == <<source, standard, appending, sound>>
forkVars == <<fork, unreadable, lock, interrupted>>
vars == <<sourceVars, forkVars, call, answers>>

Idle == [step |-> "idle"]

Init ==
  /\ source = [good |-> 1, bad |-> 0, head |-> 1]
  /\ standard \in BOOLEAN
  /\ appending = FALSE
  /\ sound = {1}
  /\ fork \in [Forks -> {<<>>, <<Other>>}]
  /\ unreadable = {}
  /\ lock = [f \in Forks |-> Nobody]
  /\ call = [c \in Callers |-> Idle]
  /\ interrupted = {}
  /\ answers = {}

-----------------------------------------------------------------------------
(* The source (module EventStore): its line is begun, complete, and then in *)
(* the head.  Its store refuses to append to anything but a sound stream.  *)

Whole == source.bad = 0 /\ source.head = source.good

Becomes(good, bad, head) ==
  /\ source' = [good |-> good, bad |-> bad, head |-> head]
  /\ sound' = IF bad = 0 /\ head = good THEN sound \cup {good} ELSE sound
  /\ UNCHANGED <<standard, forkVars, call, answers>>

BeginLine ==
  /\ Whole /\ ~appending /\ source.good < MaxLines
  /\ appending' = TRUE
  /\ Becomes(source.good, 1, source.head)

EndLine ==
  /\ appending /\ source.bad = 1
  /\ Becomes(source.good + 1, 0, source.head)
  /\ UNCHANGED appending

ReplaceHead ==
  /\ appending /\ source.bad = 0
  /\ appending' = FALSE
  /\ Becomes(source.good, 0, source.good)

\* The writer dies inside append.
SourceCrash ==
  /\ appending
  /\ appending' = FALSE
  /\ UNCHANGED <<source, standard, sound, forkVars, call, answers>>

\* The disk, or somebody's editor, takes a line or the head.
SourceDamage ==
  /\ ~appending
  /\ \/ \E n \in 1..source.good :
          Becomes(n - 1, source.good + source.bad - n + 1, source.head)
     \/ \E h \in {Missing, Garbled} : Becomes(source.good, source.bad, h)
  /\ UNCHANGED appending

-----------------------------------------------------------------------------
(* audit_run *)

At(c, step) == call[c].step = step
End(c) == call' = [call EXCEPT ![c] = Idle]

\* The event stream is read, without a lock.
ReadEvents(c) ==
  /\ At(c, "idle")
  /\ \E f \in Forks :
       call' = [call EXCEPT ![c] =
                  [step |-> "head", fork |-> f, good |-> source.good, bad |-> source.bad]]
  /\ UNCHANGED <<sourceVars, forkVars, answers>>

\* Fault: a head behind the stream passes.
ReasonLenient(good, bad, head) ==
  IF bad = 1 THEN "truncated_event"
  ELSE IF bad > 1 THEN "corrupt_event"
  ELSE IF head = Missing THEN "missing_head"
  ELSE IF head = Garbled THEN "invalid_head"
  ELSE IF head > good THEN "head_mismatch"
  ELSE "ok"

\* What stops the audit, the stream before the head.  The bad line is a
\* truncated one when it is the last.
Reason(good, bad, head) ==
  IF bad = 1 THEN "truncated_event"
  ELSE IF bad > 1 THEN "corrupt_event"
  ELSE IF head = Missing THEN "missing_head"
  ELSE IF head = Garbled THEN "invalid_head"
  ELSE IF head # good THEN "head_mismatch"
  ELSE "ok"

\* Then the head.  A run without a verified creation, or with a budget profile
\* the controller does not have, is not recovered, whatever else it is.
ReadHead(c) ==
  /\ At(c, "head")
  /\ LET seen == call[c]
         audit == [prefix |-> seen.good,
                   reason |-> Reason(seen.good, seen.bad, source.head)]
     IN  IF seen.good = 0 \/ ~standard
         THEN End(c)
         ELSE call' = [call EXCEPT ![c] =
                         [step |-> "lock", fork |-> seen.fork, audit |-> audit]]
  /\ UNCHANGED <<sourceVars, forkVars, answers>>

-----------------------------------------------------------------------------
(* recover_run *)

Fork(c) == fork[call[c].fork]
Goto(c, step) == call' = [call EXCEPT ![c].step = step]
Unlock(f) == lock' = [lock EXCEPT ![f] = Nobody]

\* Fault: the fork's lock is not taken.
EnterFork(c) ==
  /\ At(c, "lock")
  /\ Goto(c, "examine")
  /\ UNCHANGED <<sourceVars, forkVars, answers>>

LockFork(c) ==
  /\ At(c, "lock") /\ lock[call[c].fork] = Nobody
  /\ lock' = [lock EXCEPT ![call[c].fork] = c]
  /\ Goto(c, "examine")
  /\ UNCHANGED <<sourceVars, fork, unreadable, interrupted, answers>>

\* Fault: what follows the creation is not looked at, and the provenance is
\* appended to whatever is there.
ResumableAfterWork(s, audit) ==
  \/ s = <<>>
  \/ s[1] = Created /\ \A n \in 2..Len(s) : s[n] = Other

\* Fault: any provenance passes for this call's.
ResumableByAnyAudit(s, audit) == Len(s) <= 2 /\ (s # <<>> => s[1] = Created)

\* A destination is empty, this recovery's creation, or this very recovery.
Resumable(s, audit) ==
  s \in {<<>>, <<Created>>, <<Created, Recovered(audit)>>}

Examine(c) ==
  /\ At(c, "examine")
  /\ LET f == call[c].fork
     IN  IF f \notin unreadable /\ Resumable(fork[f], call[c].audit)
         THEN Goto(c, "create") /\ UNCHANGED lock
         ELSE End(c) /\ Unlock(f)
  /\ UNCHANGED <<sourceVars, fork, unreadable, interrupted, answers>>

\* run.created, expecting revision 0; the store replays the one that is there.
AppendCreated(c) ==
  /\ At(c, "create")
  /\ fork' = IF Fork(c) = <<>> THEN [fork EXCEPT ![call[c].fork] = <<Created>>] ELSE fork
  /\ Goto(c, "link")
  /\ UNCHANGED <<sourceVars, unreadable, lock, interrupted, answers>>

\* run.recovered, expecting revision 1, or replayed; the answer.
AppendRecovered(c) ==
  /\ At(c, "link")
  /\ LET f == call[c].fork
         audit == call[c].audit
     IN  /\ fork' = IF \E n \in DOMAIN fork[f] : fork[f][n].type = "recovered" THEN fork
                    ELSE [fork EXCEPT ![f] = Append(@, Recovered(audit))]
         /\ answers' = answers \cup {[fork |-> f, audit |-> audit]}
         /\ Unlock(f)
  /\ End(c)
  /\ UNCHANGED <<sourceVars, unreadable, interrupted>>

-----------------------------------------------------------------------------
(* The fork's other life, and crashes *)

\* A worker, or any other writer, appends to the run under its lock.
Work(f) ==
  /\ lock[f] = Nobody /\ f \notin unreadable
  /\ fork[f] # <<>> /\ Len(fork[f]) < MaxEvents
  /\ fork' = [fork EXCEPT ![f] = Append(@, Other)]
  /\ UNCHANGED <<sourceVars, unreadable, lock, interrupted, call, answers>>

Holds(c) == {f \in Forks : lock[f] = c}

Die(c) ==
  /\ ~At(c, "idle")
  /\ End(c)
  /\ lock' = [f \in Forks |-> IF lock[f] = c THEN Nobody ELSE lock[f]]
  /\ interrupted' = interrupted \cup Holds(c)
  /\ UNCHANGED <<sourceVars, fork, unreadable, answers>>

\* ... after the event is on the stream and before the head says so.
DieInAppend(c) ==
  /\ \/ At(c, "create") /\ Fork(c) = <<>>
     \/ At(c, "link") /\ Len(Fork(c)) = 1
  /\ End(c)
  /\ unreadable' = unreadable \cup {call[c].fork}
  /\ lock' = [f \in Forks |-> IF lock[f] = c THEN Nobody ELSE lock[f]]
  /\ interrupted' = interrupted \cup Holds(c)
  /\ UNCHANGED <<sourceVars, fork, answers>>

Next ==
  \/ BeginLine \/ EndLine \/ ReplaceHead \/ SourceCrash \/ SourceDamage
  \/ \E f \in Forks : Work(f)
  \/ \E c \in Callers :
       \/ ReadEvents(c) \/ ReadHead(c)
       \/ LockFork(c) \/ Examine(c) \/ AppendCreated(c) \/ AppendRecovered(c)
       \/ Die(c) \/ DieInAppend(c)

Spec == Init /\ [][Next]_vars

-----------------------------------------------------------------------------
(* Properties *)

\* An audit that finds the source writable is right about a moment the source went
\* through: stream and head, read one after the other without a lock, did agree on
\* that very prefix.
SoundAuditsSawSoundRuns ==
  \A a \in answers : a.audit.reason = "ok" => a.audit.prefix \in sound

\* Nobody meets a fork that has its creation and not its provenance, unless a recovery
\* has died in it: the two appends look like one to whoever takes the lock.
ForksAreBornLinked ==
  \A f \in Forks :
    lock[f] = Nobody /\ f \notin interrupted /\ fork[f] # <<>> /\ fork[f][1] = Created
      => Len(fork[f]) > 1 /\ fork[f][2].type = "recovered"

\* "Any mismatched creation, provenance payload, extra event, or unexpected destination
\* material blocks the retry" (Graph-Theory/recovery.md): a provenance event follows
\* its creation directly and is the only one, also in a fork that was worked on after
\* a recovery died in it.
ProvenanceComesSecond ==
  \A f \in Forks : \A n \in 1..Len(fork[f]) :
    fork[f][n].type = "recovered" => n = 2 /\ fork[f][1] = Created

\* A caller that gets an answer gets the provenance the fork has, however the source
\* moved between the tries that made it.
AnswersAreOnTheStream ==
  \A a \in answers :
    Len(fork[a.fork]) > 1 /\ fork[a.fork][2] = Recovered(a.audit)
=============================================================================
