----------------------------- MODULE Promotion -----------------------------
(***************************************************************************)
(* RuntimeController.promote: a lesson becomes an active memory record.    *)
(*                                                                         *)
(* The call holds its run's transition lock throughout: it journals the    *)
(* candidate under the caller's key, writes the record to the store, and   *)
(* journals a receipt or a failure under a key of its own.  A process may  *)
(* die between any two steps; a call repeated under the key goes on from   *)
(* the candidate.                                                          *)
(***************************************************************************)
EXTENDS MemoryStore

CONSTANTS
  Runs, Keys, Lessons,
  Refs,        \* Refs[l]: the lessons whose records l refers to
  MaxEvents,   \* bound on the events a run has before a new candidate
  MaxDeaths    \* bound on processes that die

ASSUME PromotionAssumption ==
  /\ Ids = (Runs \X Lessons) \cup NoteIds /\ NoteIds \cap (Runs \X Lessons) = {}
  /\ Else \notin Runs /\ Nobody \notin Runs
  /\ Refs \in [Lessons -> SUBSET Lessons]
  /\ MaxEvents \in Nat /\ MaxDeaths \in Nat

Requests == [lesson : Lessons, activate : BOOLEAN]
Other == [type |-> "other"]
Finished == [type |-> "finished"]
Candidate(k, q) == [type |-> "candidate", key |-> k, request |-> q]
Outcome(k, ok) == [type |-> IF ok THEN "receipt" ELSE "failed", key |-> k]

VARIABLES
  log,     \* log[r]: the events of run r
  call,    \* call[r]: the promote that holds r's transition lock
  deaths

runVars == <<log, call, deaths>>

Idle == [step |-> "idle"]

PromotionInit ==
  /\ log = [r \in Runs |-> <<>>]
  /\ call = [r \in Runs |-> Idle]
  /\ deaths = 0

At(r, step) == call[r].step = step
Goto(r, step) == call' = [call EXCEPT ![r].step = step]

Has(r, k, types) == \E n \in DOMAIN log[r] : log[r][n].type \in types /\ log[r][n].key = k
Intent(r, k) == {q \in Requests : \E n \in DOMAIN log[r] : log[r][n] = Candidate(k, q)}
Settled(r, k) == Has(r, k, {"receipt", "failed"})
Terminal(r) == \E n \in DOMAIN log[r] : log[r][n] = Finished

RecordOf(r, l) == [id |-> <<r, l>>, body |-> 0]
Mine(r) == RecordOf(r, call[r].request.lesson)

-----------------------------------------------------------------------------
(* promote *)

\* _memory_reference_audit: a lesson that refers to records needs a store that
\* parses, has each id once, and has them.
ReferencesHold(r, l) ==
  Refs[l] = {} \/ /\ Readable
                  /\ \A id \in Ids : Cardinality(Places(id)) <= 1
                  /\ \A m \in Refs[l] : Known(<<r, m>>)

\* The audit reckons with lines that do not parse, and not with bytes that do not
\* decode: half a character with no line before it that ends the reading raises
\* out of promote, before anything is looked up or journalled.  (A call that meets
\* one in a line still being written, or decodes it in one buffer with a line that
\* does not parse, does nothing either, and is not told from no call.)
AuditRaises(l) ==
  Refs[l] # {} /\ \E c \in cut : \A n \in 1..(c - 1) : store[n] # Bad

\* A settled key is answered, and a key with another request refused.  The
\* audits of evidence, usage and conflicts may fail on any call.
Propose(r, k, q) ==
  /\ At(r, "idle") /\ ~AuditRaises(q.lesson) /\ ~Settled(r, k)
  /\ Intent(r, k) \subseteq {q}
  /\ IF Intent(r, k) = {}
     THEN Len(log[r]) < MaxEvents /\ log' = [log EXCEPT ![r] = Append(@, Candidate(k, q))]
     ELSE UNCHANGED log
  /\ \/ ~q.activate /\ UNCHANGED call
     \/ /\ q.activate
        /\ \E audited \in BOOLEAN :
             LET eligible == Terminal(r) /\ ReferencesHold(r, q.lesson) /\ audited
             IN  call' = [call EXCEPT ![r] =
                            [step |-> IF eligible THEN "look" ELSE "settle",
                             key |-> k, request |-> q, ok |-> FALSE]]
  /\ UNCHANGED <<storeVars, deaths>>

Succeed(r) ==
  call' = [call EXCEPT ![r] = [step |-> "settle", key |-> call[r].key,
                               request |-> call[r].request, ok |-> TRUE]]

\* _memory_record_exists: it raises on a line that does not parse, and on a
\* record that is there twice or with other content.
Exists(r) ==
  /\ Readable
  /\ \E n \in DOMAIN store : store[n] = Mine(r) /\ Places(Mine(r).id) = {n}
Absent(r) == Readable /\ ~Known(Mine(r).id)

\* Fault: the store is not searched before the writer is called.
WriteAtOnce(r) ==
  /\ At(r, "look")
  /\ Goto(r, "write")
  /\ UNCHANGED <<storeVars, log, deaths>>

Look(r) ==
  /\ At(r, "look")
  /\ \/ Exists(r) /\ Succeed(r)
     \/ Absent(r) /\ Goto(r, "write")
     \/ ~Exists(r) /\ ~Absent(r) /\ Goto(r, "recheck")
  /\ UNCHANGED <<storeVars, log, deaths>>

Write(r) ==
  /\ At(r, "write")
  /\ \/ BeginLine(r) /\ Goto(r, "writing")
     \/ RefusesTail /\ Goto(r, "recheck") /\ UNCHANGED storeVars
  /\ UNCHANGED <<log, deaths>>

\* The writer returns, or raises before or after the line is complete.
Written(r) ==
  /\ At(r, "writing")
  /\ \/ EndLine(r, Mine(r)) /\ (Goto(r, "verify") \/ Goto(r, "recheck"))
     \/ LeaveTail(r) /\ Goto(r, "recheck")
  /\ UNCHANGED <<log, deaths>>

Verify(r) ==
  /\ At(r, "verify")
  /\ IF Exists(r) THEN Succeed(r) ELSE Goto(r, "recheck")
  /\ UNCHANGED <<storeVars, log, deaths>>

\* Fault: a writer that raised is believed to have written.
RecheckNothing(r) ==
  /\ At(r, "recheck")
  /\ Succeed(r)
  /\ UNCHANGED <<storeVars, log, deaths>>

\* After an error: is the record there all the same?
Recheck(r) ==
  /\ At(r, "recheck")
  /\ IF Exists(r) THEN Succeed(r) ELSE Goto(r, "settle")
  /\ UNCHANGED <<storeVars, log, deaths>>

\* Fault: the receipt expects the revision of its candidate.
SettleBehindCandidate(r) ==
  /\ At(r, "settle")
  /\ log' = IF log[r][Len(log[r])] = Candidate(call[r].key, call[r].request)
            THEN [log EXCEPT ![r] = Append(@, Outcome(call[r].key, call[r].ok))]
            ELSE log
  /\ call' = [call EXCEPT ![r] = Idle]
  /\ UNCHANGED <<storeVars, deaths>>

\* The receipt, or the failure, at the head the stream has now.
Settle(r) ==
  /\ At(r, "settle")
  /\ log' = [log EXCEPT ![r] = Append(@, Outcome(call[r].key, call[r].ok))]
  /\ call' = [call EXCEPT ![r] = Idle]
  /\ UNCHANGED <<storeVars, deaths>>

Step(r) == Look(r) \/ Write(r) \/ Written(r) \/ Verify(r) \/ Recheck(r) \/ Settle(r)

-----------------------------------------------------------------------------
(* The rest of the run's life, and deaths *)

\* Other transitions of the run, the one that ends it included.
Transition(r) ==
  /\ At(r, "idle") /\ ~Terminal(r) /\ Len(log[r]) < MaxEvents
  /\ \E e \in {Other, Finished} : log' = [log EXCEPT ![r] = Append(@, e)]
  /\ UNCHANGED <<storeVars, call, deaths>>

Die(r) ==
  /\ ~At(r, "idle") /\ deaths < MaxDeaths
  /\ deaths' = deaths + 1
  /\ call' = [call EXCEPT ![r] = Idle]
  /\ IF writer = r THEN LeaveTail(r) ELSE UNCHANGED storeVars
  /\ UNCHANGED log

\* One of the others dies in a line.
NoteDies ==
  /\ deaths < MaxDeaths
  /\ deaths' = deaths + 1
  /\ LeaveTail(Else)
  /\ UNCHANGED <<log, call>>
=============================================================================
