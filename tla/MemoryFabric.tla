---------------------------- MODULE MemoryFabric ----------------------------
(***************************************************************************)
(* What the store is used by: runs that promote lessons, a sidecar that is *)
(* kept up to date, and others that write notes or rewrite the file.  Each *)
(* promotion holds its own run's lock, each append the writer lock, each   *)
(* refresh the sidecar's.                                                  *)
(*                                                                         *)
(* A refresh writes nothing that a promotion reads, and to a refresh a     *)
(* promotion is one more append.  So the two are explored side by side and *)
(* not interleaved: a behaviour has the one or the other.                  *)
(***************************************************************************)
EXTENDS Promotion, GraphIndex

VARIABLE side   \* "runs" or "sidecar"

vars == <<storeVars, runVars, indexVars, side>>

Init ==
  /\ StoreInit /\ PromotionInit /\ IndexInit
  /\ side \in {"runs", "sidecar"}

Promoting ==
  /\ side = "runs"
  /\ \E r \in Runs :
       \/ \E k \in Keys, q \in Requests : Propose(r, k, q)
       \/ Step(r)
       \/ Transition(r)
       \/ Die(r)
  /\ UNCHANGED indexVars

Indexing ==
  /\ side = "sidecar"
  /\ Check \/ Scan \/ Commit \/ Abandon \/ LoseIndex
  /\ UNCHANGED runVars

Noting ==
  \/ (BeginNote \/ EndNote) /\ UNCHANGED <<runVars, indexVars>>
  \/ NoteDies /\ UNCHANGED indexVars

Rewriting == Rewrite /\ Overtake /\ UNCHANGED runVars

Next == (Promoting \/ Indexing \/ Noting \/ Rewriting) /\ UNCHANGED side

Spec == Init /\ [][Next]_vars

\* A call that is under way goes on, and so does the append of a note.  A caller
\* repeats an activation until it is settled, and not always while some line is
\* half written; nothing is assumed of repetitions whose audit may meet half a
\* character left in the store.
MayRaise(l) == cut # {} /\ Refs[l] # {}
Repeat(r, k) ==
  \E q \in Intent(r, k) : q.activate /\ ~MayRaise(q.lesson) /\ Propose(r, k, q)

Fairness ==
  /\ WF_vars(EndNote /\ UNCHANGED <<runVars, indexVars, side>>)
  /\ \A r \in Runs :
       /\ WF_vars(Step(r) /\ UNCHANGED <<indexVars, side>>)
       /\ \A k \in Keys : WF_vars(Repeat(r, k) /\ UNCHANGED <<indexVars, side>>)

FairSpec == Spec /\ Fairness

-----------------------------------------------------------------------------
(* Properties *)

\* A run that journalled "activated" for a lesson has ended, and its record is in the
\* store, as it was meant and once: whatever the writer raised, whoever died, and
\* whatever else was being appended (controller.py:2329-2372).
ReceiptsAreEarned ==
  edits = 0 =>
    \A r \in Runs, k \in Keys, q \in Requests :
      Candidate(k, q) \in Range(log[r]) /\ Outcome(k, TRUE) \in Range(log[r])
        => Terminal(r) /\ \E n \in DOMAIN store :
             store[n] = RecordOf(r, q.lesson) /\ Places(<<r, q.lesson>>) = {n}

\* Retries after a crash, and a second key for the lesson, find the record and do not
\* write it again; and no record is there that its run has not journalled first.
PromotedOnceAndOnRecord ==
  edits = 0 =>
    \A r \in Runs, l \in Lessons :
      Known(<<r, l>>) =>
        /\ Cardinality(Places(<<r, l>>)) = 1
        /\ \E k \in Keys :
             Candidate(k, [lesson |-> l, activate |-> TRUE]) \in Range(log[r])

\* A candidate whose activation was asked for gets its receipt or its failure, also
\* when other events came between (controller.py:2355-2359, "or a recoverable side
\* effect would remain permanently receipt-less").  What can keep it from them is a
\* store left with half a character in it for good, over which the audit of a
\* lesson that refers to others stumbles on every repetition.
IntentsAreSettled ==
  \A r \in Runs, k \in Keys :
    \/ (\E q \in Intent(r, k) : q.activate) ~> Settled(r, k)
    \/ <>[](\E q \in Intent(r, k) : MayRaise(q.lesson))

\* What a reader of the sidecar gets is what a rebuild would give it: each id's last
\* line, up to a line no earlier than the last complete one when the call began; unless
\* the file was rewritten under the very refresh that made it.
ReadersSeeTheStore ==
  [][Commit /\ ~index'.overtaken =>
       /\ index'.offset \in refresh.since..Len(store)
       /\ index'.rows = {store[n] : n \in
            {m \in 1..index'.offset : store[m] # Bad /\
               \A o \in m+1..index'.offset : store[o] = Bad \/ store[o].id # store[m].id}}
    ]_vars
=============================================================================
