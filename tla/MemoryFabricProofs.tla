------------------------- MODULE MemoryFabricProofs -------------------------
(***************************************************************************)
(* Theorems about MemoryFabric, for any number of runs, keys, lessons,     *)
(* notes, readers, rewritings and deaths: while nobody rewrites the store, *)
(* what a receipt is worth and that a record is written once; and always,  *)
(* what the sidecar shows.                                                 *)
(***************************************************************************)
EXTENDS MemoryFabric, TLAPS, SequenceTheorems, FiniteSetTheorems,
        NaturalsInduction, WellFoundedInduction

-----------------------------------------------------------------------------
(* Types *)

Activations == [lesson : Lessons, activate : {TRUE}]
Steps == {"look", "write", "writing", "verify", "recheck"}
Trying == [step : Steps, key : Keys, request : Activations, ok : {FALSE}]
Tried == [step : {"settle"}, key : Keys, request : Activations, ok : BOOLEAN]
Calls == Trying \cup Tried

Events ==
  {Other, Finished} \cup {Candidate(k, q) : k \in Keys, q \in Requests}
    \cup {Outcome(k, ok) : k \in Keys, ok \in BOOLEAN}

TypeOK ==
  /\ edits \in Nat
  /\ log \in [Runs -> Seq(Events)]
  /\ call \in [Runs -> {Idle} \cup Calls]

\* Lines: what a sequence holds grows by what is appended.
LEMMA Appended ==
  ASSUME NEW S, NEW s \in Seq(S), NEW e \in S
  PROVE  /\ Append(s, e) \in Seq(S)
         /\ DOMAIN Append(s, e) = DOMAIN s \cup {Len(s) + 1}
         /\ \A n \in DOMAIN s : n # Len(s) + 1 /\ Append(s, e)[n] = s[n]
         /\ Append(s, e)[Len(s) + 1] = e
         /\ Range(Append(s, e)) = Range(s) \cup {e}
<1>1. /\ Append(s, e) \in Seq(S) /\ Len(Append(s, e)) = Len(s) + 1
      /\ \A n \in 1..Len(s) : Append(s, e)[n] = s[n]
      /\ Append(s, e)[Len(s) + 1] = e
  BY AppendProperties
<1>2. /\ DOMAIN s = 1..Len(s) /\ Len(s) \in Nat
      /\ DOMAIN Append(s, e) = 1..(Len(s) + 1)
  BY <1>1
<1>3. DOMAIN Append(s, e) = DOMAIN s \cup {Len(s) + 1} /\ Len(s) + 1 \notin DOMAIN s
  BY <1>2
<1>4. Range(Append(s, e)) = Range(s) \cup {e}
  BY <1>1, <1>2, <1>3 DEF Range
<1>5. QED
  BY <1>1, <1>2, <1>3, <1>4

LEMMA NamesApart ==
  /\ \A k, l, q, r : Candidate(k, q) = Candidate(l, r) <=> k = l /\ q = r
  /\ \A k, l : Outcome(k, TRUE) = Outcome(l, TRUE) <=> k = l
  /\ \A k, l, q, ok : Candidate(k, q) # Outcome(l, ok)
  /\ \A k, q : Candidate(k, q) \notin {Other, Finished}
  /\ \A k, ok : Outcome(k, ok) \notin {Other, Finished}
  /\ \A k, l : Outcome(k, TRUE) # Outcome(l, FALSE)
BY DEF Candidate, Outcome, Other, Finished

\* What the guards look for on the stream.
LEMMA Found ==
  ASSUME NEW r \in Runs, TypeOK
  PROVE  /\ Terminal(r) <=> Finished \in Range(log[r])
         /\ \A k : Intent(r, k) = {q \in Requests : Candidate(k, q) \in Range(log[r])}
         /\ \A k \in Keys : Outcome(k, TRUE) \in Range(log[r]) => Settled(r, k)
<1>1. Terminal(r) <=> Finished \in Range(log[r])
  BY DEF Terminal, Range
<1>2. \A k : Intent(r, k) = {q \in Requests : Candidate(k, q) \in Range(log[r])}
  BY DEF Intent, Range
<1>3. ASSUME NEW k \in Keys, Outcome(k, TRUE) \in Range(log[r]) PROVE Settled(r, k)
  <2>1. PICK n \in DOMAIN log[r] : log[r][n] = Outcome(k, TRUE)
    BY <1>3 DEF Range
  <2>2. log[r][n].type \in {"receipt", "failed"} /\ log[r][n].key = k
    BY <2>1 DEF Outcome
  <2>3. QED
    BY <2>2 DEF Settled, Has
<1>4. QED
  BY <1>1, <1>2, <1>3

-----------------------------------------------------------------------------
(* What the steps of a call do to the variables *)

LEMMA MineIsARecord ==
  ASSUME NEW r \in Runs, call[r] \in Calls
  PROVE  /\ Mine(r) \in Records
         /\ Mine(r) = RecordOf(r, call[r].request.lesson)
         /\ Mine(r).id = <<r, call[r].request.lesson>>
         /\ Mine(r).id \notin NoteIds
<1>1. call[r].request.lesson \in Lessons
  BY DEF Calls, Trying, Tried, Activations
<1>2. QED
  BY <1>1, PromotionAssumption DEF Mine, RecordOf, Records, Bodies

\* The call goes on, for what it was made for.
Continues(r) ==
  /\ call' \in [Runs -> {Idle} \cup Calls]
  /\ call'[r] \in Calls
  /\ call'[r].key = call[r].key /\ call'[r].request = call[r].request
  /\ \A s \in Runs \ {r} : call'[s] = call[s]

LEMMA GotoIs ==
  ASSUME TypeOK, NEW r \in Runs, call[r] \in Trying, NEW step \in Steps \cup {"settle"},
         Goto(r, step)
  PROVE  Continues(r) /\ call'[r].step = step /\ call'[r].ok = FALSE
<1>1. /\ call'[r].step = step /\ call'[r].key = call[r].key
      /\ call'[r].request = call[r].request /\ call'[r].ok = call[r].ok
  BY DEF Goto, TypeOK, Trying
<1>2. \A s \in Runs \ {r} : call'[s] = call[s]
  BY DEF Goto, TypeOK
<1>3. call[r].ok = FALSE
  BY DEF Trying
<1>4. step \in Steps => [call[r] EXCEPT !.step = step] \in Trying
  BY DEF Trying
<1>5. step = "settle" => [call[r] EXCEPT !.step = step] \in Tried
  BY DEF Trying, Tried
<1>6. call' = [call EXCEPT ![r] = [call[r] EXCEPT !.step = step]]
  BY DEF Goto
<1>7. call'[r] \in Calls /\ call' \in [Runs -> {Idle} \cup Calls]
  BY <1>4, <1>5, <1>6 DEF TypeOK, Calls
<1>8. QED
  BY <1>1, <1>2, <1>3, <1>7 DEF Continues

LEMMA SucceedIs ==
  ASSUME TypeOK, NEW r \in Runs, call[r] \in Trying, Succeed(r)
  PROVE  Continues(r) /\ call'[r].step = "settle"
<1>1. [step |-> "settle", key |-> call[r].key, request |-> call[r].request, ok |-> TRUE]
        \in Calls
  BY DEF Calls, Trying, Tried
<1>2. QED
  BY <1>1 DEF Continues, TypeOK, Succeed

LEMMA EndIs ==
  ASSUME TypeOK, NEW r \in Runs, call' = [call EXCEPT ![r] = Idle]
  PROVE  /\ call' \in [Runs -> {Idle} \cup Calls]
         /\ call'[r] = Idle
         /\ \A s \in Runs \ {r} : call'[s] = call[s]
BY DEF TypeOK

Active(r) == Look(r) \/ Write(r) \/ Written(r) \/ Verify(r) \/ Recheck(r)

LEMMA ActiveCalls ==
  ASSUME TypeOK, NEW r \in Runs, Active(r)
  PROVE  call[r] \in Trying /\ log' = log /\ edits' = edits
<1>1. call[r].step \in Steps
  BY DEF Active, Look, Write, Written, Verify, Recheck, At, Steps
<1>2. call[r] \in Trying
  <2>1. call[r] \in {Idle} \cup Trying \cup Tried
    BY DEF TypeOK, Calls
  <2>2. call[r] # Idle /\ call[r] \notin Tried
    BY <1>1 DEF Idle, Tried, Steps
  <2>3. QED
    BY <2>1, <2>2
<1>3. log' = log
  BY DEF Active, Look, Write, Written, Verify, Recheck
<1>4. edits' = edits
  BY DEF Active, Look, Write, Written, Verify, Recheck, storeVars, BeginLine, EndLine,
         LeaveTail
<1>5. QED
  BY <1>2, <1>3, <1>4

\* The record of r's lesson is in the store.
There(r) == \E n \in DOMAIN store : store[n] = Mine(r)

\* Where a step of a call leads, and what it has seen when it leads there.
Led(r) ==
  /\ Continues(r)
  /\ call'[r].step = "write" => store' = store /\ ~Known(Mine(r).id)
  /\ call'[r].step = "writing" => store' = store /\ At(r, "write")
  /\ call'[r].step = "settle" /\ call'[r].ok => store' = store /\ There(r)
  /\ \/ store' = store
     \/ /\ At(r, "writing") /\ store' = Append(store, Mine(r))
        /\ call'[r].step \in {"verify", "recheck"}

LEMMA Leading ==
  ASSUME TypeOK, NEW r \in Runs, Active(r)
  PROVE  Led(r)
<1> USE DEF Led
<1>0. call[r] \in Trying
  BY ActiveCalls
<1>1. ASSUME NEW step \in {"verify", "recheck"}, Goto(r, step),
             \/ store' = store
             \/ At(r, "writing") /\ store' = Append(store, Mine(r))
      PROVE  Led(r)
  <2>1. Continues(r) /\ call'[r].step = step
    BY <1>0, <1>1, GotoIs DEF Steps
  <2>2. QED
    BY <1>1, <2>1
<1>2. ASSUME Succeed(r), Exists(r), store' = store PROVE Led(r)
  <2>1. Continues(r) /\ call'[r].step = "settle"
    BY <1>0, <1>2, SucceedIs
  <2>2. There(r)
    BY <1>2 DEF Exists, There
  <2>3. QED
    BY <1>2, <2>1, <2>2
<1>3. ASSUME Look(r) PROVE Led(r)
  <2>1. store' = store
    BY <1>3 DEF Look, storeVars
  <2>2. ASSUME Absent(r), Goto(r, "write") PROVE Led(r)
    <3>1. Continues(r) /\ call'[r].step = "write"
      BY <1>0, <2>2, GotoIs DEF Steps
    <3>2. QED
      BY <2>1, <2>2, <3>1 DEF Absent
  <2>3. QED
    BY <1>1, <1>2, <1>3, <2>1, <2>2 DEF Look
<1>4. ASSUME Write(r) PROVE Led(r)
  <2>1. store' = store
    BY <1>4 DEF Write, BeginLine, storeVars
  <2>2. ASSUME Goto(r, "writing") PROVE Led(r)
    <3>1. Continues(r) /\ call'[r].step = "writing"
      BY <1>0, <2>2, GotoIs DEF Steps
    <3>2. QED
      BY <1>4, <2>1, <3>1 DEF Write
  <2>3. QED
    BY <1>1, <1>4, <2>1, <2>2 DEF Write
<1>5. ASSUME Written(r) PROVE Led(r)
  BY <1>1, <1>5 DEF Written, EndLine, LeaveTail
<1>6. ASSUME Verify(r) PROVE Led(r)
  <2>1. store' = store
    BY <1>6 DEF Verify, storeVars
  <2>2. QED
    BY <1>1, <1>2, <1>6, <2>1 DEF Verify
<1>7. ASSUME Recheck(r) PROVE Led(r)
  <2>1. store' = store
    BY <1>7 DEF Recheck, storeVars
  <2>2. ASSUME Goto(r, "settle") PROVE Led(r)
    <3>1. Continues(r) /\ call'[r].step = "settle" /\ call'[r].ok = FALSE
      BY <1>0, <2>2, GotoIs
    <3>2. QED
      BY <2>1, <3>1
  <2>3. QED
    BY <1>2, <1>7, <2>1, <2>2 DEF Recheck
<1>8. QED
  BY <1>3, <1>4, <1>5, <1>6, <1>7 DEF Active

-----------------------------------------------------------------------------
(* What they do to the stream *)

Journals(r, e) == log' = [log EXCEPT ![r] = Append(@, e)]

LEMMA Journalled ==
  ASSUME TypeOK, NEW r \in Runs, NEW e \in Events, Journals(r, e)
  PROVE  /\ log' \in [Runs -> Seq(Events)]
         /\ Range(log'[r]) = Range(log[r]) \cup {e}
         /\ \A s \in Runs \ {r} : log'[s] = log[s]
<1>1. log[r] \in Seq(Events)
  BY DEF TypeOK
<1>2. Append(log[r], e) \in Seq(Events) /\ Range(Append(log[r], e)) = Range(log[r]) \cup {e}
  BY <1>1, Appended
<1>3. log'[r] = Append(log[r], e)
  BY DEF TypeOK, Journals
<1>4. QED
  BY <1>2, <1>3 DEF TypeOK, Journals

\* The stream of a proposal, and the call that it makes.
Proposed(r, k, q) ==
  /\ edits' = edits /\ store' = store
  /\ \/ log' = log /\ Candidate(k, q) \in Range(log[r])
     \/ Journals(r, Candidate(k, q))
  /\ \/ call' = call
     \/ /\ q \in Activations
        /\ call' \in [Runs -> {Idle} \cup Calls]
        /\ \A s \in Runs \ {r} : call'[s] = call[s]
        /\ call'[r] \in Trying \cup Tried
        /\ call'[r].step \in {"look", "settle"}
        /\ call'[r].key = k /\ call'[r].request = q /\ call'[r].ok = FALSE
        /\ call'[r] \in Trying => Finished \in Range(log[r])

LEMMA Proposing ==
  ASSUME TypeOK, NEW r \in Runs, NEW k \in Keys, NEW q \in Requests, Propose(r, k, q)
  PROVE  Proposed(r, k, q)
<1>1. edits' = edits /\ store' = store
  BY DEF Propose, storeVars
<1>2. \/ log' = log /\ Candidate(k, q) \in Range(log[r])
      \/ Journals(r, Candidate(k, q))
  <2>1. CASE Intent(r, k) = {}
    BY <2>1 DEF Propose, Journals
  <2>2. CASE Intent(r, k) # {}
    <3>1. q \in Intent(r, k)
      BY <2>2 DEF Propose
    <3>2. Candidate(k, q) \in Range(log[r])
      BY <3>1, Found
    <3>3. QED
      BY <2>2, <3>2 DEF Propose
  <2>3. QED
    BY <2>1, <2>2
<1>3. ASSUME NEW eligible \in BOOLEAN, eligible => Terminal(r), q.activate,
             call' = [call EXCEPT ![r] =
                        [step |-> IF eligible THEN "look" ELSE "settle",
                         key |-> k, request |-> q, ok |-> FALSE]]
      PROVE  /\ q \in Activations
             /\ call' \in [Runs -> {Idle} \cup Calls]
             /\ \A s \in Runs \ {r} : call'[s] = call[s]
             /\ call'[r] \in Trying \cup Tried
             /\ call'[r].step \in {"look", "settle"}
             /\ call'[r].key = k /\ call'[r].request = q /\ call'[r].ok = FALSE
             /\ call'[r] \in Trying => Finished \in Range(log[r])
  <2>1. q \in Activations
    BY <1>3 DEF Requests, Activations
  <2>2. [step |-> "look", key |-> k, request |-> q, ok |-> FALSE] \in Trying
    BY <2>1 DEF Trying, Steps
  <2>3. [step |-> "settle", key |-> k, request |-> q, ok |-> FALSE] \in Tried \ Trying
    BY <2>1 DEF Trying, Tried, Steps
  <2>4. \A s \in Runs \ {r} : call'[s] = call[s]
    BY <1>3 DEF TypeOK
  <2>5. CASE eligible
    <3>1. call'[r] = [step |-> "look", key |-> k, request |-> q, ok |-> FALSE]
      BY <1>3, <2>5 DEF TypeOK
    <3>2. Finished \in Range(log[r])
      BY <1>3, <2>5, Found
    <3>3. call' \in [Runs -> {Idle} \cup Calls]
      BY <1>3, <2>2, <2>5 DEF TypeOK, Calls
    <3>4. QED
      BY <2>1, <2>2, <2>4, <3>1, <3>2, <3>3
  <2>6. CASE ~eligible
    <3>1. call'[r] = [step |-> "settle", key |-> k, request |-> q, ok |-> FALSE]
      BY <1>3, <2>6 DEF TypeOK
    <3>2. call' \in [Runs -> {Idle} \cup Calls]
      BY <1>3, <2>3, <2>6 DEF TypeOK, Calls
    <3>3. QED
      BY <2>1, <2>3, <2>4, <3>1, <3>2
  <2>7. QED
    BY <1>3, <2>5, <2>6
<1>4. CASE UNCHANGED call
  BY <1>1, <1>2, <1>4 DEF Proposed
<1>5. CASE ~UNCHANGED call
  <2>1. PICK audited \in BOOLEAN :
          q.activate /\
          call' = [call EXCEPT ![r] =
                     [step |-> IF Terminal(r) /\ ReferencesHold(r, q.lesson) /\ audited
                               THEN "look" ELSE "settle",
                      key |-> k, request |-> q, ok |-> FALSE]]
    BY <1>5 DEF Propose
  <2>2. QED
    BY <1>1, <1>2, <1>3, <2>1 DEF Proposed
<1>6. QED
  BY <1>4, <1>5

\* What others append.
Noted ==
  /\ UNCHANGED <<edits, log, call>>
  /\ \/ store' = store
     \/ \E note \in Records : note.id \in NoteIds /\ store' = Append(store, note)

LEMMA NotingIs == ASSUME Noting PROVE Noted
<1>1. ASSUME EndNote, UNCHANGED <<runVars, indexVars>> PROVE Noted
  <2>1. PICK id \in NoteIds, body \in Bodies : EndLine(Else, [id |-> id, body |-> body])
    BY <1>1 DEF EndNote
  <2>2. [id |-> id, body |-> body] \in Records
    BY StoreAssumption DEF Records
  <2>3. [id |-> id, body |-> body].id \in NoteIds
    OBVIOUS
  <2>4. QED
    BY <1>1, <2>1, <2>2, <2>3 DEF EndLine, Noted, runVars
<1>2. ASSUME BeginNote, UNCHANGED <<runVars, indexVars>> PROVE Noted
  BY <1>2 DEF BeginNote, BeginLine, Noted, runVars
<1>3. ASSUME NoteDies PROVE Noted
  BY <1>3 DEF NoteDies, LeaveTail, Noted
<1>4. QED
  BY <1>1, <1>2, <1>3 DEF Noting

\* A step of MemoryFabric, as it is used below.
LEMMA Cases ==
  ASSUME [Next]_vars
  PROVE  \/ \E r \in Runs, k \in Keys, q \in Requests : Propose(r, k, q)
         \/ \E r \in Runs : Active(r)
         \/ \E r \in Runs : Settle(r)
         \/ \E r \in Runs : Transition(r)
         \/ \E r \in Runs : Die(r)
         \/ Noted
         \/ edits' = edits + 1 /\ UNCHANGED <<log, call>>
<1>1. CASE Promoting
  BY <1>1 DEF Promoting, Step, Active
<1>2. CASE Indexing \/ UNCHANGED vars
  BY <1>2 DEF Indexing, Check, Scan, Commit, Abandon, LoseIndex, Noted, vars, storeVars,
              runVars
<1>3. CASE Noting
  BY <1>3, NotingIs
<1>4. CASE Rewriting
  BY <1>4 DEF Rewriting, Rewrite, runVars
<1>5. QED
  BY <1>1, <1>2, <1>3, <1>4 DEF Next

-----------------------------------------------------------------------------
(* Invariants of the streams, which hold whatever becomes of the store *)

\* A call has its candidate on the stream, and its run has ended if it gets to the
\* store, or is to report success.
Working ==
  \A r \in Runs : call[r] \in Calls =>
    /\ Candidate(call[r].key, call[r].request) \in Range(log[r])
    /\ call[r] \in Trying \/ call[r].ok => Finished \in Range(log[r])

\* One request to a key.
OneIntent ==
  \A r \in Runs, k \in Keys, p, q \in Requests :
    Candidate(k, p) \in Range(log[r]) /\ Candidate(k, q) \in Range(log[r]) => p = q

LEMMA Types == ASSUME TypeOK, [Next]_vars PROVE TypeOK'
<1>1. ASSUME NEW r \in Runs, NEW k \in Keys, NEW q \in Requests, Propose(r, k, q)
      PROVE  TypeOK'
  <2>1. Proposed(r, k, q)
    BY <1>1, Proposing
  <2>2. Candidate(k, q) \in Events
    BY DEF Events
  <2>3. log' \in [Runs -> Seq(Events)]
    BY <2>1, <2>2, Journalled DEF Proposed, TypeOK
  <2>4. QED
    BY <2>1, <2>3 DEF Proposed, TypeOK
<1>2. ASSUME NEW r \in Runs, Active(r) PROVE TypeOK'
  BY <1>2, ActiveCalls, Leading DEF Led, Continues, TypeOK
<1>3. ASSUME NEW r \in Runs, Settle(r) PROVE TypeOK'
  <2>1. call[r] \in Calls
    BY <1>3 DEF Settle, At, TypeOK, Idle
  <2>0. call[r].key \in Keys /\ call[r].ok \in BOOLEAN
    BY <2>1 DEF Calls, Trying, Tried
  <2>2. Outcome(call[r].key, call[r].ok) \in Events
    BY <2>0 DEF Events
  <2>3. log' \in [Runs -> Seq(Events)]
    BY <1>3, <2>2, Journalled DEF Settle, Journals
  <2>4. QED
    BY <1>3, <2>3, EndIs DEF Settle, TypeOK, storeVars
<1>4. ASSUME NEW r \in Runs, Transition(r) PROVE TypeOK'
  <2>1. PICK e \in {Other, Finished} : Journals(r, e)
    BY <1>4 DEF Transition, Journals
  <2>2. e \in Events
    BY DEF Events
  <2>3. log' \in [Runs -> Seq(Events)]
    BY <2>1, <2>2, Journalled
  <2>4. QED
    BY <1>4, <2>3 DEF Transition, TypeOK, storeVars
<1>5. ASSUME NEW r \in Runs, Die(r) PROVE TypeOK'
  BY <1>5, EndIs DEF Die, LeaveTail, storeVars, TypeOK
<1>6. CASE Noted
  BY <1>6 DEF Noted, TypeOK
<1>7. CASE edits' = edits + 1 /\ UNCHANGED <<log, call>>
  BY <1>7 DEF TypeOK
<1>8. QED
  BY <1>1, <1>2, <1>3, <1>4, <1>5, <1>6, <1>7, Cases

LEMMA WorkingStays ==
  ASSUME TypeOK, Working, [Next]_vars PROVE Working'
<1> USE DEF Working
\* Streams only grow, so who does not move is as well off as before.
<1>1. ASSUME NEW s \in Runs, call'[s] = call[s], Range(log[s]) \subseteq Range(log'[s]),
             call[s] \in Calls
      PROVE  /\ Candidate(call[s].key, call[s].request) \in Range(log'[s])
             /\ call[s] \in Trying \/ call[s].ok => Finished \in Range(log'[s])
  BY <1>1
<1>2. ASSUME NEW r \in Runs,
             \A s \in Runs \ {r} : call'[s] = call[s] /\ Range(log[s]) \subseteq Range(log'[s]),
             call'[r] \in Calls =>
               /\ Candidate(call'[r].key, call'[r].request) \in Range(log'[r])
               /\ call'[r] \in Trying \/ call'[r].ok => Finished \in Range(log'[r])
      PROVE  Working'
  BY <1>1, <1>2
<1>3. ASSUME NEW r \in Runs, NEW k \in Keys, NEW q \in Requests, Propose(r, k, q)
      PROVE  Working'
  <2>1. Proposed(r, k, q)
    BY <1>3, Proposing
  <2>2. Candidate(k, q) \in Events
    BY DEF Events
  <2>3. /\ \A s \in Runs : Range(log[s]) \subseteq Range(log'[s])
        /\ Candidate(k, q) \in Range(log'[r])
    <3>1. CASE log' = log /\ Candidate(k, q) \in Range(log[r])
      BY <3>1
    <3>2. CASE Journals(r, Candidate(k, q))
      <4>1. /\ Range(log'[r]) = Range(log[r]) \cup {Candidate(k, q)}
            /\ \A s \in Runs \ {r} : log'[s] = log[s]
        BY <2>2, <3>2, Journalled
      <4>2. QED
        BY <4>1
    <3>3. QED
      BY <2>1, <3>1, <3>2 DEF Proposed
  <2>4. CASE call' = call
    BY <1>1, <2>3, <2>4
  <2>5. CASE call' # call
    BY <1>2, <2>1, <2>3, <2>5 DEF Proposed, Tried
  <2>6. QED
    BY <2>4, <2>5
<1>4. ASSUME NEW r \in Runs, Active(r) PROVE Working'
  <2>1. call[r] \in Trying /\ log' = log /\ Continues(r)
    BY <1>4, ActiveCalls, Leading DEF Led
  <2>2. call[r] \in Calls
    BY <2>1 DEF Calls
  <2>3. /\ Candidate(call'[r].key, call'[r].request) \in Range(log'[r])
        /\ Finished \in Range(log'[r])
    BY <2>1, <2>2 DEF Continues
  <2>4. QED
    BY <1>2, <2>1, <2>3 DEF Continues
<1>5. ASSUME NEW r \in Runs, Settle(r) \/ Die(r) PROVE Working'
  <2>1. call'[r] = Idle /\ \A s \in Runs \ {r} : call'[s] = call[s]
    BY <1>5, EndIs DEF Settle, Die
  <2>2. Idle \notin Calls
    BY DEF Idle, Calls, Trying, Tried, Steps
  <2>3. \A s \in Runs \ {r} : log'[s] = log[s]
    BY <1>5 DEF Settle, Die, TypeOK
  <2>4. QED
    BY <1>2, <2>1, <2>2, <2>3
<1>6. ASSUME NEW r \in Runs, Transition(r) PROVE Working'
  <2>1. PICK e \in {Other, Finished} : Journals(r, e)
    BY <1>6 DEF Transition, Journals
  <2>2. e \in Events
    BY DEF Events
  <2>3. \A s \in Runs : Range(log[s]) \subseteq Range(log'[s])
    BY <2>1, <2>2, Journalled
  <2>4. call' = call
    BY <1>6 DEF Transition
  <2>5. QED
    BY <1>1, <2>3, <2>4
<1>7. CASE UNCHANGED <<log, call>>
  BY <1>7
<1>8. QED
  BY <1>3, <1>4, <1>5, <1>6, <1>7, Cases DEF Noted

LEMMA Growing ==
  ASSUME TypeOK, [Next]_vars
  PROVE  \A s \in Runs : Range(log[s]) \subseteq Range(log'[s])
<1>1. ASSUME NEW r \in Runs, NEW e \in Events, Journals(r, e)
      PROVE  \A s \in Runs : Range(log[s]) \subseteq Range(log'[s])
  BY <1>1, Journalled
<1>2. ASSUME NEW r \in Runs, NEW k \in Keys, NEW q \in Requests, Propose(r, k, q)
      PROVE  \A s \in Runs : Range(log[s]) \subseteq Range(log'[s])
  <2>1. log' = log \/ Journals(r, Candidate(k, q))
    BY <1>2, Proposing DEF Proposed
  <2>2. Candidate(k, q) \in Events
    BY DEF Events
  <2>3. QED
    BY <1>1, <2>1, <2>2
<1>3. ASSUME NEW r \in Runs, Settle(r)
      PROVE  \A s \in Runs : Range(log[s]) \subseteq Range(log'[s])
  <2>1. call[r] \in Calls
    BY <1>3 DEF Settle, At, TypeOK, Idle
  <2>2. call[r].key \in Keys /\ call[r].ok \in BOOLEAN
    BY <2>1 DEF Calls, Trying, Tried
  <2>3. Outcome(call[r].key, call[r].ok) \in Events
    BY <2>2 DEF Events
  <2>4. QED
    BY <1>1, <1>3, <2>3 DEF Settle, Journals
<1>4. ASSUME NEW r \in Runs, Transition(r)
      PROVE  \A s \in Runs : Range(log[s]) \subseteq Range(log'[s])
  <2>1. PICK e \in {Other, Finished} : Journals(r, e)
    BY <1>4 DEF Transition, Journals
  <2>2. e \in Events
    BY DEF Events
  <2>3. QED
    BY <1>1, <2>1, <2>2
<1>5. CASE UNCHANGED log
  BY <1>5
<1>6. QED
  BY <1>2, <1>3, <1>4, <1>5, Cases, ActiveCalls DEF Noted, Die

\* Only Propose writes a candidate, and it looks for the key's first.
LEMMA OneIntentStays ==
  ASSUME TypeOK, OneIntent, [Next]_vars PROVE OneIntent'
<1> USE DEF OneIntent
<1>1. ASSUME NEW r \in Runs, NEW e \in Events, Journals(r, e),
             \A k \in Keys, q \in Requests : e # Candidate(k, q)
      PROVE  OneIntent'
  <2>1. /\ Range(log'[r]) = Range(log[r]) \cup {e}
        /\ \A s \in Runs \ {r} : log'[s] = log[s]
    BY <1>1, Journalled
  <2>2. \A s \in Runs, k \in Keys, q \in Requests :
          Candidate(k, q) \in Range(log'[s]) => Candidate(k, q) \in Range(log[s])
    BY <1>1, <2>1
  <2>3. QED
    BY <2>2
<1>2. ASSUME NEW r \in Runs, NEW k \in Keys, NEW q \in Requests, Propose(r, k, q)
      PROVE  OneIntent'
  <2>1. Proposed(r, k, q) /\ Candidate(k, q) \in Events
    BY <1>2, Proposing DEF Events
  <2>2. CASE log' = log
    BY <2>2
  <2>3. CASE Journals(r, Candidate(k, q))
    <3>1. /\ Range(log'[r]) = Range(log[r]) \cup {Candidate(k, q)}
          /\ \A s \in Runs \ {r} : log'[s] = log[s]
      BY <2>1, <2>3, Journalled
    <3>2. \A p \in Requests : Candidate(k, p) \in Range(log[r]) => p = q
      BY <1>2, Found DEF Propose
    <3>3. ASSUME NEW l \in Keys, NEW p \in Requests, Candidate(l, p) \in Range(log'[r])
          PROVE  Candidate(l, p) \in Range(log[r]) \/ (l = k /\ p = q)
      BY <3>1, <3>3, NamesApart
    <3>4. ASSUME NEW l \in Keys, NEW p \in Requests, NEW o \in Requests,
                 Candidate(l, p) \in Range(log'[r]), Candidate(l, o) \in Range(log'[r])
          PROVE  p = o
      BY <3>2, <3>3, <3>4
    <3>5. QED
      BY <3>1, <3>4
  <2>4. QED
    BY <2>1, <2>2, <2>3 DEF Proposed
<1>3. ASSUME NEW r \in Runs, Settle(r) PROVE OneIntent'
  <2>1. call[r] \in Calls
    BY <1>3 DEF Settle, At, TypeOK, Idle
  <2>2. call[r].key \in Keys /\ call[r].ok \in BOOLEAN
    BY <2>1 DEF Calls, Trying, Tried
  <2>3. Outcome(call[r].key, call[r].ok) \in Events
    BY <2>2 DEF Events
  <2>4. Journals(r, Outcome(call[r].key, call[r].ok))
    BY <1>3 DEF Settle, Journals
  <2>5. QED
    BY <1>1, <2>3, <2>4, NamesApart
<1>4. ASSUME NEW r \in Runs, Transition(r) PROVE OneIntent'
  <2>1. PICK e \in {Other, Finished} : Journals(r, e)
    BY <1>4 DEF Transition, Journals
  <2>2. e \in Events
    BY DEF Events
  <2>3. QED
    BY <1>1, <2>1, <2>2, NamesApart
<1>5. CASE UNCHANGED log
  BY <1>5
<1>6. QED
  BY <1>2, <1>3, <1>4, <1>5, Cases, ActiveCalls DEF Noted, Die

-----------------------------------------------------------------------------
(* Invariants of a store that nobody has rewritten *)

Lines == store \in Seq(Records)

\* Who is about to write a record knows that there is none: only a call of the same
\* run could have written it since, and the run's lock is the call's.
Fresh ==
  \A r \in Runs : call[r].step \in {"write", "writing"} =>
    \A n \in DOMAIN store : store[n].id # Mine(r).id

\* Records are notes, or lessons whose promotion is on their run's stream.
Backed(x) ==
  \/ x.id \in NoteIds
  \/ \E r \in Runs, l \in Lessons, k \in Keys :
       /\ x = RecordOf(r, l)
       /\ Candidate(k, [lesson |-> l, activate |-> TRUE]) \in Range(log[r])

Rows == \A n \in DOMAIN store : Backed(store[n])

Single ==
  \A m, n \in DOMAIN store :
    store[m].id = store[n].id /\ store[m].id \notin NoteIds => m = n

\* A call that is to report success has seen the record.
SeenIt == \A r \in Runs : call[r].step = "settle" /\ call[r].ok => There(r)

Earned ==
  \A r \in Runs, k \in Keys, q \in Requests :
    Candidate(k, q) \in Range(log[r]) /\ Outcome(k, TRUE) \in Range(log[r])
      => /\ Finished \in Range(log[r])
         /\ \E n \in DOMAIN store : store[n] = RecordOf(r, q.lesson)

Clean == Lines /\ Fresh /\ Rows /\ Single /\ SeenIt /\ Earned
IInv == TypeOK /\ Working /\ OneIntent /\ (edits = 0 => Clean)

\* The store keeps its lines, and gets one more at most.
LEMMA Persisting ==
  ASSUME Lines, NEW x \in Records, store' = Append(store, x)
  PROVE  /\ Lines'
         /\ DOMAIN store' = DOMAIN store \cup {Len(store) + 1}
         /\ \A n \in DOMAIN store : n # Len(store) + 1 /\ store'[n] = store[n]
         /\ store'[Len(store) + 1] = x
BY Appended DEF Lines

\* What a step may do to a store that stays unrewritten.
Grows ==
  \/ store' = store
  \/ \E x \in Records :
       /\ store' = Append(store, x)
       /\ \/ x.id \in NoteIds /\ UNCHANGED <<log, call>>
          \/ \E r \in Runs :
               /\ x = Mine(r) /\ x.id \notin NoteIds
               /\ call[r] \in Trying /\ call[r].step = "writing"
               /\ log' = log /\ Continues(r)
               /\ call'[r].step \in {"verify", "recheck"}

LEMMA Growth ==
  ASSUME TypeOK, [Next]_vars, edits' = 0 PROVE Grows /\ edits = 0
<1>1. ASSUME NEW r \in Runs, NEW k \in Keys, NEW q \in Requests, Propose(r, k, q)
      PROVE  Grows /\ edits = 0
  BY <1>1, Proposing DEF Proposed, Grows
<1>2. ASSUME NEW r \in Runs, Active(r) PROVE Grows /\ edits = 0
  <2>1. call[r] \in Trying /\ log' = log /\ edits' = edits /\ Led(r)
    BY <1>2, ActiveCalls, Leading
  <2>2. CASE store' = store
    BY <2>1, <2>2 DEF Grows
  <2>3. CASE /\ At(r, "writing") /\ store' = Append(store, Mine(r))
             /\ call'[r].step \in {"verify", "recheck"}
    <3>1. Mine(r) \in Records /\ Mine(r).id \notin NoteIds
      BY <2>1, MineIsARecord DEF Calls
    <3>2. QED
      BY <2>1, <2>3, <3>1 DEF Grows, Led, At
  <2>4. QED
    BY <2>1, <2>2, <2>3 DEF Led
<1>3. ASSUME NEW r \in Runs, Settle(r) \/ Transition(r) \/ Die(r)
      PROVE  Grows /\ edits = 0
  BY <1>3 DEF Settle, Transition, Die, LeaveTail, storeVars, Grows
<1>4. CASE Noted
  BY <1>4 DEF Noted, Grows
<1>5. CASE edits' = edits + 1
  BY <1>5 DEF TypeOK
<1>6. QED
  BY <1>1, <1>2, <1>3, <1>4, <1>5, Cases

\* What is there stays there.
LEMMA Staying ==
  ASSUME Lines, Grows
  PROVE  Lines' /\ \A n \in DOMAIN store : n \in DOMAIN store' /\ store'[n] = store[n]
<1>1. CASE store' = store
  BY <1>1 DEF Lines
<1>2. ASSUME NEW x \in Records, store' = Append(store, x)
      PROVE  Lines' /\ \A n \in DOMAIN store : n \in DOMAIN store' /\ store'[n] = store[n]
  BY <1>2, Persisting
<1>3. QED
  BY <1>1, <1>2 DEF Grows

LEMMA BackingStays ==
  ASSUME TypeOK, [Next]_vars, NEW x, Backed(x) PROVE Backed(x)'
<1>1. CASE x.id \in NoteIds
  BY <1>1 DEF Backed
<1>2. ASSUME NEW r \in Runs, NEW l \in Lessons, NEW k \in Keys, x = RecordOf(r, l),
             Candidate(k, [lesson |-> l, activate |-> TRUE]) \in Range(log[r])
      PROVE  Backed(x)'
  <2>1. Candidate(k, [lesson |-> l, activate |-> TRUE]) \in Range(log'[r])
    BY <1>2, Growing
  <2>2. x = RecordOf(r, l)'
    BY <1>2 DEF RecordOf
  <2>3. QED
    BY <2>1, <2>2 DEF Backed
<1>3. QED
  BY <1>1, <1>2 DEF Backed

LEMMA RowsStay ==
  ASSUME IInv, Clean, [Next]_vars, Grows PROVE Rows'
<1>0. TypeOK /\ Working /\ Lines /\ Rows
  BY DEF IInv, Clean
<1>1. ASSUME NEW n \in DOMAIN store, NEW x, x = store[n] PROVE Backed(x)'
  <2>1. Backed(x)
    BY <1>0, <1>1 DEF Rows
  <2>2. QED
    BY <1>0, <2>1, BackingStays
<1>2. CASE store' = store
  <2>1. ASSUME NEW n \in DOMAIN store', NEW x, x = store'[n] PROVE Backed(x)'
    BY <1>1, <1>2, <2>1
  <2>2. QED
    BY <2>1 DEF Rows, Backed
<1>3. ASSUME NEW y \in Records, store' = Append(store, y), Backed(y)'
      PROVE  Rows'
  <2>1. /\ DOMAIN store' = DOMAIN store \cup {Len(store) + 1}
        /\ \A n \in DOMAIN store : store'[n] = store[n]
        /\ store'[Len(store) + 1] = y
    BY <1>0, <1>3, Persisting
  <2>2. ASSUME NEW n \in DOMAIN store', NEW x, x = store'[n] PROVE Backed(x)'
    <3>1. CASE n \in DOMAIN store
      BY <1>1, <2>1, <2>2, <3>1
    <3>2. CASE n = Len(store) + 1
      <4>1. x = y
        BY <2>1, <2>2, <3>2
      <4>2. QED
        BY <1>3, <4>1
    <3>3. QED
      BY <2>1, <3>1, <3>2
  <2>3. QED
    BY <2>2 DEF Rows, Backed
<1>4. ASSUME NEW r \in Runs, call[r] \in Trying, NEW y, y = Mine(r) PROVE Backed(y)'
  <2>1. call[r] \in Calls
    BY <1>4 DEF Calls
  <2>2. /\ call[r].request.lesson \in Lessons /\ call[r].key \in Keys
        /\ call[r].request = [lesson |-> call[r].request.lesson, activate |-> TRUE]
    BY <1>4 DEF Trying, Activations
  <2>3. Candidate(call[r].key, call[r].request) \in Range(log[r])
    BY <1>0, <2>1 DEF Working
  <2>4. y = RecordOf(r, call[r].request.lesson)
    BY <1>4, <2>1, MineIsARecord
  <2>5. Backed(y)
    BY <2>2, <2>3, <2>4 DEF Backed
  <2>6. QED
    BY <1>0, <2>5, BackingStays
<1>5. ASSUME NEW y \in Records, y.id \in NoteIds PROVE Backed(y)'
  BY <1>5 DEF Backed
<1>6. QED
  BY <1>2, <1>3, <1>4, <1>5 DEF Grows

LEMMA SingleStays ==
  ASSUME Clean, Grows PROVE Single'
<1>0. Lines /\ Single /\ Fresh
  BY DEF Clean
<1>1. CASE store' = store
  BY <1>0, <1>1 DEF Single
<1>2. ASSUME NEW x \in Records, store' = Append(store, x),
             x.id \notin NoteIds => \A n \in DOMAIN store : store[n].id # x.id
      PROVE  Single'
  <2>1. /\ DOMAIN store' = DOMAIN store \cup {Len(store) + 1}
        /\ \A n \in DOMAIN store : store'[n] = store[n]
        /\ store'[Len(store) + 1] = x
    BY <1>0, <1>2, Persisting
  <2>2. QED
    BY <1>0, <1>2, <2>1 DEF Single
<1>3. ASSUME NEW r \in Runs, call[r].step = "writing"
      PROVE  \A n \in DOMAIN store : store[n].id # Mine(r).id
  BY <1>0, <1>3 DEF Fresh
<1>4. QED
  BY <1>1, <1>2, <1>3 DEF Grows

\* A run whose call does not move is no worse off: what is appended is a note, or
\* another run's.
LEMMA OthersStayFresh ==
  ASSUME Clean, Grows, NEW s \in Runs, call'[s] = call[s], call[s] \in Trying,
         call[s].step \in {"write", "writing"}
  PROVE  \A n \in DOMAIN store' : store'[n].id # Mine(s)'.id
<1>0. Lines /\ Fresh
  BY DEF Clean
<1>1. Mine(s)' = Mine(s)
  BY DEF Mine
<1>2. \A n \in DOMAIN store : store[n].id # Mine(s).id
  BY <1>0 DEF Fresh
<1>3. Mine(s).id = <<s, call[s].request.lesson>> /\ Mine(s).id \notin NoteIds
  BY MineIsARecord DEF Calls
<1>4. CASE store' = store
  BY <1>1, <1>2, <1>4
<1>5. ASSUME NEW x \in Records, store' = Append(store, x), x.id # Mine(s).id
      PROVE  \A n \in DOMAIN store' : store'[n].id # Mine(s)'.id
  <2>1. /\ DOMAIN store' = DOMAIN store \cup {Len(store) + 1}
        /\ \A n \in DOMAIN store : store'[n] = store[n]
        /\ store'[Len(store) + 1] = x
    BY <1>0, <1>5, Persisting
  <2>2. QED
    BY <1>1, <1>2, <1>5, <2>1
<1>6. ASSUME NEW r \in Runs, call[r] \in Trying, call'[r].step \in {"verify", "recheck"}
      PROVE  Mine(r).id # Mine(s).id
  <2>1. r # s
    BY <1>6
  <2>2. Mine(r).id = <<r, call[r].request.lesson>>
    BY <1>6, MineIsARecord DEF Calls
  <2>3. QED
    BY <1>3, <2>1, <2>2
<1>7. QED
  BY <1>3, <1>4, <1>5, <1>6 DEF Grows

LEMMA FreshStays ==
  ASSUME IInv, Clean, [Next]_vars, Grows PROVE Fresh'
<1>0. TypeOK /\ Lines /\ Fresh /\ TypeOK'
  BY Types DEF IInv, Clean
<1>1. ASSUME NEW s \in Runs, call'[s] = call[s], call'[s].step \in {"write", "writing"}
      PROVE  \A n \in DOMAIN store' : store'[n].id # Mine(s)'.id
  <2>1. call[s] \in Trying
    <3>1. call[s] \in {Idle} \cup Trying \cup Tried
      BY <1>0 DEF TypeOK, Calls
    <3>2. call[s] # Idle /\ call[s] \notin Tried
      BY <1>1 DEF Idle, Tried
    <3>3. QED
      BY <3>1, <3>2
  <2>2. QED
    BY <1>1, <2>1, OthersStayFresh
<1>2. ASSUME NEW r \in Runs, \A s \in Runs \ {r} : call'[s] = call[s],
             call'[r].step \in {"write", "writing"}
               => \A n \in DOMAIN store' : store'[n].id # Mine(r)'.id
      PROVE  Fresh'
  BY <1>1, <1>2 DEF Fresh
<1>3. ASSUME NEW r \in Runs, Active(r) PROVE Fresh'
  <2>1. call[r] \in Trying /\ Led(r)
    BY <1>0, <1>3, ActiveCalls, Leading
  <2>2. Mine(r)' = Mine(r)
    BY <2>1 DEF Led, Continues, Mine
  <2>3. CASE call'[r].step = "write"
    <3>1. store' = store /\ ~Known(Mine(r).id)
      BY <2>1, <2>3 DEF Led
    <3>2. \A n \in DOMAIN store : store[n] # Bad
      <4>1. Bad \notin Records
        BY StoreAssumption DEF Records, Bodies
      <4>2. \A n \in DOMAIN store : store[n] \in Records
        BY <1>0 DEF Lines
      <4>3. QED
        BY <4>1, <4>2
    <3>3. \A n \in DOMAIN store : store[n].id # Mine(r).id
      BY <3>1, <3>2 DEF Known, Places
    <3>4. QED
      BY <1>2, <2>1, <2>2, <3>1, <3>3 DEF Led, Continues
  <2>4. CASE call'[r].step = "writing"
    <3>1. store' = store /\ call[r].step = "write"
      BY <2>1, <2>4 DEF Led, At
    <3>2. \A n \in DOMAIN store : store[n].id # Mine(r).id
      BY <1>0, <3>1 DEF Fresh
    <3>3. QED
      BY <1>2, <2>1, <2>2, <3>1, <3>2 DEF Led, Continues
  <2>5. CASE call'[r].step \notin {"write", "writing"}
    BY <1>2, <2>1, <2>5 DEF Led, Continues
  <2>6. QED
    BY <2>3, <2>4, <2>5
<1>4. ASSUME NEW r \in Runs, NEW k \in Keys, NEW q \in Requests, Propose(r, k, q)
      PROVE  Fresh'
  <2>1. Proposed(r, k, q)
    BY <1>0, <1>4, Proposing
  <2>2. CASE call' = call
    BY <1>1, <2>2 DEF Fresh
  <2>3. CASE call' # call
    BY <1>2, <2>1, <2>3 DEF Proposed
  <2>4. QED
    BY <2>2, <2>3
<1>5. ASSUME NEW r \in Runs, Settle(r) \/ Die(r) PROVE Fresh'
  <2>1. call'[r].step = "idle" /\ \A s \in Runs \ {r} : call'[s] = call[s]
    BY <1>0, <1>5, EndIs DEF Settle, Die, Idle
  <2>2. QED
    BY <1>2, <2>1
<1>6. CASE UNCHANGED call
  BY <1>1, <1>6 DEF Fresh
<1>7. QED
  BY <1>3, <1>4, <1>5, <1>6, Cases DEF Noted, Transition

LEMMA SeenItStays ==
  ASSUME IInv, Clean, [Next]_vars, Grows PROVE SeenIt'
<1>0. TypeOK /\ Lines /\ SeenIt
  BY DEF IInv, Clean
<1>1. ASSUME NEW s \in Runs, Mine(s)' = Mine(s), There(s) PROVE There(s)'
  BY <1>0, <1>1, Staying DEF There
<1>2. ASSUME NEW s \in Runs, call'[s] = call[s], call'[s].step = "settle", call'[s].ok
      PROVE  There(s)'
  <2>1. Mine(s)' = Mine(s)
    BY <1>2 DEF Mine
  <2>2. QED
    BY <1>0, <1>1, <1>2, <2>1 DEF SeenIt
<1>3. ASSUME NEW r \in Runs, \A s \in Runs \ {r} : call'[s] = call[s],
             call'[r].step = "settle" /\ call'[r].ok => There(r)'
      PROVE  SeenIt'
  BY <1>2, <1>3 DEF SeenIt
<1>4. ASSUME NEW r \in Runs, Active(r) PROVE SeenIt'
  <2>1. call[r] \in Trying /\ Led(r)
    BY <1>0, <1>4, ActiveCalls, Leading
  <2>2. Mine(r)' = Mine(r)
    BY <2>1 DEF Led, Continues, Mine
  <2>3. call'[r].step = "settle" /\ call'[r].ok => There(r)'
    BY <1>1, <2>1, <2>2 DEF Led
  <2>4. QED
    BY <1>3, <2>1, <2>3 DEF Led, Continues
<1>5. ASSUME NEW r \in Runs, NEW k \in Keys, NEW q \in Requests, Propose(r, k, q)
      PROVE  SeenIt'
  <2>1. Proposed(r, k, q)
    BY <1>0, <1>5, Proposing
  <2>2. CASE call' = call
    BY <1>2, <2>2 DEF SeenIt
  <2>3. CASE call' # call
    <3>1. call'[r].ok = FALSE /\ \A s \in Runs \ {r} : call'[s] = call[s]
      BY <2>1, <2>3 DEF Proposed
    <3>2. QED
      BY <1>3, <3>1
  <2>4. QED
    BY <2>2, <2>3
<1>6. ASSUME NEW r \in Runs, Settle(r) \/ Die(r) PROVE SeenIt'
  <2>1. call'[r].step = "idle" /\ \A s \in Runs \ {r} : call'[s] = call[s]
    BY <1>0, <1>6, EndIs DEF Settle, Die, Idle
  <2>2. QED
    BY <1>3, <2>1
<1>7. CASE UNCHANGED call
  BY <1>2, <1>7 DEF SeenIt
<1>8. QED
  BY <1>4, <1>5, <1>6, <1>7, Cases DEF Noted, Transition

\* What a receipt is of, and what it says.
Asked(r, k, q) == Candidate(k, q) \in Range(log[r])
Receipted(r, k) == Outcome(k, TRUE) \in Range(log[r])
Proved(r, q) ==
  /\ Finished \in Range(log[r])
  /\ \E n \in DOMAIN store : store[n] = RecordOf(r, q.lesson)

LEMMA ReceiptOf ==
  ASSUME NEW k, NEW l, NEW ok \in BOOLEAN, Outcome(k, TRUE) = Outcome(l, ok)
  PROVE  k = l /\ ok = TRUE
<1>1. CASE ok = TRUE
  BY <1>1 DEF Outcome
<1>2. CASE ok = FALSE
  BY <1>2 DEF Outcome
<1>3. QED
  BY <1>1, <1>2

LEMMA EarnedStays ==
  ASSUME IInv, Clean, [Next]_vars, Grows PROVE Earned'
<1>0. TypeOK /\ Working /\ OneIntent /\ Lines /\ SeenIt /\ Earned
  BY DEF IInv, Clean
<1>1. ASSUME NEW r \in Runs, NEW q \in Requests, Proved(r, q) PROVE Proved(r, q)'
  BY <1>0, <1>1, Growing, Staying DEF Proved, RecordOf
\* It is enough to look at the stream that moves.
<1>2. ASSUME NEW r \in Runs, \A s \in Runs \ {r} : log'[s] = log[s],
             \A k \in Keys, q \in Requests :
               Asked(r, k, q)' /\ Receipted(r, k)'
                 => (Asked(r, k, q) /\ Receipted(r, k)) \/ Proved(r, q)
      PROVE  Earned'
  <2>1. \A s \in Runs, k \in Keys, q \in Requests :
          Asked(s, k, q) /\ Receipted(s, k) => Proved(s, q)
    BY <1>0 DEF Earned, Asked, Receipted, Proved
  <2>2. \A s \in Runs \ {r}, k \in Keys, q \in Requests :
          (Asked(s, k, q)' => Asked(s, k, q)) /\ (Receipted(s, k)' => Receipted(s, k))
    BY <1>2 DEF Asked, Receipted, Candidate, Outcome
  <2>3. ASSUME NEW s \in Runs, NEW k \in Keys, NEW q \in Requests,
               Asked(s, k, q)', Receipted(s, k)'
        PROVE  Proved(s, q)
    BY <1>2, <2>1, <2>2, <2>3
  <2>4. ASSUME NEW s \in Runs, NEW k \in Keys, NEW q \in Requests,
               Asked(s, k, q)', Receipted(s, k)'
        PROVE  Proved(s, q)'
    BY <1>1, <2>3, <2>4
  <2>5. QED
    BY <2>4 DEF Earned, Asked, Receipted, Proved
<1>3. ASSUME NEW r \in Runs, NEW k \in Keys, NEW q \in Requests, Propose(r, k, q)
      PROVE  Earned'
  <2>1. Proposed(r, k, q) /\ Candidate(k, q) \in Events
    BY <1>0, <1>3, Proposing DEF Events
  <2>2. CASE log' = log
    BY <1>2, <2>2 DEF Asked, Receipted, Candidate, Outcome
  <2>3. CASE Journals(r, Candidate(k, q))
    <3>1. /\ Range(log'[r]) = Range(log[r]) \cup {Candidate(k, q)}
          /\ \A s \in Runs \ {r} : log'[s] = log[s]
      BY <1>0, <2>1, <2>3, Journalled
    <3>2. ~Receipted(r, k)
      BY <1>0, <1>3, Found DEF Propose, Receipted
    <3>3. ASSUME NEW l \in Keys, NEW p \in Requests, Asked(r, l, p)', Receipted(r, l)'
          PROVE  Asked(r, l, p) /\ Receipted(r, l)
      <4>1. Outcome(l, TRUE) # Candidate(k, q)
        BY DEF Outcome, Candidate
      <4>2. Outcome(l, TRUE) \in Range(log'[r])
        BY <3>3 DEF Receipted, Outcome
      <4>3. Receipted(r, l)
        BY <3>1, <4>1, <4>2 DEF Receipted
      <4>4. l # k
        BY <3>2, <4>3
      <4>5. Candidate(l, p) # Candidate(k, q)
        BY <4>4 DEF Candidate
      <4>6. Candidate(l, p) \in Range(log'[r])
        BY <3>3 DEF Asked, Candidate
      <4>7. QED
        BY <3>1, <4>3, <4>5, <4>6 DEF Asked
    <3>4. QED
      BY <1>2, <3>1, <3>3
  <2>4. QED
    BY <2>1, <2>2, <2>3 DEF Proposed
<1>4. ASSUME NEW r \in Runs, Settle(r) PROVE Earned'
  <2>1. call[r] \in Calls /\ call[r].step = "settle"
    BY <1>0, <1>4 DEF Settle, At, TypeOK, Idle
  <2>2. call[r].key \in Keys /\ call[r].ok \in BOOLEAN /\ call[r].request \in Requests
    BY <2>1 DEF Calls, Trying, Tried, Activations, Requests
  <2>3. Outcome(call[r].key, call[r].ok) \in Events
    BY <2>2 DEF Events
  <2>4. Journals(r, Outcome(call[r].key, call[r].ok))
    BY <1>4 DEF Settle, Journals
  <2>5. /\ Range(log'[r]) = Range(log[r]) \cup {Outcome(call[r].key, call[r].ok)}
        /\ \A s \in Runs \ {r} : log'[s] = log[s]
    BY <1>0, <2>3, <2>4, Journalled
  <2>6. ASSUME NEW k \in Keys, NEW q \in Requests, Asked(r, k, q)', Receipted(r, k)'
        PROVE  (Asked(r, k, q) /\ Receipted(r, k)) \/ Proved(r, q)
    <3>1. Asked(r, k, q)
      <4>1. Candidate(k, q) # Outcome(call[r].key, call[r].ok)
        BY NamesApart
      <4>2. Candidate(k, q) \in Range(log'[r])
        BY <2>6 DEF Asked, Candidate
      <4>3. QED
        BY <2>5, <4>1, <4>2 DEF Asked
    <3>2. Outcome(k, TRUE) \in Range(log'[r])
      BY <2>6 DEF Receipted, Outcome
    <3>3. CASE Outcome(k, TRUE) # Outcome(call[r].key, call[r].ok)
      BY <2>5, <3>1, <3>2, <3>3 DEF Receipted
    <3>4. CASE Outcome(k, TRUE) = Outcome(call[r].key, call[r].ok)
      <4>1. k = call[r].key /\ call[r].ok = TRUE
        BY <2>2, <3>4, ReceiptOf
      <4>2. Candidate(k, call[r].request) \in Range(log[r]) /\ Finished \in Range(log[r])
        BY <1>0, <2>1, <4>1 DEF Working
      <4>3. q = call[r].request
        BY <1>0, <2>2, <3>1, <4>2 DEF OneIntent, Asked
      <4>4. There(r) /\ Mine(r) = RecordOf(r, call[r].request.lesson)
        BY <1>0, <2>1, <4>1, MineIsARecord DEF SeenIt
      <4>5. QED
        BY <4>2, <4>3, <4>4 DEF Proved, There
    <3>5. QED
      BY <3>3, <3>4
  <2>7. QED
    BY <1>2, <2>5, <2>6
<1>5. ASSUME NEW r \in Runs, Transition(r) PROVE Earned'
  <2>1. PICK e \in {Other, Finished} : Journals(r, e)
    BY <1>5 DEF Transition, Journals
  <2>2. /\ Range(log'[r]) = Range(log[r]) \cup {e}
        /\ \A s \in Runs \ {r} : log'[s] = log[s]
    BY <1>0, <2>1, Journalled DEF Events
  <2>3. ASSUME NEW k \in Keys, NEW q \in Requests, Asked(r, k, q)', Receipted(r, k)'
        PROVE  Asked(r, k, q) /\ Receipted(r, k)
    <3>1. Candidate(k, q) # e /\ Outcome(k, TRUE) # e
      BY <2>1 DEF Candidate, Outcome, Other, Finished
    <3>2. Candidate(k, q) \in Range(log'[r]) /\ Outcome(k, TRUE) \in Range(log'[r])
      BY <2>3 DEF Asked, Receipted, Candidate, Outcome
    <3>3. QED
      BY <2>2, <3>1, <3>2 DEF Asked, Receipted
  <2>4. QED
    BY <1>2, <2>2, <2>3
<1>6. ASSUME UNCHANGED log PROVE Earned'
  <2>1. \A s \in Runs, k \in Keys, q \in Requests :
          (Asked(s, k, q)' => Asked(s, k, q)) /\ (Receipted(s, k)' => Receipted(s, k))
    BY <1>6 DEF Asked, Receipted, Candidate, Outcome
  <2>2. CASE Runs = {}
    BY <2>2 DEF Earned
  <2>3. ASSUME NEW r \in Runs PROVE Earned'
    BY <1>2, <1>6, <2>1
  <2>4. QED
    BY <2>2, <2>3
<1>7. QED
  BY <1>0, <1>3, <1>4, <1>5, <1>6, Cases, ActiveCalls DEF Noted, Die

-----------------------------------------------------------------------------
(* The theorems *)

LEMMA Start == Init => IInv
<1> SUFFICES ASSUME Init PROVE IInv
  OBVIOUS
<1>1. TypeOK /\ store = <<>>
  BY DEF Init, StoreInit, PromotionInit, TypeOK
<1>2. \A r \in Runs : call[r] = Idle /\ log[r] = <<>>
  BY DEF Init, PromotionInit
<1>2a. \A r \in Runs : call[r].step = "idle" /\ call[r] \notin Calls
  <2>1. Idle.step = "idle"
    BY DEF Idle
  <2>2. \A c \in Calls : c.step # "idle"
    BY DEF Calls, Trying, Tried, Steps
  <2>3. QED
    BY <1>2, <2>1, <2>2
<1>2b. \A r \in Runs : Range(log[r]) = {}
  BY <1>2 DEF Range
<1>3. Working /\ OneIntent
  BY <1>2a, <1>2b DEF Working, OneIntent
<1>4. Lines /\ Rows /\ Single
  BY <1>1 DEF Lines, Rows, Single
<1>5. Fresh /\ SeenIt
  BY <1>2a DEF Fresh, SeenIt
<1>5a. Earned
  BY <1>2b DEF Earned
<1>6. QED
  BY <1>1, <1>3, <1>4, <1>5, <1>5a DEF IInv, Clean

LEMMA Invariance == Spec => []IInv
<1>1. ASSUME IInv, [Next]_vars PROVE IInv'
  <2>1. TypeOK' /\ Working' /\ OneIntent'
    BY <1>1, Types, WorkingStays, OneIntentStays DEF IInv
  <2>2. ASSUME edits' = 0 PROVE Clean'
    <3>1. Grows /\ Clean
      BY <1>1, <2>2, Growth DEF IInv
    <3>2. Lines'
      BY <3>1, Staying DEF Clean
    <3>3. QED
      BY <1>1, <3>1, <3>2, FreshStays, RowsStay, SingleStays, SeenItStays, EarnedStays
      DEF Clean
  <2>3. QED
    BY <2>1, <2>2 DEF IInv
<1>2. QED
  BY Start, <1>1, PTL DEF Spec

\* In a store nobody has rewritten, the lines of a record that a run wrote are one.
LEMMA OnePlace ==
  ASSUME Clean, NEW r \in Runs, NEW l \in Lessons,
         NEW n \in DOMAIN store, store[n].id = <<r, l>>
  PROVE  Places(<<r, l>>) = {n}
<1>1. <<r, l>> \notin NoteIds
  BY PromotionAssumption
<1>2. \A m \in DOMAIN store : store[m].id = <<r, l>> => m = n
  BY <1>1 DEF Clean, Single
<1>3. Bad \notin Records
  BY StoreAssumption DEF Records, Bodies
<1>3a. store[n] \in Records
  BY DEF Clean, Lines
<1>4. QED
  BY <1>2, <1>3, <1>3a DEF Places

\* A receipt is worth what it says, whatever the writer raised, whoever died, and
\* whatever else was being appended (controller.py:2329-2372).
THEOREM Receipts == Spec => []ReceiptsAreEarned
<1>1. ASSUME IInv PROVE ReceiptsAreEarned
  <2> SUFFICES ASSUME edits = 0, NEW r \in Runs, NEW k \in Keys, NEW q \in Requests,
                      Candidate(k, q) \in Range(log[r]), Outcome(k, TRUE) \in Range(log[r])
               PROVE  Terminal(r) /\ \E n \in DOMAIN store :
                        store[n] = RecordOf(r, q.lesson) /\ Places(<<r, q.lesson>>) = {n}
    BY DEF ReceiptsAreEarned
  <2>1. TypeOK /\ Clean
    BY <1>1 DEF IInv
  <2>2. Finished \in Range(log[r])
    BY <2>1 DEF Clean, Earned
  <2>3. PICK n \in DOMAIN store : store[n] = RecordOf(r, q.lesson)
    BY <2>1 DEF Clean, Earned
  <2>4. q.lesson \in Lessons /\ store[n].id = <<r, q.lesson>>
    BY <2>3 DEF Requests, RecordOf
  <2>5. Places(<<r, q.lesson>>) = {n}
    BY <2>1, <2>4, OnePlace
  <2>6. QED
    BY <2>1, <2>2, <2>3, <2>5, Found
<1>2. QED
  BY Invariance, <1>1, PTL

\* Retries, and other keys for the same lesson, find the record and do not write it
\* again; and no record comes before its candidate (controller.py:2238-2322).
THEOREM PromotedOnce == Spec => []PromotedOnceAndOnRecord
<1>1. ASSUME IInv PROVE PromotedOnceAndOnRecord
  <2> SUFFICES ASSUME edits = 0, NEW r \in Runs, NEW l \in Lessons, Known(<<r, l>>)
               PROVE  /\ Cardinality(Places(<<r, l>>)) = 1
                      /\ \E k \in Keys :
                           Candidate(k, [lesson |-> l, activate |-> TRUE]) \in Range(log[r])
    BY DEF PromotedOnceAndOnRecord
  <2>1. Clean
    BY <1>1 DEF IInv
  <2>2. PICK n \in DOMAIN store : store[n].id = <<r, l>>
    BY DEF Known, Places
  <2>3. Cardinality(Places(<<r, l>>)) = 1
    <3>1. Places(<<r, l>>) = {n}
      BY <2>1, <2>2, OnePlace
    <3>2. QED
      BY <3>1, FS_Singleton
  <2>4. store[n].id \notin NoteIds
    BY <2>2, PromotionAssumption
  <2>5. PICK s \in Runs, m \in Lessons, k \in Keys :
          /\ store[n] = RecordOf(s, m)
          /\ Candidate(k, [lesson |-> m, activate |-> TRUE]) \in Range(log[s])
    BY <2>1, <2>4 DEF Clean, Rows, Backed
  <2>6. s = r /\ m = l
    BY <2>2, <2>5 DEF RecordOf
  <2>7. QED
    BY <2>3, <2>5, <2>6
<1>2. QED
  BY Invariance, <1>1, PTL

-----------------------------------------------------------------------------
(* The last line of each id *)

Less == {ss \in Nat \X Nat : ss[1] < ss[2]}

\* Induction, for a set of naturals.
LEMMA Inductive ==
  ASSUME NEW S, 0 \in S, \A n \in Nat : n \in S => n + 1 \in S
  PROVE  \A n \in Nat : n \in S
<1> DEFINE rest == Nat \ S
<1>1. SUFFICES ASSUME rest # {} PROVE FALSE
  OBVIOUS
<1>2. OpToRel(<, Nat) = Less
  BY Zenon DEF OpToRel, Less
<1>3. IsWellFoundedOn(Less, Nat)
  BY <1>2, NatLessThanWellFounded, Zenon
<1>4. PICK x \in rest : \A y \in rest : <<y, x>> \notin Less
  <2>1. rest \subseteq Nat
    OBVIOUS
  <2>2. QED
    BY <1>1, <1>3, <2>1, WFMin
<1>5. x \in Nat \ {0} /\ x - 1 \in Nat /\ (x - 1) + 1 = x
  <2>1. x \in Nat /\ x # 0
    OBVIOUS
  <2>2. QED
    BY <2>1
<1>6. x - 1 \notin S
  BY <1>5
<1>7. <<x - 1, x>> \in Less
  BY <1>5 DEF Less
<1>8. QED
  BY <1>4, <1>5, <1>6, <1>7

\* What a rebuild from the first n lines of s gives.
IsLatest(s, n, m) ==
  s[m] # Bad /\ \A o \in m+1..n : s[o] = Bad \/ s[o].id # s[m].id

Latest(s, n) == {s[i] : i \in {m \in 1..n : IsLatest(s, n, m)}}

LEMMA LatestOfSame ==
  ASSUME NEW s, NEW t, NEW n \in Nat, \A i \in 1..n : s[i] = t[i]
  PROVE  Latest(s, n) = Latest(t, n)
<1>1. \A m \in 1..n : IsLatest(s, n, m) <=> IsLatest(t, n, m)
  BY DEF IsLatest
<1>2. QED
  BY <1>1 DEF Latest

\* One more line replaces the row of its id.
LEMMA LatestOfOneMore ==
  ASSUME NEW s, NEW n \in Nat
  PROVE  Upsert(Latest(s, n), s[n + 1]) = Latest(s, n + 1)
<1>1. CASE s[n + 1] = Bad
  <2>1. \A m \in 1..n : IsLatest(s, n + 1, m) <=> IsLatest(s, n, m)
    BY <1>1 DEF IsLatest
  <2>2. ~IsLatest(s, n + 1, n + 1)
    BY <1>1 DEF IsLatest
  <2>3. {m \in 1..(n + 1) : IsLatest(s, n + 1, m)} = {m \in 1..n : IsLatest(s, n, m)}
    BY <2>1, <2>2
  <2>4. QED
    BY <1>1, <2>3 DEF Latest, Upsert
<1>2. CASE s[n + 1] # Bad
  <2>1. \A m \in 1..n :
          IsLatest(s, n + 1, m) <=> IsLatest(s, n, m) /\ s[m].id # s[n + 1].id
    BY <1>2 DEF IsLatest
  <2>2. IsLatest(s, n + 1, n + 1)
    BY <1>2 DEF IsLatest
  <2>3. ASSUME NEW x PROVE x \in Latest(s, n + 1) <=> x \in Upsert(Latest(s, n), s[n + 1])
    <3>1. x \in Latest(s, n + 1) <=>
            \E m \in 1..(n + 1) : IsLatest(s, n + 1, m) /\ x = s[m]
      BY DEF Latest
    <3>2. x \in Latest(s, n) <=> \E m \in 1..n : IsLatest(s, n, m) /\ x = s[m]
      BY DEF Latest
    <3>3. x \in Upsert(Latest(s, n), s[n + 1]) <=>
            \/ x \in Latest(s, n) /\ x.id # s[n + 1].id
            \/ x = s[n + 1]
      BY <1>2 DEF Upsert
    <3>4. \A m : m \in 1..(n + 1) <=> m \in 1..n \/ m = n + 1
      OBVIOUS
    <3>5. QED
      BY <2>1, <2>2, <3>1, <3>2, <3>3, <3>4
  <2>4. QED
    BY <2>3
<1>3. QED
  BY <1>1, <1>2

\* A scan from line a on gives what a rebuild would.
LEMMA Projecting ==
  ASSUME NEW S, NEW s \in Seq(S), NEW a \in 0..Len(s)
  PROVE  Project(Latest(s, a), SubSeq(s, a + 1, Len(s))) = Latest(s, Len(s))
<1> DEFINE lines == SubSeq(s, a + 1, Len(s))
           N     == Len(s) - a
           upTo[n \in 0..Len(lines)] ==
             IF n = 0 THEN Latest(s, a) ELSE Upsert(upTo[n - 1], lines[n])
           goal  == [n \in 0..N |-> Latest(s, a + n)]
           Solves(f) == f = [n \in 0..N |->
                               IF n = 0 THEN Latest(s, a) ELSE Upsert(f[n - 1], lines[n])]
<1>1. Project(Latest(s, a), lines) = upTo[Len(lines)]
  BY DEF Project
<1>2. a \in Nat /\ N \in Nat /\ Len(s) \in Nat
  OBVIOUS
<1>3. Len(lines) = N /\ \A i \in 1..N : lines[i] = s[a + i]
  <2>1. \A i \in (a + 1)..Len(s) : s[i] \in S
    BY <1>2
  <2>2. /\ Len(lines) = IF a + 1 <= Len(s) THEN Len(s) - (a + 1) + 1 ELSE 0
        /\ \A i \in 1..(Len(s) - (a + 1) + 1) : lines[i] = s[(a + 1) + i - 1]
    BY <1>2, <2>1, SubSeqProperties
  <2>3. QED
    BY <1>2, <2>2
<1> HIDE DEF lines
<1>4. upTo = CHOOSE f : Solves(f)
  BY <1>3
<1>5. Solves(goal)
  <2>1. goal[0] = Latest(s, a)
    BY <1>2
  <2>2. ASSUME NEW n \in 1..N PROVE goal[n] = Upsert(goal[n - 1], lines[n])
    <3>1. /\ n - 1 \in 0..N /\ a + (n - 1) \in Nat
          /\ (a + (n - 1)) + 1 = a + n
      BY <1>2
    <3>2. Upsert(Latest(s, a + (n - 1)), s[(a + (n - 1)) + 1])
            = Latest(s, (a + (n - 1)) + 1)
      BY <3>1, LatestOfOneMore
    <3>3. goal[n - 1] = Latest(s, a + (n - 1)) /\ goal[n] = Latest(s, a + n)
      BY <1>2, <3>1
    <3>4. lines[n] = s[a + n]
      BY <1>3
    <3>5. QED
      BY <3>1, <3>2, <3>3, <3>4
  <2>3. \A n \in 0..N :
          goal[n] = IF n = 0 THEN Latest(s, a) ELSE Upsert(goal[n - 1], lines[n])
    <3>1. \A n \in 0..N : n = 0 \/ n \in 1..N
      OBVIOUS
    <3>2. QED
      BY <2>1, <2>2, <3>1
  <2>4. goal = [n \in 0..N |-> goal[n]]
    OBVIOUS
  <2> HIDE DEF goal
  <2>5. QED
    BY <2>3, <2>4
<1> HIDE DEF upTo, goal
<1>6. Solves(upTo)
  <2> HIDE DEF Solves
  <2>1. QED
    BY <1>4, <1>5, Zenon
<1> DEFINE Same == {k \in Nat : k <= N => upTo[k] = goal[k]}
<1>7. 0 \in Same
  BY <1>2, <1>5, <1>6
<1>8. ASSUME NEW k \in Nat, k \in Same PROVE k + 1 \in Same
  <2>1. SUFFICES ASSUME k + 1 <= N PROVE upTo[k + 1] = goal[k + 1]
    OBVIOUS
  <2>2. k + 1 \in 0..N /\ k + 1 # 0 /\ (k + 1) - 1 = k /\ k <= N
    BY <1>2, <2>1
  <2>3. upTo[k + 1] = Upsert(upTo[k], lines[k + 1])
    BY <1>6, <2>2
  <2>4. goal[k + 1] = Upsert(goal[k], lines[k + 1])
    BY <1>5, <2>2
  <2>5. QED
    BY <1>8, <2>2, <2>3, <2>4
<1>9. \A k \in Nat : k \in Same
  <2> HIDE DEF Same
  <2>1. QED
    BY <1>7, <1>8, Inductive
<1>10. upTo[N] = goal[N]
  BY <1>2, <1>9
<1>11. goal[N] = Latest(s, Len(s))
  <2>1. goal[N] = Latest(s, a + N)
    BY <1>2 DEF goal
  <2>2. QED
    BY <1>2, <2>1
<1>12. QED
  BY <1>1, <1>3, <1>10, <1>11 DEF lines

-----------------------------------------------------------------------------
(* The sidecar *)

AnyLine == Records \cup {Bad}

\* A committed index shows the lines it has the fingerprint of.
IndexShows ==
  index # None /\ ~index.overtaken =>
    /\ index.offset \in Nat
    /\ index.rows = Latest(index.finger, index.offset)

\* Neither this refresh nor the one it goes on from was overtaken.
Undisturbed == ~refresh.overtaken /\ (refresh.fresh \/ ~index.overtaken)

\* Then it goes on from rows of the lines there are, and shows them.
RefreshShows ==
  /\ refresh = None \/ "overtaken" \in DOMAIN refresh
  /\ refresh # None /\ Undisturbed =>
       /\ refresh.since \in Nat /\ refresh.since <= Len(store)
       /\ refresh.step = "scan" /\ ~refresh.fresh =>
            /\ index.offset \in Nat /\ index.offset <= refresh.since
            /\ index.rows = Latest(store, index.offset)
       /\ refresh.step = "commit" =>
            /\ refresh.offset \in refresh.since..Len(store)
            /\ refresh.rows = Latest(store, refresh.offset)

SidecarInv == store \in Seq(AnyLine) /\ IndexShows /\ RefreshShows

\* The lines there are stay, and more may come.
Extends ==
  /\ store' \in Seq(AnyLine) /\ Len(store) <= Len(store')
  /\ \A i \in 1..Len(store) : store'[i] = store[i]

LEMMA ExtendsByOne ==
  ASSUME store \in Seq(AnyLine),
         store' = store \/ \E x \in Records : store' = Append(store, x)
  PROVE  Extends
<1>1. CASE store' = store
  BY <1>1 DEF Extends
<1>2. ASSUME NEW x \in Records, store' = Append(store, x) PROVE Extends
  <2>1. x \in AnyLine
    BY DEF AnyLine
  <2>2. QED
    BY <1>2, <2>1, AppendProperties DEF Extends
<1>3. QED
  BY <1>1, <1>2

\* Who does not refresh extends the store, or rewrites it and overtakes.
LEMMA SidecarCases ==
  ASSUME TypeOK, store \in Seq(AnyLine), [Next]_vars
  PROVE  \/ Extends /\ UNCHANGED indexVars
         \/ Check \/ Scan \/ Commit \/ Abandon \/ LoseIndex
         \/ Rewriting
<1>1. ASSUME NEW r \in Runs, UNCHANGED indexVars,
             \/ \E k \in Keys, q \in Requests : Propose(r, k, q)
             \/ Step(r) \/ Transition(r) \/ Die(r)
      PROVE  Extends /\ UNCHANGED indexVars
  <2>1. CASE Active(r)
    <3>1. Led(r) /\ Mine(r) \in Records
      BY <2>1, ActiveCalls, Leading, MineIsARecord DEF Calls
    <3>2. store' = store \/ \E x \in Records : store' = Append(store, x)
      BY <3>1 DEF Led
    <3>3. QED
      BY <1>1, <3>2, ExtendsByOne
  <2>2. CASE ~Active(r)
    <3>1. store' = store
      BY <1>1, <2>2 DEF Step, Active, Propose, Settle, Transition, Die, LeaveTail, storeVars
    <3>2. QED
      BY <1>1, <3>1, ExtendsByOne
  <2>3. QED
    BY <2>1, <2>2
<1>2. CASE Promoting
  BY <1>1, <1>2 DEF Promoting
<1>3. CASE Noting
  <2>1. Noted
    BY <1>3, NotingIs
  <2>2. store' = store \/ \E x \in Records : store' = Append(store, x)
    BY <2>1 DEF Noted
  <2>3. QED
    BY <1>3, <2>2, ExtendsByOne DEF Noting
<1>4. CASE UNCHANGED vars
  BY <1>4, ExtendsByOne DEF vars, storeVars
<1>5. QED
  BY <1>2, <1>3, <1>4 DEF Next, Indexing

LEMMA Prefix ==
  ASSUME NEW S, NEW s \in Seq(S), NEW n \in 0..Len(s)
  PROVE  Latest(SubSeq(s, 1, n), n) = Latest(s, n)
<1>1. Len(s) \in Nat /\ n \in Nat
  OBVIOUS
<1>2. \A i \in 1..n : s[i] \in S
  BY <1>1
<1>3. n \in Int /\ 1 \in Int /\ n - 1 + 1 = n /\ \A i \in 1..n : 1 + i - 1 = i
  BY <1>1
<1>4. \A i \in 1..(n - 1 + 1) : SubSeq(s, 1, n)[i] = s[1 + i - 1]
  BY <1>2, <1>3, SubSeqProperties
<1>5. \A i \in 1..n : SubSeq(s, 1, n)[i] = s[i]
  BY <1>3, <1>4
<1>6. QED
  BY <1>1, <1>5, LatestOfSame

LEMMA StoreIsLines ==
  ASSUME store \in Seq(AnyLine), Rewriting PROVE store' \in Seq(AnyLine)
<1>1. CASE Edit
  <2>1. PICK n \in DOMAIN store :
          store[n] # Bad /\ store' = [store EXCEPT ![n].body = 1 - store[n].body]
    BY <1>1 DEF Edit
  <2>2. store[n] \in Records
    BY <2>1 DEF AnyLine
  <2>3. [store[n] EXCEPT !.body = 1 - store[n].body] \in AnyLine
    BY <2>2 DEF Records, Bodies, AnyLine
  <2>4. QED
    BY <2>1, <2>3
<1>2. CASE Truncate
  <2>1. PICK n \in DOMAIN store : store' = SubSeq(store, 1, n - 1)
    BY <1>2 DEF Truncate
  <2>2. \A i \in 1..n - 1 : store[i] \in AnyLine
    BY <2>1
  <2>3. QED
    BY <2>1, <2>2, SubSeqProperties
<1>3. CASE Mend
  BY <1>3, AppendProperties DEF Mend, AnyLine
<1>4. QED
  BY <1>1, <1>2, <1>3 DEF Rewriting, Rewrite

LEMMA SidecarStep ==
  ASSUME TypeOK, SidecarInv, [Next]_vars PROVE SidecarInv'
<1>0. store \in Seq(AnyLine) /\ Len(store) \in Nat /\ IndexShows /\ RefreshShows
  BY DEF SidecarInv
<1>1. CASE Extends /\ UNCHANGED indexVars
  <2>1. /\ index' = index /\ refresh' = refresh
        /\ store' \in Seq(AnyLine) /\ Len(store') \in Nat /\ Len(store) <= Len(store')
    BY <1>1 DEF indexVars, Extends
  <2>2. \A n \in 0..Len(store) : Latest(store', n) = Latest(store, n)
    BY <1>0, <1>1, LatestOfSame DEF Extends
  <2>3. IndexShows'
    BY <1>0, <2>1 DEF IndexShows
  <2>4. RefreshShows'
    <3>1. Undisturbed' = Undisturbed
      BY <2>1 DEF Undisturbed
    <3>2. SUFFICES ASSUME refresh # None, Undisturbed PROVE RefreshShows'
      BY <1>0, <2>1, <3>1 DEF RefreshShows
    <3>3. refresh.since \in Nat /\ refresh.since <= Len(store')
      BY <1>0, <2>1, <3>2 DEF RefreshShows
    <3>4. ASSUME refresh.step = "scan", ~refresh.fresh
          PROVE  /\ index.offset \in Nat /\ index.offset <= refresh.since
                 /\ index.rows = Latest(store', index.offset)
      BY <1>0, <2>2, <3>2, <3>4 DEF RefreshShows
    <3>5. ASSUME refresh.step = "commit"
          PROVE  /\ refresh.offset \in refresh.since..Len(store')
                 /\ refresh.rows = Latest(store', refresh.offset)
      BY <1>0, <2>1, <2>2, <3>2, <3>5 DEF RefreshShows
    <3>6. QED
      BY <1>0, <2>1, <3>3, <3>4, <3>5 DEF RefreshShows
  <2>5. QED
    BY <2>1, <2>3, <2>4 DEF SidecarInv
<1>2. CASE Check
  <2>1. /\ refresh' = [step |-> "scan", fresh |-> RequiresRebuild, since |-> Len(store),
                       overtaken |-> FALSE]
        /\ store' = store /\ index' = index
    BY <1>2 DEF Check, storeVars
  <2>2. ASSUME ~RequiresRebuild, ~index.overtaken
        PROVE  /\ index.offset \in Nat /\ index.offset <= Len(store)
               /\ index.rows = Latest(store, index.offset)
    <3>1. /\ index # None /\ ~(Size < 2 * index.offset)
          /\ index.finger = SubSeq(store, 1, index.offset)
      BY <2>2 DEF RequiresRebuild
    <3>2. index.offset \in Nat /\ index.rows = Latest(index.finger, index.offset)
      BY <1>0, <2>2, <3>1 DEF IndexShows
    <3>3. index.offset <= Len(store)
      BY <1>0, <3>1, <3>2 DEF Size
    <3>4. Latest(index.finger, index.offset) = Latest(store, index.offset)
      BY <1>0, <3>1, <3>2, <3>3, Prefix
    <3>5. QED
      BY <3>2, <3>3, <3>4
  <2>3. /\ refresh'.step = "scan" /\ refresh'.fresh = RequiresRebuild
        /\ refresh'.since = Len(store) /\ "overtaken" \in DOMAIN refresh'
    BY <2>1
  <2>4. RefreshShows'
    BY <1>0, <2>1, <2>2, <2>3 DEF RefreshShows, Undisturbed
  <2>5. IndexShows'
    BY <1>0, <2>1 DEF IndexShows
  <2>6. QED
    BY <1>0, <2>1, <2>4, <2>5 DEF SidecarInv
<1>3. CASE Scan
  <2> DEFINE offset == IF refresh.fresh THEN 0 ELSE index.offset
             lines  == SubSeq(store, offset + 1, Len(store))
             rows   == IF refresh.fresh THEN {} ELSE index.rows
  <2>1. /\ refresh.step = "scan" /\ store' = store /\ index' = index
        /\ refresh' = [step |-> "commit", fresh |-> refresh.fresh, since |-> refresh.since,
                       overtaken |-> refresh.overtaken, rows |-> Project(rows, lines),
                       offset |-> offset + Len(lines)]
    BY <1>3 DEF Scan, storeVars
  <2>2. refresh # None
    BY <2>1 DEF None
  <2> HIDE DEF lines, rows, offset
  <2>3. /\ refresh'.step = "commit" /\ refresh'.fresh = refresh.fresh
        /\ refresh'.since = refresh.since /\ refresh'.overtaken = refresh.overtaken
        /\ refresh'.rows = Project(rows, lines) /\ refresh'.offset = offset + Len(lines)
        /\ "overtaken" \in DOMAIN refresh'
    BY <2>1
  <2>4. ASSUME Undisturbed
        PROVE  /\ refresh.since \in Nat /\ refresh.since <= Len(store)
               /\ refresh'.offset \in refresh.since..Len(store)
               /\ refresh'.rows = Latest(store, refresh'.offset)
    <3>1. refresh.since \in Nat /\ refresh.since <= Len(store)
      BY <1>0, <2>2, <2>4 DEF RefreshShows
    <3>2. offset \in 0..Len(store)
      BY <1>0, <2>1, <2>2, <2>4, <3>1 DEF RefreshShows, offset
    <3>3. Len(lines) = Len(store) - offset
      <4>1. \A i \in (offset + 1)..Len(store) : store[i] \in AnyLine
        BY <1>0, <3>2
      <4>2. Len(lines) = IF offset + 1 <= Len(store) THEN Len(store) - (offset + 1) + 1 ELSE 0
        BY <1>0, <3>2, <4>1, SubSeqProperties DEF lines
      <4>3. QED
        BY <1>0, <3>2, <4>2
    <3>4. refresh'.offset = Len(store)
      BY <1>0, <2>3, <3>2, <3>3
    <3>5. rows = Latest(store, offset)
      <4>1. CASE refresh.fresh
        BY <4>1 DEF rows, offset, Latest
      <4>2. CASE ~refresh.fresh
        BY <1>0, <2>1, <2>2, <2>4, <4>2 DEF RefreshShows, rows, offset
      <4>3. QED
        BY <4>1, <4>2
    <3>6. Project(Latest(store, offset), lines) = Latest(store, Len(store))
      BY <1>0, <3>2, Projecting DEF lines
    <3>7. QED
      BY <1>0, <2>3, <3>1, <3>4, <3>5, <3>6
  <2>5. RefreshShows'
    BY <2>1, <2>3, <2>4 DEF RefreshShows, Undisturbed
  <2>6. IndexShows'
    BY <1>0, <2>1 DEF IndexShows
  <2>7. QED
    BY <1>0, <2>1, <2>5, <2>6 DEF SidecarInv
<1>4. CASE Commit
  <2>1. /\ refresh.step = "commit" /\ store' = store /\ refresh' = None
        /\ index' = [rows |-> refresh.rows, offset |-> refresh.offset,
                     finger |-> SubSeq(store, 1, Min({refresh.offset, Len(store)})),
                     size |-> Size, edits |-> edits,
                     overtaken |-> refresh.overtaken \/ (~refresh.fresh /\ index.overtaken)]
    BY <1>4 DEF Commit, storeVars
  <2>2. refresh # None
    BY <2>1 DEF None
  <2>3. /\ index'.rows = refresh.rows /\ index'.offset = refresh.offset
        /\ index'.finger = SubSeq(store, 1, Min({refresh.offset, Len(store)}))
        /\ index'.overtaken <=> refresh.overtaken \/ (~refresh.fresh /\ index.overtaken)
    BY <2>1
  <2>4. ASSUME ~index'.overtaken
        PROVE  /\ index'.offset \in Nat
               /\ index'.rows = Latest(index'.finger, index'.offset)
    <3>1. Undisturbed
      BY <2>3, <2>4 DEF Undisturbed
    <3>2. /\ refresh.offset \in 0..Len(store)
          /\ refresh.rows = Latest(store, refresh.offset)
      BY <1>0, <2>1, <2>2, <3>1 DEF RefreshShows
    <3>3. Min({refresh.offset, Len(store)}) = refresh.offset
      BY <1>0, <3>2 DEF Min
    <3>4. Latest(SubSeq(store, 1, refresh.offset), refresh.offset) = Latest(store, refresh.offset)
      BY <1>0, <3>2, Prefix
    <3>5. QED
      BY <2>3, <3>2, <3>3, <3>4
  <2>5. IndexShows'
    BY <2>3, <2>4 DEF IndexShows
  <2>6. RefreshShows'
    BY <2>1 DEF RefreshShows
  <2>7. QED
    BY <1>0, <2>1, <2>5, <2>6 DEF SidecarInv
<1>5. CASE Abandon \/ LoseIndex
  <2>1. store' = store /\ refresh' = None /\ (index' = index \/ index' = None)
    BY <1>5 DEF Abandon, LoseIndex, storeVars
  <2>2. QED
    BY <1>0, <2>1 DEF SidecarInv, IndexShows, RefreshShows
<1>6. CASE Rewriting
  <2>1. /\ index' = index
        /\ refresh' = IF refresh = None THEN None ELSE [refresh EXCEPT !.overtaken = TRUE]
    BY <1>6 DEF Rewriting, Overtake
  <2>2. store' \in Seq(AnyLine)
    BY <1>0, <1>6, StoreIsLines
  <2>3. IndexShows'
    BY <1>0, <2>1 DEF IndexShows
  <2>4. RefreshShows'
    <3>1. CASE refresh = None
      BY <2>1, <3>1 DEF RefreshShows
    <3>2. CASE refresh # None
      <4>1. "overtaken" \in DOMAIN refresh /\ refresh' = [refresh EXCEPT !.overtaken = TRUE]
        BY <1>0, <2>1, <3>2 DEF RefreshShows
      <4>2. refresh'.overtaken = TRUE /\ "overtaken" \in DOMAIN refresh'
        BY <4>1
      <4>3. QED
        BY <4>2 DEF RefreshShows, Undisturbed
    <3>3. QED
      BY <3>1, <3>2
  <2>5. QED
    BY <2>2, <2>3, <2>4 DEF SidecarInv
<1>7. QED
  BY <1>0, <1>1, <1>2, <1>3, <1>4, <1>5, <1>6, SidecarCases

\* A refresh that nobody's rewriting overtook shows each id's last line, up to a
\* line no earlier than the last when it began: from the fingerprint it knows that
\* the rows it goes on from are of the lines there are, and appends that come in
\* between leave those alone (memory_fabric_graph_index.py:543-768).
THEOREM Readers == Spec => ReadersSeeTheStore
<1>1. Init => SidecarInv
  BY DEF Init, StoreInit, IndexInit, SidecarInv, IndexShows, RefreshShows
<1>2. TypeOK /\ SidecarInv /\ [Next]_vars => SidecarInv'
  BY SidecarStep
<1>3. Spec => []TypeOK
  <2>1. IInv => TypeOK
    BY DEF IInv
  <2>2. QED
    BY <2>1, Invariance, PTL
<1>4. ASSUME SidecarInv, Commit, ~index'.overtaken
      PROVE  /\ index'.offset \in refresh.since..Len(store)
             /\ index'.rows = {store[n] : n \in
                  {m \in 1..index'.offset : store[m] # Bad /\
                     \A o \in m+1..index'.offset :
                        store[o] = Bad \/ store[o].id # store[m].id}}
  <2>1. /\ refresh.step = "commit" /\ index'.rows = refresh.rows
        /\ index'.offset = refresh.offset
        /\ index'.overtaken <=> refresh.overtaken \/ (~refresh.fresh /\ index.overtaken)
    BY <1>4 DEF Commit
  <2>2. refresh # None /\ Undisturbed
    BY <1>4, <2>1 DEF None, Undisturbed
  <2>3. /\ refresh.offset \in refresh.since..Len(store)
        /\ refresh.rows = Latest(store, refresh.offset)
    BY <1>4, <2>1, <2>2 DEF SidecarInv, RefreshShows
  <2>4. QED
    BY <2>1, <2>3 DEF Latest, IsLatest
<1>5. SidecarInv /\ [Next]_vars =>
        [Commit /\ ~index'.overtaken =>
           /\ index'.offset \in refresh.since..Len(store)
           /\ index'.rows = {store[n] : n \in
                {m \in 1..index'.offset : store[m] # Bad /\
                   \A o \in m+1..index'.offset :
                      store[o] = Bad \/ store[o].id # store[m].id}}]_vars
  BY <1>4
<1>6. QED
  BY <1>1, <1>2, <1>3, <1>5, PTL DEF Spec, ReadersSeeTheStore
=============================================================================
