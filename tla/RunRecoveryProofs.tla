------------------------- MODULE RunRecoveryProofs -------------------------
(***************************************************************************)
(* Theorems about RunRecovery: what a fork may come to hold, and what the  *)
(* answers of recover_run are worth, for any number of callers, forks and  *)
(* lines.                                                                  *)
(***************************************************************************)
EXTENDS RunRecovery, TLAPS, SequenceTheorems

-----------------------------------------------------------------------------
(* Types *)

Reading == [step : {"head"}, fork : Forks, good : 0..MaxLines, bad : 0..MaxLines]
Forking == [step : {"lock", "examine", "create", "link"}, fork : Forks, audit : Audits]

\* The source keeps its lines, verified or not.
SourceOK ==
  /\ source \in [good : 0..MaxLines, bad : 0..MaxLines, head : Int]
  /\ source.good + source.bad <= MaxLines

CallOK == call \in [Callers -> {Idle} \cup Reading \cup Forking]

ForkOK ==
  /\ fork \in [Forks -> Seq(Events)]
  /\ lock \in [Forks -> Callers \cup {Nobody}]
  /\ unreadable \subseteq Forks /\ interrupted \subseteq Forks
  /\ answers \subseteq [fork : Forks, audit : Audits]

LEMMA SourceTypes ==
  ASSUME SourceOK, [Next]_vars PROVE SourceOK'
<1> USE RecoveryAssumption DEF SourceOK
<1>1. CASE BeginLine
  BY <1>1 DEF BeginLine, Becomes, Whole
<1>2. CASE EndLine
  BY <1>2 DEF EndLine, Becomes
<1>3. CASE ReplaceHead
  BY <1>3 DEF ReplaceHead, Becomes
<1>4. CASE SourceCrash
  BY <1>4 DEF SourceCrash, Becomes
<1>5. CASE SourceDamage
  <2>1. ASSUME NEW n \in 1..source.good,
               Becomes(n - 1, source.good + source.bad - n + 1, source.head)
        PROVE  SourceOK'
    BY <2>1 DEF Becomes
  <2>2. ASSUME NEW h \in {Missing, Garbled}, Becomes(source.good, source.bad, h)
        PROVE  SourceOK'
    BY <2>2 DEF Becomes, Missing, Garbled
  <2>3. QED
    BY <1>5, <2>1, <2>2 DEF SourceDamage
<1>6. ASSUME UNCHANGED source PROVE SourceOK'
  BY <1>6
<1>7. QED
  BY <1>1, <1>2, <1>3, <1>4, <1>5, <1>6
  DEF Next, vars, sourceVars, Work, ReadEvents, ReadHead, LockFork, Examine,
      AppendCreated, AppendRecovered, Die, DieInAppend

\* What stops an audit is one of the reasons.
LEMMA ReasonType ==
  ASSUME NEW good \in Int, NEW bad \in Int, NEW head \in Int
  PROVE  /\ Reason(good, bad, head) \in Reasons
         /\ Reason(good, bad, head) = "ok" => bad <= 0 /\ head = good
BY DEF Reason, Reasons

LEMMA CallTypes ==
  ASSUME SourceOK, CallOK, [Next]_vars PROVE CallOK'
<1> USE RecoveryAssumption DEF CallOK
<1>1. ASSUME NEW c \in Callers, End(c) PROVE CallOK'
  BY <1>1 DEF End
<1>2. ASSUME NEW c \in Callers, NEW s \in {"examine", "create", "link"}, Goto(c, s),
             call[c].step \in {"lock", "examine", "create", "link"}
      PROVE  CallOK'
  <2>1. call[c] \in Forking
    BY <1>2 DEF Idle, Reading
  <2>2. [call[c] EXCEPT !.step = s] \in Forking
    BY <2>1 DEF Forking
  <2>3. QED
    BY <1>2, <2>2 DEF Goto
<1>3. ASSUME NEW c \in Callers, ReadEvents(c) PROVE CallOK'
  BY <1>3 DEF ReadEvents, SourceOK, Reading
<1>4. ASSUME NEW c \in Callers, ReadHead(c) PROVE CallOK'
  <2>1. call[c] \in Reading
    BY <1>4 DEF ReadHead, At, Idle, Forking
  <2>2. CASE call[c].good = 0 \/ ~standard
    BY <1>4, <2>2, <1>1 DEF ReadHead
  <2>3. CASE ~(call[c].good = 0 \/ ~standard)
    <3>1. call[c].good \in 1..MaxLines
      BY <2>1, <2>3 DEF Reading
    <3>2. Reason(call[c].good, call[c].bad, source.head) \in Reasons
      BY <2>1, ReasonType DEF Reading, SourceOK
    <3>3. [step |-> "lock", fork |-> call[c].fork,
           audit |-> [prefix |-> call[c].good,
                      reason |-> Reason(call[c].good, call[c].bad, source.head)]] \in Forking
      BY <2>1, <3>1, <3>2 DEF Forking, Audits, Reading
    <3>4. QED
      BY <1>4, <2>3, <3>3 DEF ReadHead
  <2>4. QED
    BY <2>2, <2>3
<1>5. ASSUME NEW c \in Callers, Examine(c) PROVE CallOK'
  BY <1>5, <1>1, <1>2 DEF Examine, At
<1>6. ASSUME NEW c \in Callers, LockFork(c) \/ AppendCreated(c) PROVE CallOK'
  BY <1>6, <1>2 DEF LockFork, AppendCreated, At
<1>7. ASSUME NEW c \in Callers, AppendRecovered(c) \/ Die(c) \/ DieInAppend(c) PROVE CallOK'
  BY <1>7, <1>1 DEF AppendRecovered, Die, DieInAppend
<1>8. ASSUME UNCHANGED call PROVE CallOK'
  BY <1>8
<1>9. QED
  BY <1>3, <1>4, <1>5, <1>6, <1>7, <1>8
  DEF Next, vars, BeginLine, EndLine, ReplaceHead, SourceCrash, SourceDamage, Becomes, Work

LEMMA ForkTypes ==
  ASSUME CallOK, ForkOK, [Next]_vars PROVE ForkOK'
<1> USE DEF ForkOK
<1>1. ASSUME NEW c \in Callers, LockFork(c) PROVE ForkOK'
  BY <1>1 DEF LockFork
<1>2. ASSUME NEW f \in Forks, Unlock(f) PROVE lock' \in [Forks -> Callers \cup {Nobody}]
  BY <1>2 DEF Unlock
<1>3. ASSUME NEW c \in Callers, Examine(c) PROVE ForkOK'
  <2>1. call[c].fork \in Forks
    BY <1>3 DEF Examine, At, CallOK, Idle, Reading, Forking
  <2>2. QED
    BY <1>3, <2>1 DEF Examine, Unlock
<1>4. ASSUME NEW f \in Forks, NEW e \in Events, fork' = [fork EXCEPT ![f] = Append(@, e)]
      PROVE  fork' \in [Forks -> Seq(Events)]
  BY <1>4
<1>5. ASSUME NEW c \in Callers, AppendCreated(c) PROVE ForkOK'
  <2>1. call[c].fork \in Forks /\ <<Created>> \in Seq(Events)
    BY <1>5 DEF AppendCreated, At, CallOK, Idle, Reading, Forking, Events
  <2>2. QED
    BY <1>5, <2>1 DEF AppendCreated
<1>6. ASSUME NEW c \in Callers, AppendRecovered(c) PROVE ForkOK'
  <2> DEFINE f == call[c].fork
             audit == call[c].audit
  <2>1. f \in Forks /\ audit \in Audits
    BY <1>6 DEF AppendRecovered, At, CallOK, Idle, Reading, Forking
  <2>2. Recovered(audit) \in Events
    BY <2>1 DEF Events
  <2>3. fork' \in [Forks -> Seq(Events)]
    BY <1>6, <1>4, <2>1, <2>2 DEF AppendRecovered
  <2>4. [fork |-> f, audit |-> audit] \in [fork : Forks, audit : Audits]
    BY <2>1
  <2>5. QED
    BY <1>6, <1>2, <2>1, <2>3, <2>4 DEF AppendRecovered
<1>7. ASSUME NEW f \in Forks, Work(f) PROVE ForkOK'
  BY <1>7, <1>4 DEF Work, Events
<1>8. ASSUME NEW c \in Callers, Die(c) PROVE ForkOK'
  BY <1>8 DEF Die, Holds
<1>9. ASSUME NEW c \in Callers, DieInAppend(c) PROVE ForkOK'
  <2>1. call[c].fork \in Forks
    BY <1>9 DEF DieInAppend, At, CallOK, Idle, Reading, Forking
  <2>2. QED
    BY <1>9, <2>1 DEF DieInAppend, Holds
<1>10. ASSUME UNCHANGED <<forkVars, answers>> PROVE ForkOK'
  BY <1>10 DEF forkVars
<1>11. QED
  BY <1>1, <1>3, <1>5, <1>6, <1>7, <1>8, <1>9, <1>10
  DEF Next, vars, BeginLine, EndLine, ReplaceHead, SourceCrash, SourceDamage, Becomes,
      ReadEvents, ReadHead

Typed == SourceOK /\ CallOK /\ ForkOK

LEMMA InitTyped == Init => Typed
<1>1. <<>> \in Seq(Events) /\ <<Other>> \in Seq(Events)
  BY DEF Events
<1>2. Init => SourceOK /\ CallOK
  BY RecoveryAssumption DEF Init, SourceOK, CallOK
<1>3. Init => ForkOK
  BY <1>1 DEF Init, ForkOK
<1>4. QED
  BY <1>2, <1>3 DEF Typed

LEMMA StepTyped == Typed /\ [Next]_vars => Typed'
BY SourceTypes, CallTypes, ForkTypes DEF Typed

-----------------------------------------------------------------------------
(* Audits *)

\* The head is only ever moved to the end of a stream that verifies.
HeadWasSound == source.head \in sound \cup {Missing, Garbled}

\* An audit that found nothing is about such a length.
AuditsWereSound ==
  /\ \A c \in Callers :
       call[c].step \in {"lock", "examine", "create", "link"} /\ call[c].audit.reason = "ok"
         => call[c].audit.prefix \in sound
  /\ SoundAuditsSawSoundRuns

LEMMA HeadStep ==
  ASSUME SourceOK, HeadWasSound, [Next]_vars
  PROVE  HeadWasSound' /\ sound \subseteq sound'
BY DEF SourceOK, HeadWasSound, Next, vars, sourceVars, forkVars, BeginLine, EndLine, ReplaceHead,
   SourceCrash, SourceDamage, Becomes, Work, ReadEvents, ReadHead, LockFork, Examine,
   AppendCreated, AppendRecovered, Die, DieInAppend

\* What a caller does to its own audit, and to the answers.
LEMMA AuditStep ==
  ASSUME Typed, [Next]_vars, NEW c \in Callers,
         call'[c].step \in {"lock", "examine", "create", "link"}
  PROVE  \/ /\ call[c].step \in {"lock", "examine", "create", "link"}
            /\ call'[c].audit = call[c].audit /\ call'[c].fork = call[c].fork
         \/ /\ ReadHead(c) /\ call[c] \in Reading
            /\ call'[c].audit = [prefix |-> call[c].good,
                                 reason |-> Reason(call[c].good, call[c].bad, source.head)]
<1> USE DEF Typed, CallOK, At
<1>1. ASSUME NEW d \in Callers, d # c, call' = [call EXCEPT ![d] = call'[d]]
      PROVE  call'[c] = call[c]
  BY <1>1
<1>2. ASSUME NEW d \in Callers, ReadHead(d) PROVE call[d] \in Reading
  BY <1>2 DEF ReadHead, Idle, Forking
<1>3. CASE call'[c] = call[c]
  BY <1>3
<1>4. CASE ReadEvents(c) \/ AppendRecovered(c) \/ Die(c) \/ DieInAppend(c)
  BY <1>4 DEF ReadEvents, AppendRecovered, Die, DieInAppend, End, Idle
<1>5. CASE ReadHead(c)
  BY <1>5, <1>2 DEF ReadHead, End, Idle
<1>6. CASE LockFork(c) \/ Examine(c) \/ AppendCreated(c)
  <2>1. call[c] \in Forking
    BY <1>6 DEF LockFork, Examine, AppendCreated, Idle, Reading
  <2>2. QED
    BY <1>6, <2>1 DEF LockFork, Examine, AppendCreated, Goto, End, Idle, Forking
<1>7. ASSUME NEW d \in Callers, d # c,
             \/ ReadEvents(d) \/ ReadHead(d) \/ LockFork(d) \/ Examine(d)
             \/ AppendCreated(d) \/ AppendRecovered(d) \/ Die(d) \/ DieInAppend(d)
      PROVE  call'[c] = call[c]
  BY <1>7 DEF ReadEvents, ReadHead, LockFork, Examine, AppendCreated, AppendRecovered,
              Die, DieInAppend, End, Goto
<1>8. QED
  BY <1>3, <1>4, <1>5, <1>6, <1>7
  DEF Next, vars, BeginLine, EndLine, ReplaceHead, SourceCrash, SourceDamage, Becomes, Work

\* An answer that is new is that of a call at its last step.
LEMMA AnswerStep ==
  ASSUME [Next]_vars, NEW a \in answers', a \notin answers
  PROVE  \E c \in Callers :
           /\ AppendRecovered(c)
           /\ a = [fork |-> call[c].fork, audit |-> call[c].audit]
BY DEF Next, vars, sourceVars, forkVars, BeginLine, EndLine, ReplaceHead, SourceCrash,
       SourceDamage, Becomes, Work, ReadEvents, ReadHead, LockFork, Examine,
       AppendCreated, AppendRecovered, Die, DieInAppend

\* A caller is told that the source can be written to only for a prefix at which
\* stream and head have agreed.
THEOREM SoundAudits == Spec => []SoundAuditsSawSoundRuns
<1> DEFINE Inv == Typed /\ HeadWasSound /\ AuditsWereSound
<1>1. Init => Inv
  <2>1. Init => Typed
    BY InitTyped
  <2>2. QED
    BY <2>1 DEF Init, HeadWasSound, AuditsWereSound, SoundAuditsSawSoundRuns, Idle
<1>2. Inv /\ [Next]_vars => Inv'
  <2> SUFFICES ASSUME Inv, [Next]_vars PROVE Inv'
    OBVIOUS
  <2>1. Typed' /\ HeadWasSound' /\ sound \subseteq sound'
    BY StepTyped, HeadStep DEF Typed
  <2>2. ASSUME NEW c \in Callers,
               call'[c].step \in {"lock", "examine", "create", "link"},
               call'[c].audit.reason = "ok"
        PROVE  call'[c].audit.prefix \in sound'
    <3>1. CASE call'[c].audit = call[c].audit /\
               call[c].step \in {"lock", "examine", "create", "link"}
      BY <2>1, <2>2, <3>1 DEF AuditsWereSound
    <3>2. CASE /\ call[c] \in Reading
               /\ call'[c].audit = [prefix |-> call[c].good,
                     reason |-> Reason(call[c].good, call[c].bad, source.head)]
      <4>1. Reason(call[c].good, call[c].bad, source.head) = "ok"
        BY <2>2, <3>2
      <4>2. source.head = call[c].good /\ call[c].good \in Nat
        BY <3>2, <4>1, ReasonType DEF Reading, Typed, SourceOK
      <4>3. call[c].good \in sound
        BY <4>2 DEF HeadWasSound, Missing, Garbled
      <4>4. QED
        BY <2>1, <3>2, <4>3
    <3>3. QED
      BY <2>2, <3>1, <3>2, AuditStep
  <2>3. ASSUME NEW a \in answers', a.audit.reason = "ok" PROVE a.audit.prefix \in sound'
    <3>1. CASE a \in answers
      BY <2>1, <2>3, <3>1 DEF AuditsWereSound, SoundAuditsSawSoundRuns
    <3>2. CASE a \notin answers
      <4>1. PICK c \in Callers : /\ AppendRecovered(c)
                                 /\ a = [fork |-> call[c].fork, audit |-> call[c].audit]
        BY <3>2, AnswerStep
      <4>2. QED
        BY <2>1, <2>3, <4>1 DEF AuditsWereSound, AppendRecovered, At
    <3>3. QED
      BY <3>1, <3>2
  <2>4. QED
    BY <2>1, <2>2, <2>3 DEF AuditsWereSound, SoundAuditsSawSoundRuns
<1>3. Inv => SoundAuditsSawSoundRuns
  BY DEF AuditsWereSound
<1>4. QED
  BY <1>1, <1>2, <1>3, PTL DEF Spec

-----------------------------------------------------------------------------
(* Forks *)

Busy(c) == call[c].step \in {"examine", "create", "link"}

\* Whoever works on a fork holds its lock.
Exclusive == \A c \in Callers : Busy(c) => lock[call[c].fork] = c

\* Two callers never work on one fork.
LEMMA OneAtATime ==
  ASSUME Exclusive, NEW c \in Callers, NEW d \in Callers, Busy(c), Busy(d),
         call[c].fork = call[d].fork
  PROVE  c = d
BY DEF Exclusive

\* A caller that works on a fork after a step has made one of three steps to it, or
\* none.
LEMMA BusyStep ==
  ASSUME Typed, [Next]_vars, NEW c \in Callers, Busy(c)'
  PROVE  /\ call[c] \in Forking /\ call'[c].fork = call[c].fork
         /\ call'[c].audit = call[c].audit
         /\ \/ LockFork(c) /\ call'[c].step = "examine"
            \/ /\ Examine(c) /\ Busy(c) /\ call'[c].step = "create"
               /\ Resumable(fork[call[c].fork], call[c].audit)
            \/ AppendCreated(c) /\ Busy(c) /\ call'[c].step = "link"
            \/ Busy(c) /\ call'[c] = call[c] /\ ~AppendCreated(c) /\ ~AppendRecovered(c)
<1> USE DEF Typed, CallOK, At, Busy
<1>1. CASE ReadEvents(c) \/ ReadHead(c) \/ AppendRecovered(c) \/ Die(c) \/ DieInAppend(c)
  BY <1>1 DEF ReadEvents, ReadHead, AppendRecovered, Die, DieInAppend, End, Idle
<1>2. ASSUME LockFork(c) \/ Examine(c) \/ AppendCreated(c) PROVE call[c] \in Forking
  BY <1>2 DEF LockFork, Examine, AppendCreated, Idle, Reading
<1>3. CASE LockFork(c)
  BY <1>2, <1>3 DEF LockFork, Goto, Forking
<1>4. CASE Examine(c)
  BY <1>2, <1>4 DEF Examine, Goto, End, Idle, Forking
<1>5. CASE AppendCreated(c)
  BY <1>2, <1>5 DEF AppendCreated, Goto, Forking
<1>6. CASE call'[c] = call[c] /\ ~AppendCreated(c) /\ ~AppendRecovered(c)
  BY <1>6 DEF Idle, Reading
<1>7. ASSUME NEW d \in Callers, d # c,
             \/ ReadEvents(d) \/ ReadHead(d) \/ LockFork(d) \/ Examine(d)
             \/ AppendCreated(d) \/ AppendRecovered(d) \/ Die(d) \/ DieInAppend(d)
      PROVE  call'[c] = call[c]
  BY <1>7 DEF ReadEvents, ReadHead, LockFork, Examine, AppendCreated, AppendRecovered,
              Die, DieInAppend, End, Goto
<1>8. CASE ~AppendCreated(c) /\ ~AppendRecovered(c)
  BY <1>1, <1>3, <1>4, <1>6, <1>7, <1>8
  DEF Next, vars, BeginLine, EndLine, ReplaceHead, SourceCrash, SourceDamage, Becomes, Work
<1>9. QED
  BY <1>1, <1>5, <1>8

LEMMA ExclusiveStep == ASSUME Typed, Exclusive, [Next]_vars PROVE Exclusive'
<1> SUFFICES ASSUME NEW c \in Callers, Busy(c)' PROVE lock'[call[c].fork] = c
  BY BusyStep DEF Exclusive
<1> USE DEF Typed, ForkOK
<1>1. call[c] \in Forking /\ (Busy(c) \/ LockFork(c))
  BY BusyStep
<1>2. call[c].fork \in Forks
  BY <1>1 DEF Forking
<1>3. CASE LockFork(c)
  BY <1>2, <1>3 DEF LockFork
<1>4. ASSUME Busy(c) PROVE lock'[call[c].fork] = c
  <2>1. lock[call[c].fork] = c
    BY <1>4 DEF Exclusive
  <2>2. lock[call[c].fork] # Nobody
    BY <2>1, RecoveryAssumption
  <2>3. ASSUME NEW d \in Callers, d # c, Examine(d) \/ AppendRecovered(d)
        PROVE  lock'[call[c].fork] = c
    <3>1. Busy(d)
      BY <2>3 DEF Busy, Examine, AppendRecovered, At
    <3>2. call[d].fork # call[c].fork
      BY <1>4, <2>3, <3>1, OneAtATime
    <3>3. QED
      BY <1>2, <2>1, <2>3, <3>2 DEF Examine, AppendRecovered, Unlock
  <2>4. ASSUME NEW d \in Callers, LockFork(d) PROVE lock'[call[c].fork] = c
    BY <1>2, <2>1, <2>2, <2>4 DEF LockFork
  <2>5. ASSUME NEW d \in Callers, d # c, Die(d) \/ DieInAppend(d)
        PROVE  lock'[call[c].fork] = c
    BY <1>2, <2>1, <2>5 DEF Die, DieInAppend
  <2>6. ASSUME AppendRecovered(c) \/ Die(c) \/ DieInAppend(c) PROVE FALSE
    BY <2>6 DEF AppendRecovered, Die, DieInAppend, End, Busy, Idle, CallOK
  <2>7. ASSUME Examine(c) PROVE UNCHANGED lock
    BY <2>7 DEF Examine, End, Busy, Idle, CallOK
  <2>8. CASE UNCHANGED lock
    BY <2>1, <2>8
  <2>9. QED
    BY <2>3, <2>4, <2>5, <2>6, <2>7, <2>8
    DEF Next, vars, forkVars, BeginLine, EndLine, ReplaceHead, SourceCrash, SourceDamage,
        Becomes, Work, ReadEvents, ReadHead, AppendCreated
<1>5. QED
  BY <1>1, <1>3, <1>4

\* How a fork grows.
LEMMA ForkGrows ==
  ASSUME Typed, [Next]_vars, NEW f \in Forks, fork'[f] # fork[f]
  PROVE  \/ Work(f) /\ lock[f] = Nobody /\ fork[f] # <<>> /\ fork'[f] = Append(fork[f], Other)
         \/ \E c \in Callers :
              /\ Busy(c) /\ call[c].fork = f /\ call[c].step = "create" /\ AppendCreated(c)
              /\ fork[f] = <<>> /\ fork'[f] = <<Created>>
         \/ \E c \in Callers :
              /\ Busy(c) /\ call[c].fork = f /\ call[c].step = "link" /\ AppendRecovered(c)
              /\ \A n \in DOMAIN fork[f] : fork[f][n].type # "recovered"
              /\ fork'[f] = Append(fork[f], Recovered(call[c].audit))
<1> USE DEF Typed, ForkOK
<1>1. ASSUME NEW g \in Forks, Work(g)
      PROVE  g = f /\ lock[f] = Nobody /\ fork[f] # <<>> /\ fork'[f] = Append(fork[f], Other)
  BY <1>1 DEF Work
<1>2. ASSUME NEW c \in Callers, AppendCreated(c)
      PROVE  /\ Busy(c) /\ call[c].fork = f /\ call[c].step = "create"
             /\ fork[f] = <<>> /\ fork'[f] = <<Created>>
  BY <1>2 DEF AppendCreated, At, Busy, Fork
<1>3. ASSUME NEW c \in Callers, AppendRecovered(c)
      PROVE  /\ Busy(c) /\ call[c].fork = f /\ call[c].step = "link"
             /\ \A n \in DOMAIN fork[f] : fork[f][n].type # "recovered"
             /\ fork'[f] = Append(fork[f], Recovered(call[c].audit))
  BY <1>3 DEF AppendRecovered, At, Busy
<1>4. QED
  BY <1>1, <1>2, <1>3
  DEF Next, vars, forkVars, BeginLine, EndLine, ReplaceHead, SourceCrash, SourceDamage,
      Becomes, ReadEvents, ReadHead, LockFork, Examine, Die, DieInAppend

\* What a caller has found, or made, of its fork.
Prepared ==
  \A c \in Callers :
    /\ call[c].step = "create" => Resumable(fork[call[c].fork], call[c].audit)
    /\ call[c].step = "link" =>
         fork[call[c].fork] \in {<<Created>>, <<Created, Recovered(call[c].audit)>>}

LEMMA PreparedStep ==
  ASSUME Typed, Exclusive, Prepared, [Next]_vars PROVE Prepared'
<1> SUFFICES ASSUME NEW c \in Callers, Busy(c)', call'[c].step \in {"create", "link"}
             PROVE  /\ call'[c].step = "create" =>
                         Resumable(fork'[call[c].fork], call[c].audit)
                    /\ call'[c].step = "link" =>
                         fork'[call[c].fork] \in
                           {<<Created>>, <<Created, Recovered(call[c].audit)>>}
  BY BusyStep DEF Prepared, Busy, Resumable
<1> DEFINE f == call[c].fork
<1>1. f \in Forks
  BY BusyStep DEF Forking
<1>2. CASE Examine(c) /\ call'[c].step = "create" /\ Resumable(fork[f], call[c].audit)
  BY <1>2 DEF Examine
<1>3. CASE AppendCreated(c) /\ call'[c].step = "link"
  <2>1. Resumable(fork[f], call[c].audit)
    BY <1>3 DEF Prepared, AppendCreated, At
  <2>2. CASE fork[f] = <<>>
    BY <1>1, <1>3, <2>2 DEF AppendCreated, Fork, Typed, ForkOK
  <2>3. CASE fork[f] # <<>>
    <3>1. fork' = fork
      BY <1>3, <2>3 DEF AppendCreated, Fork
    <3>2. QED
      BY <1>3, <2>1, <2>3, <3>1 DEF Resumable
  <2>4. QED
    BY <2>2, <2>3
<1>4. CASE Busy(c) /\ call'[c] = call[c] /\ ~AppendCreated(c) /\ ~AppendRecovered(c)
  <2>1. fork'[f] = fork[f]
    <3> SUFFICES ASSUME fork'[f] # fork[f] PROVE FALSE
      OBVIOUS
    <3>1. lock[f] = c
      BY <1>4 DEF Exclusive
    <3>2. ASSUME NEW d \in Callers, Busy(d), call[d].fork = f PROVE d = c
      BY <1>4, <3>2, OneAtATime
    <3>3. QED
      BY <1>1, <1>4, <3>1, <3>2, ForkGrows, RecoveryAssumption
  <2>2. QED
    BY <1>4, <2>1 DEF Prepared
<1>5. QED
  BY <1>2, <1>3, <1>4, BusyStep

\* What a fork has it keeps; a provenance event that comes in comes second.
LEMMA ForkEffect ==
  ASSUME Typed, Exclusive, Prepared, [Next]_vars, NEW f \in Forks
  PROVE  /\ Len(fork[f]) <= Len(fork'[f])
         /\ \A n \in 1..Len(fork[f]) : fork'[f][n] = fork[f][n]
         /\ \A n \in 1..Len(fork'[f]) : n > Len(fork[f]) /\ fork'[f][n].type = "recovered"
              => n = 2 /\ fork'[f][1] = Created
<1>1. fork[f] \in Seq(Events)
  BY DEF Typed, ForkOK
<1>2. CASE fork'[f] = fork[f]
  BY <1>1, <1>2
<1>3. CASE fork'[f] = Append(fork[f], Other)
  BY <1>1, <1>3 DEF Other
<1>4. CASE fork[f] = <<>> /\ fork'[f] = <<Created>>
  BY <1>4 DEF Created
<1>5. ASSUME NEW c \in Callers, call[c].fork = f, call[c].step = "link",
             \A n \in DOMAIN fork[f] : fork[f][n].type # "recovered",
             fork'[f] = Append(fork[f], Recovered(call[c].audit))
      PROVE  fork[f] = <<Created>>
  <2>1. fork[f] # <<Created, Recovered(call[c].audit)>>
    BY <1>5 DEF Recovered
  <2>2. QED
    BY <1>5, <2>1 DEF Prepared
<1>6. ASSUME NEW c \in Callers, fork[f] = <<Created>>,
             fork'[f] = Append(fork[f], Recovered(call[c].audit))
      PROVE  /\ Len(fork'[f]) = 2 /\ fork'[f][1] = Created
  BY <1>6
<1>7. QED
  BY <1>2, <1>3, <1>4, <1>5, <1>6, ForkGrows

Forked == Exclusive /\ Prepared /\ ProvenanceComesSecond /\ AnswersAreOnTheStream

LEMMA InitForked == Init => Forked
BY DEF Init, Forked, Exclusive, Prepared, Busy, Idle, ProvenanceComesSecond,
       AnswersAreOnTheStream, Other

LEMMA StepForked == ASSUME Typed, Forked, [Next]_vars PROVE Forked'
<1>1. Exclusive' /\ Prepared'
  BY ExclusiveStep, PreparedStep DEF Forked
<1>2. ProvenanceComesSecond'
  BY ForkEffect DEF Forked, ProvenanceComesSecond, Typed, ForkOK
<1>3. ASSUME NEW a \in answers' PROVE Len(fork'[a.fork]) > 1 /\ fork'[a.fork][2] = Recovered(a.audit)
  <2>1. CASE a \in answers
    <3>1. a.fork \in Forks /\ Len(fork[a.fork]) > 1 /\ fork[a.fork][2] = Recovered(a.audit)
      BY <2>1 DEF Forked, AnswersAreOnTheStream, Typed, ForkOK
    <3>2. fork[a.fork] \in Seq(Events) /\ fork'[a.fork] \in Seq(Events)
      BY <3>1, StepTyped DEF Typed, ForkOK
    <3>3. QED
      BY <3>1, <3>2, ForkEffect DEF Forked
  <2>2. CASE a \notin answers
    <3>1. PICK c \in Callers : /\ AppendRecovered(c)
                               /\ a = [fork |-> call[c].fork, audit |-> call[c].audit]
      BY <2>2, AnswerStep
    <3>2. a.fork \in Forks /\ fork[a.fork] \in {<<Created>>, <<Created, Recovered(a.audit)>>}
      BY <3>1 DEF Forked, Prepared, AppendRecovered, At, Typed, CallOK, Forking, Idle, Reading
    <3>3. CASE fork[a.fork] = <<Created>>
      <4>1. fork'[a.fork] = Append(fork[a.fork], Recovered(a.audit))
        BY <3>1, <3>2, <3>3 DEF AppendRecovered, Typed, ForkOK, Created
      <4>2. QED
        BY <3>3, <4>1
    <3>4. CASE fork[a.fork] = <<Created, Recovered(a.audit)>>
      <4>1. fork'[a.fork] = fork[a.fork]
        BY <3>1, <3>4 DEF AppendRecovered, Recovered
      <4>2. QED
        BY <3>4, <4>1
    <3>5. QED
      BY <3>2, <3>3, <3>4
  <2>3. QED
    BY <2>1, <2>2
<1>4. QED
  BY <1>1, <1>2, <1>3 DEF Forked, AnswersAreOnTheStream

\* A fork's provenance follows its creation, and is the only one.
THEOREM Provenance == Spec => []ProvenanceComesSecond
<1>1. Forked => ProvenanceComesSecond
  BY DEF Forked
<1>2. QED
  BY InitTyped, StepTyped, InitForked, StepForked, <1>1, PTL DEF Spec

\* An answer names the provenance its fork has.
THEOREM Answers == Spec => []AnswersAreOnTheStream
<1>1. Forked => AnswersAreOnTheStream
  BY DEF Forked
<1>2. QED
  BY InitTyped, StepTyped, InitForked, StepForked, <1>1, PTL DEF Spec

-----------------------------------------------------------------------------
(* Creation and provenance *)

Linked(f) == Len(fork[f]) > 1 /\ fork[f][2].type = "recovered"
HalfMade(f) == f \notin interrupted /\ fork[f] # <<>> /\ fork[f][1] = Created /\ ~Linked(f)

\* A fork between its two appends is in somebody's hands.
InHand(f) == \E c \in Callers : lock[f] = c /\ call[c].step = "link" /\ call[c].fork = f
HalfMadeInHand == \A f \in Forks : HalfMade(f) => InHand(f)

\* A fork becomes half made only by its creation.
LEMMA HalfMadeStep ==
  ASSUME Typed, Forked, [Next]_vars, NEW f \in Forks, HalfMade(f)'
  PROVE  HalfMade(f) \/ (fork[f] = <<>> /\ fork'[f] # <<>>)
<1>1. f \notin interrupted
  BY DEF HalfMade, Next, vars, forkVars, BeginLine, EndLine, ReplaceHead, SourceCrash,
         SourceDamage, Becomes, Work, ReadEvents, ReadHead, LockFork, Examine,
         AppendCreated, AppendRecovered, Die, DieInAppend
<1>2. fork[f] \in Seq(Events) /\ fork'[f] \in Seq(Events)
  BY StepTyped DEF Typed, ForkOK
<1>3. CASE fork[f] # <<>>
  <2>1. Len(fork[f]) >= 1 /\ fork'[f][1] = fork[f][1]
    BY <1>2, <1>3, ForkEffect DEF Forked
  <2>2. Linked(f) => Linked(f)'
    BY <1>2, ForkEffect DEF Forked, Linked
  <2>3. QED
    BY <1>1, <1>3, <2>1, <2>2 DEF HalfMade
<1>4. QED
  BY <1>3 DEF HalfMade

LEMMA HandStep ==
  ASSUME Typed, Forked, HalfMadeInHand, [Next]_vars PROVE HalfMadeInHand'
<1> SUFFICES ASSUME NEW f \in Forks, HalfMade(f)' PROVE InHand(f)'
  BY DEF HalfMadeInHand
<1>1. CASE fork[f] = <<>> /\ fork'[f] # <<>>
  <2>1. PICK c \in Callers : Busy(c) /\ call[c].fork = f /\ AppendCreated(c)
    <3>1. ASSUME NEW c \in Callers, call[c].fork = f, call[c].step = "link" PROVE FALSE
      BY <1>1, <3>1 DEF Forked, Prepared
    <3>2. QED
      BY <1>1, <3>1, ForkGrows
  <2>2. lock[f] = c /\ call[c] \in Forking
    BY <2>1 DEF Forked, Exclusive, Busy, Typed, CallOK, Idle, Reading
  <2>3. call'[c].step = "link" /\ call'[c].fork = f
    BY <2>1, <2>2 DEF AppendCreated, Goto, Typed, CallOK, Forking
  <2>4. QED
    BY <2>1, <2>2, <2>3 DEF AppendCreated, InHand
<1>2. CASE HalfMade(f)
  <2>1. PICK c \in Callers : lock[f] = c /\ call[c].step = "link" /\ call[c].fork = f
    BY <1>2 DEF HalfMadeInHand, InHand
  <2>2. lock[f] # Nobody
    BY <2>1, RecoveryAssumption
  <2>3. ASSUME AppendRecovered(c) PROVE FALSE
    <3>1. fork[f] \in {<<Created>>, <<Created, Recovered(call[c].audit)>>}
      BY <2>1 DEF Forked, Prepared
    <3>2. fork[f] = <<Created>>
      BY <1>2, <3>1 DEF HalfMade, Linked, Recovered
    <3>3. fork'[f] = Append(fork[f], Recovered(call[c].audit))
      BY <2>1, <2>3, <3>2 DEF AppendRecovered, Typed, ForkOK, Created
    <3>4. Linked(f)'
      BY <3>2, <3>3 DEF Linked, Recovered
    <3>5. QED
      BY <3>4 DEF HalfMade
  <2>4. ASSUME Die(c) \/ DieInAppend(c) PROVE FALSE
    BY <2>1, <2>4 DEF Die, DieInAppend, Holds, HalfMade
  <2>5. ASSUME NEW d \in Callers, d # c, Examine(d) \/ AppendRecovered(d)
        PROVE  lock'[f] = c
    <3>1. Busy(d)
      BY <2>5 DEF Busy, Examine, AppendRecovered, At
    <3>2. call[d].fork # f
      BY <2>1, <2>5, <3>1 DEF Forked, Exclusive
    <3>3. QED
      BY <2>1, <2>5, <3>2 DEF Examine, AppendRecovered, Unlock, Typed, ForkOK
  <2>6. ASSUME NEW d \in Callers, LockFork(d) PROVE lock'[f] = c
    BY <2>1, <2>2, <2>6 DEF LockFork, Typed, ForkOK
  <2>7. ASSUME NEW d \in Callers, d # c, Die(d) \/ DieInAppend(d) PROVE lock'[f] = c
    BY <2>1, <2>7 DEF Die, DieInAppend
  <2>8. lock'[f] = c
    <3>1. ASSUME Examine(c) PROVE FALSE
      BY <2>1, <3>1 DEF Examine, At
    <3>2. QED
      BY <2>1, <2>3, <2>4, <2>5, <2>6, <2>7, <3>1
      DEF Next, vars, forkVars, BeginLine, EndLine, ReplaceHead, SourceCrash, SourceDamage,
          Becomes, Work, ReadEvents, ReadHead, AppendCreated
  <2>9. call'[c] = call[c]
    <3>1. ASSUME NEW d \in Callers, d # c,
                 \/ ReadEvents(d) \/ ReadHead(d) \/ LockFork(d) \/ Examine(d)
                 \/ AppendCreated(d) \/ AppendRecovered(d) \/ Die(d) \/ DieInAppend(d)
          PROVE  call'[c] = call[c]
      BY <3>1 DEF ReadEvents, ReadHead, LockFork, Examine, AppendCreated, AppendRecovered,
                  Die, DieInAppend, End, Goto, Typed, CallOK
    <3>2. ASSUME \/ ReadEvents(c) \/ ReadHead(c) \/ LockFork(c) \/ Examine(c)
                 \/ AppendCreated(c)
          PROVE  FALSE
      BY <2>1, <3>2 DEF ReadEvents, ReadHead, LockFork, Examine, AppendCreated, At
    <3>3. QED
      BY <2>3, <2>4, <3>1, <3>2
      DEF Next, vars, BeginLine, EndLine, ReplaceHead, SourceCrash, SourceDamage,
          Becomes, Work
  <2>10. QED
    BY <2>1, <2>8, <2>9 DEF InHand
<1>3. QED
  BY <1>1, <1>2, HalfMadeStep

\* Whoever takes the lock of a fork finds both of recover_run's events or none, unless a
\* recovery has died in it.
THEOREM BornLinked == Spec => []ForksAreBornLinked
<1>1. Init => HalfMadeInHand
  BY DEF Init, HalfMadeInHand, HalfMade, Created, Other
<1>2. HalfMadeInHand => ForksAreBornLinked
  BY RecoveryAssumption DEF HalfMadeInHand, HalfMade, InHand, Linked, ForksAreBornLinked
<1>3. QED
  BY InitTyped, StepTyped, InitForked, StepForked, HandStep, <1>1, <1>2, PTL DEF Spec
=============================================================================
