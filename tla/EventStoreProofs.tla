-------------------------- MODULE EventStoreProofs --------------------------
(***************************************************************************)
(* Theorems about EventStore: whatever opens, appends, waits or dies, and  *)
(* however long the stream may grow, the head tells the truth about the    *)
(* events, answers stay on disk, and the store implements RunLog.          *)
(***************************************************************************)
EXTENDS EventStore, SequenceTheorems, TLAPS

\* A process holds the lock only between its event and its head.
Holding ==
  lock # NoProcess =>
    /\ log # <<>> /\ head = Len(log) - 1
    /\ ~torn /\ ~crashed

\* A death inside an append leaves a stream that no one reads again: a partial
\* line, or a line above the head.
Broken ==
  /\ torn => crashed
  /\ crashed => torn \/ (log # <<>> /\ head = Len(log) - 1)

\* What a process has read is a beginning of the stream.
SeenIsPrefix ==
  \A p \in Processes :
    /\ Len(seen[p]) <= Len(log)
    /\ \A n \in 1..Len(seen[p]) : seen[p][n] = log[n]

IInv == TypeOK /\ HeadTrailsEvents /\ OnlyCrashesBreak /\ Holding /\ Broken

-----------------------------------------------------------------------------

\* The invariant holds at first ...
LEMMA InitIInv == Init => IInv
<1> SUFFICES ASSUME Init PROVE IInv
  OBVIOUS
<1>1. TypeOK
  <2>1. /\ store \in [Processes -> {"none", "initialising", "open"}]
        /\ seen \in [Processes -> Seq(Entries)]
    BY DEF Init
  <2>2. log \in Seq(Entries) /\ Len(log) <= MaxEvents
    BY EventStoreAssumption DEF Init
  <2>3. answers \subseteq [at : 1..Len(log), entry : Entries]
    BY DEF Init
  <2>4. QED
    BY <2>1, <2>2, <2>3 DEF Init, TypeOK
<1>2. HeadTrailsEvents
  BY DEF Init, HeadTrailsEvents, NoHead
<1>3. OnlyCrashesBreak /\ Holding /\ Broken
  BY DEF Init, OnlyCrashesBreak, Holding, Broken, NoHead
<1>4. QED
  BY <1>1, <1>2, <1>3 DEF IInv

\* ... and every step keeps it.
LEMMA StepIInv == IInv /\ [Next]_vars => IInv'
<1> SUFFICES ASSUME IInv, [Next]_vars PROVE IInv'
  OBVIOUS
<1> USE EventStoreAssumption DEF IInv, TypeOK, HeadTrailsEvents, OnlyCrashesBreak,
      Holding, Broken, NoHead, Reads
<1>1. CASE UNCHANGED vars
  BY <1>1 DEF vars
<1>2. ASSUME NEW p \in Processes, Open(p) PROVE IInv'
  BY <1>2 DEF Open
<1>3. ASSUME NEW p \in Processes, InitHead(p) PROVE IInv'
  BY <1>3 DEF InitHead
<1>4. ASSUME NEW p \in Processes, Read(p) PROVE IInv'
  BY <1>4 DEF Read
<1>5. ASSUME NEW p \in Processes, NEW e \in Entries, Replay(p, e) PROVE IInv'
  BY <1>5 DEF Replay, Positions
<1>6. ASSUME NEW p \in Processes, NEW e \in Entries,
             NEW expected \in {AnyRevision} \cup 0..Len(log),
             WriteEvent(p, e, expected)
      PROVE  IInv'
  BY <1>6 DEF WriteEvent
<1>7. ASSUME NEW p \in Processes, ReplaceHead(p) PROVE IInv'
  BY <1>7 DEF ReplaceHead, Last
<1>8. ASSUME NEW p \in Processes, CrashBeforeHead(p) PROVE IInv'
  BY <1>8 DEF CrashBeforeHead
<1>9. ASSUME NEW p \in Processes, DieUnanswered(p) PROVE IInv'
  BY <1>9 DEF DieUnanswered
<1>10. ASSUME NEW p \in Processes, CrashInLine(p) PROVE IInv'
  BY <1>10 DEF CrashInLine
<1>11. ASSUME NEW p \in Processes, Leave(p) PROVE IInv'
  BY <1>11 DEF Leave
<1>12. QED
  BY <1>1, <1>2, <1>3, <1>4, <1>5, <1>6, <1>7, <1>8, <1>9, <1>10, <1>11 DEF Next

\* The files and what processes know keep their types; answers name written lines.
THEOREM TypeCorrect == Spec => []TypeOK
<1>1. IInv => TypeOK
  BY DEF IInv
<1>2. QED
  BY InitIInv, StepIInv, <1>1, PTL DEF Spec

\* The head is never ahead of the events, nor behind by more than the event
\* being appended.
THEOREM HeadTrails == Spec => []HeadTrailsEvents
<1>1. IInv => HeadTrailsEvents
  BY DEF IInv
<1>2. QED
  BY InitIInv, StepIInv, <1>1, PTL DEF Spec

\* Without a death inside an append, stream and head agree whenever the lock is
\* free.
THEOREM OpensRaceWithNothing == Spec => []OnlyCrashesBreak
<1>1. IInv => OnlyCrashesBreak
  BY DEF IInv
<1>2. QED
  BY InitIInv, StepIInv, <1>1, PTL DEF Spec

\* Both at once.
THEOREM HeadFollows == Spec => []HeadFollowsStream
BY HeadTrails, OpensRaceWithNothing, PTL DEF HeadFollowsStream

-----------------------------------------------------------------------------
(* Answers *)

\* The stream only grows, and the head with it.
LEMMA Grows ==
  ASSUME IInv, [Next]_vars
  PROVE  /\ Len(log) <= Len(log') /\ \A n \in 1..Len(log) : log'[n] = log[n]
         /\ head <= head'
<1> USE EventStoreAssumption DEF IInv, TypeOK, HeadTrailsEvents, Holding, Broken, NoHead
<1>1. ASSUME UNCHANGED <<log, head>>
      PROVE  /\ Len(log) <= Len(log') /\ \A n \in 1..Len(log) : log'[n] = log[n]
             /\ head <= head'
  BY <1>1
<1>2. ASSUME NEW p \in Processes, InitHead(p)
      PROVE  /\ Len(log) <= Len(log') /\ \A n \in 1..Len(log) : log'[n] = log[n]
             /\ head <= head'
  BY <1>2 DEF InitHead
<1>3. ASSUME NEW p \in Processes, NEW e \in Entries, NEW expected, WriteEvent(p, e, expected)
      PROVE  /\ Len(log) <= Len(log') /\ \A n \in 1..Len(log) : log'[n] = log[n]
             /\ head <= head'
  BY <1>3 DEF WriteEvent
<1>4. ASSUME NEW p \in Processes, ReplaceHead(p) \/ DieUnanswered(p)
      PROVE  /\ Len(log) <= Len(log') /\ \A n \in 1..Len(log) : log'[n] = log[n]
             /\ head <= head'
  BY <1>4 DEF ReplaceHead, DieUnanswered
<1>5. QED
  BY <1>1, <1>2, <1>3, <1>4
     DEF Next, vars, Open, Read, Replay, CrashBeforeHead, CrashInLine, Leave

\* A step that answers at all adds the entry at some place below the new head.
LEMMA NewAnswer ==
  ASSUME IInv, [Next]_vars
  PROVE  \/ answers' = answers
         \/ \E n \in 1..Len(log) : /\ answers' = answers \cup {[at |-> n, entry |-> log[n]]}
                                  /\ n <= head' /\ log' = log /\ ~crashed /\ crashed' = crashed
<1> DEFINE Adds == \E n \in 1..Len(log) :
                     /\ answers' = answers \cup {[at |-> n, entry |-> log[n]]}
                     /\ n <= head' /\ log' = log /\ ~crashed /\ crashed' = crashed
<1> USE DEF IInv, TypeOK, Holding, Broken
<1>1. ASSUME NEW p \in Processes, NEW e \in Entries, Replay(p, e) PROVE Adds
  <2>1. ~crashed
    BY <1>1 DEF Replay, Reads
  <2>2. PICK n \in Positions(e.key) : answers' = answers \cup {[at |-> n, entry |-> log[n]]}
    BY <1>1 DEF Replay
  <2>3. n \in 1..Len(log) /\ n <= head' /\ log' = log /\ crashed' = crashed
    BY <1>1, <2>2 DEF Replay, Reads, Positions
  <2>4. QED
    BY <2>1, <2>2, <2>3
<1>2. ASSUME NEW p \in Processes, ReplaceHead(p) PROVE Adds
  <2>1. lock # NoProcess
    BY <1>2, EventStoreAssumption DEF ReplaceHead
  <2>2. Len(log) \in 1..Len(log) /\ ~crashed
    BY <2>1
  <2>3. /\ answers' = answers \cup {[at |-> Len(log), entry |-> log[Len(log)]]}
        /\ Len(log) <= head' /\ log' = log /\ crashed' = crashed
    BY <1>2 DEF ReplaceHead, Last
  <2>4. QED
    BY <2>2, <2>3
<1>3. QED
  BY <1>1, <1>2 DEF Next, vars, Open, InitHead, Read, WriteEvent, CrashBeforeHead,
     DieUnanswered, CrashInLine, Leave

\* An event returned to a caller stays on disk, in its place, below the head.
THEOREM AnswersLast == Spec => []AnsweredIsDurable
<1>1. Init => AnsweredIsDurable
  BY DEF Init, AnsweredIsDurable
<1>2. IInv /\ AnsweredIsDurable /\ [Next]_vars => AnsweredIsDurable'
  <2> SUFFICES ASSUME IInv, AnsweredIsDurable, [Next]_vars,
                      NEW a \in answers'
               PROVE  a.at <= head' /\ log'[a.at] = a.entry
    BY DEF AnsweredIsDurable
  <2>1. CASE a \in answers
    <3>1. a.at \in 1..Len(log) /\ a.at <= head /\ log[a.at] = a.entry
      BY <2>1 DEF IInv, TypeOK, AnsweredIsDurable
    <3>2. head \in Int /\ head' \in Int
      BY StepIInv, EventStoreAssumption DEF IInv, TypeOK, NoHead
    <3>3. QED
      BY <3>1, <3>2, Grows
  <2>2. CASE a \notin answers
    <3>1. PICK n \in 1..Len(log) : /\ answers' = answers \cup {[at |-> n, entry |-> log[n]]}
                                    /\ n <= head' /\ log' = log
      BY <2>2, NewAnswer
    <3>2. a = [at |-> n, entry |-> log[n]]
      BY <2>2, <3>1
    <3>3. QED
      BY <3>1, <3>2
  <2>3. QED
    BY <2>1, <2>2
<1>3. QED
  BY InitIInv, StepIInv, <1>1, <1>2, PTL DEF Spec

-----------------------------------------------------------------------------
(* Readers *)

\* A read takes the whole stream, and the stream then only grows.
LEMMA StepPrefix == IInv /\ SeenIsPrefix /\ [Next]_vars => SeenIsPrefix'
<1> SUFFICES ASSUME IInv, SeenIsPrefix, [Next]_vars, NEW q \in Processes
             PROVE  /\ Len(seen'[q]) <= Len(log')
                    /\ \A n \in 1..Len(seen'[q]) : seen'[q][n] = log'[n]
  BY DEF SeenIsPrefix
<1>1. /\ seen[q] \in Seq(Entries) /\ log \in Seq(Entries) /\ log' \in Seq(Entries)
  BY StepIInv DEF IInv, TypeOK
<1>2. CASE seen'[q] = seen[q]
  BY <1>1, <1>2, Grows DEF SeenIsPrefix
<1>3. CASE seen'[q] = log
  BY <1>1, <1>3, Grows
<1>4. seen'[q] = seen[q] \/ seen'[q] = log
  BY DEF IInv, TypeOK, Next, vars, Open, InitHead, Read, Replay, WriteEvent, ReplaceHead,
     CrashBeforeHead, DieUnanswered, CrashInLine, Leave
<1>5. QED
  BY <1>2, <1>3, <1>4

\* Who expects the revision it read appends to exactly the stream it read.
THEOREM NothingSlipsIn == Spec => AppendsToWhatItRead
<1>1. Init => SeenIsPrefix
  BY DEF Init, SeenIsPrefix
<1>2. IInv /\ SeenIsPrefix =>
        \A p \in Processes, e \in Entries : WriteEvent(p, e, Len(seen[p])) => log = seen[p]
  <2> SUFFICES ASSUME IInv, SeenIsPrefix, NEW p \in Processes, NEW e \in Entries,
                      WriteEvent(p, e, Len(seen[p]))
               PROVE  log = seen[p]
    OBVIOUS
  <2>1. seen[p] \in Seq(Entries) /\ log \in Seq(Entries)
    BY DEF IInv, TypeOK
  <2>2. Len(seen[p]) = Len(log)
    BY <2>1 DEF WriteEvent, MayAppend, AnyRevision
  <2>3. QED
    BY <2>1, <2>2, SeqEqual DEF SeenIsPrefix
<1>3. QED
  BY InitIInv, StepIInv, StepPrefix, <1>1, <1>2, PTL DEF Spec, AppendsToWhatItRead

-----------------------------------------------------------------------------
(* Refinement *)

\* The store implements the log of unique keys that RunLog specifies.
THEOREM StoreImplementsLog == Spec => ImplementsRunLog
<1>1. Init => Log!Init
  BY DEF Init, Log!Init
<1>2. IInv /\ [Next]_vars => [Log!Next]_(Log!vars)
  <2> SUFFICES ASSUME IInv, [Next]_vars PROVE [Log!Next]_(Log!vars)
    OBVIOUS
  <2>1. ASSUME NEW p \in Processes, NEW e \in Entries, NEW expected,
               WriteEvent(p, e, expected)
        PROVE  Log!Accept(e)
    <3>1. ~crashed
      BY <2>1, EventStoreAssumption DEF WriteEvent, Reads, IInv, TypeOK, Broken, NoHead
    <3>2. e.key # NoKey => \A n \in 1..Len(log) : log[n].key # e.key
      BY <2>1 DEF WriteEvent, MayAppend, Positions
    <3>3. e \in [key : Keys \cup {NoKey}, body : {Created}] => log = <<>>
      BY <2>1 DEF WriteEvent, MayAppend
    <3>4. /\ log' = Append(log, e) /\ (~crashed)' \in BOOLEAN
          /\ UNCHANGED answers
      BY <2>1, StepIInv DEF WriteEvent, IInv, TypeOK
    <3>5. QED
      BY <3>1, <3>2, <3>3, <3>4 DEF Log!Accept
  <2>2. CASE answers' # answers
    BY <2>2, NewAnswer DEF Log!Next, Log!Answer
  <2>3. ASSUME NEW p \in Processes, CrashBeforeHead(p) \/ CrashInLine(p)
        PROVE  Log!Break
    BY <2>3 DEF CrashBeforeHead, CrashInLine, Log!Break
  <2>4. QED
    BY <2>1, <2>2, <2>3 DEF Next, vars, Log!Next, Log!vars, Open, InitHead, Read,
       Replay, ReplaceHead, DieUnanswered, Leave
<1>3. QED
  BY InitIInv, StepIInv, <1>1, <1>2, PTL DEF Spec, ImplementsRunLog, Log!Spec
=============================================================================
