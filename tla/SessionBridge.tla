---------------------------- MODULE SessionBridge ----------------------------
(***************************************************************************)
(* A Hermes session shown on the goal board as a run with one task         *)
(* (scripts/sips_session_bridge.py over RunController).  The bridge leases *)
(* the task under a fixed owner, renews the lease at tool calls, no more   *)
(* often than every MinBeat, and ends the run at teardown.  Whatever goes  *)
(* wrong is swallowed: the session itself must not notice.                 *)
(*                                                                         *)
(* The handle lives in the process; the run and the keys of the beats it   *)
(* has taken survive the process, and a new process starts from them.      *)
(* Tool hooks come from several threads, and a hook looks at the throttle, *)
(* reads the run and appends its beat in three steps without a lock over   *)
(* them; run.beats += 1 is one step of the interpreter.  The other hooks   *)
(* of a session come one after another.  A call takes less than a tick.    *)
(* The session is the only scheduler of its run; an operator may cancel it.*)
(***************************************************************************)
EXTENDS RunController

CONSTANTS
  session,     \* the task
  hermes,      \* _OWNER
  Hooks,       \* threads that report tool calls
  MinBeat,     \* _MIN_BEAT_INTERVAL, in clock ticks
  MaxBeats,    \* _MAX_BEATS
  Usage        \* tokens finish reports as used

\* The run of a session.  Whoever instantiates this module states it: theorems
\* about the controller extend the module too, and are about every run.
SessionAssumption ==
  /\ Tasks = {session} /\ Owners = {hermes}
  /\ IsFiniteSet(Hooks) /\ Hooks # {}
  /\ MinBeat \in Nat \ {0} /\ MaxBeats \in Nat \ {0}
  /\ Usage \in 1..Estimate[session]
  /\ Estimate[session] = HardLimit

\* The budget of beats lasts: with a number for every hook used up each
\* throttle's time, some are left at the attempt ceiling.
EnoughBeats ==
  Cardinality(Hooks) * (AttemptCeiling - MinBeat) <= (MaxBeats - 1) * MinBeat

VARIABLES
  handle,       \* how far the process is with the session, or what ended it
  beats,        \* run.beats: the number of the next beat
  sinceBeat,    \* ticks since run.last_beat, as far as it matters
  disabled,     \* run.disabled
  due,          \* hooks past the throttle that have not read the run yet
  looking,      \* looking[h]: run.beats when h read the run; 0 when it has not
  stale,        \* hooks whose read of the run is behind
  taken,        \* numbers of the beats on the stream
  sinceTaken,   \* ticks since the last of them
  burst,        \* how many beats came, each within a throttle of the last
  sinceCall,    \* ticks since the last tool call
  steady,       \* this process leased the task and its calls never paused
  lateFinish    \* finish was called, the attempt past its ceiling

handleVars == <<handle, beats, sinceBeat, disabled, due, looking, stale>>
history == <<taken, sinceTaken, burst, sinceCall, steady, lateFinish>>
allVars == <<vars, handleVars, history>>

NoHandle == "none"
Starting == {"submit", "lease", "beat"}
Pause == LeaseTTL - MinBeat   \* calls no further apart than this are steady

SessionInit ==
  /\ Init
  /\ handle = NoHandle
  /\ beats = 0 /\ sinceBeat = 0 /\ disabled = FALSE
  /\ due = {} /\ looking = [h \in Hooks |-> 0] /\ stale = {}
  /\ taken = {} /\ sinceTaken = MinBeat /\ burst = 0
  /\ sinceCall = 0 /\ steady = FALSE /\ lateFinish = FALSE

Readers == {h \in Hooks : looking[h] # 0}
InFlight == due \cup Readers

\* The handle goes; hooks in flight still send their beats.
Drop == handle' = NoHandle /\ UNCHANGED <<beats, sinceBeat, disabled, due, looking>>

\* What a hook has read is behind once somebody else has appended.
Outdate == stale' = Readers

Token == lease[session].token
Holds == HoldsFence(session, hermes, Token)

\* A heartbeat event, under number n.
Renew(n) ==
  /\ Heartbeat(session, hermes, Token)
  /\ taken' = taken \cup {n}
  /\ burst' = IF sinceTaken >= MinBeat THEN 1 ELSE burst + 1
  /\ sinceTaken' = 0

-----------------------------------------------------------------------------
(* start_session *)

\* create, which answers the same request again from the stream.
Create ==
  /\ handle = NoHandle /\ InFlight = {}
  /\ handle' = "submit"
  /\ disabled' = FALSE
  /\ steady' = FALSE /\ sinceCall' = 0
  /\ UNCHANGED <<vars, beats, sinceBeat, due, looking, stale,
                 taken, sinceTaken, burst, lateFinish>>

\* submit, or its replay; a run canceled before it refuses, or a later call will.
SubmitRun ==
  /\ handle = "submit"
  /\ IF runStatus = "pending" THEN Submit ELSE UNCHANGED vars
  /\ handle' = "lease"
  /\ UNCHANGED <<beats, sinceBeat, disabled, due, looking, stale, history>>

\* lease under the key of the first attempt, or its replay.  A state without a
\* lease gives no token, and no beat gets through without one.
LeaseRun ==
  /\ handle = "lease"
  /\ \/ attempts[session] = 0 /\ ~RunClosed /\ Lease(session, hermes)
        /\ handle' = "beat" /\ steady' = TRUE
     \/ attempts[session] > 0 /\ UNCHANGED <<vars, steady>>
        /\ handle' = IF Held(session) THEN "beat" ELSE NoHandle
     \/ attempts[session] = 0 /\ RunClosed /\ UNCHANGED <<vars, steady>>
        /\ handle' = NoHandle
  /\ UNCHANGED <<beats, sinceBeat, disabled, due, looking, stale,
                 taken, sinceTaken, burst, sinceCall, lateFinish>>

\* Beat 0, or its replay; with the lease lost, start fails and the handle goes.
FirstBeat ==
  /\ handle = "beat"
  /\ IF 0 \notin taken /\ Holds
     THEN Renew(0)
     ELSE UNCHANGED <<vars, taken, sinceTaken, burst>>
  /\ handle' = IF 0 \in taken \/ Holds THEN "active" ELSE NoHandle
  /\ beats' = 1 /\ sinceBeat' = 0
  /\ UNCHANGED <<disabled, due, looking, stale, sinceCall, steady, lateFinish>>

-----------------------------------------------------------------------------
(* record_tool_call and heartbeat *)

\* Fault: the throttle is the lease's lifetime.
DueLate == sinceBeat >= LeaseTTL /\ beats < MaxBeats

\* Fault: every tool call beats.
DueAlways == beats < MaxBeats

Due == sinceBeat >= MinBeat /\ beats < MaxBeats

\* A tool call that finds a beat due goes on to read the run; others are only
\* counted.
ToolCall(h) ==
  /\ handle = "active" /\ h \notin InFlight
  /\ sinceCall' = 0
  /\ due' = IF ~disabled /\ Due THEN due \cup {h} ELSE due
  /\ UNCHANGED <<vars, handle, beats, sinceBeat, disabled, looking, stale,
                 taken, sinceTaken, burst, steady, lateFinish>>

\* The read, which finds the task open or is the end of it.
Look(h) ==
  /\ h \in due
  /\ due' = due \ {h}
  /\ looking' = IF taskStatus[session] \in {"leased", "running"}
                THEN [looking EXCEPT ![h] = beats] ELSE looking
  /\ UNCHANGED <<vars, handle, beats, sinceBeat, disabled, stale, history>>

\* The beat is sent under the number run.beats had at some time since the
\* read: a number on the stream is answered and renews nothing; one that is
\* not needs the lease and an up-to-date read.  A refusal disables the bridge.
Beat(h) ==
  /\ looking[h] # 0
  /\ \E n \in looking[h]..beats :
       \/ /\ n \in taken
          /\ beats' = beats + 1 /\ sinceBeat' = 0
          /\ stale' = stale \ {h}
          /\ UNCHANGED <<vars, taken, sinceTaken, burst, disabled>>
       \/ /\ n \notin taken /\ Holds /\ h \notin stale
          /\ Renew(n)
          /\ beats' = beats + 1 /\ sinceBeat' = 0
          /\ stale' = Readers \ {h}
          /\ UNCHANGED disabled
       \/ /\ n \notin taken /\ (~Holds \/ h \in stale)
          /\ disabled' = TRUE
          /\ stale' = stale \ {h}
          /\ UNCHANGED <<vars, taken, sinceTaken, burst, beats, sinceBeat>>
  /\ looking' = [looking EXCEPT ![h] = 0]
  /\ UNCHANGED <<handle, due, sinceCall, steady, lateFinish>>

-----------------------------------------------------------------------------
(* The end of a session *)

\* close_session: an open run is canceled and the handle dropped.  Of the
\* terminal states it knows, no run here has another.  A beat that comes between
\* its read and its cancel has the cancel refused, and the handle stays.
CloseSession ==
  /\ handle = "active"
  /\ IF runStatus \in {"failed", "canceled"} THEN UNCHANGED <<vars, stale>>
     ELSE Cancel /\ Outdate
  /\ Drop
  /\ UNCHANGED history

\* finish_session takes the handle away and reports under the lease it reads.
FinishSession(outcome) ==
  /\ handle = "active"
  /\ ~disabled /\ taskStatus[session] \in {"leased", "running"} /\ Holds
  /\ Finish(session, hermes, Token, outcome, Usage)
  /\ Drop /\ Outdate
  /\ UNCHANGED history

\* A disabled bridge, or one whose task is closed, reports nothing.  With the
\* lease lost the result is refused, and so is the "retry" sent after it under
\* the same token; a beat that comes between has both refused.
FinishUnheard ==
  /\ handle = "active"
  /\ LET asks == ~disabled /\ taskStatus[session] \in {"leased", "running"}
     IN  /\ asks /\ Holds => InFlight \ stale # {}
         /\ lateFinish' = (lateFinish \/ (asks /\ lease[session].age >= AttemptCeiling))
  /\ Drop
  /\ UNCHANGED <<vars, stale, taken, sinceTaken, burst, sinceCall, steady>>

\* The process dies with the handle; the session may go on in another.
Die ==
  /\ handle # NoHandle \/ InFlight # {}
  /\ handle' = NoHandle
  /\ due' = {} /\ looking' = [h \in Hooks |-> 0] /\ stale' = {}
  /\ steady' = FALSE
  /\ UNCHANGED <<vars, beats, sinceBeat, disabled,
                 taken, sinceTaken, burst, sinceCall, lateFinish>>

-----------------------------------------------------------------------------
(* The rest of the world *)

OperatorCancel ==
  /\ Cancel
  /\ Outdate
  /\ UNCHANGED <<handle, beats, sinceBeat, disabled, due, looking, history>>

NextTick ==
  /\ handle \notin Starting
  /\ InFlight = {}
  /\ Tick
  /\ sinceBeat' = AtMost(sinceBeat + 1, LeaseTTL)
  /\ sinceTaken' = AtMost(sinceTaken + 1, MinBeat)
  /\ sinceCall' = AtMost(sinceCall + 1, Pause)
  /\ steady' = (steady /\ handle = "active" /\ sinceCall < Pause)
  /\ UNCHANGED <<handle, beats, disabled, due, looking, stale,
                 taken, burst, lateFinish>>

SessionNext ==
  \/ Create \/ SubmitRun \/ LeaseRun \/ FirstBeat
  \/ \E h \in Hooks : ToolCall(h) \/ Look(h) \/ Beat(h)
  \/ CloseSession
  \/ \E outcome \in {"succeeded", "failed"} : FinishSession(outcome)
  \/ FinishUnheard
  \/ Die
  \/ OperatorCancel
  \/ NextTick

SessionSpec == SessionInit /\ [][SessionNext]_allVars

-----------------------------------------------------------------------------
(* Properties *)

\* A session whose process leased the task, whose tool calls never paused for
\* longer than the lease outlives the throttle, and whose beats were never
\* refused, keeps its lease up to the attempt ceiling, however its hooks race.
SteadySessionKeepsLease ==
  handle = "active" /\ steady /\ ~disabled /\ ~RunClosed =>
    LeaseActive(session) \/ lease[session].age >= AttemptCeiling

\* "beats are throttled to at most one per 60s" (the module's docstring) holds
\* for one hook only.  Of several that find the same beat due, one may read the
\* run after another's beat and beat at once under the next number; but no more
\* beats than hooks come that close together, also when a process starts over.
BurstsAreBounded == burst <= Cardinality(Hooks)

\* "a session longer than the attempt ceiling finishes as a second attempt"
\* (the module's docstring).
LongSessionIsRecorded == lateFinish => RunClosed \/ attempts[session] = 2
=============================================================================
