---------------------------- MODULE RunController ----------------------------
(***************************************************************************)
(* One run of the SIPS runtime: the state that RuntimeController._reduce   *)
(* materialises from the event stream and the operations that append to    *)
(* it (sips_runtime/controller.py).  Every mutator holds the run's         *)
(* transition lock from its first read to its append, so an operation is   *)
(* one step; a call the code rejects leaves the run as it is and has no    *)
(* step here.                                                              *)
(*                                                                         *)
(* Callers are not trusted to be current: a step may carry any owner and   *)
(* any fencing token issued so far, which is what a worker that outlived   *)
(* its lease presents.  Time is kept relative to each lease (`left` until  *)
(* expiry, `age` since it was acquired), so a run has finitely many states *)
(* and needs no bound on the clock.                                        *)
(***************************************************************************)
EXTENDS TaskGraph, TrancheBudget

CONSTANTS
  Owners,          \* names workers lease under
  NoOwner,         \* the owner of no lease
  Conflicts,       \* pairs {t, u} whose path sets overlap with a write
  RetryLimit,      \* RetryLimit[t]: spec.retry_limit
  Estimate,        \* Estimate[t]: estimated tokens, 0 where unknown
  Policy,          \* terminal_policy of the plan
  LeaseTTL,        \* LEASE_TTL_SECONDS, in clock ticks
  AttemptCeiling,  \* ATTEMPT_CEILING_SECONDS, in clock ticks
  MaxConcurrency   \* MAX_CONCURRENCY

ASSUME ControllerAssumption ==
  /\ NoOwner \notin Owners
  /\ Conflicts \subseteq SUBSET Tasks
  /\ RetryLimit \in [Tasks -> Nat]
  /\ Estimate \in [Tasks -> Nat]
  /\ Policy \in {"block_descendants", "continue"}
  /\ LeaseTTL \in Nat \ {0}
  /\ AttemptCeiling \in Nat \ {0}
  /\ LeaseTTL <= AttemptCeiling
  /\ MaxConcurrency \in Nat \ {0}

VARIABLES
  runStatus,    \* state["status"]
  taskStatus,   \* tasks[t]["status"]
  lease,        \* tasks[t]["lease"]
  attempts,     \* tasks[t]["attempts"]
  fence,        \* tasks[t]["last_fencing_token"]
  settledToken, \* fencing token of the latest task.advanced event of t, 0 before
  lastToken,    \* highest fencing token in the run's event stream
  charged,      \* _charged_resources: tokens reserved or spent by all attempts
  released      \* _released_tranche_count

taskVars   == <<taskStatus, lease, attempts, fence, settledToken>>
budgetVars == <<charged, released>>
vars       == <<runStatus, taskVars, lastToken, budgetVars>>

TerminalRunStates == {"succeeded", "blocked", "failed", "canceled"}
RunStates == {"pending", "running"} \cup TerminalRunStates

Leases  == [owner : Owners \cup {NoOwner}, token : Nat, left : Nat, age : Nat]
NoLease == [owner |-> NoOwner, token |-> 0, left |-> 0, age |-> 0]

-----------------------------------------------------------------------------
(* Leases *)

Held(t) == lease[t].token # 0

\* An unexpired lease below the attempt ceiling.
Live(l) == l.left > 0 /\ l.age < AttemptCeiling

LeaseActive(t) == taskStatus[t] \in {"leased", "running"} /\ Live(lease[t])

ActiveTasks == {t \in Tasks : LeaseActive(t)}

\* Fault: only the owner is compared, not the fencing token.
HoldsFenceByOwner(t, o, k) == lease[t].owner = o /\ Live(lease[t])

\* Fault: the expiry is not looked at.
HoldsFenceExpired(t, o, k) == lease[t].owner = o /\ lease[t].token = k

\* The fencing test of advance: the caller holds the stored lease, still live.
HoldsFence(t, o, k) ==
  /\ lease[t].owner = o
  /\ lease[t].token = k
  /\ Live(lease[t])

Granted(o, k) == [owner |-> o, token |-> k, left |-> LeaseTTL, age |-> 0]

\* Fault: a heartbeat counts as a new acquisition.
RenewedAfresh(l) == [l EXCEPT !.left = LeaseTTL, !.age = 0]

\* A heartbeat: a fresh TTL, never past the attempt ceiling.
Renewed(l) == [l EXCEPT !.left = AtMost(LeaseTTL, AttemptCeiling - l.age)]

\* Fault: an expired lease keeps counting down.
AgedBelowZero(l) == [l EXCEPT !.left = @ - 1, !.age = @ + 1]

\* One tick nearer to expiry.  The age of an expired lease is never read again.
Aged(l) ==
  IF l.left > 0 THEN [l EXCEPT !.left = @ - 1, !.age = @ + 1] ELSE l

-----------------------------------------------------------------------------
(* Run status *)

\* Fault: optional tasks hold the run open.
AllClosed(status) == \A t \in Tasks : status[t] \in TerminalTaskStates

RequiredClosed(status) ==
  \A t \in EffectiveRequired : status[t] \in TerminalTaskStates

\* _update_run_status, once the required closure is terminal.
Outcome(status) ==
  LET reached(s) == \E t \in EffectiveRequired : status[t] = s
  IN  IF reached("failed") THEN "failed"
      ELSE IF reached("blocked") THEN "blocked"
      ELSE IF reached("canceled") THEN "canceled"
      ELSE "succeeded"

\* Fault: optional work survives the run.
KeepOptional(status) == status

\* ... and optional work still open is then skipped.
SkipOptional(status) ==
  [t \in Tasks |->
     IF /\ RequiredClosed(status)
        /\ t \notin EffectiveRequired
        /\ status[t] \notin TerminalTaskStates
     THEN "canceled" ELSE status[t]]

\* The reducer's tail: new task statuses, the run status they imply, and no
\* lease left on a task the event closed.
Settle(run, status) ==
  /\ taskStatus' = SkipOptional(status)
  /\ runStatus' = IF RequiredClosed(status) THEN Outcome(status) ELSE run
  /\ lease' = [t \in Tasks |->
                 IF taskStatus'[t] \in TerminalTaskStates THEN NoLease ELSE lease[t]]

\* advance replaces the attempt's reservation with its measured usage.
Charge(t, used) ==
  /\ used \in 0..Estimate[t]
  /\ charged' = charged - Estimate[t] + used
  /\ UNCHANGED released

-----------------------------------------------------------------------------
(* Operations *)

Init ==
  /\ runStatus = "pending"
  /\ taskStatus = [t \in Tasks |-> "pending"]
  /\ lease = [t \in Tasks |-> NoLease]
  /\ attempts = [t \in Tasks |-> 0]
  /\ fence = [t \in Tasks |-> 0]
  /\ settledToken = [t \in Tasks |-> 0]
  /\ lastToken = 0
  /\ charged = 0
  /\ released = 1

Submit ==
  /\ runStatus = "pending"
  /\ Settle("running", taskStatus)
  /\ UNCHANGED <<attempts, fence, settledToken, lastToken, budgetVars>>

\* Dependencies count as completed when they succeeded, or, under the
\* "continue" policy, however they ended.
Completed ==
  {t \in Tasks : \/ taskStatus[t] = "succeeded"
                 \/ Policy = "continue" /\ taskStatus[t] \in TerminalTaskStates}

\* Fault: a lease that ran out is not offered again.
LeasablePending(t) ==
  t \in ReadyTasks(Completed, ActiveTasks) /\ taskStatus[t] = "pending"

\* A ready task, pending or holding a lease that ran out.
Leasable(t) ==
  /\ t \in ReadyTasks(Completed, ActiveTasks)
  /\ taskStatus[t] \in {"pending", "leased", "running"}

\* Fault: off by one in the retry limit.
MayAttemptOnceMore(t) == attempts[t] <= RetryLimit[t] + 1

\* The retry test of lease and of a "retry" result.
MayAttempt(t) == attempts[t] <= RetryLimit[t]

\* lease on a pending or running run: a leasable task goes to `o` under the next
\* fencing token.
Lease(t, o) ==
  /\ runStatus \in {"pending", "running"}
  /\ Cardinality(ActiveTasks) < MaxConcurrency
  /\ Leasable(t)
  /\ MayAttempt(t)
  /\ \A u \in ActiveTasks : {t, u} \notin Conflicts
  /\ Estimate[t] > 0
  /\ \E k \in 1..TrancheCount :
       Releases(charged, Estimate[t], released, k) /\ released' = k
  /\ charged' = charged + Estimate[t]
  /\ lastToken' = lastToken + 1
  /\ lease' = [lease EXCEPT ![t] = Granted(o, lastToken + 1)]
  /\ fence' = [fence EXCEPT ![t] = lastToken + 1]
  /\ taskStatus' = [taskStatus EXCEPT ![t] = "leased"]
  /\ attempts' = [attempts EXCEPT ![t] = @ + 1]
  /\ runStatus' = "running"
  /\ UNCHANGED settledToken

\* advance with status "running".
Heartbeat(t, o, k) ==
  /\ HoldsFence(t, o, k)
  /\ lease' = [lease EXCEPT ![t] = Renewed(@)]
  /\ taskStatus' = [taskStatus EXCEPT ![t] = "running"]
  /\ UNCHANGED <<runStatus, attempts, fence, settledToken, lastToken, budgetVars>>

\* Fault: the attempt ends but its lease stays.
RetryKeepingLease(t, o, k, used) ==
  /\ HoldsFence(t, o, k)
  /\ MayAttempt(t)
  /\ Charge(t, used)
  /\ taskStatus' = [taskStatus EXCEPT ![t] = "pending"]
  /\ settledToken' = [settledToken EXCEPT ![t] = k]
  /\ UNCHANGED <<runStatus, lease, attempts, fence, lastToken>>

\* advance with status "retry": the attempt ends, the task is pending again.
\* The reducer returns before the run status is looked at.
Retry(t, o, k, used) ==
  /\ HoldsFence(t, o, k)
  /\ MayAttempt(t)
  /\ Charge(t, used)
  /\ taskStatus' = [taskStatus EXCEPT ![t] = "pending"]
  /\ lease' = [lease EXCEPT ![t] = NoLease]
  /\ settledToken' = [settledToken EXCEPT ![t] = k]
  /\ UNCHANGED <<runStatus, attempts, fence, lastToken>>

\* advance with a final status, the evidence and fan-in gates having passed.
Finish(t, o, k, outcome, used) ==
  /\ HoldsFence(t, o, k)
  /\ Charge(t, used)
  /\ LET closed == [taskStatus EXCEPT ![t] = outcome]
     IN  Settle(runStatus,
                IF outcome \in StoppedStates /\ Policy # "continue"
                THEN BlockDescendants(closed) ELSE closed)
  /\ settledToken' = [settledToken EXCEPT ![t] = k]
  /\ UNCHANGED <<attempts, fence, lastToken>>

\* Fault: cancel rewrites tasks that had already closed.
CancelEverything ==
  /\ runStatus \notin TerminalRunStates
  /\ runStatus' = "canceled"
  /\ taskStatus' = [t \in Tasks |-> "canceled"]
  /\ lease' = [t \in Tasks |-> NoLease]
  /\ UNCHANGED <<attempts, fence, settledToken, lastToken, budgetVars>>

\* cancel closes every open task.
Cancel ==
  /\ runStatus \notin TerminalRunStates
  /\ runStatus' = "canceled"
  /\ taskStatus' = [t \in Tasks |-> IF taskStatus[t] \in TerminalTaskStates
                                    THEN taskStatus[t] ELSE "canceled"]
  /\ lease' = [t \in Tasks |->
                 IF taskStatus[t] \in TerminalTaskStates THEN lease[t] ELSE NoLease]
  /\ UNCHANGED <<attempts, fence, settledToken, lastToken, budgetVars>>

\* The wall clock.
Tick ==
  /\ \E t \in Tasks : lease[t].left > 0
  /\ lease' = [t \in Tasks |-> Aged(lease[t])]
  /\ UNCHANGED <<runStatus, taskStatus, attempts, fence, settledToken, lastToken, budgetVars>>

Worker(t, o, k) ==
  \/ Heartbeat(t, o, k)
  \/ \E used \in 0..Estimate[t] :
       \/ Retry(t, o, k, used)
       \/ \E outcome \in TerminalTaskStates : Finish(t, o, k, outcome, used)

Next ==
  \/ Submit
  \/ \E t \in Tasks, o \in Owners :
       \/ Lease(t, o)
       \/ \E k \in 1..lastToken : Worker(t, o, k)
  \/ Cancel
  \/ Tick

Spec == Init /\ [][Next]_vars

\* The clock runs, and a scheduler keeps asking for work while some is leasable.
\* Workers owe nothing: they may heartbeat for ever, or fall silent.
FairSpec ==
  /\ Spec
  /\ WF_vars(Tick)
  /\ WF_vars(\E t \in Tasks, o \in Owners : Lease(t, o))

-----------------------------------------------------------------------------
(* Safety *)

Open(t) == taskStatus[t] \notin TerminalTaskStates
RunClosed == runStatus \in TerminalRunStates

\* Types of the materialised state.
TypeOK ==
  /\ runStatus \in RunStates
  /\ taskStatus \in [Tasks -> TaskStates]
  /\ lease \in [Tasks -> Leases]
  /\ attempts \in [Tasks -> Nat]
  /\ fence \in [Tasks -> Nat]
  /\ settledToken \in [Tasks -> Nat]
  /\ lastToken \in Nat
  /\ charged \in Int
  /\ released \in 1..TrancheCount

\* Fencing tokens identify attempts across the whole run: a task in a worker's
\* hands is held under the newest token issued for it, no two tasks ever share
\* a token, and a held attempt has not settled yet.
FencingOK ==
  \A t \in Tasks :
    /\ settledToken[t] <= fence[t]
    /\ fence[t] <= lastToken
    /\ Held(t) => /\ lease[t].token = fence[t]
                  /\ settledToken[t] < fence[t]
                  /\ taskStatus[t] \in {"leased", "running"}
    /\ \A u \in Tasks \ {t} : fence[u] = fence[t] => fence[t] = 0

\* No attempt is ever dispatched before its predecessors completed, and a
\* completed predecessor never becomes incomplete again.
DependencyOrder ==
  \A t \in Tasks : attempts[t] > 0 => Deps[t] \subseteq Completed

\* Expiry, reissue and heartbeats never put more than MAX_CONCURRENCY live
\* leases in workers' hands.
ConcurrencyLimit == Cardinality(ActiveTasks) <= MaxConcurrency

\* Two tasks whose paths conflict are never both under a live lease, although
\* leases expire and are reissued without telling their holders.
PathExclusion ==
  \A t, u \in ActiveTasks : t # u => {t, u} \notin Conflicts

\* Live leases stay within the limit and out of each other's way, whatever expired
\* beside them and whoever has not been told.
LeasesFit == ConcurrencyLimit /\ PathExclusion

\* What all attempts reserved or spent, abandoned ones included, stays within
\* the hard limit and within the tranches released so far.
BudgetCap == charged <= HardLimit /\ charged <= TrancheLimit(released)

\* The retry limit bounds dispatches, whether an attempt ended by "retry" or
\* by silence.
RetryBound == \A t \in Tasks : attempts[t] <= RetryLimit[t] + 1

\* A closed run has closed every task, optional ones included, and left no
\* lease; one that succeeded has all its required closure succeeded.
ClosedRunIsQuiet ==
  RunClosed =>
    /\ \A t \in Tasks : ~Open(t) /\ ~Held(t)
    /\ runStatus = "succeeded" =>
         \A t \in EffectiveRequired : taskStatus[t] = "succeeded"

\* A run that is not closed still has required work open: no step leaves it
\* waiting for nothing.
OpenRunHasWork ==
  (~RunClosed /\ Required # {}) => \E t \in EffectiveRequired : Open(t)

\* A run closes when its required closure has, and then altogether: it is never left
\* with work in a worker's hands, nor without work to wait for.
ClosesWithItsClosure == ClosedRunIsQuiet /\ OpenRunHasWork

\* Under block_descendants nothing stays open downstream of a stopped task, at
\* any distance.
DescendantsClosed ==
  Policy = "block_descendants" =>
    \A t \in Tasks : (\E d \in Deps[t] : taskStatus[d] \in StoppedStates) => ~Open(t)

\* A task closed as blocked without having been dispatched has a stopped
\* predecessor to blame.
BlockedHasCause ==
  \A t \in Tasks :
    taskStatus[t] = "blocked" /\ attempts[t] = 0 =>
      \E d \in Deps[t] : taskStatus[d] \in StoppedStates

\* Exactly what is behind a stopped task is blocked, at any distance.
BlocksExactlyBehind == DescendantsClosed /\ BlockedHasCause

-----------------------------------------------------------------------------
(* Steps *)

\* Results enter in fence order: a step that records a worker's result records
\* that of the newest attempt of the task, once, and while its lease is live.
ResultsInFenceOrder ==
  [][\A t \in Tasks :
       settledToken'[t] # settledToken[t] =>
         /\ settledToken'[t] = fence[t]
         /\ settledToken[t] < fence[t]
         /\ LeaseActive(t)]_vars

\* What is closed stays closed, with the status it closed with.
ClosedForGood ==
  [][/\ RunClosed => runStatus' = runStatus
     /\ \A t \in Tasks : ~Open(t) => taskStatus'[t] = taskStatus[t]]_vars

\* A lease that ran out is never live again: only a new token is.
NoRevival ==
  [][\A t \in Tasks :
       Held(t) /\ ~LeaseActive(t) /\ LeaseActive(t)' =>
         lease'[t].token > lease[t].token]_vars

-----------------------------------------------------------------------------
(* Refinement *)

Work == INSTANCE FencedWork WITH
          granted <- [t \in Tasks |-> lease[t].token],
          settled <- settledToken,
          closed  <- {t \in Tasks : ~Open(t)},
          issued  <- lastToken

\* The run implements FencedWork: whatever expires, retries, is blocked,
\* skipped or canceled, a worker's report counts only under the newest token of
\* an open task, and closing a task takes it out of its holder's hands.
ImplementsFencedWork == Work!Spec

-----------------------------------------------------------------------------
(* Liveness, under FairSpec *)

\* However faithfully its holder sends heartbeats, a lease ends.
LeaseEnds ==
  \A t \in Tasks : LeaseActive(t) ~> ~LeaseActive(t)

\* A required task that no lease call can dispatch again: its attempts are used
\* up or the budget cannot cover it.
Exhausted ==
  \E t \in EffectiveRequired :
    /\ Leasable(t)
    /\ \/ ~MayAttempt(t)
       \/ Estimate[t] = 0
       \/ \A k \in released..TrancheCount : ~Fits(charged, Estimate[t], k)

\* Silent workers, expiries and retries stall a run in one way only: it closes,
\* or it ends with a required task whose attempts or budget are exhausted.
ClosesOrExhausts == <>[](RunClosed \/ Exhausted)
=============================================================================
