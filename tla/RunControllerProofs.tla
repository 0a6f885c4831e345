------------------------- MODULE RunControllerProofs -------------------------
(***************************************************************************)
(* Theorems about RunController, for every plan, policy, budget and number *)
(* of workers its assumptions allow; that it implements FencedWork; and    *)
(* about the sessions of SessionBridge, which are clients of it.           *)
(***************************************************************************)
EXTENDS SessionBridge, FiniteSetTheorems, TLAPS

-----------------------------------------------------------------------------
(* The closures of TaskGraph *)

\* BlockDescendants closes only tasks that were open.
LEMMA DoomedAreOpen ==
  ASSUME NEW status
  PROVE  \A t \in Doomed(status) : t \in Tasks /\ status[t] \notin TerminalTaskStates
<1> DEFINE open == {u \in Tasks : status[u] \notin TerminalTaskStates}
<1>1. open \in ClosedUnderBlocking(status)
  BY DEF ClosedUnderBlocking
<1>2. QED
  BY <1>1 DEF Doomed

\* Block descendants and skip keep statuses statuses.
LEMMA StatusClosures ==
  ASSUME NEW status \in [Tasks -> TaskStates]
  PROVE  /\ BlockDescendants(status) \in [Tasks -> TaskStates]
         /\ SkipOptional(status) \in [Tasks -> TaskStates]
         /\ \A t \in Tasks : status[t] \in TerminalTaskStates =>
              /\ BlockDescendants(status)[t] = status[t]
              /\ SkipOptional(status)[t] = status[t]
<1>1. BlockDescendants(status) \in [Tasks -> TaskStates]
  BY DEF BlockDescendants, TaskStates
<1>2. SkipOptional(status) \in [Tasks -> TaskStates]
  BY DEF SkipOptional, TaskStates
<1>3. ASSUME NEW t \in Tasks, status[t] \in TerminalTaskStates
      PROVE  BlockDescendants(status)[t] = status[t]
  BY <1>3, DoomedAreOpen DEF BlockDescendants
<1>4. ASSUME NEW t \in Tasks, status[t] \in TerminalTaskStates
      PROVE  SkipOptional(status)[t] = status[t]
  BY <1>4 DEF SkipOptional
<1>5. QED
  BY <1>1, <1>2, <1>3, <1>4

\* The reducer's tail yields a status for the run and every task, and leases.
LEMMA SettleType ==
  ASSUME NEW run \in RunStates, NEW status \in [Tasks -> TaskStates],
         lease \in [Tasks -> Leases], Settle(run, status)
  PROVE  /\ runStatus' \in RunStates
         /\ taskStatus' \in [Tasks -> TaskStates]
         /\ lease' \in [Tasks -> Leases]
<1>1. taskStatus' \in [Tasks -> TaskStates]
  BY StatusClosures DEF Settle
<1>2. runStatus' \in RunStates
  BY DEF Settle, Outcome, RunStates, TerminalRunStates
<1>3. NoLease \in Leases
  BY DEF NoLease, Leases
<1>4. lease' \in [Tasks -> Leases]
  BY <1>3 DEF Settle
<1>5. QED
  BY <1>1, <1>2, <1>4

\* Granting, renewing and ageing make leases out of leases.
LEMMA LeaseOperators ==
  ASSUME NEW l \in Leases
  PROVE  /\ \A o \in Owners, k \in Nat : Granted(o, k) \in Leases
         /\ Live(l) => Renewed(l) \in Leases
         /\ Aged(l) \in Leases
         /\ Renewed(l).token = l.token /\ Renewed(l).owner = l.owner
         /\ Aged(l).token = l.token /\ Aged(l).owner = l.owner
<1>1. \A o \in Owners, k \in Nat : Granted(o, k) \in Leases
  BY ControllerAssumption DEF Granted, Leases
<1>2. Live(l) => Renewed(l) \in Leases
  <2>1. ASSUME Live(l) PROVE AtMost(LeaseTTL, AttemptCeiling - l.age) \in Nat
    BY <2>1, ControllerAssumption DEF Live, Leases, AtMost
  <2>2. QED
    BY <2>1 DEF Renewed, Leases
<1>3. Renewed(l).token = l.token /\ Renewed(l).owner = l.owner
  BY DEF Renewed, Leases
<1>4. Aged(l) \in Leases /\ Aged(l).token = l.token /\ Aged(l).owner = l.owner
  <2>1. CASE l.left > 0
    <3>1. l.left - 1 \in Nat /\ l.age + 1 \in Nat
      BY <2>1 DEF Leases
    <3>2. Aged(l) = [l EXCEPT !.left = l.left - 1, !.age = l.age + 1]
      BY <2>1 DEF Aged
    <3>3. QED
      BY <3>1, <3>2 DEF Leases
  <2>2. QED
    BY <2>1 DEF Aged
<1>5. QED
  BY <1>1, <1>2, <1>3, <1>4

-----------------------------------------------------------------------------
(* Types *)

LEMMA InitType == Init => TypeOK
BY DEF Init, TypeOK, RunStates, TaskStates, Leases, NoLease, TrancheCount

\* The types are inductive.
LEMMA TypeStep == TypeOK /\ [Next]_vars => TypeOK'
<1> SUFFICES ASSUME TypeOK, [Next]_vars PROVE TypeOK'
  OBVIOUS
<1> USE DEF TypeOK
<1>0. TaskStates = {"pending", "leased", "running"} \cup TerminalTaskStates
  BY DEF TaskStates, TerminalTaskStates
<1>1. CASE Submit
  BY <1>1, SettleType DEF Submit, RunStates, budgetVars
<1>2. ASSUME NEW t \in Tasks, NEW o \in Owners, Lease(t, o)
      PROVE  TypeOK'
  <2>1. lastToken + 1 \in Nat /\ lastToken' = lastToken + 1
    BY <1>2 DEF Lease
  <2>2. Granted(o, lastToken + 1) \in Leases
    BY <2>1, ControllerAssumption DEF Granted, Leases
  <2>3. lease' \in [Tasks -> Leases] /\ fence' \in [Tasks -> Nat]
    BY <1>2, <2>1, <2>2 DEF Lease
  <2>4. released' \in 1..TrancheCount
    BY <1>2 DEF Lease
  <2>5. charged' \in Int /\ attempts' \in [Tasks -> Nat]
    BY <1>2, ControllerAssumption DEF Lease
  <2>6. taskStatus' \in [Tasks -> TaskStates] /\ runStatus' \in RunStates
    BY <1>2 DEF Lease, TaskStates, RunStates
  <2>7. QED
    BY <1>2, <2>1, <2>3, <2>4, <2>5, <2>6 DEF Lease
<1>3. ASSUME NEW t \in Tasks, NEW o \in Owners, NEW k \in 1..lastToken, Heartbeat(t, o, k)
      PROVE  TypeOK'
  <2>1. Renewed(lease[t]) \in Leases
    BY <1>3, LeaseOperators DEF Heartbeat, HoldsFence
  <2>2. QED
    BY <1>3, <2>1 DEF Heartbeat, TaskStates, budgetVars
<1>4. ASSUME NEW t \in Tasks, NEW o \in Owners, NEW k \in 1..lastToken,
             NEW used \in 0..Estimate[t], Retry(t, o, k, used)
      PROVE  TypeOK'
  <2>1. charged' \in Int
    BY <1>4, ControllerAssumption DEF Retry, Charge
  <2>2. NoLease \in Leases
    BY DEF NoLease, Leases
  <2>3. QED
    BY <1>4, <2>1, <2>2 DEF Retry, Charge, TaskStates
<1>5. ASSUME NEW t \in Tasks, NEW o \in Owners, NEW k \in 1..lastToken,
             NEW used \in 0..Estimate[t], NEW outcome \in TerminalTaskStates,
             Finish(t, o, k, outcome, used)
      PROVE  TypeOK'
  <2> DEFINE closed == [taskStatus EXCEPT ![t] = outcome]
             blocked == BlockDescendants(closed)
  <2>1. charged' \in Int /\ released' = released
    BY <1>5, ControllerAssumption DEF Finish, Charge
  <2>2. closed \in [Tasks -> TaskStates] /\ blocked \in [Tasks -> TaskStates]
    <3>1. closed \in [Tasks -> TaskStates]
      BY <1>0
    <3>2. QED
      BY <3>1, StatusClosures
  <2>3. Settle(runStatus, closed) \/ Settle(runStatus, blocked)
    BY <1>5 DEF Finish
  <2> HIDE DEF closed, blocked
  <2>4. /\ runStatus' \in RunStates
        /\ taskStatus' \in [Tasks -> TaskStates]
        /\ lease' \in [Tasks -> Leases]
    <3>1. CASE Settle(runStatus, closed)
      BY <2>2, <3>1, SettleType
    <3>2. CASE Settle(runStatus, blocked)
      BY <2>2, <3>2, SettleType
    <3>3. QED
      BY <2>3, <3>1, <3>2
  <2>5. settledToken' \in [Tasks -> Nat]
    BY <1>5 DEF Finish
  <2>6. QED
    BY <1>5, <2>1, <2>4, <2>5 DEF Finish
<1>6. CASE Cancel
  <2>1. NoLease \in Leases
    BY DEF NoLease, Leases
  <2>2. QED
    BY <1>6, <2>1 DEF Cancel, TaskStates, RunStates, TerminalRunStates, budgetVars
<1>7. CASE Tick
  <2>1. \A t \in Tasks : Aged(lease[t]) \in Leases
    BY LeaseOperators
  <2>2. QED
    BY <1>7, <2>1 DEF Tick, budgetVars
<1>8. CASE UNCHANGED vars
  BY <1>8 DEF vars, taskVars, budgetVars
<1>9. QED
  BY <1>1, <1>2, <1>3, <1>4, <1>5, <1>6, <1>7, <1>8 DEF Next, Worker

\* The materialised state is well typed in every reachable state.
THEOREM TypeCorrect == Spec => []TypeOK
BY InitType, TypeStep, PTL DEF Spec

-----------------------------------------------------------------------------
(* What closing a task does to the others *)

\* Settling keeps or closes each task, and takes the lease of a closed one.
LEMMA SettleEffect ==
  ASSUME NEW run, NEW status \in [Tasks -> TaskStates], Settle(run, status),
         NEW u \in Tasks
  PROVE  \/ /\ status[u] \notin TerminalTaskStates
            /\ taskStatus'[u] = status[u]
            /\ lease'[u] = lease[u]
         \/ /\ status[u] \notin TerminalTaskStates
            /\ taskStatus'[u] = "canceled"
            /\ lease'[u] = NoLease
         \/ /\ status[u] \in TerminalTaskStates
            /\ taskStatus'[u] = status[u]
            /\ lease'[u] = NoLease
<1>1. taskStatus'[u] = SkipOptional(status)[u]
  BY DEF Settle
<1>2. lease'[u] = IF taskStatus'[u] \in TerminalTaskStates THEN NoLease ELSE lease[u]
  BY DEF Settle
<1>3. \/ SkipOptional(status)[u] = status[u]
      \/ status[u] \notin TerminalTaskStates /\ SkipOptional(status)[u] = "canceled"
  BY DEF SkipOptional
<1>4. "canceled" \in TerminalTaskStates
  BY DEF TerminalTaskStates
<1>5. QED
  BY <1>1, <1>2, <1>3, <1>4

\* A final result closes its task with the worker's outcome; every other task
\* is as before, or was open and is now closed and out of its holder's hands.
LEMMA FinishEffect ==
  ASSUME TypeOK, NEW t \in Tasks, NEW o, NEW k, NEW used,
         NEW outcome \in TerminalTaskStates, Finish(t, o, k, outcome, used)
  PROVE  /\ taskStatus'[t] = outcome
         /\ lease'[t] = NoLease
         /\ \A u \in Tasks \ {t} :
              \/ /\ taskStatus[u] \notin TerminalTaskStates
                 /\ taskStatus'[u] = taskStatus[u]
                 /\ lease'[u] = lease[u]
              \/ /\ taskStatus[u] \notin TerminalTaskStates
                 /\ taskStatus'[u] \in {"blocked", "canceled"}
                 /\ lease'[u] = NoLease
              \/ /\ taskStatus[u] \in TerminalTaskStates
                 /\ taskStatus'[u] = taskStatus[u]
                 /\ lease'[u] = NoLease
<1> DEFINE closed == [taskStatus EXCEPT ![t] = outcome]
           final  == IF outcome \in StoppedStates /\ Policy # "continue"
                     THEN BlockDescendants(closed) ELSE closed
<1>1. closed \in [Tasks -> TaskStates] /\ closed[t] = outcome
      /\ \A u \in Tasks \ {t} : closed[u] = taskStatus[u]
  BY DEF TypeOK, TaskStates, TerminalTaskStates
<1>2. Settle(runStatus, final)
  BY DEF Finish
<1> HIDE DEF closed
<1>3. final \in [Tasks -> TaskStates]
  BY <1>1, StatusClosures
<1>4. final[t] = outcome
  BY <1>1, StatusClosures
<1>5. \A u \in Tasks :
        \/ final[u] = closed[u]
        \/ closed[u] \notin TerminalTaskStates /\ final[u] = "blocked"
  BY DoomedAreOpen DEF BlockDescendants
<1> HIDE DEF final
<1>6. taskStatus'[t] = outcome /\ lease'[t] = NoLease
  BY <1>2, <1>3, <1>4, SettleEffect
<1>7. ASSUME NEW u \in Tasks \ {t}
      PROVE  \/ /\ taskStatus[u] \notin TerminalTaskStates
                /\ taskStatus'[u] = taskStatus[u]
                /\ lease'[u] = lease[u]
             \/ /\ taskStatus[u] \notin TerminalTaskStates
                /\ taskStatus'[u] \in {"blocked", "canceled"}
                /\ lease'[u] = NoLease
             \/ /\ taskStatus[u] \in TerminalTaskStates
                /\ taskStatus'[u] = taskStatus[u]
                /\ lease'[u] = NoLease
  <2>1. closed[u] = taskStatus[u]
    BY <1>1
  <2>2. "blocked" \in TerminalTaskStates
    BY DEF TerminalTaskStates
  <2>3. CASE final[u] = closed[u]
    BY <1>2, <1>3, <2>1, <2>3, SettleEffect
  <2>4. CASE closed[u] \notin TerminalTaskStates /\ final[u] = "blocked"
    BY <1>2, <1>3, <2>1, <2>2, <2>4, SettleEffect
  <2>5. QED
    BY <1>5, <2>3, <2>4
<1>8. QED
  BY <1>6, <1>7

-----------------------------------------------------------------------------
(* Fencing *)

\* A task without a lease has no token and is not live.
LEMMA NoLeaseToken == NoLease.token = 0 /\ ~Live(NoLease)
BY DEF NoLease, Live

\* A caller that passes the fencing test holds the newest attempt of its task.
LEMMA HolderIsNewest ==
  ASSUME TypeOK, FencingOK, NEW t \in Tasks, NEW o, NEW k \in 1..lastToken,
         HoldsFence(t, o, k)
  PROVE  /\ k \in Nat /\ k # 0
         /\ Held(t) /\ LeaseActive(t)
         /\ k = fence[t]
         /\ settledToken[t] < fence[t]
         /\ taskStatus[t] \in {"leased", "running"}
         /\ taskStatus[t] \notin TerminalTaskStates
<1>1. k \in Nat /\ k # 0
  BY DEF TypeOK
<1>2. Held(t)
  BY <1>1 DEF Held, HoldsFence
<1>3. QED
  BY <1>1, <1>2 DEF HoldsFence, FencingOK, LeaseActive, TerminalTaskStates

LEMMA InitFencing == Init => FencingOK
BY DEF Init, FencingOK, Held, NoLease

\* Fencing is inductive, given the types.
LEMMA FencingStep ==
  TypeOK /\ FencingOK /\ [Next]_vars => FencingOK'
<1> SUFFICES ASSUME TypeOK, FencingOK, [Next]_vars PROVE FencingOK'
  OBVIOUS
<1>1. CASE Submit
  <2>1. taskStatus \in [Tasks -> TaskStates]
    BY DEF TypeOK
  <2>2. ASSUME NEW u \in Tasks, Held(u)'
        PROVE  lease'[u] = lease[u] /\ taskStatus'[u] = taskStatus[u]
    BY <1>1, <2>1, <2>2, SettleEffect, NoLeaseToken DEF Submit, Held
  <2>3. QED
    BY <1>1, <2>2 DEF Submit, FencingOK, Held
<1>2. ASSUME NEW t \in Tasks, NEW o \in Owners, Lease(t, o)
      PROVE  FencingOK'
  <2>1. /\ lastToken' = lastToken + 1 /\ lastToken \in Nat
        /\ fence'[t] = lastToken + 1
        /\ \A u \in Tasks \ {t} : fence'[u] = fence[u]
        /\ settledToken' = settledToken
        /\ settledToken \in [Tasks -> Nat] /\ fence \in [Tasks -> Nat]
    BY <1>2 DEF Lease, TypeOK
  <2>2. /\ lease'[t].token = lastToken + 1
        /\ taskStatus'[t] = "leased"
        /\ \A u \in Tasks \ {t} : lease'[u] = lease[u] /\ taskStatus'[u] = taskStatus[u]
    BY <1>2 DEF Lease, Granted, TypeOK
  <2>3. \A u \in Tasks : settledToken[u] <= fence[u] /\ fence[u] <= lastToken
    BY DEF FencingOK
  <2>4. ASSUME NEW u \in Tasks
        PROVE  /\ settledToken'[u] <= fence'[u]
               /\ fence'[u] <= lastToken'
    BY <2>1, <2>3
  <2>5. ASSUME NEW u \in Tasks, Held(u)'
        PROVE  /\ lease'[u].token = fence'[u]
               /\ settledToken'[u] < fence'[u]
               /\ taskStatus'[u] \in {"leased", "running"}
    <3>1. CASE u = t
      BY <2>1, <2>2, <2>3, <3>1
    <3>2. CASE u # t
      BY <2>1, <2>2, <2>5, <3>2 DEF FencingOK, Held
    <3>3. QED
      BY <3>1, <3>2
  <2>6. ASSUME NEW u \in Tasks, NEW v \in Tasks \ {u}, fence'[v] = fence'[u]
        PROVE  fence'[u] = 0
    <3>1. CASE u = t
      BY <2>1, <2>3, <2>6, <3>1
    <3>2. CASE v = t
      BY <2>1, <2>3, <2>6, <3>2
    <3>3. CASE u # t /\ v # t
      BY <2>1, <2>6, <3>3 DEF FencingOK
    <3>4. QED
      BY <3>1, <3>2, <3>3
  <2>7. QED
    BY <2>4, <2>5, <2>6 DEF FencingOK
<1>3. ASSUME NEW t \in Tasks, NEW o \in Owners, NEW k \in 1..lastToken, Heartbeat(t, o, k)
      PROVE  FencingOK'
  <2>1. \A u \in Tasks : lease'[u].token = lease[u].token
    BY <1>3, LeaseOperators DEF Heartbeat, TypeOK
  <2>2. \A u \in Tasks : taskStatus'[u] = taskStatus[u] \/ taskStatus'[u] = "running"
    BY <1>3 DEF Heartbeat, TypeOK
  <2>3. QED
    BY <1>3, <2>1, <2>2 DEF Heartbeat, FencingOK, Held
<1>4. ASSUME NEW t \in Tasks, NEW o \in Owners, NEW k \in 1..lastToken,
             NEW used \in 0..Estimate[t], Retry(t, o, k, used)
      PROVE  FencingOK'
  <2>1. HoldsFence(t, o, k)
    BY <1>4 DEF Retry
  <2>2. k = fence[t]
    BY <2>1, HolderIsNewest
  <2>3. /\ lease'[t] = NoLease /\ settledToken'[t] = k
        /\ \A u \in Tasks \ {t} : /\ lease'[u] = lease[u]
                                  /\ taskStatus'[u] = taskStatus[u]
                                  /\ settledToken'[u] = settledToken[u]
    BY <1>4 DEF Retry, TypeOK
  <2>4. fence' = fence /\ lastToken' = lastToken /\ fence \in [Tasks -> Nat]
    BY <1>4 DEF Retry, TypeOK
  <2>5. QED
    BY <2>2, <2>3, <2>4, NoLeaseToken DEF FencingOK, Held
<1>5. ASSUME NEW t \in Tasks, NEW o \in Owners, NEW k \in 1..lastToken,
             NEW used \in 0..Estimate[t], NEW outcome \in TerminalTaskStates,
             Finish(t, o, k, outcome, used)
      PROVE  FencingOK'
  <2>1. HoldsFence(t, o, k)
    BY <1>5 DEF Finish
  <2>2. k = fence[t]
    BY <2>1, HolderIsNewest
  <2>3. /\ settledToken'[t] = k
        /\ \A u \in Tasks \ {t} : settledToken'[u] = settledToken[u]
        /\ fence' = fence /\ lastToken' = lastToken /\ fence \in [Tasks -> Nat]
    BY <1>5 DEF Finish, TypeOK
  <2>4. ASSUME NEW u \in Tasks, Held(u)'
        PROVE  u # t /\ lease'[u] = lease[u] /\ taskStatus'[u] = taskStatus[u]
    BY <1>5, <2>4, FinishEffect, NoLeaseToken DEF Held
  <2>5. QED
    BY <2>2, <2>3, <2>4 DEF FencingOK, Held
<1>6. CASE Cancel
  <2>1. ASSUME NEW u \in Tasks, Held(u)'
        PROVE  FALSE
    <3>1. taskStatus[u] \in TerminalTaskStates /\ lease'[u] = lease[u]
      BY <1>6, <2>1, NoLeaseToken DEF Cancel, Held
    <3>2. QED
      BY <2>1, <3>1 DEF FencingOK, Held, TerminalTaskStates
  <2>2. QED
    BY <1>6, <2>1 DEF Cancel, FencingOK
<1>7. CASE Tick
  <2>1. \A u \in Tasks : lease'[u].token = lease[u].token
    BY <1>7, LeaseOperators DEF Tick, TypeOK
  <2>2. QED
    BY <1>7, <2>1 DEF Tick, FencingOK, Held
<1>8. CASE UNCHANGED vars
  BY <1>8 DEF vars, taskVars, budgetVars, FencingOK, Held
<1>9. QED
  BY <1>1, <1>2, <1>3, <1>4, <1>5, <1>6, <1>7, <1>8 DEF Next, Worker

\* Fencing tokens identify attempts: a held task is held under the newest token
\* issued for it, which no other task shares and which has not settled.
THEOREM Fencing == Spec => []FencingOK
BY InitFencing, FencingStep, TypeCorrect, PTL DEF Spec

-----------------------------------------------------------------------------
(* Steps *)

\* Every step keeps a closed task closed with its status, and hands out or
\* keeps live only what it should: a live lease after a step was live before it,
\* under the same token, unless the step granted it.
LEMMA StepEffect ==
  ASSUME TypeOK, FencingOK, [Next]_vars, NEW u \in Tasks
  PROVE  /\ ~Open(u) => taskStatus'[u] = taskStatus[u]
         /\ LeaseActive(u)' =>
              \/ LeaseActive(u) /\ lease'[u].token = lease[u].token
              \/ \E o \in Owners : Lease(u, o)
<1> USE DEF Open
<1>1. CASE Submit
  <2>1. taskStatus \in [Tasks -> TaskStates]
    BY DEF TypeOK
  <2>2. QED
    BY <1>1, <2>1, SettleEffect, NoLeaseToken DEF Submit, LeaseActive
<1>2. ASSUME NEW t \in Tasks, NEW o \in Owners, Lease(t, o)
      PROVE  /\ ~Open(u) => taskStatus'[u] = taskStatus[u]
             /\ LeaseActive(u)' =>
                  \/ LeaseActive(u) /\ lease'[u].token = lease[u].token
                  \/ \E w \in Owners : Lease(u, w)
  <2>1. taskStatus[t] \notin TerminalTaskStates
    BY <1>2 DEF Lease, Leasable, TerminalTaskStates
  <2>2. CASE u = t
    BY <1>2, <2>1, <2>2
  <2>3. CASE u # t
    BY <1>2, <2>3 DEF Lease, LeaseActive, TypeOK
  <2>4. QED
    BY <2>2, <2>3
<1>3. ASSUME NEW t \in Tasks, NEW o \in Owners, NEW k \in 1..lastToken, Heartbeat(t, o, k)
      PROVE  /\ ~Open(u) => taskStatus'[u] = taskStatus[u]
             /\ LeaseActive(u)' => LeaseActive(u) /\ lease'[u].token = lease[u].token
  <2>1. taskStatus[t] \notin TerminalTaskStates /\ LeaseActive(t)
    BY <1>3, HolderIsNewest DEF Heartbeat
  <2>2. CASE u = t
    BY <1>3, <2>1, <2>2, LeaseOperators DEF Heartbeat, TypeOK
  <2>3. CASE u # t
    BY <1>3, <2>3 DEF Heartbeat, LeaseActive, TypeOK
  <2>4. QED
    BY <2>2, <2>3
<1>4. ASSUME NEW t \in Tasks, NEW o \in Owners, NEW k \in 1..lastToken,
             NEW used \in 0..Estimate[t], Retry(t, o, k, used)
      PROVE  /\ ~Open(u) => taskStatus'[u] = taskStatus[u]
             /\ LeaseActive(u)' => LeaseActive(u) /\ lease'[u].token = lease[u].token
  <2>1. taskStatus[t] \notin TerminalTaskStates
    BY <1>4, HolderIsNewest DEF Retry
  <2>2. CASE u = t
    BY <1>4, <2>1, <2>2, NoLeaseToken DEF Retry, LeaseActive, TypeOK
  <2>3. CASE u # t
    BY <1>4, <2>3 DEF Retry, LeaseActive, TypeOK
  <2>4. QED
    BY <2>2, <2>3
<1>5. ASSUME NEW t \in Tasks, NEW o \in Owners, NEW k \in 1..lastToken,
             NEW used \in 0..Estimate[t], NEW outcome \in TerminalTaskStates,
             Finish(t, o, k, outcome, used)
      PROVE  /\ ~Open(u) => taskStatus'[u] = taskStatus[u]
             /\ LeaseActive(u)' => LeaseActive(u) /\ lease'[u].token = lease[u].token
  <2>1. taskStatus[t] \notin TerminalTaskStates
    BY <1>5, HolderIsNewest DEF Finish
  <2>2. lease'[u] = NoLease \/ (lease'[u] = lease[u] /\ taskStatus'[u] = taskStatus[u])
    BY <1>5, FinishEffect
  <2>3. LeaseActive(u)' => LeaseActive(u) /\ lease'[u].token = lease[u].token
    BY <2>2, NoLeaseToken DEF LeaseActive
  <2>4. ~Open(u) => taskStatus'[u] = taskStatus[u]
    BY <1>5, <2>1, FinishEffect
  <2>5. QED
    BY <2>3, <2>4
<1>6. CASE Cancel
  BY <1>6, NoLeaseToken DEF Cancel, LeaseActive, TypeOK
<1>7. CASE Tick
  <2>1. Live(Aged(lease[u])) => Live(lease[u])
    <3>1. lease[u] \in Leases
      BY DEF TypeOK
    <3>2. CASE lease[u].left > 0
      <4>1. Aged(lease[u]) = [lease[u] EXCEPT !.left = lease[u].left - 1, !.age = lease[u].age + 1]
        BY <3>2 DEF Aged
      <4>2. Aged(lease[u]).left = lease[u].left - 1 /\ Aged(lease[u]).age = lease[u].age + 1
        BY <3>1, <4>1 DEF Leases
      <4>3. QED
        BY <3>1, <4>2, ControllerAssumption DEF Live, Leases
    <3>3. CASE ~(lease[u].left > 0)
      BY <3>3 DEF Aged
    <3>4. QED
      BY <3>2, <3>3
  <2>2. lease'[u].token = lease[u].token
    BY <1>7, LeaseOperators DEF Tick, TypeOK
  <2>3. QED
    BY <1>7, <2>1, <2>2 DEF Tick, LeaseActive
<1>8. CASE UNCHANGED vars
  BY <1>8 DEF vars, taskVars, LeaseActive
<1>9. QED
  BY <1>1, <1>2, <1>3, <1>4, <1>5, <1>6, <1>7, <1>8 DEF Next, Worker

\* Results enter in fence order: a step records a worker's result only under the
\* newest token of its task, once, and while that lease is live.
THEOREM ResultsFenced == Spec => ResultsInFenceOrder
<1> DEFINE Newest(t) == settledToken'[t] # settledToken[t] =>
                          /\ settledToken'[t] = fence[t]
                          /\ settledToken[t] < fence[t]
                          /\ LeaseActive(t)
<1>1. ASSUME TypeOK, FencingOK, [Next]_vars
      PROVE  [\A t \in Tasks : Newest(t)]_vars
  <2>1. ASSUME NEW t \in Tasks, NEW o \in Owners, NEW k \in 1..lastToken, Worker(t, o, k),
               NEW u \in Tasks
        PROVE  Newest(u)
    <3>1. HoldsFence(t, o, k)
      BY <2>1 DEF Worker, Heartbeat, Retry, Finish
    <3>2. settledToken' \in {settledToken, [settledToken EXCEPT ![t] = k]}
      BY <2>1 DEF Worker, Heartbeat, Retry, Finish
    <3>3. k = fence[t] /\ settledToken[t] < fence[t] /\ LeaseActive(t)
      BY <1>1, <3>1, HolderIsNewest
    <3>4. QED
      BY <1>1, <3>2, <3>3 DEF TypeOK
  <2>2. CASE UNCHANGED settledToken
    BY <2>2
  <2>3. QED
    BY <1>1, <2>1, <2>2 DEF Next, vars, taskVars, Submit, Lease, Cancel, Tick
<1>2. QED
  BY <1>1, TypeCorrect, Fencing, PTL DEF Spec, ResultsInFenceOrder

\* A lease that ran out is never live again under its token.
THEOREM ExpiredStaysExpired == Spec => NoRevival
<1>1. ASSUME TypeOK, FencingOK, [Next]_vars
      PROVE  [\A t \in Tasks :
                Held(t) /\ ~LeaseActive(t) /\ LeaseActive(t)' =>
                  lease'[t].token > lease[t].token]_vars
  <2>1. ASSUME NEW t \in Tasks, Held(t), ~LeaseActive(t), LeaseActive(t)'
        PROVE  lease'[t].token > lease[t].token
    <3>1. PICK o \in Owners : Lease(t, o)
      BY <1>1, <2>1, StepEffect
    <3>2. lease'[t].token = lastToken + 1
      BY <1>1, <3>1 DEF Lease, Granted, TypeOK
    <3>3. lease[t].token <= lastToken
      BY <1>1, <2>1 DEF FencingOK
    <3>4. lastToken \in Nat /\ lease[t].token \in Nat
      BY <1>1 DEF TypeOK, Leases
    <3>5. QED
      BY <3>2, <3>3, <3>4
  <2>2. QED
    BY <2>1
<1>2. QED
  BY <1>1, TypeCorrect, Fencing, PTL DEF Spec, NoRevival

-----------------------------------------------------------------------------
(* Live leases *)

\* No two conflicting tasks are ever both under a live lease.
THEOREM Exclusion == Spec => []PathExclusion
<1>1. Init => PathExclusion
  BY DEF Init, PathExclusion, ActiveTasks, LeaseActive
<1>2. TypeOK /\ FencingOK /\ PathExclusion /\ [Next]_vars => PathExclusion'
  <2> SUFFICES ASSUME TypeOK, FencingOK, PathExclusion, [Next]_vars,
                      NEW t \in Tasks, NEW u \in Tasks, t # u,
                      LeaseActive(t)', LeaseActive(u)'
               PROVE  {t, u} \notin Conflicts
    BY DEF PathExclusion, ActiveTasks
  <2>1. ASSUME NEW v \in Tasks, NEW w \in Tasks \ {v}, NEW o \in Owners,
               Lease(v, o), LeaseActive(w)'
        PROVE  {v, w} \notin Conflicts
    <3>1. LeaseActive(w)
      BY <2>1 DEF Lease, LeaseActive, TypeOK
    <3>2. QED
      BY <2>1, <3>1 DEF Lease, ActiveTasks
  <2>2. CASE \E o \in Owners : Lease(t, o)
    BY <2>1, <2>2
  <2>3. CASE \E o \in Owners : Lease(u, o)
    <3>1. {u, t} \notin Conflicts
      BY <2>1, <2>3
    <3>2. {u, t} = {t, u}
      OBVIOUS
    <3>3. QED
      BY <3>1, <3>2
  <2>4. CASE LeaseActive(t) /\ LeaseActive(u)
    BY <2>4 DEF PathExclusion, ActiveTasks
  <2>5. QED
    BY <2>2, <2>3, <2>4, StepEffect
<1>3. QED
  BY <1>1, <1>2, TypeCorrect, Fencing, PTL DEF Spec

\* Never more live leases than MAX_CONCURRENCY.
THEOREM Concurrency == Spec => []ConcurrencyLimit
<1>1. Init => ConcurrencyLimit
  <2>1. ASSUME Init PROVE ActiveTasks = {}
    BY <2>1 DEF Init, ActiveTasks, LeaseActive
  <2>2. Cardinality({}) = 0
    BY FS_EmptySet
  <2>3. MaxConcurrency \in Nat \ {0}
    BY ControllerAssumption
  <2>4. ASSUME Init PROVE Cardinality(ActiveTasks) <= MaxConcurrency
    <3>1. Cardinality(ActiveTasks) = 0
      BY <2>1, <2>2, <2>4
    <3>2. QED
      BY <2>3, <3>1
  <2>5. QED
    BY <2>4 DEF ConcurrencyLimit
<1>2. TypeOK /\ FencingOK /\ ConcurrencyLimit /\ [Next]_vars => ConcurrencyLimit'
  <2> SUFFICES ASSUME TypeOK, FencingOK, ConcurrencyLimit, [Next]_vars
               PROVE  ConcurrencyLimit'
    OBVIOUS
  <2>1. IsFiniteSet(Tasks) /\ ActiveTasks \subseteq Tasks /\ ActiveTasks' \subseteq Tasks
    BY GraphAssumption DEF ActiveTasks
  <2>2. IsFiniteSet(ActiveTasks) /\ IsFiniteSet(ActiveTasks')
    BY <2>1, FS_Subset
  <2>3. Cardinality(ActiveTasks) \in Nat /\ Cardinality(ActiveTasks') \in Nat
        /\ MaxConcurrency \in Nat
    BY <2>2, FS_CardinalityType, ControllerAssumption
  <2>4. CASE \E t \in Tasks, o \in Owners : Lease(t, o)
    <3>1. PICK t \in Tasks, o \in Owners : Lease(t, o)
      BY <2>4
    <3>2. ActiveTasks' \subseteq ActiveTasks \cup {t}
      BY <3>1 DEF Lease, ActiveTasks, LeaseActive, TypeOK
    <3>3. /\ IsFiniteSet(ActiveTasks \cup {t})
          /\ Cardinality(ActiveTasks \cup {t}) <= Cardinality(ActiveTasks) + 1
      <4> DEFINE S == ActiveTasks
      <4>1. IsFiniteSet(S) /\ Cardinality(S) \in Nat
        BY <2>2, <2>3
      <4> HIDE DEF S
      <4>2. /\ IsFiniteSet(S \cup {t})
            /\ Cardinality(S \cup {t})
                 = IF t \in S THEN Cardinality(S) ELSE Cardinality(S) + 1
        BY <4>1, FS_AddElement
      <4>3. Cardinality(S \cup {t}) <= Cardinality(S) + 1
        BY <4>1, <4>2
      <4>4. QED
        BY <4>2, <4>3 DEF S
    <3>4. Cardinality(ActiveTasks') <= Cardinality(ActiveTasks \cup {t})
      BY <3>2, <3>3, FS_Subset
    <3>5. Cardinality(ActiveTasks) < MaxConcurrency
      BY <3>1 DEF Lease
    <3>6. Cardinality(ActiveTasks \cup {t}) \in Nat
      BY <3>3, FS_CardinalityType
    <3>7. QED
      BY <2>3, <3>3, <3>4, <3>5, <3>6 DEF ConcurrencyLimit
  <2>5. CASE ~\E t \in Tasks, o \in Owners : Lease(t, o)
    <3>1. ActiveTasks' \subseteq ActiveTasks
      BY <2>5, StepEffect DEF ActiveTasks
    <3>2. Cardinality(ActiveTasks') <= Cardinality(ActiveTasks)
      BY <2>2, <3>1, FS_Subset
    <3>3. QED
      BY <2>3, <3>2 DEF ConcurrencyLimit
  <2>6. QED
    BY <2>4, <2>5
<1>3. QED
  BY <1>1, <1>2, TypeCorrect, Fencing, PTL DEF Spec

-----------------------------------------------------------------------------
(* Dependencies *)

\* No attempt is dispatched before its predecessors completed, and completed
\* predecessors stay completed.
THEOREM Dependencies == Spec => []DependencyOrder
<1>1. Init => DependencyOrder
  BY DEF Init, DependencyOrder
<1>2. TypeOK /\ FencingOK /\ DependencyOrder /\ [Next]_vars => DependencyOrder'
  <2> SUFFICES ASSUME TypeOK, FencingOK, DependencyOrder, [Next]_vars,
                      NEW u \in Tasks, attempts'[u] > 0
               PROVE  Deps[u] \subseteq Completed'
    BY DEF DependencyOrder
  <2>1. Completed \subseteq Completed'
    <3>1. \A t \in Tasks : taskStatus[t] \in TerminalTaskStates => taskStatus'[t] = taskStatus[t]
      BY StepEffect DEF Open
    <3>2. "succeeded" \in TerminalTaskStates
      BY DEF TerminalTaskStates
    <3>3. QED
      BY <3>1, <3>2 DEF Completed
  <2>2. CASE attempts[u] > 0
    BY <2>1, <2>2 DEF DependencyOrder
  <2>3. CASE ~(attempts[u] > 0)
    <3>1. PICK t \in Tasks, o \in Owners : Lease(t, o)
      BY <2>3 DEF Next, Worker, Submit, Heartbeat, Retry, Finish, Cancel, Tick, vars, taskVars
    <3>2. u = t
      BY <2>3, <3>1 DEF Lease, TypeOK
    <3>3. Deps[u] \subseteq Completed
      BY <3>1, <3>2 DEF Lease, Leasable, ReadyTasks
    <3>4. QED
      BY <2>1, <3>3
  <2>4. QED
    BY <2>2, <2>3
<1>3. QED
  BY <1>1, <1>2, TypeCorrect, Fencing, PTL DEF Spec

-----------------------------------------------------------------------------
(* The budget *)

\* Tranche limits are numbers, from 0 to the hard limit.
LEMMA TrancheLimitType ==
  \A k \in 1..TrancheCount : TrancheLimit(k) \in Nat /\ TrancheLimit(k) <= HardLimit
<1>1. HardLimit \in Nat
  BY HardLimitAssumption
<1>2. ASSUME NEW p \in {30, 35}
      PROVE  RoundedShare(p) \in Nat
  <2>1. HardLimit * p \in Nat
    BY <1>1, <1>2
  <2>2. (HardLimit * p) \div 100 \in Nat
    BY <2>1
  <2>3. QED
    BY <2>2 DEF RoundedShare
<1>3. /\ RoundedShare(TranchePercentage[1]) \in Nat
      /\ RoundedShare(TranchePercentage[2]) \in Nat
      /\ RoundedShare(TranchePercentage[3]) \in Nat
  BY <1>2 DEF TranchePercentage
<1>4. QED
  BY <1>1, <1>3 DEF TrancheLimit, AtMost, TrancheCount

\* What the attempts of a run have reserved or spent stays within the hard
\* limit and within the tranches released.
THEOREM Budget == Spec => []BudgetCap
<1>1. Init => BudgetCap
  <2>1. TrancheLimit(1) \in Nat
    BY TrancheLimitType DEF TrancheCount
  <2>2. QED
    BY <2>1, HardLimitAssumption DEF Init, BudgetCap
<1>2. TypeOK /\ BudgetCap /\ [Next]_vars => BudgetCap'
  <2> SUFFICES ASSUME TypeOK, BudgetCap, [Next]_vars PROVE BudgetCap'
    OBVIOUS
  <2>1. TrancheLimit(released) \in Nat /\ HardLimit \in Nat
    BY TrancheLimitType, HardLimitAssumption DEF TypeOK
  <2>2. ASSUME NEW t \in Tasks, NEW o \in Owners, Lease(t, o) PROVE BudgetCap'
    <3>1. Fits(charged, Estimate[t], released')
      BY <2>2 DEF Lease, Releases
    <3>2. QED
      BY <2>2, <3>1 DEF Lease, Fits, BudgetCap, TypeOK, TrancheLimit, RoundedShare
  <2>3. ASSUME NEW t \in Tasks, NEW used \in 0..Estimate[t], Charge(t, used)
        PROVE  BudgetCap'
    <3>1. Estimate[t] \in Nat
      BY ControllerAssumption
    <3>2. charged' <= charged /\ charged' \in Int
      BY <2>3, <3>1 DEF Charge, TypeOK
    <3>3. TrancheLimit(released)' = TrancheLimit(released)
      BY <2>3 DEF Charge, TrancheLimit, RoundedShare
    <3>4. QED
      BY <2>1, <3>2, <3>3 DEF BudgetCap, TypeOK
  <2>4. CASE UNCHANGED budgetVars
    BY <2>4 DEF budgetVars, BudgetCap, TrancheLimit, RoundedShare
  <2>5. QED
    BY <2>2, <2>3, <2>4
       DEF Next, Worker, Submit, Heartbeat, Retry, Finish, Cancel, Tick, vars, budgetVars
<1>3. QED
  BY <1>1, <1>2, TypeCorrect, PTL DEF Spec

\* No task is dispatched more often than its retry limit allows.
THEOREM Retries == Spec => []RetryBound
<1>1. Init => RetryBound
  BY ControllerAssumption DEF Init, RetryBound
<1>2. TypeOK /\ RetryBound /\ [Next]_vars => RetryBound'
  <2> SUFFICES ASSUME TypeOK, RetryBound, [Next]_vars, NEW u \in Tasks
               PROVE  attempts'[u] <= RetryLimit[u] + 1
    BY DEF RetryBound
  <2>1. ASSUME NEW t \in Tasks, NEW o \in Owners, Lease(t, o)
        PROVE  attempts'[u] <= RetryLimit[u] + 1
    <3>1. /\ attempts \in [Tasks -> Nat]
          /\ attempts' = [attempts EXCEPT ![t] = attempts[t] + 1]
          /\ attempts[t] <= RetryLimit[t]
      BY <2>1 DEF Lease, MayAttempt, TypeOK
    <3>2. RetryLimit[t] \in Nat /\ RetryLimit[u] \in Nat
      BY ControllerAssumption
    <3>3. attempts[u] <= RetryLimit[u] + 1
      BY DEF RetryBound
    <3>4. CASE u = t
      BY <3>1, <3>2, <3>4
    <3>5. CASE u # t
      BY <3>1, <3>3, <3>5
    <3>6. QED
      BY <3>4, <3>5
  <2>2. CASE UNCHANGED attempts
    BY <2>2 DEF RetryBound
  <2>3. QED
    BY <2>1, <2>2
       DEF Next, Worker, Submit, Heartbeat, Retry, Finish, Cancel, Tick, vars, taskVars
<1>3. QED
  BY <1>1, <1>2, TypeCorrect, PTL DEF Spec

-----------------------------------------------------------------------------
(* Closing *)

\* The reducer's tail closes a run only together with all its tasks.
LEMMA SettleCloses ==
  ASSUME NEW run, run \notin TerminalRunStates,
         NEW status \in [Tasks -> TaskStates], Settle(run, status)
  PROVE  ClosedRunIsQuiet'
<1>1. CASE RequiredClosed(status)
  <2>1. ASSUME NEW t \in Tasks PROVE taskStatus'[t] \in TerminalTaskStates
    <3>1. taskStatus'[t] = SkipOptional(status)[t] /\ "canceled" \in TerminalTaskStates
      BY DEF Settle, TerminalTaskStates
    <3>2. CASE t \in EffectiveRequired
      BY <1>1, <3>1, <3>2 DEF RequiredClosed, SkipOptional
    <3>3. CASE t \notin EffectiveRequired
      BY <1>1, <3>1, <3>3 DEF SkipOptional
    <3>4. QED
      BY <3>2, <3>3
  <2>2. \A t \in Tasks : lease'[t] = NoLease
    BY <2>1 DEF Settle
  <2>3. ASSUME runStatus' = "succeeded", NEW t \in EffectiveRequired
        PROVE  taskStatus'[t] = "succeeded"
    <3>1. t \in Tasks /\ status[t] \in TerminalTaskStates
      BY <1>1 DEF RequiredClosed, EffectiveRequired
    <3>2. status[t] \notin {"failed", "blocked", "canceled"}
      BY <1>1, <2>3 DEF Settle, Outcome
    <3>3. taskStatus'[t] = SkipOptional(status)[t]
      BY <3>1 DEF Settle
    <3>4. SkipOptional(status)[t] = status[t]
      BY <3>1 DEF SkipOptional
    <3>5. QED
      BY <3>1, <3>2, <3>3, <3>4 DEF TerminalTaskStates
  <2>4. QED
    BY <2>1, <2>2, <2>3, NoLeaseToken DEF ClosedRunIsQuiet, Open, Held
<1>2. CASE ~RequiredClosed(status)
  BY <1>2 DEF Settle, ClosedRunIsQuiet, RunClosed
<1>3. QED
  BY <1>1, <1>2

\* A run that closes is quiet, and only a cancel could touch it again.
LEMMA QuietStep == TypeOK /\ FencingOK /\ ClosedRunIsQuiet /\ [Next]_vars => ClosedRunIsQuiet'
<1> SUFFICES ASSUME TypeOK, FencingOK, ClosedRunIsQuiet, [Next]_vars
             PROVE  ClosedRunIsQuiet'
  OBVIOUS
<1>0. taskStatus \in [Tasks -> TaskStates] /\ runStatus \in RunStates
  BY DEF TypeOK
<1>1. ASSUME NEW t \in Tasks, NEW o, NEW k \in 1..lastToken, HoldsFence(t, o, k)
      PROVE  ~RunClosed
  <2>1. Held(t)
    BY <1>1 DEF HoldsFence, Held, TypeOK
  <2>2. QED
    BY <2>1 DEF ClosedRunIsQuiet
<1>2. CASE Submit
  BY <1>0, <1>2, SettleCloses DEF Submit, TerminalRunStates
<1>3. ASSUME NEW t \in Tasks, NEW o \in Owners, Lease(t, o) PROVE ClosedRunIsQuiet'
  BY <1>3 DEF Lease, ClosedRunIsQuiet, RunClosed, TerminalRunStates
<1>4. ASSUME NEW t \in Tasks, NEW o \in Owners, NEW k \in 1..lastToken, Worker(t, o, k)
      PROVE  ClosedRunIsQuiet'
  <2>1. CASE Heartbeat(t, o, k)
    BY <1>1, <2>1 DEF Heartbeat, ClosedRunIsQuiet, RunClosed
  <2>2. ASSUME NEW used, Retry(t, o, k, used) PROVE ClosedRunIsQuiet'
    BY <1>1, <2>2 DEF Retry, ClosedRunIsQuiet, RunClosed
  <2>3. ASSUME NEW used, NEW outcome \in TerminalTaskStates, Finish(t, o, k, outcome, used)
        PROVE  ClosedRunIsQuiet'
    <3> DEFINE closed == [taskStatus EXCEPT ![t] = outcome]
               final  == IF outcome \in StoppedStates /\ Policy # "continue"
                         THEN BlockDescendants(closed) ELSE closed
    <3>1. closed \in [Tasks -> TaskStates]
      BY <1>0, <2>3 DEF TaskStates, TerminalTaskStates
    <3>2. final \in [Tasks -> TaskStates]
      BY <3>1, StatusClosures
    <3>3. Settle(runStatus, final)
      BY <2>3 DEF Finish
    <3>4. runStatus \notin TerminalRunStates
      BY <1>1, <2>3 DEF Finish, RunClosed
    <3> HIDE DEF final
    <3>5. QED
      BY <3>2, <3>3, <3>4, SettleCloses
  <2>4. QED
    BY <1>4, <2>1, <2>2, <2>3 DEF Worker
<1>5. CASE Cancel
  <2>1. \A t \in Tasks : taskStatus'[t] \in TerminalTaskStates
    BY <1>5 DEF Cancel, TerminalTaskStates
  <2>2. ASSUME NEW t \in Tasks PROVE lease'[t].token = 0
    <3>1. CASE taskStatus[t] \in TerminalTaskStates
      <4>1. ~Held(t)
        BY <3>1 DEF FencingOK, TerminalTaskStates
      <4>2. QED
        BY <1>5, <3>1, <4>1 DEF Cancel, Held
    <3>2. CASE taskStatus[t] \notin TerminalTaskStates
      BY <1>5, <3>2, NoLeaseToken DEF Cancel
    <3>3. QED
      BY <3>1, <3>2
  <2>3. runStatus' = "canceled"
    BY <1>5 DEF Cancel
  <2>4. QED
    BY <2>1, <2>2, <2>3 DEF ClosedRunIsQuiet, Open, Held
<1>6. CASE Tick
  <2>1. \A t \in Tasks : lease'[t].token = lease[t].token
    BY <1>6, LeaseOperators DEF Tick, TypeOK
  <2>2. QED
    BY <1>6, <2>1 DEF Tick, ClosedRunIsQuiet, RunClosed, Open, Held
<1>7. CASE UNCHANGED vars
  BY <1>7 DEF vars, taskVars, ClosedRunIsQuiet, RunClosed, Open, Held
<1>8. QED
  BY <1>2, <1>3, <1>4, <1>5, <1>6, <1>7 DEF Next

\* A closed run holds no open task and no lease, and one that succeeded has all
\* its required closure succeeded.
THEOREM Quiet == Spec => []ClosedRunIsQuiet
<1>1. Init => ClosedRunIsQuiet
  BY DEF Init, ClosedRunIsQuiet, RunClosed, TerminalRunStates
<1>2. QED
  BY <1>1, QuietStep, TypeCorrect, Fencing, PTL DEF Spec

\* Nothing closed is opened or closed differently: neither runs nor tasks.
THEOREM ClosedStaysClosed == Spec => ClosedForGood
<1>1. TypeOK /\ FencingOK /\ ClosedRunIsQuiet /\ [Next]_vars =>
        [/\ RunClosed => runStatus' = runStatus
         /\ \A t \in Tasks : ~Open(t) => taskStatus'[t] = taskStatus[t]]_vars
  <2> SUFFICES ASSUME TypeOK, FencingOK, ClosedRunIsQuiet, [Next]_vars
               PROVE  /\ RunClosed => runStatus' = runStatus
                      /\ \A t \in Tasks : ~Open(t) => taskStatus'[t] = taskStatus[t]
    OBVIOUS
  <2>1. ASSUME NEW t \in Tasks, NEW o \in Owners, NEW k \in 1..lastToken, Worker(t, o, k)
        PROVE  ~RunClosed
    <3>1. HoldsFence(t, o, k)
      BY <2>1 DEF Worker, Heartbeat, Retry, Finish
    <3>2. Held(t)
      BY <3>1 DEF HoldsFence, Held, TypeOK
    <3>3. QED
      BY <3>2 DEF ClosedRunIsQuiet
  <2>2. RunClosed => runStatus' = runStatus
    BY <2>1 DEF Next, Submit, Lease, Cancel, Tick, vars, RunClosed, TerminalRunStates
  <2>3. QED
    BY <2>2, StepEffect
<1>2. QED
  BY <1>1, TypeCorrect, Fencing, Quiet, PTL DEF Spec, ClosedForGood

\* Live leases are within the limit and exclude each other.
THEOREM LeasesAlwaysFit == Spec => []LeasesFit
BY Exclusion, Concurrency, PTL DEF LeasesFit

-----------------------------------------------------------------------------
(* The closures once more *)

\* A task that block_descendants leaves open depends on nothing stopped.
LEMMA BlockingReaches ==
  ASSUME NEW status \in [Tasks -> TaskStates], NEW t \in Tasks, NEW d \in Deps[t],
         BlockDescendants(status)[d] \in StoppedStates
  PROVE  BlockDescendants(status)[t] \in TerminalTaskStates
<1> DEFINE doomed == Doomed(status)
<1>1. d \in Tasks
  BY GraphAssumption
<1>2. d \in doomed \/ status[d] \in StoppedStates
  BY <1>1 DEF BlockDescendants
<1>3. SUFFICES ASSUME t \notin doomed, status[t] \notin TerminalTaskStates PROVE FALSE
  BY DEF BlockDescendants, TerminalTaskStates
<1>4. PICK S \in ClosedUnderBlocking(status) : t \notin S
  BY <1>3 DEF Doomed
<1>5. status[d] \notin StoppedStates /\ d \notin S
  BY <1>3, <1>4 DEF ClosedUnderBlocking
<1>6. d \notin doomed
  BY <1>4, <1>5 DEF Doomed
<1>7. QED
  BY <1>2, <1>5, <1>6

\* Whatever block_descendants closes depends on something stopped.
LEMMA BlockingHasCause ==
  ASSUME NEW status \in [Tasks -> TaskStates], NEW t \in Doomed(status)
  PROVE  \E d \in Deps[t] : BlockDescendants(status)[d] \in StoppedStates
<1> DEFINE doomed == Doomed(status)
<1> DEFINE others == doomed \ {t}
<1>0. t \in Tasks
  BY DEF Doomed
<1>1. PICK d \in Deps[t] : status[d] \in StoppedStates \/ d \in doomed
  <2>1. SUFFICES ASSUME \A d \in Deps[t] : status[d] \notin StoppedStates /\ d \notin doomed
                 PROVE  FALSE
    OBVIOUS
  <2>2. ASSUME NEW u \in Tasks \ others, status[u] \notin TerminalTaskStates,
               NEW d \in Deps[u]
        PROVE  status[d] \notin StoppedStates /\ d \notin others
    <3>1. CASE u = t
      BY <2>1, <3>1
    <3>2. CASE u # t
      <4>1. PICK S \in ClosedUnderBlocking(status) : u \notin S
        BY <2>2, <3>2 DEF Doomed
      <4>2. status[d] \notin StoppedStates /\ d \notin S
        BY <2>2, <4>1 DEF ClosedUnderBlocking
      <4>3. QED
        BY <4>1, <4>2 DEF Doomed
    <3>3. QED
      BY <3>1, <3>2
  <2>3. others \in SUBSET Tasks
    BY DEF Doomed
  <2>4. others \in ClosedUnderBlocking(status)
    BY <2>2, <2>3 DEF ClosedUnderBlocking
  <2>5. t \in others
    BY <2>4 DEF Doomed
  <2>6. QED
    BY <2>5
<1>2. d \in Tasks
  BY <1>0, GraphAssumption
<1>3. CASE d \in doomed
  BY <1>2, <1>3 DEF BlockDescendants, StoppedStates
<1>4. CASE d \notin doomed
  BY <1>1, <1>2, <1>4 DEF BlockDescendants
<1>5. QED
  BY <1>3, <1>4

\* Settling closes the run and all its tasks, or leaves the statuses as given and
\* required work open.
LEMMA SettleAllOrNothing ==
  ASSUME NEW run, NEW status \in [Tasks -> TaskStates], Settle(run, status)
  PROVE  \/ /\ \A t \in Tasks : taskStatus'[t] \in TerminalTaskStates
            /\ runStatus' \in TerminalRunStates
         \/ /\ taskStatus' = status /\ runStatus' = run
            /\ \E t \in EffectiveRequired : status[t] \notin TerminalTaskStates
<1>1. CASE RequiredClosed(status)
  <2>1. ASSUME NEW t \in Tasks PROVE taskStatus'[t] \in TerminalTaskStates
    <3>1. taskStatus'[t] = SkipOptional(status)[t]
      BY DEF Settle
    <3>2. CASE t \in EffectiveRequired
      BY <1>1, <3>1, <3>2 DEF SkipOptional, RequiredClosed
    <3>3. CASE t \notin EffectiveRequired
      BY <1>1, <3>1, <3>3 DEF SkipOptional, TerminalTaskStates
    <3>4. QED
      BY <3>2, <3>3
  <2>2. runStatus' \in TerminalRunStates
    BY <1>1 DEF Settle, Outcome, TerminalRunStates
  <2>3. QED
    BY <2>1, <2>2
<1>2. CASE ~RequiredClosed(status)
  <2>1. taskStatus' = status
    BY <1>2 DEF Settle, SkipOptional
  <2>2. runStatus' = run
    BY <1>2 DEF Settle
  <2>3. QED
    BY <1>2, <2>1, <2>2 DEF RequiredClosed
<1>3. QED
  BY <1>1, <1>2

\* What a result makes of the statuses before the run is looked at.
Ended(t, outcome) ==
  LET closed == [taskStatus EXCEPT ![t] = outcome]
  IN  IF outcome \in StoppedStates /\ Policy # "continue"
      THEN BlockDescendants(closed) ELSE closed

\* Those are statuses, and a result settles the run with them.
LEMMA FinishSettles ==
  ASSUME TypeOK, NEW t \in Tasks, NEW o, NEW k, NEW used,
         NEW outcome \in TerminalTaskStates, Finish(t, o, k, outcome, used)
  PROVE  /\ Ended(t, outcome) \in [Tasks -> TaskStates]
         /\ Settle(runStatus, Ended(t, outcome))
<1>1. [taskStatus EXCEPT ![t] = outcome] \in [Tasks -> TaskStates]
  BY DEF TypeOK, TaskStates, TerminalTaskStates
<1>2. Ended(t, outcome) \in [Tasks -> TaskStates]
  BY <1>1, StatusClosures DEF Ended
<1>3. Settle(runStatus, Ended(t, outcome))
  BY DEF Finish, Ended
<1>4. QED
  BY <1>2, <1>3

-----------------------------------------------------------------------------
(* Descendants *)

\* Every step keeps the tasks behind a stopped one closed: only a result and the
\* close of a run stop tasks, and both close what depends on them.
LEMMA DescendantsStep ==
  TypeOK /\ FencingOK /\ DescendantsClosed /\ [Next]_vars => DescendantsClosed'
<1> SUFFICES ASSUME TypeOK, FencingOK, DescendantsClosed, [Next]_vars,
                    Policy = "block_descendants",
                    NEW u \in Tasks, NEW d \in Deps[u], taskStatus'[d] \in StoppedStates
             PROVE  taskStatus'[u] \in TerminalTaskStates
  BY DEF DescendantsClosed, Open
<1>0. d \in Tasks /\ taskStatus \in [Tasks -> TaskStates]
  BY GraphAssumption DEF TypeOK
<1>1. ASSUME taskStatus'[d] = taskStatus[d] PROVE taskStatus'[u] \in TerminalTaskStates
  BY <1>1, StepEffect DEF DescendantsClosed, Open
<1>2. ASSUME NEW t \in Tasks, NEW open \in {"pending", "leased", "running"},
             taskStatus' = [taskStatus EXCEPT ![t] = open]
      PROVE  taskStatus'[u] \in TerminalTaskStates
  <2>1. t # d
    BY <1>0, <1>2 DEF StoppedStates
  <2>2. QED
    BY <1>0, <1>1, <1>2, <2>1
<1>3. CASE Submit
  <2>1. Settle("running", taskStatus)
    BY <1>3 DEF Submit
  <2>2. QED
    BY <1>0, <1>1, <2>1, SettleAllOrNothing
<1>4. ASSUME NEW t \in Tasks, NEW o \in Owners, Lease(t, o)
      PROVE  taskStatus'[u] \in TerminalTaskStates
  BY <1>2, <1>4 DEF Lease
<1>5. ASSUME NEW t \in Tasks, NEW o \in Owners, NEW k \in 1..lastToken, Worker(t, o, k)
      PROVE  taskStatus'[u] \in TerminalTaskStates
  <2>1. CASE Heartbeat(t, o, k)
    BY <1>2, <2>1 DEF Heartbeat
  <2>2. ASSUME NEW used, Retry(t, o, k, used) PROVE taskStatus'[u] \in TerminalTaskStates
    BY <1>2, <2>2 DEF Retry
  <2>3. ASSUME NEW used, NEW outcome \in TerminalTaskStates, Finish(t, o, k, outcome, used)
        PROVE  taskStatus'[u] \in TerminalTaskStates
    <3> DEFINE status == Ended(t, outcome)
    <3>1. status \in [Tasks -> TaskStates] /\ Settle(runStatus, status)
      BY <2>3, FinishSettles
    <3>2. CASE taskStatus' # status
      BY <3>1, <3>2, SettleAllOrNothing
    <3>3. CASE taskStatus' = status /\ outcome \in StoppedStates
      <4>1. [taskStatus EXCEPT ![t] = outcome] \in [Tasks -> TaskStates]
        BY <1>0 DEF TaskStates, TerminalTaskStates
      <4>2. taskStatus' = BlockDescendants([taskStatus EXCEPT ![t] = outcome])
        BY <3>3 DEF Ended
      <4>3. QED
        BY <4>1, <4>2, BlockingReaches
    <3>4. CASE taskStatus' = status /\ outcome \notin StoppedStates
      <4>1. taskStatus' = [taskStatus EXCEPT ![t] = outcome]
        BY <3>4 DEF Ended
      <4>2. t # d
        BY <1>0, <3>4, <4>1
      <4>3. QED
        BY <1>0, <1>1, <4>1, <4>2
    <3>5. QED
      BY <3>2, <3>3, <3>4
  <2>4. QED
    BY <1>5, <2>1, <2>2, <2>3 DEF Worker
<1>6. CASE Cancel
  BY <1>6 DEF Cancel, TerminalTaskStates
<1>7. CASE Tick \/ UNCHANGED vars
  BY <1>1, <1>7 DEF Tick, vars, taskVars
<1>8. QED
  BY <1>3, <1>4, <1>5, <1>6, <1>7 DEF Next

\* Under block_descendants no task stays open behind a stopped one, at any distance:
\* what _block_descendants closes counts as stopped for the tasks behind it.
THEOREM Descendants == Spec => []DescendantsClosed
<1>1. Init => DescendantsClosed
  <2> SUFFICES ASSUME Init, NEW t \in Tasks, NEW d \in Deps[t],
                      taskStatus[d] \in StoppedStates
               PROVE  FALSE
    BY DEF DescendantsClosed
  <2>1. d \in Tasks
    BY GraphAssumption
  <2>2. QED
    BY <2>1 DEF Init, StoppedStates
<1>2. QED
  BY <1>1, DescendantsStep, TypeCorrect, Fencing, PTL DEF Spec

-----------------------------------------------------------------------------
(* Causes *)

\* A task was dispatched before it is in anybody's hands.
Dispatched == \A t \in Tasks : taskStatus[t] \in {"leased", "running"} => attempts[t] > 0

\* Only a lease puts a task into somebody's hands, and it counts the attempt.
LEMMA DispatchedStep == TypeOK /\ FencingOK /\ Dispatched /\ [Next]_vars => Dispatched'
<1> SUFFICES ASSUME TypeOK, FencingOK, Dispatched, [Next]_vars, NEW u \in Tasks,
                    taskStatus'[u] \in {"leased", "running"}
             PROVE  attempts'[u] > 0
  BY DEF Dispatched
<1>0. /\ taskStatus \in [Tasks -> TaskStates]
      /\ attempts \in [Tasks -> Nat]
  BY DEF TypeOK
<1>1. ASSUME taskStatus'[u] = taskStatus[u], attempts' = attempts PROVE attempts'[u] > 0
  BY <1>1 DEF Dispatched
<1>2. CASE Submit
  <2>1. Settle("running", taskStatus) /\ attempts' = attempts
    BY <1>2 DEF Submit
  <2>2. QED
    BY <1>0, <1>1, <2>1, SettleEffect
<1>3. ASSUME NEW t \in Tasks, NEW o \in Owners, Lease(t, o) PROVE attempts'[u] > 0
  <2>1. CASE u = t
    BY <1>0, <1>3, <2>1 DEF Lease
  <2>2. CASE u # t
    BY <1>0, <1>3, <2>2 DEF Lease, Dispatched
  <2>3. QED
    BY <2>1, <2>2
<1>4. ASSUME NEW t \in Tasks, NEW o \in Owners, NEW k \in 1..lastToken, Worker(t, o, k)
      PROVE  attempts'[u] > 0
  <2>1. attempts' = attempts
    BY <1>4 DEF Worker, Heartbeat, Retry, Finish
  <2>2. taskStatus[t] \in {"leased", "running"}
    <3>1. HoldsFence(t, o, k)
      BY <1>4 DEF Worker, Heartbeat, Retry, Finish
    <3>2. QED
      BY <3>1, HolderIsNewest
  <2>3. CASE u = t
    BY <2>1, <2>2, <2>3 DEF Dispatched
  <2>4. CASE u # t
    <3>1. taskStatus'[u] = taskStatus[u]
      <4>1. CASE Heartbeat(t, o, k)
        BY <1>0, <2>4, <4>1 DEF Heartbeat
      <4>2. ASSUME NEW used, Retry(t, o, k, used) PROVE taskStatus'[u] = taskStatus[u]
        BY <1>0, <2>4, <4>2 DEF Retry
      <4>3. ASSUME NEW used, NEW outcome \in TerminalTaskStates, Finish(t, o, k, outcome, used)
            PROVE  taskStatus'[u] = taskStatus[u]
        BY <2>4, <4>3, FinishEffect
      <4>4. QED
        BY <1>4, <4>1, <4>2, <4>3 DEF Worker
    <3>2. QED
      BY <1>1, <2>1, <3>1
  <2>5. QED
    BY <2>3, <2>4
<1>5. CASE Cancel
  BY <1>0, <1>1, <1>5 DEF Cancel
<1>6. CASE Tick \/ UNCHANGED vars
  BY <1>1, <1>6 DEF Tick, vars, taskVars
<1>7. QED
  BY <1>2, <1>3, <1>4, <1>5, <1>6 DEF Next

\* Only a result turns a task that was never dispatched into a blocked one, through
\* the closure of what it stopped.
LEMMA CauseStep ==
  TypeOK /\ FencingOK /\ Dispatched /\ BlockedHasCause /\ [Next]_vars => BlockedHasCause'
<1> SUFFICES ASSUME TypeOK, FencingOK, Dispatched, BlockedHasCause, [Next]_vars,
                    NEW u \in Tasks, taskStatus'[u] = "blocked", attempts'[u] = 0
             PROVE  \E d \in Deps[u] : taskStatus'[d] \in StoppedStates
  BY DEF BlockedHasCause
<1>0. /\ Deps[u] \subseteq Tasks
      /\ taskStatus \in [Tasks -> TaskStates]
      /\ attempts \in [Tasks -> Nat]
      /\ StoppedStates \subseteq TerminalTaskStates
      /\ "blocked" \in TerminalTaskStates
  BY GraphAssumption DEF TypeOK, StoppedStates, TerminalTaskStates
<1>1. attempts[u] = 0
  <2>1. ASSUME NEW t \in Tasks, NEW o \in Owners, Lease(t, o) PROVE attempts[u] = 0
    <3>1. attempts' = [attempts EXCEPT ![t] = attempts[t] + 1]
      BY <2>1 DEF Lease
    <3>2. CASE u = t
      BY <1>0, <3>1, <3>2
    <3>3. CASE u # t
      BY <1>0, <3>1, <3>3
    <3>4. QED
      BY <3>2, <3>3
  <2>2. ASSUME NEW t, NEW o, NEW k, Worker(t, o, k) PROVE attempts' = attempts
    BY <2>2 DEF Worker, Heartbeat, Retry, Finish
  <2>3. CASE Submit \/ Cancel \/ Tick \/ UNCHANGED vars
    BY <2>3 DEF Submit, Cancel, Tick, vars, taskVars
  <2>4. QED
    BY <2>1, <2>2, <2>3 DEF Next
<1>2. CASE taskStatus[u] = "blocked"
  <2>1. PICK d \in Deps[u] : taskStatus[d] \in StoppedStates
    BY <1>1, <1>2 DEF BlockedHasCause
  <2>2. taskStatus'[d] = taskStatus[d]
    BY <1>0, <2>1, StepEffect DEF Open
  <2>3. QED
    BY <2>1, <2>2
<1>3. CASE taskStatus[u] # "blocked"
  <2>0. PICK t \in Tasks, o \in Owners, k \in 1..lastToken :
          \E used \in 0..Estimate[t] : \E outcome \in TerminalTaskStates :
            Finish(t, o, k, outcome, used)
    <3>1. CASE Submit
      <4>1. Settle("running", taskStatus)
        BY <3>1 DEF Submit
      <4>2. QED
        BY <1>0, <1>3, <4>1, SettleEffect
    <3>2. ASSUME NEW t \in Tasks, NEW open \in {"pending", "leased", "running"},
                 taskStatus' = [taskStatus EXCEPT ![t] = open]
          PROVE  FALSE
      BY <1>0, <1>3, <3>2
    <3>3. CASE Cancel
      BY <1>3, <3>3 DEF Cancel
    <3>4. CASE Tick \/ UNCHANGED vars
      BY <1>3, <3>4 DEF Tick, vars, taskVars
    <3>5. ASSUME NEW t \in Tasks, NEW o \in Owners, Lease(t, o) PROVE FALSE
      BY <3>2, <3>5 DEF Lease
    <3>6. ASSUME NEW t \in Tasks, NEW o, NEW k, Heartbeat(t, o, k) PROVE FALSE
      BY <3>2, <3>6 DEF Heartbeat
    <3>7. ASSUME NEW t \in Tasks, NEW o, NEW k, NEW used, Retry(t, o, k, used) PROVE FALSE
      BY <3>2, <3>7 DEF Retry
    <3>8. QED
      BY <3>1, <3>3, <3>4, <3>5, <3>6, <3>7 DEF Next, Worker
  <2>1. PICK used \in 0..Estimate[t], outcome \in TerminalTaskStates :
          Finish(t, o, k, outcome, used)
    BY <2>0
  <2> DEFINE before == [taskStatus EXCEPT ![t] = outcome]
             after  == Ended(t, outcome)
  <2>2. before \in [Tasks -> TaskStates]
    BY <1>0 DEF TaskStates, TerminalTaskStates
  <2>3. after \in [Tasks -> TaskStates] /\ Settle(runStatus, after)
    BY <2>1, FinishSettles
  <2>4. u # t
    <3>1. HoldsFence(t, o, k)
      BY <2>1 DEF Finish
    <3>2. taskStatus[t] \in {"leased", "running"}
      BY <3>1, HolderIsNewest
    <3>3. QED
      BY <1>1, <3>2 DEF Dispatched
  <2>5. before[u] # "blocked"
    BY <1>0, <1>3, <2>4
  <2>6. after[u] = "blocked"
    BY <2>3, SettleEffect
  <2>7. after = BlockDescendants(before) /\ u \in Doomed(before)
    BY <2>5, <2>6 DEF Ended, BlockDescendants
  <2>8. PICK d \in Deps[u] : after[d] \in StoppedStates
    BY <2>2, <2>7, BlockingHasCause
  <2>9. taskStatus'[d] = after[d]
    BY <1>0, <2>3, <2>8, SettleEffect
  <2>10. QED
    BY <2>8, <2>9
<1>4. QED
  BY <1>2, <1>3

\* A task closed as blocked without ever being dispatched has a stopped
\* predecessor: the closure takes descendants only.
THEOREM Causes == Spec => []BlockedHasCause
<1>1. Init => Dispatched /\ BlockedHasCause
  BY DEF Init, Dispatched, BlockedHasCause
<1>2. QED
  BY <1>1, DispatchedStep, CauseStep, TypeCorrect, Fencing, PTL DEF Spec

-----------------------------------------------------------------------------
(* Work left *)

\* A run that is not closed has required work open, whatever was retried,
\* blocked or skipped.
THEOREM WorkLeft == Spec => []OpenRunHasWork
<1>1. Init => OpenRunHasWork
  <2>1. Required \subseteq EffectiveRequired
    BY GraphAssumption DEF EffectiveRequired
  <2>2. QED
    BY <2>1, GraphAssumption DEF Init, OpenRunHasWork, Open, TerminalTaskStates
<1>2. TypeOK /\ FencingOK /\ OpenRunHasWork /\ [Next]_vars => OpenRunHasWork'
  <2> SUFFICES ASSUME TypeOK, FencingOK, OpenRunHasWork, [Next]_vars,
                      runStatus' \notin TerminalRunStates, Required # {}
               PROVE  \E v \in EffectiveRequired : taskStatus'[v] \notin TerminalTaskStates
    BY DEF OpenRunHasWork, RunClosed, Open
  <2>0. taskStatus \in [Tasks -> TaskStates] /\ EffectiveRequired \subseteq Tasks
    BY DEF TypeOK, EffectiveRequired
  <2>1. ASSUME runStatus \notin TerminalRunStates, NEW t \in Tasks,
               NEW open \in {"pending", "leased", "running"},
               taskStatus' = [taskStatus EXCEPT ![t] = open]
        PROVE  \E v \in EffectiveRequired : taskStatus'[v] \notin TerminalTaskStates
    <3>1. PICK v \in EffectiveRequired : taskStatus[v] \notin TerminalTaskStates
      BY <2>1 DEF OpenRunHasWork, RunClosed, Open
    <3>2. taskStatus'[v] \notin TerminalTaskStates
      BY <2>0, <2>1, <3>1 DEF TerminalTaskStates
    <3>3. QED
      BY <3>2
  <2>2. CASE Submit
    <3>1. Settle("running", taskStatus)
      BY <2>2 DEF Submit
    <3>2. QED
      BY <2>0, <3>1, SettleAllOrNothing
  <2>3. ASSUME NEW t \in Tasks, NEW o \in Owners, Lease(t, o)
        PROVE  \E v \in EffectiveRequired : taskStatus'[v] \notin TerminalTaskStates
    BY <2>1, <2>3 DEF Lease, TerminalRunStates
  <2>4. ASSUME NEW t \in Tasks, NEW o, NEW k, Heartbeat(t, o, k)
        PROVE  \E v \in EffectiveRequired : taskStatus'[v] \notin TerminalTaskStates
    BY <2>1, <2>4 DEF Heartbeat
  <2>5. ASSUME NEW t \in Tasks, NEW o, NEW k, NEW used, Retry(t, o, k, used)
        PROVE  \E v \in EffectiveRequired : taskStatus'[v] \notin TerminalTaskStates
    BY <2>1, <2>5 DEF Retry
  <2>6. ASSUME NEW t \in Tasks, NEW o, NEW k, NEW used, NEW outcome \in TerminalTaskStates,
               Finish(t, o, k, outcome, used)
        PROVE  \E v \in EffectiveRequired : taskStatus'[v] \notin TerminalTaskStates
    BY <2>6, FinishSettles, SettleAllOrNothing
  <2>7. CASE Cancel
    BY <2>7 DEF Cancel, TerminalRunStates
  <2>8. CASE Tick \/ UNCHANGED vars
    BY <2>8 DEF Tick, vars, taskVars, OpenRunHasWork, RunClosed, Open
  <2>9. QED
    BY <2>2, <2>3, <2>4, <2>5, <2>6, <2>7, <2>8 DEF Next, Worker
<1>3. QED
  BY <1>1, <1>2, TypeCorrect, Fencing, PTL DEF Spec

\* Nothing stays open behind a stopped task, and nothing else is blocked undispatched.
THEOREM Blocking == Spec => []BlocksExactlyBehind
BY Descendants, Causes, PTL DEF BlocksExactlyBehind

\* A closed run is quiet and an open one has work.
THEOREM Closing == Spec => []ClosesWithItsClosure
BY Quiet, WorkLeft, PTL DEF ClosesWithItsClosure

-----------------------------------------------------------------------------
(* Refinement *)

\* A step that hands out nothing, and takes the lease of each task it finds
\* or makes closed, withdraws.
LEMMA Withdraws ==
  ASSUME UNCHANGED <<settledToken, lastToken>>,
         \A u \in Tasks : ~Open(u) => taskStatus'[u] \in TerminalTaskStates,
         \A u \in Tasks :
           lease'[u].token = IF taskStatus'[u] \in TerminalTaskStates THEN 0 ELSE lease[u].token
  PROVE  Work!Next
<1> DEFINE now == {u \in Tasks : taskStatus'[u] \in TerminalTaskStates}
<1>1. now \in SUBSET Tasks
  OBVIOUS
<1>2. {u \in Tasks : ~Open(u)} \subseteq now
  OBVIOUS
<1>3. {u \in Tasks : ~Open(u)}' = now
  BY DEF Open
<1>4. [u \in Tasks |-> lease[u].token]' =
        [u \in Tasks |-> IF u \in now THEN 0 ELSE [v \in Tasks |-> lease[v].token][u]]
  OBVIOUS
<1>5. Work!Withdraw
  BY <1>1, <1>2, <1>3, <1>4 DEF Work!Withdraw, Work!CloseTo
<1>6. QED
  BY <1>5 DEF Work!Next

\* A step that records the result of t under its present token, takes its lease
\* and those of the tasks it closes, reports; it closes t, or nothing.
LEMMA Reports ==
  ASSUME NEW t \in Tasks, Held(t), UNCHANGED lastToken,
         settledToken' = [settledToken EXCEPT ![t] = lease[t].token],
         \A u \in Tasks : ~Open(u) => taskStatus'[u] \in TerminalTaskStates,
         \/ taskStatus'[t] \in TerminalTaskStates
         \/ \A u \in Tasks : taskStatus'[u] \in TerminalTaskStates => ~Open(u),
         \A u \in Tasks :
           lease'[u].token = IF u = t \/ taskStatus'[u] \in TerminalTaskStates
                             THEN 0 ELSE lease[u].token
  PROVE  Work!Next
<1> DEFINE now == {u \in Tasks : taskStatus'[u] \in TerminalTaskStates}
           out == [u \in Tasks |-> lease[u].token]
<1>1. out[t] # 0 /\ settledToken' = [settledToken EXCEPT ![t] = out[t]]
  BY DEF Held
<1>2. now \in SUBSET Tasks /\ {u \in Tasks : ~Open(u)} \subseteq now
  OBVIOUS
<1>3. {u \in Tasks : ~Open(u)}' = now
  BY DEF Open
<1>4. t \in now \/ now = {u \in Tasks : ~Open(u)}
  OBVIOUS
<1>5. [u \in Tasks |-> lease[u].token]' =
        [u \in Tasks |-> IF u \in now \cup {t} THEN 0 ELSE out[u]]
  OBVIOUS
<1>6. Work!Report(t)
  BY <1>1, <1>2, <1>3, <1>4, <1>5 DEF Work!Report, Work!CloseTo
<1>7. QED
  BY <1>6 DEF Work!Next

\* Every step of a run is one of FencedWork, or shows nothing there.
LEMMA WorkStep ==
  TypeOK /\ FencingOK /\ [Next]_vars => [Work!Next]_(Work!vars)
<1> SUFFICES ASSUME TypeOK, FencingOK, [Next]_vars PROVE [Work!Next]_(Work!vars)
  OBVIOUS
<1>0. /\ taskStatus \in [Tasks -> TaskStates] /\ lease \in [Tasks -> Leases]
      /\ settledToken \in [Tasks -> Nat]
      /\ \A u \in Tasks : ~Open(u) => lease[u].token = 0
  BY DEF TypeOK, FencingOK, Held, Open, TerminalTaskStates
<1>1. \A u \in Tasks : ~Open(u) => taskStatus'[u] \in TerminalTaskStates
  BY StepEffect DEF Open
<1>2. CASE Submit
  <2>1. Settle("running", taskStatus) /\ UNCHANGED <<settledToken, lastToken>>
    BY <1>2 DEF Submit
  <2>2. \A u \in Tasks : lease'[u].token =
          IF taskStatus'[u] \in TerminalTaskStates THEN 0 ELSE lease[u].token
    BY <1>0, <2>1, SettleEffect, NoLeaseToken DEF TerminalTaskStates
  <2>3. QED
    BY <1>1, <2>1, <2>2, Withdraws
<1>3. ASSUME NEW t \in Tasks, NEW o \in Owners, Lease(t, o) PROVE Work!Next
  <2>1. Open(t) /\ lease' = [lease EXCEPT ![t] = Granted(o, lastToken + 1)]
        /\ taskStatus' = [taskStatus EXCEPT ![t] = "leased"]
    BY <1>3 DEF Lease, Leasable, Open, TerminalTaskStates
  <2>2. {u \in Tasks : ~Open(u)}' = {u \in Tasks : ~Open(u)}
    BY <1>0, <2>1 DEF Open, TerminalTaskStates
  <2>3. [u \in Tasks |-> lease[u].token]' =
          [[u \in Tasks |-> lease[u].token] EXCEPT ![t] = lastToken + 1]
    BY <1>0, <2>1 DEF Granted
  <2>4. lastToken' = lastToken + 1 /\ UNCHANGED settledToken
    BY <1>3 DEF Lease
  <2>5. Work!Grant(t)
    BY <2>1, <2>2, <2>3, <2>4 DEF Work!Grant
  <2>6. QED
    BY <2>5 DEF Work!Next
<1>4. ASSUME NEW t \in Tasks, NEW o \in Owners, NEW k \in 1..lastToken, Heartbeat(t, o, k)
      PROVE  Work!Next
  <2>1. taskStatus[t] \notin TerminalTaskStates
    BY <1>4, HolderIsNewest DEF Heartbeat
  <2>2. lease' = [lease EXCEPT ![t] = Renewed(lease[t])]
        /\ taskStatus' = [taskStatus EXCEPT ![t] = "running"]
        /\ UNCHANGED <<settledToken, lastToken>>
    BY <1>4 DEF Heartbeat
  <2>3. Renewed(lease[t]).token = lease[t].token
    BY <1>0, LeaseOperators
  <2>4. \A u \in Tasks : lease'[u].token =
          IF taskStatus'[u] \in TerminalTaskStates THEN 0 ELSE lease[u].token
    BY <1>0, <2>1, <2>2, <2>3 DEF Open, TerminalTaskStates
  <2>5. QED
    BY <1>1, <2>2, <2>4, Withdraws
<1>5. ASSUME NEW t \in Tasks, NEW o \in Owners, NEW k \in 1..lastToken, NEW used,
             Retry(t, o, k, used)
      PROVE  Work!Next
  <2>1. HoldsFence(t, o, k)
    BY <1>5 DEF Retry
  <2>2. Held(t) /\ Open(t) /\ lease[t].token = k
    BY <2>1, HolderIsNewest DEF HoldsFence, Open
  <2>3. lease' = [lease EXCEPT ![t] = NoLease] /\ UNCHANGED lastToken
        /\ taskStatus' = [taskStatus EXCEPT ![t] = "pending"]
        /\ settledToken' = [settledToken EXCEPT ![t] = k]
    BY <1>5 DEF Retry
  <2>4. \A u \in Tasks : taskStatus'[u] \in TerminalTaskStates => ~Open(u)
    BY <1>0, <2>3 DEF Open, TerminalTaskStates
  <2>5. \A u \in Tasks : lease'[u].token =
          IF u = t \/ taskStatus'[u] \in TerminalTaskStates THEN 0 ELSE lease[u].token
    BY <1>0, <2>3, <2>4, NoLeaseToken
  <2>6. QED
    BY <1>1, <2>2, <2>3, <2>4, <2>5, Reports
<1>6. ASSUME NEW t \in Tasks, NEW o \in Owners, NEW k \in 1..lastToken, NEW used,
             NEW outcome \in TerminalTaskStates, Finish(t, o, k, outcome, used)
      PROVE  Work!Next
  <2>1. HoldsFence(t, o, k)
    BY <1>6 DEF Finish
  <2>2. Held(t) /\ lease[t].token = k
    BY <2>1, HolderIsNewest DEF HoldsFence
  <2>3. UNCHANGED lastToken /\ settledToken' = [settledToken EXCEPT ![t] = k]
    BY <1>6 DEF Finish
  <2>4. taskStatus'[t] \in TerminalTaskStates /\ lease'[t].token = 0
    BY <1>6, FinishEffect, NoLeaseToken
  <2>5. \A u \in Tasks \ {t} : lease'[u].token =
          IF taskStatus'[u] \in TerminalTaskStates THEN 0 ELSE lease[u].token
    BY <1>6, FinishEffect, NoLeaseToken DEF TerminalTaskStates
  <2>6. QED
    BY <1>1, <2>2, <2>3, <2>4, <2>5, Reports
<1>7. CASE Cancel
  <2>1. UNCHANGED <<settledToken, lastToken>>
    BY <1>7 DEF Cancel
  <2>2. \A u \in Tasks : lease'[u].token =
          IF taskStatus'[u] \in TerminalTaskStates THEN 0 ELSE lease[u].token
    BY <1>0, <1>7, NoLeaseToken DEF Cancel, Open, TerminalTaskStates
  <2>3. QED
    BY <1>1, <2>1, <2>2, Withdraws
<1>8. CASE Tick
  <2>1. UNCHANGED <<taskStatus, settledToken, lastToken>>
    BY <1>8 DEF Tick
  <2>2. \A u \in Tasks : lease'[u].token = lease[u].token
    BY <1>0, <1>8, LeaseOperators DEF Tick
  <2>3. \A u \in Tasks : lease'[u].token =
          IF taskStatus'[u] \in TerminalTaskStates THEN 0 ELSE lease[u].token
    BY <1>0, <2>1, <2>2 DEF Open
  <2>4. QED
    BY <1>1, <2>1, <2>3, Withdraws
<1>9. CASE UNCHANGED vars
  <2>1. /\ [u \in Tasks |-> lease[u].token]' = [u \in Tasks |-> lease[u].token]
        /\ {u \in Tasks : ~Open(u)}' = {u \in Tasks : ~Open(u)}
        /\ UNCHANGED <<settledToken, lastToken>>
    BY <1>9 DEF vars, taskVars, Open
  <2>2. QED
    BY <2>1 DEF Work!vars
<1>10. QED
  BY <1>2, <1>3, <1>4, <1>5, <1>6, <1>7, <1>8, <1>9 DEF Next, Worker

\* The run implements FencedWork: only the newest token of an open task reports,
\* once, and closing a task takes it out of its holder's hands.
THEOREM RunImplementsWork == Spec => ImplementsFencedWork
<1>1. Init => Work!Init
  <2> SUFFICES ASSUME Init PROVE Work!Init
    OBVIOUS
  <2>1. [u \in Tasks |-> lease[u].token] = [u \in Tasks |-> 0]
    BY DEF Init, NoLease
  <2>2. {u \in Tasks : ~Open(u)} = {}
    BY DEF Init, Open, TerminalTaskStates
  <2>3. QED
    BY <2>1, <2>2 DEF Init, Work!Init
<1>2. QED
  BY <1>1, WorkStep, TypeCorrect, Fencing, PTL DEF Spec, ImplementsFencedWork, Work!Spec
-----------------------------------------------------------------------------
(* Sessions are clients of the run controller *)

\* No lease runs without a token.
LiveIsHeld == \A t \in Tasks : lease[t].token = 0 => lease[t].left = 0

RunInv == TypeOK /\ FencingOK /\ LiveIsHeld

LEMMA LiveIsHeldStep == TypeOK /\ LiveIsHeld /\ [Next]_vars => LiveIsHeld'
<1> SUFFICES ASSUME TypeOK, LiveIsHeld, [Next]_vars PROVE LiveIsHeld'
  OBVIOUS
<1>0. ASSUME NEW run, NEW status, Settle(run, status) PROVE LiveIsHeld'
  BY <1>0 DEF Settle, LiveIsHeld, NoLease
<1>1. CASE Submit
  BY <1>0, <1>1 DEF Submit
<1>2. ASSUME NEW t \in Tasks, NEW o \in Owners, Lease(t, o) PROVE LiveIsHeld'
  <2>1. lease' = [lease EXCEPT ![t] = Granted(o, lastToken + 1)] /\ lastToken + 1 # 0
    BY <1>2 DEF Lease, TypeOK
  <2>2. QED
    BY <2>1 DEF LiveIsHeld, Granted, TypeOK
<1>3. ASSUME NEW t \in Tasks, NEW o \in Owners, NEW k \in 1..lastToken, Heartbeat(t, o, k)
      PROVE  LiveIsHeld'
  <2>1. lease[t].token # 0
    BY <1>3 DEF Heartbeat, HoldsFence, TypeOK
  <2>2. lease' = [lease EXCEPT ![t] = Renewed(lease[t])]
    BY <1>3 DEF Heartbeat
  <2>3. lease \in [Tasks -> Leases] /\ Renewed(lease[t]).token = lease[t].token
    BY LeaseOperators DEF TypeOK
  <2>4. QED
    BY <2>1, <2>2, <2>3 DEF LiveIsHeld
<1>4. ASSUME NEW t \in Tasks, NEW o \in Owners, NEW k \in 1..lastToken,
             NEW used \in 0..Estimate[t],
             \/ Retry(t, o, k, used)
             \/ \E outcome \in TerminalTaskStates : Finish(t, o, k, outcome, used)
      PROVE  LiveIsHeld'
  <2>1. CASE Retry(t, o, k, used)
    BY <2>1 DEF Retry, LiveIsHeld, NoLease, TypeOK
  <2>2. CASE \E outcome \in TerminalTaskStates : Finish(t, o, k, outcome, used)
    BY <1>0, <2>2 DEF Finish
  <2>3. QED
    BY <1>4, <2>1, <2>2
<1>5. CASE Cancel
  BY <1>5 DEF Cancel, LiveIsHeld, NoLease
<1>6. CASE Tick
  <2>1. \A t \in Tasks : lease'[t] = Aged(lease[t])
    BY <1>6 DEF Tick
  <2>2. \A t \in Tasks : Aged(lease[t]).token = lease[t].token
    BY LeaseOperators DEF TypeOK
  <2>3. \A t \in Tasks : lease[t].left = 0 => Aged(lease[t]) = lease[t]
    BY DEF Aged
  <2>4. QED
    BY <2>1, <2>2, <2>3 DEF LiveIsHeld
<1>7. CASE UNCHANGED vars
  BY <1>7 DEF vars, taskVars, LiveIsHeld
<1>8. QED
  BY <1>1, <1>2, <1>3, <1>4, <1>5, <1>6, <1>7 DEF Next, Worker

\* What the bridge does to its run, somebody may do: it reads the token it sends.
LEMMA SessionSteps ==
  ASSUME SessionAssumption, RunInv, [SessionNext]_allVars PROVE [Next]_vars
<1>0. session \in Tasks /\ hermes \in Owners
  BY DEF SessionAssumption
<1>00. ASSUME Holds PROVE Token \in 1..lastToken
  <2>1. Held(session) /\ Token = fence[session] /\ Token <= lastToken /\ Token \in Nat
    BY <1>0, <1>00
       DEF Holds, HoldsFence, Live, RunInv, LiveIsHeld, Held, FencingOK, TypeOK, Token, Leases
  <2>2. QED
    BY <2>1 DEF Held, Token, RunInv, TypeOK
<1>1. ASSUME NEW n, Renew(n) PROVE Next
  <2>1. Heartbeat(session, hermes, Token) /\ Holds
    BY <1>1 DEF Renew, Heartbeat, Holds
  <2>2. QED
    BY <1>0, <1>00, <2>1 DEF Next, Worker
<1>2. CASE Create
  BY <1>2 DEF Create
<1>3. CASE SubmitRun
  BY <1>3 DEF SubmitRun, Next
<1>4. CASE LeaseRun
  BY <1>0, <1>4 DEF LeaseRun, Next
<1>5. CASE FirstBeat
  BY <1>1, <1>5 DEF FirstBeat
<1>6. ASSUME NEW h \in Hooks, ToolCall(h) \/ Look(h) \/ Beat(h) PROVE [Next]_vars
  BY <1>1, <1>6 DEF ToolCall, Look, Beat
<1>7. CASE CloseSession
  BY <1>7 DEF CloseSession, Next
<1>8. ASSUME NEW outcome \in {"succeeded", "failed"}, FinishSession(outcome)
      PROVE  Next
  <2>1. Finish(session, hermes, Token, outcome, Usage) /\ Token \in 1..lastToken
    BY <1>00, <1>8 DEF FinishSession
  <2>2. Usage \in 0..Estimate[session] /\ outcome \in TerminalTaskStates
    BY DEF SessionAssumption, TerminalTaskStates
  <2>3. QED
    BY <1>0, <2>1, <2>2 DEF Next, Worker
<1>9. CASE FinishUnheard
  BY <1>9 DEF FinishUnheard
<1>10. CASE Die
  BY <1>10 DEF Die
<1>11. CASE OperatorCancel
  BY <1>11 DEF OperatorCancel, Next
<1>12. CASE NextTick
  BY <1>12 DEF NextTick, Next
<1>13. CASE UNCHANGED allVars
  BY <1>13 DEF allVars
<1>14. QED
  BY <1>2, <1>3, <1>4, <1>5, <1>6, <1>7, <1>8, <1>9, <1>10, <1>11, <1>12, <1>13
     DEF SessionNext

LEMMA RunInvStep ==
  ASSUME SessionAssumption PROVE RunInv /\ [SessionNext]_allVars => RunInv'
<1> SUFFICES ASSUME RunInv, [SessionNext]_allVars PROVE RunInv'
  OBVIOUS
<1>1. [Next]_vars
  BY SessionSteps
<1>2. QED
  BY <1>1, TypeStep, FencingStep, LiveIsHeldStep DEF RunInv

LEMMA SessionRun ==
  ASSUME SessionAssumption PROVE SessionSpec => []RunInv
<1>1. SessionInit => RunInv
  BY InitType, InitFencing DEF SessionInit, RunInv, Init, LiveIsHeld, NoLease
<1>2. RunInv /\ [SessionNext]_allVars => RunInv'
  BY RunInvStep
<1>3. QED
  BY <1>1, <1>2, PTL DEF SessionSpec

\* A session is a client of the run controller: whatever its hooks, its ends and
\* its deaths do, the run under it takes steps of RunController only, so every
\* theorem above holds of it.
THEOREM SessionImplementsRun ==
  ASSUME SessionAssumption PROVE SessionSpec => Spec
<1>1. SessionInit => Init
  BY DEF SessionInit
<1>2. RunInv /\ [SessionNext]_allVars => [Next]_vars
  BY SessionSteps
<1>3. QED
  BY <1>1, <1>2, SessionRun, PTL DEF SessionSpec, Spec

-----------------------------------------------------------------------------
(* Bursts *)

SessionTypes ==
  /\ beats \in Nat /\ sinceBeat \in Nat /\ sinceTaken \in Nat /\ sinceCall \in Int
  /\ due \subseteq Hooks /\ looking \in [Hooks -> Nat] /\ burst \in Nat
  /\ due \cap Readers = {}
  /\ disabled \in BOOLEAN /\ steady \in BOOLEAN

\* Hooks are in flight behind a first beat only, and none is while a process
\* starts.
BeatsBegin ==
  /\ taken = {} => sinceTaken >= MinBeat
  /\ taken # {} \/ handle = "active" \/ InFlight # {} => 0 \in taken
  /\ handle \in Starting => InFlight = {}
  /\ InFlight # {} => sinceCall = 0
  /\ handle \in Starting => sinceCall = 0

\* While beats come close together no hook joins those in flight, each of which
\* has one more to send.
BurstSpends ==
  /\ sinceTaken >= MinBeat \/ sinceBeat <= sinceTaken
  /\ burst <= Cardinality(Hooks)
  /\ sinceTaken < MinBeat => burst + Cardinality(InFlight) <= Cardinality(Hooks)

BurstInv == SessionTypes /\ BeatsBegin /\ BurstSpends

LEMMA HooksFinite ==
  ASSUME SessionAssumption, NEW S \in SUBSET Hooks
  PROVE  /\ IsFiniteSet(S) /\ Cardinality(S) \in Nat
         /\ Cardinality(S) <= Cardinality(Hooks)
         /\ Cardinality(Hooks) \in Nat /\ Cardinality(Hooks) >= 1
<1>1. IsFiniteSet(Hooks) /\ Hooks # {}
  BY DEF SessionAssumption
<1>2. Cardinality(Hooks) \in Nat /\ Cardinality(Hooks) # 0
  BY <1>1, FS_CardinalityType, FS_EmptySet
<1>3. IsFiniteSet(S) /\ Cardinality(S) <= Cardinality(Hooks)
  BY <1>1, FS_Subset
<1>4. Cardinality(S) \in Nat
  BY <1>3, FS_CardinalityType
<1>5. QED
  BY <1>2, <1>3, <1>4

LEMMA InFlightHooks == SessionTypes => InFlight \subseteq Hooks
BY DEF SessionTypes, InFlight, Readers

\* A beat leaves one hook less in flight.
LEMMA BeatLeaves ==
  ASSUME SessionAssumption, SessionTypes, NEW h \in Hooks, Beat(h)
  PROVE  /\ InFlight' = InFlight \ {h} /\ h \in InFlight
         /\ Cardinality(InFlight) \in Nat /\ Cardinality(InFlight') \in Nat
         /\ Cardinality(InFlight') = Cardinality(InFlight) - 1
         /\ Cardinality(InFlight) <= Cardinality(Hooks)
         /\ looking' = [looking EXCEPT ![h] = 0] /\ due' = due
         /\ Readers' = Readers \ {h}
<1>1. looking[h] # 0 /\ looking' = [looking EXCEPT ![h] = 0] /\ due' = due
  BY DEF Beat
<1>2. h \in Readers /\ h \notin due
  BY <1>1 DEF Readers, SessionTypes
<1>3. Readers' = Readers \ {h}
  BY <1>1 DEF Readers, SessionTypes
<1>4. InFlight' = InFlight \ {h} /\ h \in InFlight
  BY <1>1, <1>2, <1>3 DEF InFlight
<1>5. InFlight \in SUBSET Hooks
  BY InFlightHooks
<1>6. /\ IsFiniteSet(InFlight) /\ Cardinality(InFlight) \in Nat
      /\ Cardinality(InFlight) <= Cardinality(Hooks)
  BY <1>5, HooksFinite
<1>7. Cardinality(InFlight \ {h}) = Cardinality(InFlight) - 1
  BY <1>4, <1>6, FS_RemoveElement
<1>8. InFlight' \in SUBSET Hooks
  BY <1>4, <1>5
<1>9. Cardinality(InFlight \ {h}) \in Nat
  BY <1>4, <1>8, HooksFinite
<1>10. QED
  BY <1>1, <1>3, <1>4, <1>6, <1>7, <1>9

\* What a hook in flight has sent: a beat the stream takes, one it had, or one
\* that is refused.
LEMMA BeatEffect ==
  ASSUME SessionTypes, NEW h \in Hooks, Beat(h)
  PROVE  \E n \in looking[h]..beats :
           \/ /\ n \notin taken /\ Renew(n)
              /\ taken' = taken \cup {n} /\ sinceTaken' = 0
              /\ burst' = IF sinceTaken >= MinBeat THEN 1 ELSE burst + 1
              /\ beats' = beats + 1 /\ sinceBeat' = 0 /\ disabled' = disabled
           \/ /\ n \in taken /\ UNCHANGED <<vars, taken, sinceTaken, burst, disabled>>
              /\ beats' = beats + 1 /\ sinceBeat' = 0
           \/ /\ disabled' = TRUE
              /\ UNCHANGED <<vars, taken, sinceTaken, burst, beats, sinceBeat>>
BY DEF Beat, Renew

LEMMA BurstInit == SessionAssumption /\ SessionInit => BurstInv
<1> SUFFICES ASSUME SessionAssumption, SessionInit PROVE BurstInv
  OBVIOUS
<1>1. Readers = {} /\ InFlight = {}
  BY DEF SessionInit, Readers, InFlight
<1>2. MinBeat \in Nat /\ Cardinality(Hooks) >= 1 /\ Cardinality(Hooks) \in Nat
  BY HooksFinite DEF SessionAssumption
<1>3. SessionTypes
  <2>1. /\ due = {} /\ looking = [h \in Hooks |-> 0] /\ disabled = FALSE /\ steady = FALSE
        /\ beats = 0 /\ sinceBeat = 0 /\ sinceTaken = MinBeat /\ sinceCall = 0 /\ burst = 0
    BY DEF SessionInit
  <2>2. /\ beats \in Nat /\ sinceBeat \in Nat /\ sinceTaken \in Nat /\ sinceCall \in Int
        /\ looking \in [Hooks -> Nat] /\ burst \in Nat
    BY <1>2, <2>1
  <2>3. disabled \in BOOLEAN /\ steady \in BOOLEAN
    BY <2>1
  <2>4. due \subseteq Hooks /\ due \cap Readers = {}
    BY <2>1
  <2>5. QED
    BY <2>2, <2>3, <2>4, Zenon DEF SessionTypes
<1>4. BeatsBegin
  <2>1. handle # "active" /\ handle \notin Starting
    BY DEF SessionInit, NoHandle, Starting
  <2>2. QED
    BY <1>1, <1>2, <2>1 DEF SessionInit, BeatsBegin
<1>5. BurstSpends
  BY <1>1, <1>2 DEF SessionInit, BurstSpends
<1>6. QED
  BY <1>3, <1>4, <1>5 DEF BurstInv

\* Steps that leave beats, hooks and clocks as they are.
LEMMA BurstKept ==
  ASSUME BurstInv,
         UNCHANGED <<due, looking, taken, sinceTaken, burst, beats, sinceBeat>>,
         disabled' \in BOOLEAN, steady' \in BOOLEAN,
         sinceCall' = sinceCall \/ (InFlight = {} /\ sinceCall' = 0),
         handle' = "active" => 0 \in taken,
         handle' \in Starting => InFlight = {} /\ sinceCall' = 0
  PROVE  BurstInv'
<1>1. Readers' = Readers /\ InFlight' = InFlight
  BY DEF Readers, InFlight
<1>2. SessionTypes'
  BY <1>1 DEF BurstInv, SessionTypes
<1>3. BeatsBegin'
  BY <1>1 DEF BurstInv, BeatsBegin, Starting
<1>4. BurstSpends'
  BY <1>1 DEF BurstInv, BurstSpends
<1>5. QED
  BY <1>2, <1>3, <1>4 DEF BurstInv

LEMMA BurstStep ==
  ASSUME SessionAssumption PROVE BurstInv /\ [SessionNext]_allVars => BurstInv'
<1> SUFFICES ASSUME BurstInv, [SessionNext]_allVars PROVE BurstInv'
  OBVIOUS
<1>0. /\ SessionTypes /\ BeatsBegin /\ BurstSpends
      /\ MinBeat \in Nat \ {0} /\ LeaseTTL \in Nat \ {0}
      /\ Cardinality(Hooks) \in Nat /\ Cardinality(Hooks) >= 1
      /\ disabled \in BOOLEAN /\ steady \in BOOLEAN
  BY HooksFinite, ControllerAssumption DEF BurstInv, SessionAssumption, SessionTypes
<1>1. CASE Create
  BY <1>0, <1>1, BurstKept DEF Create, Starting, NoHandle
<1>2. CASE SubmitRun
  BY <1>0, <1>2, BurstKept DEF SubmitRun, history, BeatsBegin, Starting
<1>3. CASE LeaseRun
  <2>1. handle = "lease" /\ handle' \in {"beat", NoHandle} /\ steady' \in BOOLEAN
    BY <1>0, <1>3 DEF LeaseRun
  <2>2. InFlight = {} /\ sinceCall = 0
    BY <1>0, <2>1 DEF BeatsBegin, Starting
  <2>3. QED
    BY <1>0, <1>3, <2>1, <2>2, BurstKept DEF LeaseRun, NoHandle, Starting
<1>4. CASE FirstBeat
  <2>1. /\ handle = "beat" /\ InFlight = {} /\ sinceCall = 0
        /\ UNCHANGED <<due, looking, disabled, steady, sinceCall>>
        /\ beats' = 1 /\ sinceBeat' = 0 /\ handle' \in {"active", NoHandle}
    BY <1>0, <1>4 DEF FirstBeat, BeatsBegin, Starting
  <2>2. Readers' = Readers /\ InFlight' = InFlight
    BY <2>1 DEF Readers, InFlight
  <2>3. SessionTypes' /\ BeatsBegin' /\ BurstSpends'
    <3>1. CASE 0 \notin taken /\ Holds
      <4>1. /\ taken' = taken \cup {0} /\ sinceTaken' = 0
            /\ burst' = IF sinceTaken >= MinBeat THEN 1 ELSE burst + 1
        BY <1>4, <3>1 DEF FirstBeat, Renew
      <4>2. taken = {} /\ burst' = 1
        BY <1>0, <3>1, <4>1 DEF BeatsBegin
      <4>3. Cardinality(InFlight') = 0
        BY <2>1, <2>2, FS_EmptySet
      <4>4. SessionTypes'
        BY <1>0, <2>1, <2>2, <4>1, <4>2 DEF SessionTypes
      <4>5. BeatsBegin'
        BY <1>0, <2>1, <2>2, <4>1 DEF BeatsBegin
      <4>6. BurstSpends'
        BY <1>0, <2>1, <4>1, <4>2, <4>3 DEF BurstSpends
      <4>7. QED
        BY <4>4, <4>5, <4>6
    <3>2. CASE ~(0 \notin taken /\ Holds)
      <4>1. /\ UNCHANGED <<taken, sinceTaken, burst>>
            /\ handle' = "active" => 0 \in taken
        BY <1>4, <3>2 DEF FirstBeat, NoHandle
      <4>2. SessionTypes'
        BY <1>0, <2>1, <2>2, <4>1 DEF SessionTypes
      <4>3. BeatsBegin'
        BY <1>0, <2>1, <2>2, <4>1 DEF BeatsBegin, Starting, NoHandle
      <4>4. BurstSpends'
        BY <1>0, <2>1, <2>2, <4>1 DEF BurstSpends, SessionTypes
      <4>5. QED
        BY <4>2, <4>3, <4>4
    <3>3. QED
      BY <3>1, <3>2
  <2>4. QED
    BY <2>3 DEF BurstInv
<1>5. ASSUME NEW h \in Hooks, ToolCall(h) PROVE BurstInv'
  <2>1. /\ handle = "active" /\ sinceCall' = 0 /\ 0 \in taken
        /\ UNCHANGED <<handle, looking, taken, sinceTaken, burst, beats, sinceBeat,
                       disabled, steady>>
        /\ h \notin InFlight
    BY <1>0, <1>5 DEF ToolCall, BeatsBegin
  <2>2. CASE due' = due
    <3>1. Readers' = Readers /\ InFlight' = InFlight
      BY <2>1, <2>2 DEF Readers, InFlight
    <3>2. SessionTypes' /\ BeatsBegin' /\ BurstSpends'
      BY <1>0, <2>1, <2>2, <3>1 DEF SessionTypes, BeatsBegin, BurstSpends, Starting
    <3>3. QED
      BY <3>2 DEF BurstInv
  <2>3. CASE due' # due
    <3>1. due' = due \cup {h} /\ sinceBeat >= MinBeat
      BY <1>5, <2>3 DEF ToolCall, Due
    <3>2. Readers' = Readers
      BY <2>1 DEF Readers
    <3>3. SessionTypes'
      BY <1>0, <2>1, <3>1, <3>2 DEF SessionTypes, InFlight
    <3>4. BeatsBegin'
      BY <1>0, <2>1 DEF BeatsBegin, Starting
    <3>5. BurstSpends'
      BY <1>0, <2>1, <3>1 DEF BurstSpends, SessionTypes
    <3>6. QED
      BY <3>3, <3>4, <3>5 DEF BurstInv
  <2>4. QED
    BY <2>2, <2>3
<1>6. ASSUME NEW h \in Hooks, Look(h) PROVE BurstInv'
  <2>1. /\ h \in due /\ due' = due \ {h}
        /\ UNCHANGED <<handle, taken, sinceTaken, burst, beats, sinceBeat, disabled,
                       steady, sinceCall>>
        /\ looking' = looking \/ looking' = [looking EXCEPT ![h] = beats]
    BY <1>6 DEF Look, history
  <2>2. /\ looking' \in [Hooks -> Nat]
        /\ \A g \in Hooks \ {h} : looking'[g] = looking[g]
    BY <1>0, <2>1 DEF SessionTypes
  <2>3. Readers' \subseteq Readers \cup {h} /\ h \in InFlight
    BY <2>1, <2>2 DEF Readers, InFlight
  <2>4. InFlight' \subseteq InFlight
    BY <2>1, <2>3 DEF InFlight
  <2>5. SessionTypes'
    BY <1>0, <2>1, <2>2, <2>3 DEF SessionTypes
  <2>6. BeatsBegin'
    BY <1>0, <2>1, <2>3, <2>4 DEF BeatsBegin
  <2>7. BurstSpends'
    <3>1. InFlight \in SUBSET Hooks
      BY <1>0, InFlightHooks
    <3>2. IsFiniteSet(InFlight) /\ Cardinality(InFlight) \in Nat
      BY <3>1, HooksFinite
    <3>3. Cardinality(InFlight') <= Cardinality(InFlight)
      BY <2>4, <3>2, FS_Subset
    <3>4. InFlight' \in SUBSET Hooks
      BY <2>4, <3>1
    <3>5. Cardinality(InFlight') \in Nat
      BY <3>4, HooksFinite
    <3>6. QED
      BY <1>0, <2>1, <3>2, <3>3, <3>5 DEF BurstSpends, SessionTypes
  <2>8. QED
    BY <2>5, <2>6, <2>7 DEF BurstInv
<1>7. ASSUME NEW h \in Hooks, Beat(h) PROVE BurstInv'
  <2>1. /\ InFlight' = InFlight \ {h} /\ h \in InFlight
        /\ Cardinality(InFlight) \in Nat /\ Cardinality(InFlight') \in Nat
        /\ Cardinality(InFlight') = Cardinality(InFlight) - 1
        /\ Cardinality(InFlight) <= Cardinality(Hooks)
        /\ looking' = [looking EXCEPT ![h] = 0] /\ due' = due
        /\ Readers' = Readers \ {h}
    BY <1>0, <1>7, BeatLeaves
  <2>2. 0 \in taken /\ sinceCall = 0 /\ handle \notin Starting
    BY <1>0, <2>1 DEF BeatsBegin
  <2>3. UNCHANGED <<handle, sinceCall, steady>>
    BY <1>7 DEF Beat
  <2>4. PICK n \in looking[h]..beats :
           \/ /\ n \notin taken /\ Renew(n)
              /\ taken' = taken \cup {n} /\ sinceTaken' = 0
              /\ burst' = IF sinceTaken >= MinBeat THEN 1 ELSE burst + 1
              /\ beats' = beats + 1 /\ sinceBeat' = 0 /\ disabled' = disabled
           \/ /\ n \in taken /\ UNCHANGED <<vars, taken, sinceTaken, burst, disabled>>
              /\ beats' = beats + 1 /\ sinceBeat' = 0
           \/ /\ disabled' = TRUE
              /\ UNCHANGED <<vars, taken, sinceTaken, burst, beats, sinceBeat>>
    BY <1>0, <1>7, BeatEffect
  <2>5. SessionTypes'
    <3>1. /\ beats \in Nat /\ sinceBeat \in Nat /\ sinceTaken \in Nat /\ sinceCall \in Int
          /\ looking \in [Hooks -> Nat] /\ burst \in Nat
      BY <1>0 DEF SessionTypes
    <3>2. /\ beats' \in Nat /\ sinceBeat' \in Nat /\ sinceTaken' \in Nat
          /\ burst' \in Nat
      BY <2>4, <3>1
    <3>3. looking' \in [Hooks -> Nat]
      BY <2>1, <3>1
    <3>4. disabled' \in BOOLEAN /\ steady' \in BOOLEAN /\ sinceCall' \in Int
      BY <1>0, <2>3, <2>4, <3>1
    <3>5. due' \subseteq Hooks /\ due' \cap Readers' = {}
      BY <1>0, <2>1 DEF SessionTypes
    <3>6. QED
      BY <3>2, <3>3, <3>4, <3>5 DEF SessionTypes
  <2>6. BeatsBegin'
    BY <1>0, <2>1, <2>2, <2>3, <2>4 DEF BeatsBegin
  <2>7. BurstSpends'
    BY <1>0, <2>1, <2>4 DEF BurstSpends, SessionTypes
  <2>8. QED
    BY <2>5, <2>6, <2>7 DEF BurstInv
<1>8. CASE CloseSession
  BY <1>0, <1>8, BurstKept DEF CloseSession, Drop, history, NoHandle, Starting
<1>9. ASSUME NEW outcome \in {"succeeded", "failed"}, FinishSession(outcome)
      PROVE  BurstInv'
  BY <1>0, <1>9, BurstKept DEF FinishSession, Drop, history, NoHandle, Starting
<1>10. CASE FinishUnheard
  BY <1>0, <1>10, BurstKept DEF FinishUnheard, Drop, NoHandle, Starting
<1>11. CASE Die
  <2>1. /\ due' = {} /\ looking' = [h \in Hooks |-> 0] /\ handle' = NoHandle
        /\ steady' = FALSE
        /\ UNCHANGED <<taken, sinceTaken, burst, beats, sinceBeat, disabled, sinceCall>>
    BY <1>11 DEF Die
  <2>2. Readers' = {} /\ InFlight' = {}
    BY <2>1 DEF Readers, InFlight
  <2>3. Cardinality(InFlight') = 0
    BY <2>2, FS_EmptySet
  <2>4. SessionTypes' /\ BeatsBegin'
    BY <1>0, <2>1, <2>2 DEF SessionTypes, BeatsBegin, NoHandle, Starting
  <2>5. BurstSpends'
    BY <1>0, <2>1, <2>3 DEF BurstSpends, SessionTypes
  <2>6. QED
    BY <2>4, <2>5 DEF BurstInv
<1>12. CASE OperatorCancel
  BY <1>0, <1>12, BurstKept DEF OperatorCancel, history, BeatsBegin
<1>13. CASE NextTick
  <2>1. /\ handle \notin Starting /\ InFlight = {}
        /\ sinceBeat' = AtMost(sinceBeat + 1, LeaseTTL)
        /\ sinceTaken' = AtMost(sinceTaken + 1, MinBeat)
        /\ sinceCall' = AtMost(sinceCall + 1, Pause)
        /\ steady' \in BOOLEAN
        /\ UNCHANGED <<handle, beats, disabled, due, looking, taken, burst>>
    BY <1>0, <1>13 DEF NextTick
  <2>2. Readers' = Readers /\ InFlight' = InFlight
    BY <2>1 DEF Readers, InFlight
  <2>3. SessionTypes'
    BY <1>0, <2>1, <2>2 DEF SessionTypes, AtMost, Pause
  <2>4. BeatsBegin'
    BY <1>0, <2>1, <2>2 DEF BeatsBegin, AtMost, SessionTypes
  <2>5. BurstSpends'
    <3>1. Cardinality(InFlight') = 0
      BY <2>1, <2>2, FS_EmptySet
    <3>2. sinceTaken' >= MinBeat \/ sinceBeat' <= sinceTaken'
      BY <1>0, <2>1 DEF BurstSpends, AtMost, SessionTypes
    <3>3. QED
      BY <1>0, <2>1, <3>1, <3>2 DEF BurstSpends, SessionTypes
  <2>6. QED
    BY <2>3, <2>4, <2>5 DEF BurstInv
<1>14. CASE UNCHANGED allVars
  BY <1>0, <1>14, BurstKept DEF allVars, handleVars, history, BeatsBegin
<1>15. QED
  BY <1>1, <1>2, <1>3, <1>4, <1>5, <1>6, <1>7, <1>8, <1>9, <1>10, <1>11, <1>12,
     <1>13, <1>14 DEF SessionNext

LEMMA SessionBeats ==
  ASSUME SessionAssumption PROVE SessionSpec => []BurstInv
<1>1. SessionInit => BurstInv
  BY BurstInit
<1>2. BurstInv /\ [SessionNext]_allVars => BurstInv'
  BY BurstStep
<1>3. QED
  BY <1>1, <1>2, PTL DEF SessionSpec

\* However many hooks find a beat due together, and whatever process serves them,
\* no more beats than hooks come within a throttle of one another: the first of
\* them ends the time in which a hook may join, and each has but one to send.
THEOREM SessionBursts ==
  ASSUME SessionAssumption PROVE SessionSpec => []BurstsAreBounded
<1>1. BurstInv => BurstsAreBounded
  BY DEF BurstInv, BurstSpends, BurstsAreBounded
<1>2. QED
  BY <1>1, SessionBeats, PTL

-----------------------------------------------------------------------------
(* Steady sessions *)

Left == lease[session].left
Age  == lease[session].age

\* A process that leased the task itself has it until the run is closed, and
\* sends the first beat of all.
SteadyLeased ==
  /\ attempts[session] = 0 => taken = {} /\ Left = 0
  /\ handle \in {"submit", "lease"} => ~steady
  /\ steady /\ handle = "beat" => taken = {}
  /\ steady /\ handle \in {"beat", "active"} /\ ~RunClosed =>
       taskStatus[session] \in {"leased", "running"} /\ lease[session].owner = hermes
  /\ steady /\ handle = "beat" /\ ~RunClosed => Left = LeaseTTL /\ Age = 0

\* What SteadySessionKeepsLease is about, below the ceiling.
Going ==
  /\ handle = "active" /\ steady /\ ~disabled /\ ~RunClosed
  /\ Age < AttemptCeiling

\* The lease lasts as long as a renewal `since` ticks ago would have it last.
LastsFrom(since) == Left + since >= LeaseTTL \/ Left + Age >= AttemptCeiling

\* A hook sends a number the stream has only in the tick of the last beat.
NumbersAhead ==
  /\ taken \subseteq 0..(beats - 1)
  /\ sinceTaken = 0 \/ \A h \in Readers : \A n \in taken : n < looking[h]

\* The lease is as young as the last beat, and the last beat as young as the
\* pauses between calls let it be.
BeatsKeepUp ==
  /\ sinceTaken < MinBeat => LastsFrom(sinceTaken)
  /\ LastsFrom(sinceBeat)
  /\ sinceBeat < LeaseTTL
  /\ InFlight = {} => sinceBeat < MinBeat + sinceCall

\* Beats that hooks in flight send within a throttle's time of the last one.
ToSend == IF sinceBeat < MinBeat THEN Cardinality(InFlight) ELSE 0

\* A throttle's time uses up no more numbers than there are hooks.
BeatsLast ==
  (beats - 1 + ToSend) * MinBeat <= Cardinality(Hooks) * (Age - sinceBeat)

SteadyInv ==
  /\ SteadyLeased
  /\ Going => NumbersAhead /\ BeatsKeepUp /\ BeatsLast

LEMMA LeaseFacts ==
  ASSUME SessionAssumption, RunInv
  PROVE  /\ session \in Tasks /\ hermes \in Owners
         /\ lease[session] \in Leases /\ Left \in Nat /\ Age \in Nat
         /\ attempts[session] \in Nat
         /\ MinBeat \in Nat \ {0} /\ MaxBeats \in Nat \ {0}
         /\ LeaseTTL \in Nat \ {0} /\ AttemptCeiling \in Nat \ {0}
         /\ LeaseTTL <= AttemptCeiling
<1>1. session \in Tasks /\ hermes \in Owners
  BY DEF SessionAssumption
<1>2. lease[session] \in Leases /\ attempts[session] \in Nat
  BY <1>1 DEF RunInv, TypeOK
<1>3. Left \in Nat /\ Age \in Nat
  BY <1>2 DEF Leases, Left, Age
<1>4. QED
  BY <1>1, <1>2, <1>3, ControllerAssumption DEF SessionAssumption

\* A beat the stream takes renews the lease, on which it depends.
LEMMA RenewEffect ==
  ASSUME SessionAssumption, RunInv, NEW n, Renew(n)
  PROVE  /\ Left > 0 /\ Age < AttemptCeiling
         /\ Left' = AtMost(LeaseTTL, AttemptCeiling - Age) /\ Age' = Age
         /\ lease'[session].owner = lease[session].owner
         /\ taskStatus'[session] = "running"
         /\ runStatus' = runStatus /\ attempts' = attempts
<1>1. /\ Live(lease[session])
      /\ lease' = [lease EXCEPT ![session] = Renewed(lease[session])]
      /\ taskStatus' = [taskStatus EXCEPT ![session] = "running"]
      /\ runStatus' = runStatus /\ attempts' = attempts
  BY DEF Renew, Heartbeat, HoldsFence
<1>2. lease'[session] = Renewed(lease[session]) /\ taskStatus'[session] = "running"
  BY <1>1, LeaseFacts DEF RunInv, TypeOK
<1>3. lease[session] \in Leases
  BY LeaseFacts
<1>4. /\ Renewed(lease[session]).left = AtMost(LeaseTTL, AttemptCeiling - lease[session].age)
      /\ Renewed(lease[session]).age = lease[session].age
      /\ Renewed(lease[session]).owner = lease[session].owner
  BY <1>3 DEF Renewed, Leases
<1>5. QED
  BY <1>1, <1>2, <1>4 DEF Live, Left, Age

\* Once the handle is gone, or another process has it, there is little to keep.
LEMMA SteadyGone ==
  ASSUME handle' = NoHandle \/ steady' = FALSE,
         attempts'[session] = 0 => taken' = {} /\ Left' = 0
  PROVE  SteadyInv'
BY DEF SteadyInv, SteadyLeased, Going, NoHandle

\* Nothing of the run changes for a session that goes on as it was.
LEMMA SteadyKept ==
  ASSUME SteadyInv, UNCHANGED vars, UNCHANGED <<handle, steady, taken>>
  PROVE  /\ SteadyLeased' /\ Left' = Left /\ Age' = Age /\ RunClosed' = RunClosed
         /\ Going' /\ (disabled' = disabled) => Going
BY DEF SteadyInv, SteadyLeased, Going, Left, Age, RunClosed, vars, taskVars

LEMMA TimesMonotone ==
  ASSUME NEW k \in Nat, NEW a \in Int, NEW b \in Int, a <= b
  PROVE  k * a <= k * b /\ k * a \in Int /\ k * b \in Int
OBVIOUS

\* The number of a beat is not the last while the lease is below its ceiling.
LEMMA BeatsRemain ==
  ASSUME SessionAssumption, EnoughBeats, RunInv, BurstInv, Going, BeatsLast,
         sinceBeat >= MinBeat
  PROVE  beats < MaxBeats
<1> DEFINE H == Cardinality(Hooks)
<1>0. /\ H \in Nat /\ H >= 1 /\ beats \in Nat /\ sinceBeat \in Nat
      /\ Age \in Nat /\ Age < AttemptCeiling /\ AttemptCeiling \in Nat
      /\ MinBeat \in Nat \ {0} /\ MaxBeats \in Nat
  BY HooksFinite, LeaseFacts DEF BurstInv, SessionTypes, Going
<1>1. (beats - 1) * MinBeat <= H * (Age - sinceBeat)
  BY <1>0 DEF BeatsLast, ToSend
<1>2. H * (Age - sinceBeat) <= H * (AttemptCeiling - MinBeat - 1)
  BY <1>0, TimesMonotone
<1>3. H * (AttemptCeiling - MinBeat - 1) < H * (AttemptCeiling - MinBeat)
  BY <1>0
<1>4. H * (AttemptCeiling - MinBeat) <= (MaxBeats - 1) * MinBeat
  BY DEF EnoughBeats
<1>5. (beats - 1) * MinBeat < (MaxBeats - 1) * MinBeat
  <2> HIDE DEF H
  <2>1. /\ (beats - 1) * MinBeat \in Int /\ (MaxBeats - 1) * MinBeat \in Int
        /\ H * (Age - sinceBeat) \in Int /\ H * (AttemptCeiling - MinBeat - 1) \in Int
        /\ H * (AttemptCeiling - MinBeat) \in Int
    BY <1>0
  <2>2. QED
    BY <1>1, <1>2, <1>3, <1>4, <2>1
<1>6. ASSUME MaxBeats <= beats PROVE FALSE
  <2>1. MinBeat * (MaxBeats - 1) <= MinBeat * (beats - 1)
    BY <1>0, <1>6, TimesMonotone
  <2>2. QED
    BY <1>0, <1>5, <2>1
<1>7. QED
  BY <1>0, <1>6

\* A hook in flight takes its number out of what a throttle's time allows.
LEMMA BeatsLastBeat ==
  ASSUME SessionAssumption, RunInv, BurstInv, BeatsLast,
         beats' = beats + 1, sinceBeat' = 0, Age' = Age,
         Cardinality(InFlight) \in Nat, Cardinality(InFlight') \in Nat,
         Cardinality(InFlight') = Cardinality(InFlight) - 1,
         Cardinality(InFlight) <= Cardinality(Hooks)
  PROVE  BeatsLast'
<1> DEFINE H == Cardinality(Hooks)
           F == Cardinality(InFlight)
<1>0. /\ H \in Nat /\ F \in Nat /\ F <= H /\ beats \in Nat /\ sinceBeat \in Nat
      /\ Age \in Nat /\ MinBeat \in Nat \ {0}
  BY HooksFinite, LeaseFacts DEF BurstInv, SessionTypes
<1>1. ToSend' = F - 1
  BY <1>0 DEF ToSend
<1>2. (beats - 1 + F) * MinBeat <= H * Age
  <2>1. CASE sinceBeat < MinBeat
    <3>1. (beats - 1 + F) * MinBeat <= H * (Age - sinceBeat)
      BY <2>1 DEF BeatsLast, ToSend
    <3>2. H * (Age - sinceBeat) <= H * Age
      BY <1>0, TimesMonotone
    <3>3. QED
      BY <1>0, <3>1, <3>2
  <2>2. CASE sinceBeat >= MinBeat
    <3>1. (beats - 1) * MinBeat <= H * (Age - sinceBeat)
      BY <1>0, <2>2 DEF BeatsLast, ToSend
    <3>2. H * (Age - sinceBeat) <= H * (Age - MinBeat)
      BY <1>0, <2>2, TimesMonotone
    <3>3. F * MinBeat <= H * MinBeat
      BY <1>0, TimesMonotone
    <3>4. /\ (beats - 1 + F) * MinBeat = (beats - 1) * MinBeat + F * MinBeat
          /\ H * (Age - MinBeat) + H * MinBeat = H * Age
      BY <1>0
    <3>5. QED
      BY <1>0, <3>1, <3>2, <3>3, <3>4
  <2>3. QED
    BY <1>0, <2>1, <2>2
<1>3. (beats' - 1 + ToSend') * MinBeat = (beats - 1 + F) * MinBeat
  BY <1>0, <1>1
<1>4. Cardinality(Hooks) * (Age' - sinceBeat') = H * Age
  BY <1>0
<1>5. QED
  BY <1>2, <1>3, <1>4 DEF BeatsLast

\* A renewal, or a number used up behind a renewal of this tick, keeps a
\* steady session going.
LEMMA SteadyBeat ==
  ASSUME SessionAssumption, RunInv, BurstInv, SteadyInv, NEW h \in Hooks, Beat(h)
  PROVE  SteadyInv'
<1>0. /\ SteadyLeased /\ SessionTypes /\ BeatsBegin /\ BurstSpends
      /\ Left \in Nat /\ Age \in Nat /\ attempts[session] \in Nat
      /\ MinBeat \in Nat \ {0} /\ LeaseTTL \in Nat \ {0} /\ AttemptCeiling \in Nat \ {0}
  BY LeaseFacts DEF SteadyInv, BurstInv
<1>1. /\ InFlight' = InFlight \ {h} /\ h \in InFlight
      /\ Cardinality(InFlight) \in Nat /\ Cardinality(InFlight') \in Nat
      /\ Cardinality(InFlight') = Cardinality(InFlight) - 1
      /\ Cardinality(InFlight) <= Cardinality(Hooks)
      /\ looking' = [looking EXCEPT ![h] = 0] /\ Readers' = Readers \ {h}
  BY <1>0, BeatLeaves
<1>2. sinceCall = 0 /\ handle \notin Starting /\ h \in Readers
  BY <1>0, <1>1 DEF BeatsBegin, Beat, Readers
<1>3. UNCHANGED <<handle, sinceCall, steady>>
  BY DEF Beat
<1>4. PICK n \in looking[h]..beats :
         \/ /\ n \notin taken /\ Renew(n)
            /\ taken' = taken \cup {n} /\ sinceTaken' = 0
            /\ burst' = IF sinceTaken >= MinBeat THEN 1 ELSE burst + 1
            /\ beats' = beats + 1 /\ sinceBeat' = 0 /\ disabled' = disabled
         \/ /\ n \in taken /\ UNCHANGED <<vars, taken, sinceTaken, burst, disabled>>
            /\ beats' = beats + 1 /\ sinceBeat' = 0
         \/ /\ disabled' = TRUE
            /\ UNCHANGED <<vars, taken, sinceTaken, burst, beats, sinceBeat>>
  BY <1>0, BeatEffect
<1>5. \A g \in Readers' : looking'[g] = looking[g]
  BY <1>0, <1>1 DEF Readers, SessionTypes
<1>6. beats \in Nat /\ n \in Int /\ looking[h] <= n /\ n <= beats /\ sinceBeat \in Nat
  BY <1>0, <1>4 DEF SessionTypes
<1>7. CASE Renew(n) /\ taken' = taken \cup {n} /\ sinceTaken' = 0
           /\ beats' = beats + 1 /\ sinceBeat' = 0 /\ disabled' = disabled
  <2>1. /\ Left > 0 /\ Age < AttemptCeiling
        /\ Left' = AtMost(LeaseTTL, AttemptCeiling - Age) /\ Age' = Age
        /\ lease'[session].owner = lease[session].owner
        /\ taskStatus'[session] = "running"
        /\ runStatus' = runStatus /\ attempts' = attempts
    BY <1>7, RenewEffect
  <2>2. RunClosed' = RunClosed
    BY <2>1 DEF RunClosed
  <2>3. SteadyLeased'
    BY <1>0, <1>2, <1>3, <2>1, <2>2 DEF SteadyLeased, Starting
  <2>4. ASSUME Going' PROVE NumbersAhead' /\ BeatsKeepUp' /\ BeatsLast'
    <3>1. Going /\ NumbersAhead /\ BeatsKeepUp /\ BeatsLast
      BY <1>3, <1>7, <2>1, <2>2, <2>4 DEF Going, SteadyInv
    <3>2. NumbersAhead'
      <4>1. taken' \subseteq 0..(beats' - 1)
        BY <1>0, <1>6, <1>7, <3>1 DEF NumbersAhead, SessionTypes
      <4>2. QED
        BY <1>7, <4>1 DEF NumbersAhead
    <3>3. BeatsKeepUp'
      <4>1. Left' >= LeaseTTL \/ Left' + Age' >= AttemptCeiling
        BY <1>0, <2>1 DEF AtMost
      <4>2. Left' \in Int
        BY <1>0, <2>1 DEF AtMost
      <4>3. LastsFrom(sinceTaken)' /\ LastsFrom(sinceBeat)'
        BY <1>7, <4>1, <4>2 DEF LastsFrom
      <4>4. QED
        BY <1>0, <1>2, <1>3, <1>7, <4>3 DEF BeatsKeepUp
    <3>4. BeatsLast'
      BY <1>1, <1>7, <2>1, <3>1, BeatsLastBeat
    <3>5. QED
      BY <3>2, <3>3, <3>4
  <2>5. QED
    BY <2>3, <2>4 DEF SteadyInv
<1>8. CASE n \in taken /\ UNCHANGED <<vars, taken, sinceTaken, disabled>>
           /\ beats' = beats + 1 /\ sinceBeat' = 0
  <2>1. /\ SteadyLeased' /\ Left' = Left /\ Age' = Age /\ RunClosed' = RunClosed
        /\ Going' => Going
    BY <1>3, <1>8, SteadyKept
  <2>2. ASSUME Going' PROVE NumbersAhead' /\ BeatsKeepUp' /\ BeatsLast'
    <3>1. Going /\ NumbersAhead /\ BeatsKeepUp /\ BeatsLast
      BY <2>1, <2>2 DEF SteadyInv
    <3>2. sinceTaken = 0
      <4>1. CASE \A m \in taken : m < looking[h]
        <5>1. n < looking[h] /\ looking[h] \in Nat
          BY <1>0, <1>8, <4>1 DEF SessionTypes
        <5>2. QED
          BY <1>6, <5>1
      <4>2. QED
        BY <1>2, <3>1, <4>1 DEF NumbersAhead
    <3>3. NumbersAhead'
      <4>1. taken' \subseteq 0..(beats' - 1)
        BY <1>6, <1>8, <3>1 DEF NumbersAhead
      <4>2. QED
        BY <1>8, <3>2, <4>1 DEF NumbersAhead
    <3>4. BeatsKeepUp'
      <4>1. LastsFrom(0)
        BY <1>0, <3>1, <3>2 DEF BeatsKeepUp
      <4>2. LastsFrom(sinceTaken)' /\ LastsFrom(sinceBeat)'
        BY <1>8, <2>1, <3>2, <4>1 DEF LastsFrom
      <4>3. QED
        BY <1>0, <1>2, <1>3, <1>8, <4>2 DEF BeatsKeepUp
    <3>5. BeatsLast'
      BY <1>1, <1>8, <2>1, <3>1, BeatsLastBeat
    <3>6. QED
      BY <3>3, <3>4, <3>5
  <2>3. QED
    BY <2>1, <2>2 DEF SteadyInv
<1>9. CASE disabled' = TRUE /\ UNCHANGED <<vars, taken>>
  BY <1>3, <1>9, SteadyKept DEF SteadyInv, Going
<1>10. QED
  BY <1>4, <1>7, <1>8, <1>9

LEMMA SteadyTick ==
  ASSUME SessionAssumption, RunInv, BurstInv, SteadyInv, NextTick
  PROVE  SteadyInv'
<1>0. /\ SteadyLeased /\ SessionTypes /\ session \in Tasks /\ lease[session] \in Leases
      /\ Left \in Nat /\ Age \in Nat
      /\ MinBeat \in Nat \ {0} /\ LeaseTTL \in Nat \ {0} /\ AttemptCeiling \in Nat \ {0}
  BY LeaseFacts DEF SteadyInv, BurstInv
<1>1. /\ handle \notin Starting /\ InFlight = {}
      /\ sinceBeat' = AtMost(sinceBeat + 1, LeaseTTL)
      /\ sinceTaken' = AtMost(sinceTaken + 1, MinBeat)
      /\ sinceCall' = AtMost(sinceCall + 1, Pause)
      /\ steady' = (steady /\ handle = "active" /\ sinceCall < Pause)
      /\ UNCHANGED <<handle, beats, disabled, due, looking, taken>>
      /\ lease' = [t \in Tasks |-> Aged(lease[t])]
      /\ UNCHANGED <<runStatus, taskStatus, attempts>>
  BY DEF NextTick, Tick
<1>2. Readers' = {} /\ InFlight' = {} /\ Readers = {}
  BY <1>1 DEF Readers, InFlight
<1>3. Cardinality(InFlight) = 0 /\ Cardinality(InFlight') = 0
  BY <1>1, <1>2, FS_EmptySet
<1>4. lease'[session] = Aged(lease[session]) /\ RunClosed' = RunClosed
  BY <1>0, <1>1 DEF RunClosed
<1>5. /\ Left > 0 => Left' = Left - 1 /\ Age' = Age + 1
      /\ Left = 0 => Left' = Left /\ Age' = Age
  BY <1>0, <1>4 DEF Aged, Leases, Left, Age
<1>6. SteadyLeased'
  <2>1. lease'[session].owner = lease[session].owner
    BY <1>0, <1>4, LeaseOperators
  <2>2. attempts'[session] = 0 => taken' = {} /\ Left' = 0
    BY <1>0, <1>1, <1>5 DEF SteadyLeased
  <2>3. handle' \notin {"submit", "lease", "beat"} /\ (steady' => steady)
    BY <1>1, Zenon DEF Starting
  <2>4. steady' /\ handle' = "active" /\ ~RunClosed' =>
          taskStatus'[session] \in {"leased", "running"} /\ lease'[session].owner = hermes
    BY <1>0, <1>1, <1>4, <2>1, <2>3 DEF SteadyLeased
  <2>5. QED
    BY <2>2, <2>3, <2>4 DEF SteadyLeased
<1>7. ASSUME Going' PROVE NumbersAhead' /\ BeatsKeepUp' /\ BeatsLast'
  <2>1. Age <= Age' /\ Age' < AttemptCeiling /\ Age' \in Int
    BY <1>0, <1>5, <1>7 DEF Going
  <2>2. Going /\ sinceCall < Pause
    <3>1. steady' => steady /\ handle = "active" /\ sinceCall < Pause
      BY <1>1, Zenon
    <3>2. ~disabled /\ ~RunClosed /\ steady'
      BY <1>1, <1>4, <1>7 DEF Going
    <3>3. Age < AttemptCeiling
      BY <1>0, <2>1
    <3>4. QED
      BY <3>1, <3>2, <3>3 DEF Going
  <2>3. NumbersAhead /\ BeatsKeepUp /\ BeatsLast
    BY <2>2 DEF SteadyInv
  <2>4. /\ beats \in Nat /\ sinceBeat \in Nat /\ sinceTaken \in Nat /\ sinceCall \in Int
        /\ Age < AttemptCeiling
    BY <1>0, <2>2 DEF SessionTypes, Going
  <2>5. sinceBeat < LeaseTTL /\ sinceBeat < MinBeat + sinceCall /\ LastsFrom(sinceBeat)
    BY <1>1, <2>3 DEF BeatsKeepUp
  <2>6. Left' = Left - 1 /\ Age' = Age + 1
    <3>1. Left > 0
      BY <1>0, <2>4, <2>5 DEF LastsFrom
    <3>2. QED
      BY <1>5, <3>1
  <2>7. /\ sinceBeat' = sinceBeat + 1 /\ sinceBeat' < LeaseTTL
        /\ sinceCall' = sinceCall + 1 /\ sinceBeat' < MinBeat + sinceCall'
    BY <1>0, <1>1, <2>2, <2>4, <2>5 DEF AtMost, Pause
  <2>8. NumbersAhead'
    BY <1>1, <1>2, <2>3 DEF NumbersAhead
  <2>9. BeatsKeepUp'
    <3>1. LastsFrom(sinceBeat)'
      BY <1>0, <2>4, <2>5, <2>6, <2>7 DEF LastsFrom
    <3>2. ASSUME sinceTaken' < MinBeat PROVE LastsFrom(sinceTaken)'
      <4>1. sinceTaken' = sinceTaken + 1 /\ sinceTaken < MinBeat
        BY <1>0, <1>1, <2>4, <3>2 DEF AtMost
      <4>2. LastsFrom(sinceTaken)
        BY <2>3, <4>1 DEF BeatsKeepUp
      <4>3. QED
        BY <1>0, <2>4, <2>6, <4>1, <4>2 DEF LastsFrom
    <3>3. QED
      BY <2>7, <3>1, <3>2 DEF BeatsKeepUp
  <2>10. BeatsLast'
    <3>1. ToSend = 0 /\ ToSend' = 0
      BY <1>3 DEF ToSend
    <3>2. Age' - sinceBeat' = Age - sinceBeat
      BY <1>0, <2>4, <2>6, <2>7
    <3>3. QED
      BY <1>1, <2>3, <3>1, <3>2 DEF BeatsLast
  <2>11. QED
    BY <2>8, <2>9, <2>10
<1>8. QED
  BY <1>6, <1>7 DEF SteadyInv

LEMMA SteadyStart ==
  ASSUME SessionAssumption, RunInv, BurstInv, SteadyInv, LeaseRun \/ FirstBeat
  PROVE  SteadyInv'
<1>0. /\ SteadyLeased /\ SessionTypes /\ BeatsBegin /\ session \in Tasks
      /\ Left \in Nat /\ Age \in Nat /\ attempts[session] \in Nat
      /\ MinBeat \in Nat \ {0} /\ LeaseTTL \in Nat \ {0} /\ AttemptCeiling \in Nat \ {0}
  BY LeaseFacts DEF SteadyInv, BurstInv
<1>1. ASSUME LeaseRun PROVE SteadyInv'
  <2>1. handle = "lease" /\ ~steady /\ taken' = taken
    BY <1>0, <1>1 DEF LeaseRun, SteadyLeased
  <2>2. CASE UNCHANGED <<vars, steady>>
    <3>1. steady' = FALSE
      BY <1>0, <2>1, <2>2 DEF SessionTypes
    <3>2. attempts'[session] = 0 => taken' = {} /\ Left' = 0
      BY <1>0, <2>1, <2>2 DEF SteadyLeased, Left, vars, taskVars
    <3>3. QED
      BY <3>1, <3>2, SteadyGone
  <2>3. CASE attempts[session] = 0 /\ Lease(session, hermes) /\ handle' = "beat"
    <3>1. /\ lease' = [lease EXCEPT ![session] = Granted(hermes, lastToken + 1)]
          /\ taskStatus' = [taskStatus EXCEPT ![session] = "leased"]
          /\ attempts' = [attempts EXCEPT ![session] = attempts[session] + 1]
      BY <2>3 DEF Lease
    <3>2. attempts'[session] = 1 /\ taskStatus'[session] = "leased"
      BY <1>0, <2>3, <3>1 DEF RunInv, TypeOK
    <3>3. lease'[session] = Granted(hermes, lastToken + 1)
      BY <1>0, <3>1 DEF RunInv, TypeOK
    <3>4. Left' = LeaseTTL /\ Age' = 0 /\ lease'[session].owner = hermes
      BY <3>3 DEF Granted, Left, Age
    <3>5. taken' = {}
      BY <1>0, <2>1, <2>3 DEF SteadyLeased
    <3>6. QED
      BY <2>3, <3>2, <3>4, <3>5 DEF SteadyInv, SteadyLeased, Going
  <2>4. QED
    BY <1>1, <2>2, <2>3 DEF LeaseRun
<1>2. ASSUME FirstBeat PROVE SteadyInv'
  <2>1. /\ handle = "beat" /\ InFlight = {} /\ sinceCall = 0
        /\ UNCHANGED <<due, looking, disabled, steady, sinceCall>>
        /\ beats' = 1 /\ sinceBeat' = 0 /\ handle' \in {"active", NoHandle}
    BY <1>0, <1>2 DEF FirstBeat, BeatsBegin, Starting
  <2>2. Readers' = {} /\ InFlight' = {}
    BY <2>1 DEF Readers, InFlight
  <2>3. CASE 0 \notin taken /\ Holds
    <3>1. Renew(0) /\ taken' = taken \cup {0} /\ sinceTaken' = 0
      BY <1>2, <2>3 DEF FirstBeat, Renew
    <3>2. /\ Left > 0 /\ Left' = AtMost(LeaseTTL, AttemptCeiling - Age) /\ Age' = Age
          /\ lease'[session].owner = lease[session].owner
          /\ taskStatus'[session] = "running"
          /\ runStatus' = runStatus /\ attempts' = attempts
      BY <3>1, RenewEffect
    <3>3. RunClosed' = RunClosed
      BY <3>2 DEF RunClosed
    <3>4. attempts'[session] # 0
      BY <1>0, <3>2 DEF SteadyLeased
    <3>5. handle' \notin {"submit", "lease", "beat"}
      BY <2>1 DEF NoHandle
    <3>6. SteadyLeased'
      BY <1>0, <2>1, <3>2, <3>3, <3>4, <3>5 DEF SteadyLeased
    <3>7. ASSUME Going' PROVE NumbersAhead' /\ BeatsKeepUp' /\ BeatsLast'
      <4>1. taken = {} /\ Left = LeaseTTL /\ Age = 0
        BY <1>0, <2>1, <3>3, <3>7 DEF SteadyLeased, Going
      <4>2. NumbersAhead'
        BY <2>1, <3>1, <4>1 DEF NumbersAhead
      <4>3. Left' \in Int /\ (Left' >= LeaseTTL \/ Left' + Age' >= AttemptCeiling)
        BY <1>0, <3>2 DEF AtMost
      <4>4. LastsFrom(sinceTaken)' /\ LastsFrom(sinceBeat)'
        BY <2>1, <3>1, <4>3 DEF LastsFrom
      <4>5. BeatsKeepUp'
        BY <1>0, <2>1, <4>4 DEF BeatsKeepUp
      <4>6. BeatsLast'
        <5>1. Cardinality(InFlight') = 0
          BY <2>2, FS_EmptySet
        <5>2. ToSend' = 0
          BY <5>1 DEF ToSend
        <5>3. Cardinality(Hooks) \in Nat
          BY HooksFinite
        <5>4. (beats' - 1 + ToSend') * MinBeat = 0
          BY <1>0, <2>1, <5>2
        <5>5. Cardinality(Hooks) * (Age' - sinceBeat') = 0
          BY <2>1, <3>2, <4>1, <5>3
        <5>6. QED
          BY <5>4, <5>5 DEF BeatsLast
      <4>7. QED
        BY <4>2, <4>5, <4>6
    <3>8. QED
      BY <3>6, <3>7 DEF SteadyInv
  <2>4. CASE ~(0 \notin taken /\ Holds)
    <3>1. UNCHANGED <<vars, taken>>
      BY <1>2, <2>4 DEF FirstBeat
    <3>2. attempts'[session] = 0 => taken' = {} /\ Left' = 0
      BY <1>0, <3>1 DEF SteadyLeased, Left, vars, taskVars
    <3>3. CASE steady' = FALSE
      BY <3>2, <3>3, SteadyGone
    <3>4. CASE steady
      <4>1. taken = {} /\ ~Holds
        BY <1>0, <2>1, <2>4, <3>4 DEF SteadyLeased
      <4>2. handle' = NoHandle
        BY <1>2, <4>1 DEF FirstBeat
      <4>3. QED
        BY <3>2, <4>2, SteadyGone
    <3>5. QED
      BY <1>0, <2>1, <3>3, <3>4 DEF SessionTypes
  <2>5. QED
    BY <2>3, <2>4
<1>3. QED
  BY <1>1, <1>2

\* A tool call finds a beat due, or one was sent a short while ago.
LEMMA SteadyCall ==
  ASSUME SessionAssumption, EnoughBeats, RunInv, BurstInv, SteadyInv,
         NEW h \in Hooks, ToolCall(h)
  PROVE  SteadyInv'
<1>0. /\ SteadyLeased /\ SessionTypes /\ BeatsBegin /\ MinBeat \in Nat \ {0}
      /\ sinceBeat \in Nat
  BY LeaseFacts DEF SteadyInv, BurstInv, SessionTypes
<1>1. /\ sinceCall' = 0
      /\ due' = IF ~disabled /\ Due THEN due \cup {h} ELSE due
      /\ UNCHANGED <<vars, handle, beats, sinceBeat, disabled, looking, taken,
                     sinceTaken, steady>>
  BY DEF ToolCall
<1>2. /\ SteadyLeased' /\ Left' = Left /\ Age' = Age /\ RunClosed' = RunClosed
      /\ Going' => Going
  BY <1>1, SteadyKept
<1>3. Readers' = Readers
  BY <1>1 DEF Readers
<1>4. ASSUME Going' PROVE NumbersAhead' /\ BeatsKeepUp' /\ BeatsLast'
  <2>1. Going /\ NumbersAhead /\ BeatsKeepUp /\ BeatsLast
    BY <1>2, <1>4 DEF SteadyInv
  <2>2. NumbersAhead'
    BY <1>1, <1>3, <2>1 DEF NumbersAhead
  <2>3. LastsFrom(sinceTaken)' <=> LastsFrom(sinceTaken)
    BY <1>1, <1>2 DEF LastsFrom
  <2>4. LastsFrom(sinceBeat)' <=> LastsFrom(sinceBeat)
    BY <1>1, <1>2 DEF LastsFrom
  <2>5. CASE sinceBeat < MinBeat
    <3>1. due' = due
      BY <1>0, <1>1, <2>5 DEF Due
    <3>2. InFlight' = InFlight
      BY <1>3, <3>1 DEF InFlight
    <3>3. BeatsKeepUp'
      BY <1>0, <1>1, <2>1, <2>3, <2>4, <2>5 DEF BeatsKeepUp
    <3>4. BeatsLast'
      BY <1>1, <1>2, <2>1, <3>2 DEF BeatsLast, ToSend
    <3>5. QED
      BY <2>2, <3>3, <3>4
  <2>6. CASE sinceBeat >= MinBeat
    <3>1. beats < MaxBeats
      BY <2>1, <2>6, BeatsRemain
    <3>2. h \in InFlight'
      BY <1>1, <2>1, <2>6, <3>1 DEF Due, Going, InFlight
    <3>3. BeatsKeepUp'
      BY <1>1, <2>1, <2>3, <2>4, <3>2 DEF BeatsKeepUp
    <3>4. ToSend = 0 /\ ToSend' = 0
      BY <1>0, <1>1, <2>6 DEF ToSend
    <3>5. BeatsLast'
      BY <1>1, <1>2, <2>1, <3>4 DEF BeatsLast
    <3>6. QED
      BY <2>2, <3>3, <3>5
  <2>7. QED
    BY <1>0, <2>5, <2>6
<1>5. QED
  BY <1>2, <1>4 DEF SteadyInv

LEMMA SteadyLook ==
  ASSUME SessionAssumption, RunInv, BurstInv, SteadyInv, NEW h \in Hooks, Look(h)
  PROVE  SteadyInv'
<1>0. SteadyLeased /\ SessionTypes
  BY DEF SteadyInv, BurstInv
<1>1. /\ h \in due /\ due' = due \ {h}
      /\ looking' = IF taskStatus[session] \in {"leased", "running"}
                    THEN [looking EXCEPT ![h] = beats] ELSE looking
      /\ UNCHANGED <<vars, handle, beats, sinceBeat, disabled, taken, sinceTaken,
                     sinceCall, steady>>
  BY DEF Look, history
<1>2. /\ SteadyLeased' /\ Left' = Left /\ Age' = Age /\ RunClosed' = RunClosed
      /\ Going' => Going
  BY <1>1, SteadyKept
<1>3. ASSUME Going' PROVE NumbersAhead' /\ BeatsKeepUp' /\ BeatsLast'
  <2>1. Going /\ NumbersAhead /\ BeatsKeepUp /\ BeatsLast
    BY <1>2, <1>3 DEF SteadyInv
  <2>2. taskStatus[session] \in {"leased", "running"}
    BY <1>0, <2>1 DEF SteadyLeased, Going
  <2>3. looking' = [looking EXCEPT ![h] = beats]
    BY <1>1, <2>2
  <2>4. looking'[h] = beats /\ \A g \in Hooks \ {h} : looking'[g] = looking[g]
    BY <1>0, <2>3 DEF SessionTypes
  <2>5. 0 \in taken /\ InFlight # {}
    BY <1>1, <2>1 DEF Going, BurstInv, BeatsBegin, InFlight
  <2>6. beats \in Nat /\ beats # 0 /\ \A n \in taken : n < beats
    BY <1>0, <2>1, <2>5 DEF NumbersAhead, SessionTypes
  <2>7. Readers' = Readers \cup {h}
    BY <2>4, <2>6 DEF Readers
  <2>8. InFlight' = InFlight
    BY <1>1, <2>7 DEF InFlight
  <2>9. NumbersAhead'
    <3>1. ASSUME sinceTaken # 0, NEW g \in Readers', NEW n \in taken
          PROVE  n < looking'[g]
      <4>1. CASE g = h
        BY <2>4, <2>6, <4>1
      <4>2. CASE g # h
        BY <2>1, <2>4, <2>7, <3>1, <4>2 DEF NumbersAhead, Readers
      <4>3. QED
        BY <4>1, <4>2
    <3>2. QED
      BY <1>1, <2>1, <3>1 DEF NumbersAhead
  <2>10. BeatsKeepUp'
    BY <1>1, <1>2, <2>1, <2>8 DEF BeatsKeepUp, LastsFrom
  <2>11. BeatsLast'
    BY <1>1, <1>2, <2>1, <2>8 DEF BeatsLast, ToSend
  <2>12. QED
    BY <2>9, <2>10, <2>11
<1>4. QED
  BY <1>2, <1>3 DEF SteadyInv

LEMMA SteadyStep ==
  ASSUME SessionAssumption, EnoughBeats
  PROVE  RunInv /\ BurstInv /\ SteadyInv /\ [SessionNext]_allVars => SteadyInv'
<1> SUFFICES ASSUME RunInv, BurstInv, SteadyInv, [SessionNext]_allVars
             PROVE  SteadyInv'
  OBVIOUS
<1>0. /\ SteadyLeased /\ SessionTypes /\ session \in Tasks
      /\ Left \in Nat /\ lease[session] \in Leases
  BY LeaseFacts DEF SteadyInv, BurstInv
<1>1. CASE Create
  <2>1. steady' = FALSE /\ UNCHANGED <<lease, attempts, taken>>
    BY <1>1 DEF Create, vars, taskVars
  <2>2. QED
    BY <1>0, <2>1, SteadyGone DEF SteadyLeased, Left
<1>2. CASE SubmitRun
  <2>1. handle = "submit" /\ steady' = steady /\ taken' = taken
    BY <1>2 DEF SubmitRun, history
  <2>2. steady' = FALSE
    BY <1>0, <2>1 DEF SteadyLeased, SessionTypes
  <2>3. attempts' = attempts /\ lease'[session] \in {lease[session], NoLease}
    BY <1>0, <1>2 DEF SubmitRun, Submit, Settle, vars, taskVars
  <2>4. attempts'[session] = 0 => taken' = {} /\ Left' = 0
    BY <1>0, <2>1, <2>3 DEF SteadyLeased, Left, NoLease
  <2>5. QED
    BY <2>2, <2>4, SteadyGone
<1>3. CASE LeaseRun \/ FirstBeat
  BY <1>3, SteadyStart
<1>4. ASSUME NEW h \in Hooks, ToolCall(h) \/ Look(h) \/ Beat(h) PROVE SteadyInv'
  BY <1>4, SteadyCall, SteadyLook, SteadyBeat
<1>5. ASSUME Cancel, taken' = taken
      PROVE  attempts'[session] = 0 => taken' = {} /\ Left' = 0
  <2>1. attempts' = attempts /\ lease'[session] \in {lease[session], NoLease}
    BY <1>0, <1>5 DEF Cancel
  <2>2. QED
    BY <1>0, <1>5, <2>1 DEF SteadyLeased, Left, NoLease
<1>6. CASE CloseSession
  <2>1. handle' = NoHandle /\ taken' = taken /\ (Cancel \/ UNCHANGED vars)
    BY <1>6 DEF CloseSession, Drop, history
  <2>2. attempts'[session] = 0 => taken' = {} /\ Left' = 0
    BY <1>0, <1>5, <2>1 DEF SteadyLeased, Left, vars, taskVars
  <2>3. QED
    BY <2>1, <2>2, SteadyGone
<1>7. ASSUME NEW outcome \in {"succeeded", "failed"}, FinishSession(outcome)
      PROVE  SteadyInv'
  <2>1. handle' = NoHandle /\ Holds /\ attempts' = attempts
    BY <1>7 DEF FinishSession, Drop, Finish
  <2>2. attempts'[session] # 0
    BY <1>0, <2>1 DEF SteadyLeased, Left, Holds, HoldsFence, Live
  <2>3. QED
    BY <2>1, <2>2, SteadyGone
<1>8. CASE FinishUnheard
  <2>1. handle' = NoHandle /\ UNCHANGED <<lease, attempts, taken>>
    BY <1>8 DEF FinishUnheard, Drop, vars, taskVars
  <2>2. QED
    BY <1>0, <2>1, SteadyGone DEF SteadyLeased, Left
<1>9. CASE Die
  <2>1. handle' = NoHandle /\ UNCHANGED <<lease, attempts, taken>>
    BY <1>9 DEF Die, vars, taskVars
  <2>2. QED
    BY <1>0, <2>1, SteadyGone DEF SteadyLeased, Left
<1>10. CASE OperatorCancel
  <2>1. Cancel /\ UNCHANGED <<handle, steady, taken>>
    BY <1>10 DEF OperatorCancel, history
  <2>2. RunClosed'
    BY <2>1 DEF Cancel, RunClosed, TerminalRunStates
  <2>3. attempts'[session] = 0 => taken' = {} /\ Left' = 0
    BY <1>5, <2>1
  <2>4. QED
    BY <1>0, <2>1, <2>2, <2>3 DEF SteadyInv, SteadyLeased, Going
<1>11. CASE NextTick
  BY <1>11, SteadyTick
<1>12. CASE UNCHANGED allVars
  <2>1. UNCHANGED <<vars, handle, beats, sinceBeat, disabled, due, looking, taken,
                    sinceTaken, sinceCall, steady>>
    BY <1>12 DEF allVars, handleVars, history
  <2>2. /\ SteadyLeased' /\ Left' = Left /\ Age' = Age /\ RunClosed' = RunClosed
        /\ Going' => Going
    BY <2>1, SteadyKept
  <2>3. Readers' = Readers /\ InFlight' = InFlight
    BY <2>1 DEF Readers, InFlight
  <2>4. /\ NumbersAhead => NumbersAhead'
        /\ BeatsKeepUp => BeatsKeepUp'
        /\ BeatsLast => BeatsLast'
    BY <2>1, <2>2, <2>3 DEF NumbersAhead, BeatsKeepUp, LastsFrom, BeatsLast, ToSend
  <2>5. QED
    BY <2>2, <2>4 DEF SteadyInv
<1>13. QED
  BY <1>1, <1>2, <1>3, <1>4, <1>6, <1>7, <1>8, <1>9, <1>10, <1>11, <1>12
     DEF SessionNext

\* SteadySessionKeepsLease holds of every session whose budget of beats lasts:
\* used-up numbers renew nothing, but only hooks that read the run in the tick
\* of the last renewal send them; and a call that finds the last beat a throttle
\* old finds a number to send.
THEOREM SteadySessions ==
  ASSUME SessionAssumption, EnoughBeats
  PROVE  SessionSpec => []SteadySessionKeepsLease
<1>1. SessionInit => SteadyInv
  <2> SUFFICES ASSUME SessionInit PROVE SteadyInv
    OBVIOUS
  <2>1. handle \notin {"submit", "lease", "beat", "active"} /\ taken = {}
    BY DEF SessionInit, NoHandle
  <2>2. Left = 0
    BY DEF SessionInit, SessionAssumption, Init, NoLease, Left
  <2>3. QED
    BY <2>1, <2>2 DEF SteadyInv, SteadyLeased, Going
<1>2. RunInv /\ BurstInv /\ SteadyInv /\ [SessionNext]_allVars => SteadyInv'
  BY SteadyStep
<1>3. RunInv /\ BurstInv /\ SteadyInv => SteadySessionKeepsLease
  <2> SUFFICES ASSUME RunInv, BurstInv, SteadyInv,
                      handle = "active" /\ steady /\ ~disabled /\ ~RunClosed,
                      Age < AttemptCeiling
               PROVE  LeaseActive(session)
    BY LeaseFacts DEF SteadySessionKeepsLease, Age
  <2>1. taskStatus[session] \in {"leased", "running"}
    BY DEF SteadyInv, SteadyLeased
  <2>2. LastsFrom(sinceBeat) /\ sinceBeat < LeaseTTL
    BY DEF SteadyInv, Going, BeatsKeepUp
  <2>3. Left > 0
    BY <2>2, LeaseFacts DEF LastsFrom, BurstInv, SessionTypes
  <2>4. QED
    BY <2>1, <2>3 DEF LeaseActive, Live, Left, Age
<1>4. QED
  BY <1>1, <1>2, <1>3, SessionRun, SessionBeats, PTL DEF SessionSpec
=============================================================================
