----------------------------- MODULE FencedWork -----------------------------
(***************************************************************************)
(* What a run promises its workers, without leases, clocks, budgets or     *)
(* dependencies: work items handed out under ever-growing tokens, where    *)
(* only the newest grant of an item can report, once, and a closed item is *)
(* never handed out or reported again.  RunController implements it.       *)
(***************************************************************************)
EXTENDS Integers

CONSTANT Tasks

VARIABLES
  granted,   \* granted[t]: the token t is out under, 0 when it is not out
  settled,   \* settled[t]: the token of the last report accepted for t
  closed,    \* items that accept nothing any more
  issued     \* the newest token

vars == <<granted, settled, closed, issued>>

Init ==
  /\ granted = [t \in Tasks |-> 0]
  /\ settled = [t \in Tasks |-> 0]
  /\ closed = {}
  /\ issued = 0

\* An open item goes out under a new token, whoever held it before.
Grant(t) ==
  /\ t \notin closed
  /\ issued' = issued + 1
  /\ granted' = [granted EXCEPT ![t] = issued + 1]
  /\ UNCHANGED <<settled, closed>>

\* Closing takes back what is out; nothing closed opens.
CloseTo(now) ==
  /\ closed \subseteq now
  /\ closed' = now

\* The newest grant of t reports: the item ends, possibly taking others with
\* it, or goes back to be granted again.
Report(t) ==
  /\ granted[t] # 0
  /\ settled' = [settled EXCEPT ![t] = granted[t]]
  /\ \E now \in SUBSET Tasks :
       /\ CloseTo(now)
       /\ t \in now \/ now = closed
       /\ granted' = [u \in Tasks |-> IF u \in now \cup {t} THEN 0 ELSE granted[u]]
  /\ UNCHANGED issued

\* Items are closed without a report.
Withdraw ==
  /\ \E now \in SUBSET Tasks :
       /\ CloseTo(now)
       /\ granted' = [u \in Tasks |-> IF u \in now THEN 0 ELSE granted[u]]
  /\ UNCHANGED <<settled, issued>>

Next == (\E t \in Tasks : Grant(t) \/ Report(t)) \/ Withdraw

Spec == Init /\ [][Next]_vars
=============================================================================
