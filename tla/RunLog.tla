------------------------------- MODULE RunLog -------------------------------
(***************************************************************************)
(* What an event store promises, without files, locks or processes: a log  *)
(* that only grows, one entry per idempotency key, a creation entry only   *)
(* in first place, answers that name an entry of the log and stay true,    *)
(* and no entry after the store has broken.  EventStore implements it.     *)
(***************************************************************************)
EXTENDS Naturals, Sequences

CONSTANTS Entries, Creation, Key(_), Keyless

VARIABLES
  log,        \* the entries, in order of acceptance
  answered,   \* positions a caller has been told of, with what stands there
  intact      \* FALSE once the store has broken

vars == <<log, answered, intact>>

Init == log = <<>> /\ answered = {} /\ intact = TRUE

Accept(e) ==
  /\ intact
  /\ Key(e) # Keyless => \A n \in 1..Len(log) : Key(log[n]) # Key(e)
  /\ e \in Creation => log = <<>>
  /\ log' = Append(log, e)
  /\ intact' \in BOOLEAN
  /\ UNCHANGED answered

Answer ==
  /\ intact
  /\ \E n \in 1..Len(log) : answered' = answered \cup {[at |-> n, entry |-> log[n]]}
  /\ UNCHANGED <<log, intact>>

Break == intact' = FALSE /\ UNCHANGED <<log, answered>>

Next == (\E e \in Entries : Accept(e)) \/ Answer \/ Break

Spec == Init /\ [][Next]_vars
=============================================================================
