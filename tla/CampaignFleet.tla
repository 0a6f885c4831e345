---------------------------- MODULE CampaignFleet ----------------------------
(***************************************************************************)
(* The campaign registry (sips_runtime/campaign_fleet.py): one event       *)
(* stream of a campaign and its children, and the calls on it.             *)
(*                                                                         *)
(* Unlike the run controller, a call holds no lock while it decides: it    *)
(* reads the stream, checks its guards against what it read, and appends   *)
(* later, relying on the store to refuse an append that expects another    *)
(* revision.  Reading and appending are separate steps here, with other    *)
(* calls in between.  Which revision that is may be the caller's to say,   *)
(* and nothing compares it with the one the call read.                     *)
(*                                                                         *)
(* A payload is what its call asked for; titles, handles, tags, reasons    *)
(* and the bounded projection are left out.  An incarnation's id is a hash *)
(* of the key of the event that made it; keys are unique, and the id here  *)
(* is that event's place in the stream.                                    *)
(***************************************************************************)
EXTENDS Integers, Sequences, FiniteSets

CONSTANTS
  Clients,
  Children,
  Asked,        \* the child statuses set_child_status is called with
  GivenKeys,    \* idempotency keys callers choose themselves
  MaxEvents,    \* bound on the stream
  Nobody,       \* the child of an event that is about the campaign
  Idle          \* a client with no call under way

ASSUME CampaignAssumption ==
  /\ Nobody \notin Children
  /\ Asked \subseteq {"planned", "active", "waiting", "blocked",
                      "completed", "failed", "canceled", "abandoned"}
  /\ MaxEvents \in Nat

OpenChild  == {"planned", "active", "waiting", "blocked"}
EndedChild == {"completed", "failed", "canceled", "abandoned"}
ChildStatuses == OpenChild \cup EndedChild \cup {"archived"}

\* ALLOWED_CHILD_TRANSITIONS
MayBecome(from, to) ==
  \/ from \in OpenChild /\ to \in (OpenChild \ {"planned"}) \cup EndedChild /\ to # from
  \/ from \in EndedChild \ {"abandoned"} /\ to \in {"active", "archived", "abandoned"}
  \/ from = "archived" /\ to \in {"active", "abandoned"}
  \/ from = "abandoned" /\ to \in {"active", "archived"}

CampaignStatuses == {"active", "completed", "archived", "abandoned"}

\* CAMPAIGN_TRANSITIONS
CampaignMayBecome(from, to) ==
  /\ to # from
  /\ from = "archived" => to # "completed"

AnyRevision == -1

VARIABLES
  headed,    \* the campaign's head.json exists
  log,       \* its event stream
  pending    \* pending[c]: the append c has decided on, and what it expects

vars == <<headed, log, pending>>

Init ==
  /\ headed = FALSE
  /\ log = <<>>
  /\ pending = [c \in Clients |-> Idle]

-----------------------------------------------------------------------------
(* The projection *)

Positions(s, type, child) ==
  {n \in 1..Len(s) : s[n].type \in type /\ s[n].child = child}

Latest(S) == CHOOSE n \in S : \A m \in S : m <= n

\* The status the latest event about a child, or about the campaign, left.
StatusIn(s, child) ==
  s[Latest(Positions(s, {"created", "attached", "status", "archived", "reopened",
                         "campaign"}, child))].status

AttachedIn(s, child) == Positions(s, {"attached"}, child) # {}

OpenIn(s) == {child \in Children : AttachedIn(s, child) /\ StatusIn(s, child) \in OpenChild}

\* The current incarnation, and the one it was reopened from.  An attachment
\* leaves the child with no other incarnation than its own.
Incarnation(s, child) == Latest(Positions(s, {"attached", "reopened"}, child))
Reopened(s, child) == s[Incarnation(s, child)].type = "reopened"
ReopenedFrom(s, child) == s[Incarnation(s, child)].from

-----------------------------------------------------------------------------
(* Events and keys *)

\* ahead is history: the caller named a revision the stream had not yet reached
\* when its call read it.
Event(type, child, status, key, from) ==
  [type |-> type, child |-> child, status |-> status, key |-> key, from |-> from,
   ahead |-> FALSE]

NoOrigin == 0

\* The key a call falls back on when its caller gives none: it names the call, the
\* child, the status asked for, and the incarnation a reopening leaves.
Default(type, child, status, from) ==
  [type |-> type, child |-> child, status |-> status, from |-> from]
Given(k) == Default("given", k, "", NoOrigin)

\* The keys a call may come with.
KeysFor(default) == {default} \cup {Given(k) : k \in GivenKeys}

Known(s, key) == \E n \in 1..Len(s) : s[n].key = key

\* What the caller names as its revision: none, or any number.  Of those the
\* stream has passed, and of those it cannot reach within the bound, no append
\* takes any: one stands for them all.
Revisions == {AnyRevision} \cup (Len(log) - 1)..(MaxEvents - 1)

\* The call goes on to append, against the revision it read or was given.
Decide(c, event, revision) ==
  pending' = [pending EXCEPT ![c] =
                [event |-> [event EXCEPT !.ahead = revision > Len(log)],
                 expects |-> IF revision = AnyRevision THEN Len(log) ELSE revision]]

Exists == log # <<>>

-----------------------------------------------------------------------------
(* Calls, up to their decision.  A call whose key is known is answered with the *)
(* current projection when type and request agree, and refused when not:       *)
(* either way it appends nothing (_replay_if_idempotent).                       *)

\* create, having found no head file.
Create(c) ==
  /\ pending[c] = Idle
  /\ ~headed
  /\ pending' = [pending EXCEPT ![c] =
                   [event |-> Event("created", Nobody, "active",
                                    Default("created", Nobody, "", NoOrigin), NoOrigin),
                    expects |-> 0]]
  /\ UNCHANGED <<headed, log>>

\* ... then opens the store, which makes one.
MakeHead(c) ==
  /\ pending[c] # Idle
  /\ ~headed
  /\ headed' = TRUE
  /\ UNCHANGED <<log, pending>>

AttachChild(c, child, key, revision) ==
  /\ pending[c] = Idle
  /\ Exists
  /\ ~Known(log, key)
  /\ ~AttachedIn(log, child)
  /\ Decide(c, Event("attached", child, "planned", key, NoOrigin), revision)
  /\ UNCHANGED <<headed, log>>

\* set_child_status: the same status may be set again.
SetChildStatus(c, child, status, key, revision) ==
  /\ pending[c] = Idle
  /\ Exists
  /\ ~Known(log, key)
  /\ AttachedIn(log, child)
  /\ LET prior == StatusIn(log, child)
     IN  prior # "archived" /\ (status = prior \/ MayBecome(prior, status))
  /\ Decide(c, Event("status", child, status, key, NoOrigin), revision)
  /\ UNCHANGED <<headed, log>>

\* Fault: an open child may be archived.
ArchiveOpenChild(c, child, key, revision) ==
  /\ pending[c] = Idle
  /\ Exists
  /\ ~Known(log, key)
  /\ AttachedIn(log, child)
  /\ StatusIn(log, child) # "archived"
  /\ Decide(c, Event("archived", child, "archived", key, NoOrigin), revision)
  /\ UNCHANGED <<headed, log>>

ArchiveChild(c, child, key, revision) ==
  /\ pending[c] = Idle
  /\ Exists
  /\ ~Known(log, key)
  /\ AttachedIn(log, child)
  /\ StatusIn(log, child) \in EndedChild
  /\ Decide(c, Event("archived", child, "archived", key, NoOrigin), revision)
  /\ UNCHANGED <<headed, log>>

\* reopen_child's key is made from the incarnation it leaves, also when it is
\* called again right after.
Seed(child) ==
  IF StatusIn(log, child) = "active" /\ Reopened(log, child)
  THEN ReopenedFrom(log, child) ELSE Incarnation(log, child)

\* reopen_child appends against the revision it read, whatever the caller names.
ReopenChild(c, child, key) ==
  /\ pending[c] = Idle
  /\ Exists
  /\ ~Known(log, key)
  /\ AttachedIn(log, child)
  /\ StatusIn(log, child) \in EndedChild \cup {"archived"}
  /\ pending' = [pending EXCEPT ![c] =
                   [event |-> Event("reopened", child, "active", key, Seed(child)),
                    expects |-> Len(log)]]
  /\ UNCHANGED <<headed, log>>

SetCampaignStatus(c, status, key, revision) ==
  /\ pending[c] = Idle
  /\ Exists
  /\ ~Known(log, key)
  /\ CampaignMayBecome(StatusIn(log, Nobody), status)
  /\ status \in {"completed", "archived"} => OpenIn(log) = {}
  /\ Decide(c, Event("campaign", Nobody, status, key, NoOrigin), revision)
  /\ UNCHANGED <<headed, log>>

Call(c, revision) ==
  \/ \E child \in Children :
       \/ \E key \in KeysFor(Default("attached", child, "", NoOrigin)) :
            AttachChild(c, child, key, revision)
       \/ \E status \in Asked : \E key \in KeysFor(Default("status", child, status, NoOrigin)) :
            SetChildStatus(c, child, status, key, revision)
       \/ \E key \in KeysFor(Default("archived", child, "", NoOrigin)) :
            ArchiveChild(c, child, key, revision)
       \/ /\ AttachedIn(log, child)
          /\ \E key \in KeysFor(Default("reopened", child, "", Seed(child))) :
               ReopenChild(c, child, key)
  \/ \E status \in CampaignStatuses :
       \E key \in KeysFor(Default("campaign", Nobody, status, NoOrigin)) :
       SetCampaignStatus(c, status, key, revision)

-----------------------------------------------------------------------------
(* The append *)

\* Fault: the append expects nothing.
AppendUnchecked(c) ==
  /\ pending[c] # Idle
  /\ headed
  /\ IF ~Known(log, pending[c].event.key)
     THEN log' = Append(log, pending[c].event) ELSE UNCHANGED log
  /\ pending' = [pending EXCEPT ![c] = Idle]
  /\ UNCHANGED headed

\* _append, under the transition lock: a key that has become known, or another
\* revision, ends the call without an event.  A create that finds its key known
\* is a conflict: its payload holds its own creation time.
AppendPending(c) ==
  /\ pending[c] # Idle
  /\ headed
  /\ IF ~Known(log, pending[c].event.key) /\ pending[c].expects = Len(log)
     THEN log' = Append(log, pending[c].event) ELSE UNCHANGED log
  /\ pending' = [pending EXCEPT ![c] = Idle]
  /\ UNCHANGED headed

\* The client dies, or its call times out, before the append.
Die(c) ==
  /\ pending[c] # Idle
  /\ pending' = [pending EXCEPT ![c] = Idle]
  /\ UNCHANGED <<headed, log>>

Next ==
  \E c \in Clients :
    \/ Create(c)
    \/ MakeHead(c)
    \/ Len(log) < MaxEvents /\ \E revision \in Revisions : Call(c, revision)
    \/ Len(log) < MaxEvents /\ AppendPending(c)
    \/ Die(c)

Spec == Init /\ [][Next]_vars

-----------------------------------------------------------------------------
(* Properties *)

\* Whoever names no revision ahead of the stream its call read completes or
\* archives a campaign only when no child is open at that very moment, although
\* the call looked at the children earlier, without a lock, and although others'
\* calls, which may name such revisions, come in between.
ClosesQuiet ==
  [][\A n \in (Len(log) + 1)..Len(log') :
       /\ log'[n].type = "campaign"
       /\ log'[n].status \in {"completed", "archived"}
       /\ ~log'[n].ahead
       => OpenIn(log) = {}]_vars

\* Each event of a child by a caller who named no revision ahead of the stream is
\* a move ALLOWED_CHILD_TRANSITIONS has from the status the child then was in,
\* whatever brought it there: such a call that decided on an outdated status
\* never gets in.
HistoryIsLegal ==
  \A child \in Children :
    LET about == {n \in 1..Len(log) : log[n].child = child}
    IN  \A n \in about :
          LET before == {m \in about : m < n}
          IN  log[n].ahead
              \/ IF before = {} THEN log[n].type = "attached"
                 ELSE LET prior == log[Latest(before)].status
                      IN  /\ log[n].type # "attached"
                          /\ prior = log[n].status \/ MayBecome(prior, log[n].status)

\* Each reopening replaces the child's current incarnation: two calls that saw the
\* same one, under whatever keys, never both get a successor of it in.  No caller
\* is excepted: reopen_child drops the revision it is given.
IncarnationsFollow ==
  \A child \in Children :
    LET made == Positions(log, {"attached", "reopened"}, child)
    IN  \A n \in made :
          log[n].type = "reopened" => log[n].from = Latest({m \in made : m < n})
=============================================================================
