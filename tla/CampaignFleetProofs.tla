------------------------ MODULE CampaignFleetProofs ------------------------
(***************************************************************************)
(* Theorems about CampaignFleet: the revision an append expects protects   *)
(* what its call decided on, for any number of clients, children and keys  *)
(* and streams of any length, among calls that name any revision at all.   *)
(* What a call decided may be outdated only when its caller named a        *)
(* revision the stream had not reached.                                    *)
(***************************************************************************)
EXTENDS CampaignFleet, TLAPS, SequenceTheorems, WellFoundedInduction

AllTypes == {"created", "attached", "status", "archived", "reopened", "campaign"}
OfChildren == {"attached", "status", "archived", "reopened"}

-----------------------------------------------------------------------------
(* Sequences and latest positions *)

Less == {ss \in Nat \X Nat : ss[1] < ss[2]}

\* A set of naturals has a least one.
LEMMA LeastNatural ==
  ASSUME NEW T, T \subseteq Nat, T # {} PROVE \E x \in T : \A y \in T : x <= y
<1>1. OpToRel(<, Nat) = Less
  BY Zenon DEF OpToRel, Less
<1>2. IsWellFoundedOn(Less, Nat)
  BY <1>1, NatLessThanWellFounded, Zenon
<1>3. \E x \in T : \A y \in T : <<y, x>> \notin Less
  BY <1>2, WFMin
<1>4. ASSUME NEW x \in Nat, NEW y \in Nat, <<y, x>> \notin Less PROVE x <= y
  BY <1>4 DEF Less
<1>5. QED
  BY <1>3, <1>4

\* Positions of a stream have a latest one.
LEMMA LatestIsLatest ==
  ASSUME NEW N \in Nat, NEW S, S \subseteq 1..N, S # {}
  PROVE  Latest(S) \in S /\ \A m \in S : m <= Latest(S)
<1> DEFINE T == {N - n : n \in S}
<1>1. T \subseteq Nat /\ T # {}
  <2>1. \A n \in S : N - n \in Nat
    OBVIOUS
  <2>2. QED
    BY <2>1
<1>2. PICK t \in T : \A u \in T : t <= u
  BY <1>1, LeastNatural
<1>3. PICK n \in S : t = N - n
  BY <1>2
<1>4. \A m \in S : m <= n
  <2>1. ASSUME NEW m \in S PROVE m <= n
    <3>1. N - m \in T /\ m \in 1..N /\ n \in 1..N
      OBVIOUS
    <3>2. N - n <= N - m
      BY <1>2, <1>3, <3>1
    <3>3. QED
      BY <3>1, <3>2
  <2>2. QED
    BY <2>1
<1>5. QED
  BY <1>4, Zenon DEF Latest

IsSequence(s) == \E S : s \in Seq(S)

\* What an appended sequence is made of.
LEMMA Appended ==
  ASSUME NEW s, NEW e, IsSequence(s)
  PROVE  /\ IsSequence(Append(s, e))
         /\ Len(s) \in Nat /\ Len(Append(s, e)) = Len(s) + 1
         /\ \A n \in 1..Len(s) : Append(s, e)[n] = s[n]
         /\ Append(s, e)[Len(s) + 1] = e
<1>1. PICK S : s \in Seq(S)
  BY DEF IsSequence
<1>2. s \in Seq(S \cup {e})
  BY <1>1
<1>3. Append(s, e) \in Seq(S \cup {e})
  BY <1>2
<1>4. QED
  BY <1>2, <1>3 DEF IsSequence

\* A stream with an event behind what it had, as far as one child is concerned.
LEMMA Positioned ==
  ASSUME NEW s, NEW e, IsSequence(s), NEW type, NEW child
  PROVE  Positions(Append(s, e), type, child) =
           Positions(s, type, child) \cup
             (IF e.type \in type /\ e.child = child THEN {Len(s) + 1} ELSE {})
BY Appended DEF Positions

-----------------------------------------------------------------------------
(* The invariant *)

\* Every event has a type, and those of children come behind their attachment.
Rooted ==
  \A n \in 1..Len(log) :
    /\ log[n].type \in AllTypes
    /\ log[n].child \in Children <=> log[n].type \in OfChildren
    /\ log[n].child \in Children => AttachedIn(log, log[n].child)

\* What holds of an event a call has decided on, however the stream has grown.
Shaped(e) ==
  /\ e.type \in AllTypes
  /\ e.child \in Children <=> e.type \in OfChildren
  /\ e.type \in OfChildren \ {"attached"} => AttachedIn(log, e.child)
  /\ e.type = "reopened" => ~e.ahead

\* An event goes with the stream it was decided on.
Fits(e) ==
  /\ e.type = "attached" => ~AttachedIn(log, e.child)
  /\ e.type \in OfChildren \ {"attached"} =>
       \/ StatusIn(log, e.child) = e.status
       \/ MayBecome(StatusIn(log, e.child), e.status)
  /\ e.type = "reopened" => e.from = Incarnation(log, e.child)
  /\ e.type = "campaign" /\ e.status \in {"completed", "archived"} => OpenIn(log) = {}

\* An append, unless its caller named a revision ahead of the stream, expects one
\* the stream has reached, and was decided rightly on the stream of that revision.
Sound(p) ==
  /\ p.expects \in Int
  /\ Shaped(p.event)
  /\ p.event.ahead \/ (p.expects <= Len(log) /\ (p.expects = Len(log) => Fits(p.event)))

Waiting(c) == pending[c] # Idle => Sound(pending[c])

Decided == \A c \in Clients : Waiting(c)

IInv ==
  /\ IsSequence(log) /\ DOMAIN pending = Clients
  /\ Rooted /\ Decided /\ HistoryIsLegal /\ IncarnationsFollow

LEMMA InitHolds == Init => IInv
<1> SUFFICES ASSUME Init PROVE IInv
  OBVIOUS
<1>1. IsSequence(log) /\ Len(log) = 0
  <2>1. <<>> \in Seq({})
    OBVIOUS
  <2>2. QED
    BY <2>1 DEF Init, IsSequence
<1>2. QED
  BY <1>1 DEF Init, IInv, Rooted, Decided, Waiting, HistoryIsLegal, IncarnationsFollow, Positions

-----------------------------------------------------------------------------
(* Decisions *)

\* An event a call makes is about the stream it read, and with it the append that
\* expects the revision read or the one the caller names.
LEMMA DecidesSound ==
  ASSUME IInv, NEW c \in Clients, NEW revision \in Revisions,
         NEW type, NEW child, NEW status, NEW key, NEW from,
         type # "reopened",
         Shaped(Event(type, child, status, key, from)),
         Fits(Event(type, child, status, key, from)),
         Decide(c, Event(type, child, status, key, from), revision)
  PROVE  /\ pending' = [pending EXCEPT ![c] = pending'[c]]
         /\ Sound(pending'[c])
<1> DEFINE e == Event(type, child, status, key, from)
           f == [e EXCEPT !.ahead = revision > Len(log)]
           x == IF revision = AnyRevision THEN Len(log) ELSE revision
<1>1. Len(log) \in Nat
  BY Appended DEF IInv
<1>2. revision \in Int /\ x \in Int
  BY <1>1 DEF Revisions, AnyRevision
<1>3. /\ f.type = e.type /\ f.child = e.child /\ f.status = e.status /\ f.from = e.from
      /\ e.type = type
  BY DEF Event
<1>4. f.ahead \/ x <= Len(log)
  <2>1. ASSUME ~(x <= Len(log)) PROVE f.ahead
    <3>1. (revision > Len(log)) = TRUE
      BY <1>1, <1>2, <2>1 DEF AnyRevision
    <3>2. f = [e EXCEPT !.ahead = TRUE]
      BY <3>1, Zenon
    <3>3. [e EXCEPT !.ahead = TRUE].ahead = TRUE
      BY DEF Event
    <3>4. QED
      BY <3>2, <3>3, Zenon
  <2>2. QED
    BY <2>1
<1>5. pending' = [pending EXCEPT ![c] = [event |-> f, expects |-> x]]
  BY Zenon DEF Decide
<1>6. pending'[c] = [event |-> f, expects |-> x]
  BY <1>5 DEF IInv
<1>7. pending'[c].event = f /\ pending'[c].expects = x
  BY <1>6
<1>8. Shaped(e) /\ Fits(e)
  BY Zenon
<1> HIDE DEF e, f
<1>9. Shaped(f)
  BY <1>3, <1>8 DEF Shaped
<1>10. Fits(f)
  BY <1>3, <1>8, Zenon DEF Fits
<1>11. Sound(pending'[c])
  BY <1>2, <1>7, <1>4, <1>9, <1>10 DEF Sound
<1>12. QED
  BY <1>5, <1>6, <1>11, Zenon

\* What a call decides on is sound.
LEMMA CallsSound ==
  ASSUME IInv, NEW c \in Clients, Create(c) \/ \E revision \in Revisions : Call(c, revision)
  PROVE  /\ pending' = [pending EXCEPT ![c] = pending'[c]]
         /\ Sound(pending'[c])
         /\ UNCHANGED log
<1>1. Len(log) \in Nat
  BY Appended DEF IInv
<1>2. ASSUME NEW e, NEW x \in Int, Shaped(e), ~e.ahead, x <= Len(log), x = Len(log) => Fits(e),
             pending' = [pending EXCEPT ![c] = [event |-> e, expects |-> x]]
      PROVE  pending' = [pending EXCEPT ![c] = pending'[c]] /\ Sound(pending'[c])
  <2>1. pending'[c] = [event |-> e, expects |-> x]
    BY <1>2 DEF IInv
  <2>2. pending'[c].event = e /\ pending'[c].expects = x
    BY <2>1
  <2>3. Sound(pending'[c])
    BY <1>2, <2>2 DEF Sound
  <2>4. QED
    BY <1>2, <2>1, <2>3, Zenon
<1>3. CASE Create(c)
  <2> DEFINE ev == Event("created", Nobody, "active",
                        Default("created", Nobody, "", NoOrigin), NoOrigin)
  <2>1. Shaped(ev) /\ Fits(ev) /\ ~ev.ahead
    BY CampaignAssumption DEF Event, Shaped, Fits, AllTypes, OfChildren
  <2>2. pending' = [pending EXCEPT ![c] = [event |-> ev, expects |-> 0]] /\ UNCHANGED log
    BY <1>3 DEF Create
  <2> HIDE DEF ev
  <2>3. 0 \in Int /\ 0 <= Len(log)
    BY <1>1
  <2>4. QED
    BY <1>2, <2>1, <2>2, <2>3, Zenon
<1>4. ASSUME NEW revision \in Revisions, NEW child \in Children, NEW key,
             AttachChild(c, child, key, revision)
      PROVE  pending' = [pending EXCEPT ![c] = pending'[c]] /\ Sound(pending'[c])
  <2>1. /\ Shaped(Event("attached", child, "planned", key, NoOrigin))
        /\ Fits(Event("attached", child, "planned", key, NoOrigin))
    BY <1>4 DEF AttachChild, Event, Shaped, Fits, AllTypes, OfChildren
  <2>2. QED
    BY <1>4, <2>1, DecidesSound, Zenon DEF AttachChild
<1>5. ASSUME NEW revision \in Revisions, NEW child \in Children, NEW status, NEW key,
             SetChildStatus(c, child, status, key, revision)
      PROVE  pending' = [pending EXCEPT ![c] = pending'[c]] /\ Sound(pending'[c])
  <2>1. /\ Shaped(Event("status", child, status, key, NoOrigin))
        /\ Fits(Event("status", child, status, key, NoOrigin))
    BY <1>5 DEF SetChildStatus, Event, Shaped, Fits, AllTypes, OfChildren
  <2>2. QED
    BY <1>5, <2>1, DecidesSound, Zenon DEF SetChildStatus
<1>6. ASSUME NEW revision \in Revisions, NEW child \in Children, NEW key,
             ArchiveChild(c, child, key, revision)
      PROVE  pending' = [pending EXCEPT ![c] = pending'[c]] /\ Sound(pending'[c])
  <2>1. /\ Shaped(Event("archived", child, "archived", key, NoOrigin))
        /\ Fits(Event("archived", child, "archived", key, NoOrigin))
    BY <1>6 DEF ArchiveChild, Event, Shaped, Fits, AllTypes, OfChildren, EndedChild, MayBecome
  <2>2. QED
    BY <1>6, <2>1, DecidesSound, Zenon DEF ArchiveChild
<1>7. ASSUME NEW child \in Children, NEW key, ReopenChild(c, child, key)
      PROVE  pending' = [pending EXCEPT ![c] = pending'[c]] /\ Sound(pending'[c])
  <2> DEFINE ev == Event("reopened", child, "active", key, Seed(child))
  <2>1. Seed(child) = Incarnation(log, child)
    BY <1>7 DEF ReopenChild, Seed, EndedChild
  <2>2. MayBecome(StatusIn(log, child), "active")
    BY <1>7 DEF ReopenChild, EndedChild, MayBecome
  <2>3. Shaped(ev) /\ Fits(ev) /\ ~ev.ahead
    BY <1>7, <2>1, <2>2 DEF ReopenChild, Event, Shaped, Fits, AllTypes, OfChildren
  <2>4. pending' = [pending EXCEPT ![c] = [event |-> ev, expects |-> Len(log)]]
    BY <1>7 DEF ReopenChild
  <2> HIDE DEF ev
  <2>5. Len(log) \in Int /\ Len(log) <= Len(log)
    BY <1>1
  <2>6. QED
    BY <1>2, <2>3, <2>4, <2>5, Zenon
<1>8. ASSUME NEW revision \in Revisions, NEW status, NEW key,
             SetCampaignStatus(c, status, key, revision)
      PROVE  pending' = [pending EXCEPT ![c] = pending'[c]] /\ Sound(pending'[c])
  <2>1. /\ Shaped(Event("campaign", Nobody, status, key, NoOrigin))
        /\ Fits(Event("campaign", Nobody, status, key, NoOrigin))
    BY <1>8, CampaignAssumption
       DEF SetCampaignStatus, Event, Shaped, Fits, AllTypes, OfChildren
  <2>2. QED
    BY <1>8, <2>1, DecidesSound, Zenon DEF SetCampaignStatus
<1>9. ASSUME NEW revision \in Revisions, Call(c, revision)
      PROVE  /\ pending' = [pending EXCEPT ![c] = pending'[c]]
             /\ Sound(pending'[c])
             /\ UNCHANGED log
  <2>1. UNCHANGED log
    BY <1>9 DEF Call, AttachChild, SetChildStatus, ArchiveChild, ReopenChild, SetCampaignStatus
  <2>2. QED
    BY <1>4, <1>5, <1>6, <1>7, <1>8, <1>9, <2>1 DEF Call
<1>10. QED
  BY <1>3, <1>9

\* How a step treats the stream.
LEMMA LogStep ==
  ASSUME [Next]_vars
  PROVE  \/ UNCHANGED log
         \/ \E c \in Clients :
              /\ AppendPending(c) /\ pending[c] # Idle /\ pending[c].expects = Len(log)
              /\ log' = Append(log, pending[c].event)
<1>1. ASSUME NEW c \in Clients, NEW revision \in Revisions, Call(c, revision) PROVE UNCHANGED log
  BY <1>1 DEF Call, AttachChild, SetChildStatus, ArchiveChild, ReopenChild, SetCampaignStatus
<1>2. QED
  BY <1>1 DEF Next, vars, Create, MakeHead, AppendPending, Die

-----------------------------------------------------------------------------
(* The history *)

\* The events about a child are those the projection looks at.
LEMMA About ==
  ASSUME Rooted, NEW child \in Children
  PROVE  {n \in 1..Len(log) : log[n].child = child} = Positions(log, AllTypes, child)
BY DEF Rooted, Positions

LEMMA Grown ==
  ASSUME IInv, NEW e, Shaped(e), e.ahead \/ Fits(e), log' = Append(log, e)
  PROVE  IsSequence(log)' /\ Rooted' /\ HistoryIsLegal' /\ IncarnationsFollow'
<1> DEFINE new == Len(log) + 1
<1>1. /\ IsSequence(log)' /\ Len(log) \in Nat /\ Len(log') = new
      /\ \A n \in 1..Len(log) : log'[n] = log[n]
      /\ log'[new] = e
  BY Appended DEF IInv
<1>2. 1..Len(log') = (1..Len(log)) \cup {new}
  BY <1>1
<1>3. ASSUME NEW child, AttachedIn(log, child) PROVE AttachedIn(log', child)
  BY <1>3, Positioned DEF AttachedIn, IInv
<1>4. Rooted'
  <2>1. CASE e.type = "attached"
    <3>1. new \in Positions(log', {"attached"}, e.child)
      BY <1>1, <1>2, <2>1 DEF Positions
    <3>2. QED
      BY <1>1, <1>2, <1>3, <3>1 DEF Rooted, Shaped, IInv, AttachedIn
  <2>2. CASE e.type # "attached"
    BY <1>1, <1>2, <1>3, <2>2 DEF Rooted, Shaped, IInv
  <2>3. QED
    BY <2>1, <2>2
<1>5. ASSUME NEW child \in Children, NEW n \in 1..Len(log'), log'[n].child = child,
             ~log'[n].ahead
      PROVE  LET before == {m \in {k \in 1..Len(log') : log'[k].child = child} : m < n}
             IN  IF before = {} THEN log'[n].type = "attached"
                 ELSE /\ log'[n].type # "attached"
                      /\ \/ log'[Latest(before)].status = log'[n].status
                         \/ MayBecome(log'[Latest(before)].status, log'[n].status)
  <2> DEFINE before == {m \in {k \in 1..Len(log') : log'[k].child = child} : m < n}
             old == {m \in {k \in 1..Len(log) : log[k].child = child} : m < n}
  <2>1. before = old
    BY <1>1, <1>2, <1>5
  <2>2. CASE n \in 1..Len(log)
    <3>1. log'[n] = log[n]
      BY <1>1, <2>2
    <3>2. IF old = {} THEN log[n].type = "attached"
          ELSE /\ log[n].type # "attached"
               /\ \/ log[Latest(old)].status = log[n].status
                  \/ MayBecome(log[Latest(old)].status, log[n].status)
      BY <1>5, <2>2, <3>1 DEF IInv, HistoryIsLegal
    <3>3. ASSUME old # {} PROVE log'[Latest(old)] = log[Latest(old)]
      <4>1. old \subseteq 1..Len(log)
        OBVIOUS
      <4>2. Latest(old) \in 1..Len(log)
        BY <1>1, <3>3, <4>1, LatestIsLatest
      <4>3. QED
        BY <1>1, <4>2
    <3>4. QED
      BY <2>1, <3>1, <3>2, <3>3
  <2>3. CASE n = new
    <3>1. old = Positions(log, AllTypes, child)
      BY <1>1, <2>3, About DEF IInv
    <3>2. child = e.child /\ e.type \in OfChildren /\ Fits(e)
      BY <1>1, <1>5, <2>3 DEF Shaped
    <3>3. CASE e.type = "attached"
      <4>1. old = {}
        BY <3>2, <3>3 DEF Fits, Rooted, IInv
      <4>2. QED
        BY <1>1, <2>1, <2>3, <3>3, <4>1
    <3>4. CASE e.type # "attached"
      <4>1. AttachedIn(log, child) /\ (StatusIn(log, child) = e.status
              \/ MayBecome(StatusIn(log, child), e.status))
        BY <3>2, <3>4 DEF Shaped, Fits
      <4>2. old # {}
        BY <3>1, <4>1 DEF AttachedIn, Positions, AllTypes
      <4>3. StatusIn(log, child) = log[Latest(old)].status
        BY <3>1 DEF StatusIn, AllTypes
      <4>4. old \subseteq 1..Len(log)
        OBVIOUS
      <4>5. Latest(old) \in 1..Len(log)
        BY <1>1, <4>2, <4>4, LatestIsLatest
      <4>6. log'[Latest(old)] = log[Latest(old)] /\ log'[n] = e
        BY <1>1, <2>3, <4>5
      <4>7. QED
        BY <2>1, <3>4, <4>1, <4>2, <4>3, <4>6
    <3>5. QED
      BY <3>3, <3>4
  <2>4. QED
    BY <1>2, <2>2, <2>3
<1>6. HistoryIsLegal'
  BY <1>5 DEF HistoryIsLegal
<1>7. ASSUME NEW child \in Children, NEW n \in Positions(log', {"attached", "reopened"}, child),
             log'[n].type = "reopened"
      PROVE  log'[n].from =
               Latest({m \in Positions(log', {"attached", "reopened"}, child) : m < n})
  <2> DEFINE made == Positions(log, {"attached", "reopened"}, child)
             before == {m \in Positions(log', {"attached", "reopened"}, child) : m < n}
  <2>1. /\ n \in 1..Len(log')
        /\ made \subseteq 1..Len(log)
    BY DEF Positions
  <2>2. before = {m \in made : m < n}
    BY <1>1, <1>2, <2>1 DEF Positions
  <2>3. CASE n \in 1..Len(log)
    <3>1. n \in made /\ log'[n] = log[n]
      BY <1>1, <2>3 DEF Positions
    <3>2. QED
      BY <1>7, <2>2, <3>1 DEF IInv, IncarnationsFollow
  <2>4. CASE n = new
    <3>1. log'[n] = e /\ e.child = child
      BY <1>1, <2>4 DEF Positions
    <3>2. before = made
      BY <1>1, <2>1, <2>2, <2>4
    <3>3. Fits(e)
      BY <1>7, <3>1 DEF Shaped
    <3>4. QED
      BY <1>7, <3>1, <3>2, <3>3 DEF Fits, Incarnation
  <2>5. QED
    BY <1>2, <2>1, <2>3, <2>4
<1>8. IncarnationsFollow'
  BY <1>7 DEF IncarnationsFollow
<1>9. QED
  BY <1>1, <1>4, <1>6, <1>8

-----------------------------------------------------------------------------
(* Theorems *)

LEMMA StepHolds == IInv /\ [Next]_vars => IInv'
<1> SUFFICES ASSUME IInv, [Next]_vars PROVE IInv'
  OBVIOUS
<1>1. CASE UNCHANGED log
  <2>1. IsSequence(log)' /\ Rooted' /\ HistoryIsLegal' /\ IncarnationsFollow'
    <3>1. IsSequence(log)' /\ Rooted'
      BY <1>1 DEF IInv, IsSequence, Rooted, AttachedIn, Positions
    <3>2. ASSUME NEW child \in Children
          PROVE  /\ {n \in 1..Len(log') : log'[n].child = child} =
                      {n \in 1..Len(log) : log[n].child = child}
                 /\ Positions(log', {"attached", "reopened"}, child) =
                      Positions(log, {"attached", "reopened"}, child)
      BY <1>1
    <3>3. HistoryIsLegal'
      BY <1>1, <3>2 DEF IInv, HistoryIsLegal
    <3>4. IncarnationsFollow'
      BY <1>1, <3>2 DEF IInv, IncarnationsFollow
    <3>5. QED
      BY <3>1, <3>3, <3>4
  <2>2. ASSUME NEW p, Sound(p) PROVE Sound(p)'
    BY <1>1, <2>2 DEF Sound, Shaped, Fits
  <2>3. ASSUME NEW c \in Clients, Create(c) \/ \E revision \in Revisions : Call(c, revision)
        PROVE  DOMAIN pending' = Clients /\ Decided'
    BY <1>1, <2>2, <2>3, CallsSound DEF IInv, Decided, Waiting
  <2>4. ASSUME NEW c \in Clients, MakeHead(c) \/ AppendPending(c) \/ Die(c)
        PROVE  DOMAIN pending' = Clients /\ Decided'
    BY <1>1, <2>2, <2>4 DEF IInv, Decided, Waiting, MakeHead, AppendPending, Die
  <2>5. CASE UNCHANGED vars
    <3>1. UNCHANGED pending
      BY <2>5 DEF vars
    <3>2. Decided'
      BY <1>1, <2>2, <3>1 DEF IInv, Decided, Waiting
    <3>3. QED
      BY <2>1, <3>1, <3>2 DEF IInv
  <2>6. QED
    BY <2>1, <2>3, <2>4, <2>5 DEF Next, IInv
<1>2. ASSUME NEW c \in Clients, AppendPending(c), pending[c] # Idle,
             pending[c].expects = Len(log), log' = Append(log, pending[c].event)
      PROVE  IInv'
  <2>1. Sound(pending[c])
    BY <1>2 DEF IInv, Decided, Waiting
  <2>2. IsSequence(log)' /\ Rooted' /\ HistoryIsLegal' /\ IncarnationsFollow'
    BY <1>2, <2>1, Grown DEF Sound
  <2>3. Len(log) \in Nat /\ Len(log') = Len(log) + 1
    BY <1>2, Appended DEF IInv
  <2>4. ASSUME NEW child, AttachedIn(log, child) PROVE AttachedIn(log', child)
    BY <1>2, <2>4, Positioned DEF AttachedIn, IInv
  <2>5. ASSUME NEW p, Sound(p) PROVE Sound(p)'
    BY <2>3, <2>4, <2>5 DEF Sound, Shaped
  <2>6. DOMAIN pending' = Clients /\ Decided'
    BY <1>2, <2>5 DEF IInv, Decided, Waiting, AppendPending
  <2>7. QED
    BY <2>2, <2>6 DEF IInv
<1>3. QED
  BY <1>1, <1>2, LogStep

\* Calls that decided on an outdated status of a child never get in, but for
\* those whose caller named a revision the stream had not reached.
THEOREM LegalHistory == Spec => []HistoryIsLegal
<1>1. IInv => HistoryIsLegal
  BY DEF IInv
<1>2. QED
  BY InitHolds, StepHolds, <1>1, PTL DEF Spec

\* Two calls that reopen one incarnation never both get in, whatever revisions
\* the callers name.
THEOREM Incarnations == Spec => []IncarnationsFollow
<1>1. IInv => IncarnationsFollow
  BY DEF IInv
<1>2. QED
  BY InitHolds, StepHolds, <1>1, PTL DEF Spec

\* A campaign is completed or archived at a moment at which no child is open, by
\* whoever names no revision the stream had not reached.
THEOREM QuietClose == Spec => ClosesQuiet
<1>1. IInv /\ [Next]_vars =>
        [\A n \in (Len(log) + 1)..Len(log') :
           /\ log'[n].type = "campaign"
           /\ log'[n].status \in {"completed", "archived"}
           /\ ~log'[n].ahead
           => OpenIn(log) = {}]_vars
  <2> SUFFICES ASSUME IInv, [Next]_vars,
                      NEW n \in (Len(log) + 1)..Len(log'),
                      log'[n].type = "campaign", log'[n].status \in {"completed", "archived"},
                      ~log'[n].ahead
               PROVE  OpenIn(log) = {}
    OBVIOUS
  <2>1. Len(log) \in Nat
    BY Appended DEF IInv
  <2>2. PICK c \in Clients : /\ pending[c] # Idle /\ pending[c].expects = Len(log)
                             /\ log' = Append(log, pending[c].event)
    BY <2>1, LogStep
  <2>3. log'[n] = pending[c].event
    BY <2>1, <2>2, Appended DEF IInv
  <2>4. QED
    BY <2>2, <2>3 DEF IInv, Decided, Waiting, Sound, Fits
<1>2. QED
  BY InitHolds, StepHolds, <1>1, PTL DEF Spec, ClosesQuiet
=============================================================================
