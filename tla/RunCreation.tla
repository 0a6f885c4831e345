----------------------------- MODULE RunCreation -----------------------------
(***************************************************************************)
(* RuntimeController.create: turning an idempotency key into one run.      *)
(*                                                                         *)
(* A caller that names no run first settles a run id for its key in the    *)
(* create registry, an event stream of its own, under the registry's lock, *)
(* and then makes the run under the run's lock.  Callers die anywhere, and *)
(* ask again.  An append that dies between the stream and its head leaves  *)
(* the stream unreadable (module EventStore).                              *)
(***************************************************************************)
EXTENDS Integers, FiniteSets

CONSTANTS
  Callers,
  Keys,         \* idempotency keys
  Requests,     \* what a run is asked for, by digest
  NamedRuns,    \* run ids callers choose
  FreshRuns,    \* run ids the registry hands out; each call of uuid7 is another
  Nobody,       \* the holder of a free lock
  None          \* no intent, no run, no answer

ASSUME CreationAssumption ==
  /\ Nobody \notin Callers
  /\ NamedRuns \cap FreshRuns = {}
  /\ None \notin NamedRuns \cup FreshRuns
  /\ None \notin [request : Requests, run : FreshRuns]
  /\ None \notin [key : Keys, request : Requests]

Runs == NamedRuns \cup FreshRuns

VARIABLES
  intents,      \* intents[k]: the registry's event for key k
  created,      \* created[r]: the run.created event of run r
  unreadable,   \* streams an append died in: "registry" or a run
  registryLock, \* who holds it
  runLock,      \* runLock[r]: who holds it
  call,         \* call[c]: what c is doing
  answered,     \* every answer given to a caller that named no run
  refused       \* some caller was told its key stands for another request

vars == <<intents, created, unreadable, registryLock, runLock, call, answered, refused>>

Idle == [step |-> "idle", key |-> None, request |-> None, run |-> None]

Init ==
  /\ intents = [k \in Keys |-> None]
  /\ created = [r \in Runs |-> None]
  /\ unreadable = {}
  /\ registryLock = Nobody
  /\ runLock = [r \in Runs |-> Nobody]
  /\ call = [c \in Callers |-> Idle]
  /\ answered = {}
  /\ refused = {}

At(c, step) == call[c].step = step
Intent(c) == intents[call[c].key]
Run(c) == call[c].run
Asks(c) == [key |-> call[c].key, request |-> call[c].request]

Go(c, step) == call' = [call EXCEPT ![c].step = step]
GoTo(c, step, run) ==
  call' = [call EXCEPT ![c] = [step |-> step, key |-> call[c].key,
                               request |-> call[c].request, run |-> run]]
End(c) == call' = [call EXCEPT ![c] = Idle]

\* Run ids no call has been given yet.
Unused ==
  {r \in FreshRuns : /\ \A k \in Keys : intents[k] = None \/ intents[k].run # r
                     /\ \A c \in Callers : Run(c) # r}

-----------------------------------------------------------------------------
(* The registry *)

\* A request arrives, with a run id of its own or without.
Ask(c) ==
  /\ At(c, "idle")
  /\ \E key \in Keys, request \in Requests, run \in NamedRuns \cup {None} :
       call' = [call EXCEPT ![c] =
                  [step |-> IF run = None THEN "registry" ELSE "run",
                   key |-> key, request |-> request, run |-> run]]
  /\ UNCHANGED <<intents, created, unreadable, registryLock, runLock, answered, refused>>

\* Fault: the registry's lock is not taken.
EnterRegistry(c) ==
  /\ At(c, "registry")
  /\ Go(c, "find")
  /\ UNCHANGED <<intents, created, unreadable, registryLock, runLock, answered, refused>>

LockRegistry(c) ==
  /\ At(c, "registry") /\ registryLock = Nobody
  /\ registryLock' = c
  /\ Go(c, "find")
  /\ UNCHANGED <<intents, created, unreadable, runLock, answered, refused>>

\* Fault: the request behind a known key is not compared.
FindAnyIntent(c) ==
  /\ At(c, "find")
  /\ IF Intent(c) = None THEN Go(c, "intend") /\ UNCHANGED registryLock
     ELSE GoTo(c, "run", Intent(c).run) /\ registryLock' = Nobody
  /\ UNCHANGED <<intents, created, unreadable, runLock, answered, refused>>

\* A known key means its run when the request is the same, and a conflict when not.
FindIntent(c) ==
  /\ At(c, "find")
  /\ \/ /\ "registry" \notin unreadable /\ Intent(c) = None
        /\ Go(c, "intend")
        /\ UNCHANGED <<registryLock, refused>>
     \/ /\ "registry" \notin unreadable /\ Intent(c) # None
        /\ registryLock' = Nobody
        /\ IF Intent(c).request = call[c].request
           THEN GoTo(c, "run", Intent(c).run) /\ UNCHANGED refused
           ELSE End(c) /\ refused' = refused \cup {Asks(c)}
     \/ /\ "registry" \in unreadable
        /\ registryLock' = Nobody
        /\ End(c) /\ UNCHANGED refused
  /\ UNCHANGED <<intents, created, unreadable, runLock, answered>>

\* Fault: the run is made first, its intent never kept.
IntendNothing(c) ==
  /\ At(c, "intend")
  /\ \E run \in Unused : GoTo(c, "run", run)
  /\ registryLock' = Nobody
  /\ UNCHANGED <<intents, created, unreadable, runLock, answered, refused>>

\* The intent of a new run id.  The store itself refuses a key it knows with
\* another payload, and another run id is another payload.
Intend(c) ==
  /\ At(c, "intend")
  /\ IF Intent(c) = None
     THEN /\ \E run \in Unused :
               /\ intents' = [intents EXCEPT ![call[c].key] =
                                [request |-> call[c].request, run |-> run]]
               /\ GoTo(c, "run", run)
          /\ UNCHANGED refused
     ELSE End(c) /\ refused' = refused \cup {Asks(c)} /\ UNCHANGED intents
  /\ registryLock' = Nobody
  /\ UNCHANGED <<created, unreadable, runLock, answered>>

-----------------------------------------------------------------------------
(* The run *)

LockRun(c) ==
  /\ At(c, "run") /\ runLock[Run(c)] = Nobody
  /\ runLock' = [runLock EXCEPT ![Run(c)] = c]
  /\ Go(c, "create")
  /\ UNCHANGED <<intents, created, unreadable, registryLock, answered, refused>>

\* The run that is there answers its own key and request again, and no other.
Create(c) ==
  /\ At(c, "create")
  /\ LET run == Run(c)
         answer == [key |-> call[c].key, request |-> call[c].request, run |-> run]
         mine == created[run] = None \/ created[run] = Asks(c)
     IN  /\ created' = IF created[run] = None /\ run \notin unreadable
                       THEN [created EXCEPT ![run] = Asks(c)] ELSE created
         /\ answered' = IF mine /\ run \notin unreadable /\ run \in FreshRuns
                        THEN answered \cup {answer} ELSE answered
         /\ refused' = IF ~mine /\ run \notin unreadable /\ run \in FreshRuns
                       THEN refused \cup {Asks(c)} ELSE refused
         /\ runLock' = [runLock EXCEPT ![run] = Nobody]
  /\ End(c)
  /\ UNCHANGED <<intents, unreadable, registryLock>>

-----------------------------------------------------------------------------
(* Crashes: the locks are the process's and go with it. *)

Unlock(c) ==
  /\ registryLock' = IF registryLock = c THEN Nobody ELSE registryLock
  /\ runLock' = [r \in Runs |-> IF runLock[r] = c THEN Nobody ELSE runLock[r]]

Die(c) ==
  /\ ~At(c, "idle")
  /\ End(c) /\ Unlock(c)
  /\ UNCHANGED <<intents, created, unreadable, answered, refused>>

\* ... after the event is on the stream and before the head says so.
DieInAppend(c) ==
  /\ \/ At(c, "intend") /\ Intent(c) = None /\ unreadable' = unreadable \cup {"registry"}
     \/ At(c, "create") /\ created[Run(c)] = None /\ unreadable' = unreadable \cup {Run(c)}
  /\ End(c) /\ Unlock(c)
  /\ UNCHANGED <<intents, created, answered, refused>>

Next ==
  \E c \in Callers :
    \/ Ask(c) \/ LockRegistry(c) \/ FindIntent(c) \/ Intend(c)
    \/ LockRun(c) \/ Create(c)
    \/ Die(c) \/ DieInAppend(c)

Spec == Init /\ [][Next]_vars

-----------------------------------------------------------------------------
(* Properties *)

\* A key stands for one run and one request, whoever asks, however often, and
\* whichever of the calls died half way.
OneRunPerKey ==
  \A a, b \in answered : a.key = b.key => a = b

\* A caller is told that its key stands for another request only when it does: two
\* first callers of one key never spoil each other's (the comment in create).
RefusalsAreTrue ==
  \A ask \in refused :
    intents[ask.key] # None /\ intents[ask.key].request # ask.request

\* A run made for a caller that named none can be found again: the registry has
\* its key, before the run has its first event.
RunsAreRegistered ==
  \A r \in FreshRuns :
    created[r] # None =>
      intents[created[r].key] = [request |-> created[r].request, run |-> r]

\* A key and its run find each other, whoever dies between the registry and the run.
KeysNameRuns == OneRunPerKey /\ RunsAreRegistered
=============================================================================
