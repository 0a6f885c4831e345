------------------------- MODULE RunCreationProofs -------------------------
(***************************************************************************)
(* Theorems about RunCreation: what an idempotency key stands for, for any *)
(* number of callers, keys, requests and runs.                             *)
(***************************************************************************)
EXTENDS RunCreation, TLAPS

-----------------------------------------------------------------------------
(* Types *)

Intents == [request : Requests, run : FreshRuns]
Creations == [key : Keys, request : Requests]
Settling == [step : {"registry", "find", "intend"}, key : Keys, request : Requests,
             run : {None}]
Making == [step : {"run", "create"}, key : Keys, request : Requests, run : Runs]

TypeOK ==
  /\ intents \in [Keys -> Intents \cup {None}]
  /\ created \in [Runs -> Creations \cup {None}]
  /\ registryLock \in Callers \cup {Nobody}
  /\ call \in [Callers -> {Idle} \cup Settling \cup Making]
  /\ answered \subseteq [key : Keys, request : Requests, run : Runs]
  /\ refused \subseteq Creations

LEMMA InitTypes == Init => TypeOK
BY DEF Init, TypeOK

LEMMA Types == ASSUME TypeOK, [Next]_vars PROVE TypeOK'
<1> USE CreationAssumption DEF TypeOK, Runs
<1>1. ASSUME NEW c \in Callers, Ask(c) PROVE TypeOK'
  <2>1. PICK key \in Keys, request \in Requests, run \in NamedRuns \cup {None} :
          call' = [call EXCEPT ![c] =
                     [step |-> IF run = None THEN "registry" ELSE "run",
                      key |-> key, request |-> request, run |-> run]]
    BY <1>1 DEF Ask
  <2>2. [step |-> IF run = None THEN "registry" ELSE "run",
         key |-> key, request |-> request, run |-> run] \in Settling \cup Making
    BY DEF Settling, Making
  <2>3. QED
    BY <1>1, <2>1, <2>2 DEF Ask
<1>2. ASSUME NEW c \in Callers, LockRegistry(c) PROVE TypeOK'
  BY <1>2 DEF LockRegistry, Go, At, Idle, Settling, Making
<1>3. ASSUME NEW c \in Callers, FindIntent(c) PROVE TypeOK'
  <2>1. call[c] \in Settling
    BY <1>3 DEF FindIntent, At, Idle, Settling, Making
  <2>2. CASE Go(c, "intend") /\ UNCHANGED <<registryLock, refused>>
    BY <1>3, <2>1, <2>2 DEF FindIntent, Go, Settling
  <2>3. CASE /\ Intent(c) # None /\ registryLock' = Nobody
             /\ GoTo(c, "run", Intent(c).run) /\ UNCHANGED refused
    <3>1. Intent(c) \in Intents
      BY <2>1, <2>3 DEF Intent, Settling
    <3>2. [step |-> "run", key |-> call[c].key, request |-> call[c].request,
           run |-> Intent(c).run] \in Making
      BY <2>1, <3>1 DEF Settling, Making, Intents
    <3>3. QED
      BY <1>3, <2>3, <3>2 DEF FindIntent, GoTo
  <2>4. CASE /\ registryLock' = Nobody /\ End(c)
             /\ \/ refused' = refused \cup {Asks(c)}
                \/ UNCHANGED refused
    <3>1. Asks(c) \in Creations
      BY <2>1 DEF Asks, Settling, Creations
    <3>2. QED
      BY <1>3, <2>4, <3>1 DEF FindIntent, End
  <2>5. QED
    BY <1>3, <2>2, <2>3, <2>4 DEF FindIntent
<1>4. ASSUME NEW c \in Callers, Intend(c) PROVE TypeOK'
  <2>1. call[c] \in Settling
    BY <1>4 DEF Intend, At, Idle, Settling, Making
  <2>2. ASSUME NEW run \in Unused,
               intents' = [intents EXCEPT ![call[c].key] =
                             [request |-> call[c].request, run |-> run]],
               GoTo(c, "run", run), UNCHANGED refused
        PROVE  TypeOK'
    <3>1. run \in FreshRuns
      BY DEF Unused
    <3>2. [request |-> call[c].request, run |-> run] \in Intents
      BY <2>1, <3>1 DEF Settling, Intents
    <3>3. [step |-> "run", key |-> call[c].key, request |-> call[c].request,
           run |-> run] \in Making
      BY <2>1, <3>1 DEF Settling, Making
    <3>4. QED
      BY <1>4, <2>2, <3>2, <3>3 DEF Intend, GoTo
  <2>3. CASE End(c) /\ refused' = refused \cup {Asks(c)} /\ UNCHANGED intents
    <3>1. Asks(c) \in Creations
      BY <2>1 DEF Asks, Settling, Creations
    <3>2. QED
      BY <1>4, <2>3, <3>1 DEF Intend, End
  <2>4. QED
    BY <1>4, <2>2, <2>3 DEF Intend
<1>5. ASSUME NEW c \in Callers, LockRun(c) PROVE TypeOK'
  BY <1>5 DEF LockRun, Go, At, Idle, Settling, Making
<1>6. ASSUME NEW c \in Callers, Create(c) PROVE TypeOK'
  <2>1. call[c] \in Making
    BY <1>6 DEF Create, At, Idle, Settling, Making
  <2>2. Asks(c) \in Creations /\ Run(c) \in Runs
    BY <2>1 DEF Asks, Run, Making, Creations
  <2>3. [key |-> call[c].key, request |-> call[c].request, run |-> Run(c)]
          \in [key : Keys, request : Requests, run : Runs]
    BY <2>1 DEF Run, Making
  <2>4. created' \in [Runs -> Creations \cup {None}]
    BY <1>6, <2>2 DEF Create
  <2>5. answered' \subseteq [key : Keys, request : Requests, run : Runs]
    BY <1>6, <2>3 DEF Create
  <2>6. refused' \subseteq Creations
    BY <1>6, <2>2 DEF Create
  <2>7. QED
    BY <1>6, <2>4, <2>5, <2>6 DEF Create, End
<1>7. ASSUME NEW c \in Callers, Die(c) \/ DieInAppend(c) PROVE TypeOK'
  BY <1>7 DEF Die, DieInAppend, End, Unlock
<1>8. CASE UNCHANGED vars
  BY <1>8 DEF vars
<1>9. QED
  BY <1>1, <1>2, <1>3, <1>4, <1>5, <1>6, <1>7, <1>8 DEF Next

-----------------------------------------------------------------------------
(* What the registry's lock is for: whoever is about to write an intent is *)
(* alone, and there is none for its key.  An intent is never changed, so   *)
(* what a call has learned from it stays true.                             *)

\* Holders of the registry.
Alone ==
  \A c \in Callers :
    /\ At(c, "find") \/ At(c, "intend") => registryLock = c
    /\ At(c, "intend") => Intent(c) = None

\* A call on its way to a run of the registry's has the intent of its key.
Sent ==
  \A c \in Callers :
    (At(c, "run") \/ At(c, "create")) /\ Run(c) \in FreshRuns
      => Intent(c) = [request |-> call[c].request, run |-> Run(c)]

\* No two keys have one run.
Apart ==
  \A k, l \in Keys :
    intents[k] # None /\ intents[l] # None /\ intents[k].run = intents[l].run => k = l

\* Answers are what the intents say.
Answered ==
  \A a \in answered :
    a.run \in FreshRuns /\ intents[a.key] = [request |-> a.request, run |-> a.run]

IInv == TypeOK /\ Alone /\ Sent /\ Apart /\ RunsAreRegistered /\ Answered /\ RefusalsAreTrue

\* An intent that is there stays.
Kept == \A k \in Keys : intents[k] # None => intents'[k] = intents[k]

LEMMA Keeps ==
  ASSUME TypeOK, Alone, [Next]_vars PROVE Kept
<1>1. ASSUME NEW c \in Callers, Intend(c) PROVE Kept
  <2>1. call[c] \in Settling /\ Intent(c) = None
    BY <1>1 DEF Intend, Alone, At, TypeOK, Idle, Settling, Making
  <2>2. QED
    BY <1>1, <2>1 DEF Intend, Kept, Intent, TypeOK
<1>2. CASE UNCHANGED intents
  BY <1>2 DEF Kept
<1>3. QED
  BY <1>1, <1>2 DEF Next, vars, Ask, LockRegistry, FindIntent, LockRun, Create, Die,
                    DieInAppend

LEMMA Aloneness ==
  ASSUME TypeOK, Alone, [Next]_vars PROVE Alone'
<1> USE CreationAssumption DEF TypeOK, Alone, At, Intent
<1>1. ASSUME NEW c \in Callers, Ask(c) PROVE Alone'
  <2>1. call'[c].step \in {"registry", "run"}
    BY <1>1 DEF Ask
  <2>2. \A d \in Callers \ {c} : call'[d] = call[d]
    BY <1>1 DEF Ask
  <2>3. QED
    BY <1>1, <2>1, <2>2 DEF Ask
<1>2. ASSUME NEW c \in Callers, LockRegistry(c) PROVE Alone'
  <2>1. call'[c].step = "find"
    BY <1>2 DEF LockRegistry, Go, Idle, Settling, Making
  <2>2. \A d \in Callers \ {c} : call'[d] = call[d]
    BY <1>2 DEF LockRegistry, Go
  <2>3. \A d \in Callers : ~At(d, "find") /\ ~At(d, "intend")
    BY <1>2 DEF LockRegistry
  <2>4. QED
    BY <1>2, <2>1, <2>2, <2>3 DEF LockRegistry
<1>3. ASSUME NEW c \in Callers, FindIntent(c) PROVE Alone'
  <2>1. call[c] \in Settling /\ registryLock = c
    BY <1>3 DEF FindIntent, Idle, Settling, Making
  <2>2. \A d \in Callers \ {c} : call'[d] = call[d] /\ ~At(d, "find") /\ ~At(d, "intend")
    BY <1>3, <2>1 DEF FindIntent, Go, GoTo, End
  <2>3. CASE Go(c, "intend") /\ Intent(c) = None /\ UNCHANGED registryLock
    <3>1. call'[c].step = "intend" /\ call'[c].key = call[c].key
      BY <2>1, <2>3 DEF Go, Settling
    <3>2. QED
      BY <1>3, <2>1, <2>2, <2>3, <3>1 DEF FindIntent
  <2>4. CASE GoTo(c, "run", Intent(c).run) \/ End(c)
    <3>1. call'[c].step \in {"run", "idle"}
      BY <2>4 DEF GoTo, End, Idle
    <3>2. QED
      BY <2>2, <3>1
  <2>5. QED
    BY <1>3, <2>3, <2>4 DEF FindIntent
<1>4. ASSUME NEW c \in Callers, Intend(c) PROVE Alone'
  <2>1. registryLock = c
    BY <1>4 DEF Intend
  <2>2. \A d \in Callers \ {c} : call'[d] = call[d] /\ ~At(d, "find") /\ ~At(d, "intend")
    BY <1>4, <2>1 DEF Intend, GoTo, End
  <2>3. ASSUME NEW run, GoTo(c, "run", run) PROVE call'[c].step = "run"
    BY <2>3 DEF GoTo
  <2>4. End(c) => call'[c].step = "idle"
    BY DEF End, Idle
  <2>5. call'[c].step \in {"run", "idle"}
    BY <1>4, <2>3, <2>4 DEF Intend
  <2>6. QED
    BY <2>2, <2>5
<1>5. ASSUME NEW c \in Callers, LockRun(c) \/ Create(c) PROVE Alone'
  <2>1. \A d \in Callers \ {c} : call'[d] = call[d]
    BY <1>5 DEF LockRun, Create, Go, End
  <2>2. call'[c].step \in {"create", "idle"}
    BY <1>5 DEF LockRun, Create, Go, End, Idle, Settling, Making
  <2>3. UNCHANGED <<registryLock, intents>>
    BY <1>5 DEF LockRun, Create
  <2>4. QED
    BY <2>1, <2>2, <2>3
<1>6. ASSUME NEW c \in Callers, Die(c) \/ DieInAppend(c) PROVE Alone'
  <2>1. \A d \in Callers \ {c} : call'[d] = call[d]
    BY <1>6 DEF Die, DieInAppend, End
  <2>2. call'[c].step = "idle"
    BY <1>6 DEF Die, DieInAppend, End, Idle
  <2>3. UNCHANGED intents /\ (registryLock = c \/ registryLock' = registryLock)
    BY <1>6 DEF Die, DieInAppend, Unlock
  <2>4. QED
    BY <2>1, <2>2, <2>3
<1>7. CASE UNCHANGED vars
  BY <1>7 DEF vars
<1>8. QED
  BY <1>1, <1>2, <1>3, <1>4, <1>5, <1>6, <1>7 DEF Next

\* Only Intend adds to the intents, and only when the new run is nobody's.
LEMMA Apartness ==
  ASSUME IInv, [Next]_vars PROVE Apart'
<1> USE DEF IInv, Apart
<1>1. ASSUME NEW c \in Callers, Intend(c) PROVE Apart'
  <2>1. call[c] \in Settling /\ Intent(c) = None
    BY <1>1 DEF Intend, Alone, At, TypeOK, Idle, Settling, Making
  <2>2. PICK run \in Unused :
          intents' = [intents EXCEPT ![call[c].key] =
                        [request |-> call[c].request, run |-> run]]
    BY <1>1, <2>1 DEF Intend
  <2>3. \A k \in Keys : intents[k] = None \/ intents[k].run # run
    BY DEF Unused
  <2>4. QED
    BY <2>1, <2>2, <2>3 DEF TypeOK, Settling
<1>2. CASE UNCHANGED intents
  BY <1>2
<1>3. QED
  BY <1>1, <1>2 DEF Next, vars, Ask, LockRegistry, FindIntent, LockRun, Create, Die,
                    DieInAppend

LEMMA Sending ==
  ASSUME IInv, [Next]_vars PROVE Sent'
<1> USE CreationAssumption DEF Sent, At, Intent, Run
<1>0. TypeOK /\ Sent /\ Kept
  BY Keeps DEF IInv
\* Whoever does not move keeps what it knows.
<1>1. ASSUME NEW d \in Callers, call'[d] = call[d],
             At(d, "run") \/ At(d, "create"), Run(d) \in FreshRuns
      PROVE  Intent(d)' = [request |-> call[d].request, run |-> Run(d)]
  <2>1. call[d] \in Making
    BY <1>0, <1>1 DEF TypeOK, Idle, Settling, Making
  <2>2. Intent(d) = [request |-> call[d].request, run |-> Run(d)]
    BY <1>0, <1>1
  <2>3. Intent(d) # None
    BY <1>1, <2>1, <2>2 DEF Making
  <2>4. QED
    BY <1>0, <1>1, <2>1, <2>2, <2>3 DEF Kept, Making
<1>2. ASSUME NEW c \in Callers, \A d \in Callers \ {c} : call'[d] = call[d],
             call'[c].step \in {"run", "create"} /\ call'[c].run \in FreshRuns
               => intents'[call'[c].key] = [request |-> call'[c].request, run |-> call'[c].run]
      PROVE  Sent'
  BY <1>1, <1>2
<1>3. ASSUME NEW c \in Callers, Ask(c) PROVE Sent'
  <2>1. PICK key \in Keys, request \in Requests, run \in NamedRuns \cup {None} :
          call' = [call EXCEPT ![c] =
                     [step |-> IF run = None THEN "registry" ELSE "run",
                      key |-> key, request |-> request, run |-> run]]
    BY <1>3 DEF Ask
  <2>2. call'[c].run \notin FreshRuns
    BY <1>0, <2>1 DEF TypeOK
  <2>3. \A d \in Callers \ {c} : call'[d] = call[d]
    BY <2>1
  <2>4. QED
    BY <1>2, <2>2, <2>3
<1>4. ASSUME NEW c \in Callers, LockRegistry(c) PROVE Sent'
  <2>1. call'[c].step = "find" /\ \A d \in Callers \ {c} : call'[d] = call[d]
    BY <1>0, <1>4 DEF LockRegistry, Go, TypeOK, Idle, Settling, Making
  <2>2. QED
    BY <1>2, <2>1
<1>5. ASSUME NEW c \in Callers, FindIntent(c) PROVE Sent'
  <2>1. call[c] \in Settling
    BY <1>0, <1>5 DEF FindIntent, TypeOK, Idle, Settling, Making
  <2>2. CASE Go(c, "intend") \/ End(c)
    <3>1. call'[c].step \in {"intend", "idle"} /\ \A d \in Callers \ {c} : call'[d] = call[d]
      BY <1>0, <2>1, <2>2 DEF Go, End, TypeOK, Idle, Settling
    <3>2. QED
      BY <1>2, <3>1
  <2>3. CASE Intent(c) # None /\ Intent(c).request = call[c].request
             /\ GoTo(c, "run", Intent(c).run)
    <3>1. Intent(c) \in Intents
      BY <1>0, <2>1, <2>3 DEF TypeOK, Settling
    <3>2. Intent(c) = [request |-> call[c].request, run |-> Intent(c).run]
      BY <2>3, <3>1 DEF Intents
    <3>3. call'[c] = [step |-> "run", key |-> call[c].key, request |-> call[c].request,
                      run |-> Intent(c).run]
      BY <1>0, <2>3 DEF GoTo, TypeOK
    <3>4. \A d \in Callers \ {c} : call'[d] = call[d]
      BY <2>3 DEF GoTo
    <3>5. intents' = intents
      BY <1>5 DEF FindIntent
    <3>6. /\ call'[c].key = call[c].key /\ call'[c].request = call[c].request
          /\ call'[c].run = Intent(c).run
      BY <3>3
    <3>7. intents'[call'[c].key] = [request |-> call'[c].request, run |-> call'[c].run]
      BY <3>2, <3>5, <3>6
    <3>8. QED
      BY <1>2, <3>4, <3>7
  <2>4. QED
    BY <1>5, <2>2, <2>3 DEF FindIntent
<1>6. ASSUME NEW c \in Callers, Intend(c) PROVE Sent'
  <2>1. call[c] \in Settling /\ Intent(c) = None
    BY <1>6 DEF Intend, Alone, At, IInv, TypeOK, Idle, Settling, Making
  <2>2. PICK run \in Unused :
          /\ intents' = [intents EXCEPT ![call[c].key] =
                           [request |-> call[c].request, run |-> run]]
          /\ GoTo(c, "run", run)
    BY <1>6, <2>1 DEF Intend
  <2>3. call'[c] = [step |-> "run", key |-> call[c].key, request |-> call[c].request,
                    run |-> run]
    BY <1>0, <2>2 DEF GoTo, TypeOK
  <2>4. \A d \in Callers \ {c} : call'[d] = call[d]
    BY <2>2 DEF GoTo
  <2>5. intents'[call[c].key] = [request |-> call[c].request, run |-> run]
    BY <1>0, <2>1, <2>2 DEF TypeOK, Settling
  <2>6. call'[c].key = call[c].key /\ call'[c].request = call[c].request /\ call'[c].run = run
    BY <2>3
  <2>7. intents'[call'[c].key] = [request |-> call'[c].request, run |-> call'[c].run]
    BY <2>5, <2>6
  <2>8. QED
    BY <1>2, <2>4, <2>7
<1>7. ASSUME NEW c \in Callers, LockRun(c) PROVE Sent'
  <2>1. call[c] \in Making
    BY <1>0, <1>7 DEF LockRun, TypeOK, Idle, Settling, Making
  <2>2. /\ call'[c].key = call[c].key /\ call'[c].request = call[c].request
        /\ call'[c].run = call[c].run
        /\ \A d \in Callers \ {c} : call'[d] = call[d]
    BY <1>0, <1>7, <2>1 DEF LockRun, Go, TypeOK, Making
  <2>3. At(c, "run") /\ intents' = intents
    BY <1>7 DEF LockRun
  <2>4. QED
    BY <1>0, <1>2, <2>2, <2>3
<1>8. ASSUME NEW c \in Callers, Create(c) \/ Die(c) \/ DieInAppend(c) PROVE Sent'
  <2>1. call'[c].step = "idle" /\ \A d \in Callers \ {c} : call'[d] = call[d]
    BY <1>0, <1>8 DEF Create, Die, DieInAppend, End, Idle, TypeOK
  <2>2. QED
    BY <1>2, <2>1
<1>9. CASE UNCHANGED vars
  BY <1>0, <1>9 DEF vars
<1>10. QED
  BY <1>3, <1>4, <1>5, <1>6, <1>7, <1>8, <1>9 DEF Next

\* The first event of a registry's run is of the key whose intent led to it.
LEMMA Registering ==
  ASSUME IInv, [Next]_vars PROVE RunsAreRegistered'
<1> USE CreationAssumption DEF RunsAreRegistered
<1>0. TypeOK /\ RunsAreRegistered /\ Kept
  BY Keeps DEF IInv
<1>1. ASSUME NEW r \in FreshRuns, created'[r] = created[r], created[r] # None
      PROVE  intents'[created[r].key] = [request |-> created[r].request, run |-> r]
  <2>1. created[r] \in Creations
    BY <1>0, <1>1 DEF TypeOK, Runs
  <2>2. intents[created[r].key] = [request |-> created[r].request, run |-> r]
    BY <1>0, <1>1
  <2>3. intents[created[r].key] # None
    BY <2>1, <2>2 DEF Creations
  <2>4. QED
    BY <1>0, <2>1, <2>2, <2>3 DEF Kept, Creations
<1>2. ASSUME NEW c \in Callers, Create(c) PROVE RunsAreRegistered'
  <2>1. call[c] \in Making /\ intents' = intents
    BY <1>0, <1>2 DEF Create, At, TypeOK, Idle, Settling, Making
  <2>2. \/ created' = created
        \/ created' = [created EXCEPT ![Run(c)] = Asks(c)]
    BY <1>2 DEF Create
  <2>3. CASE created' = [created EXCEPT ![Run(c)] = Asks(c)]
    <3>1. \A r \in FreshRuns \ {Run(c)} : created'[r] = created[r]
      BY <1>0, <2>3 DEF TypeOK, Runs
    <3>2. CASE Run(c) \in FreshRuns
      <4>1. intents[call[c].key] = [request |-> call[c].request, run |-> Run(c)]
        BY <1>2, <3>2 DEF IInv, Sent, Create, At, Intent
      <4>2. created'[Run(c)] = Asks(c)
        BY <1>0, <2>3, <3>2 DEF TypeOK, Runs
      <4>3. created'[Run(c)].key = call[c].key /\ created'[Run(c)].request = call[c].request
        BY <4>2 DEF Asks
      <4>4. intents'[created'[Run(c)].key]
              = [request |-> created'[Run(c)].request, run |-> Run(c)]
        BY <2>1, <4>1, <4>3
      <4>5. QED
        BY <1>1, <3>1, <4>4
    <3>3. QED
      BY <1>1, <3>1, <3>2
  <2>4. QED
    BY <1>1, <2>2, <2>3
<1>3. CASE UNCHANGED created
  BY <1>1, <1>3
<1>4. QED
  BY <1>2, <1>3 DEF Next, vars, Ask, LockRegistry, FindIntent, Intend, LockRun, Die,
                    DieInAppend

LEMMA Answering ==
  ASSUME IInv, [Next]_vars PROVE Answered'
<1> USE CreationAssumption DEF Answered
<1>0. TypeOK /\ Answered /\ Kept
  BY Keeps DEF IInv
<1>1. ASSUME NEW a \in answered
      PROVE  a.run \in FreshRuns /\ intents'[a.key] = [request |-> a.request, run |-> a.run]
  <2>1. a \in [key : Keys, request : Requests, run : Runs] /\ a.run \in FreshRuns
    BY <1>0 DEF TypeOK
  <2>2. intents[a.key] = [request |-> a.request, run |-> a.run]
    BY <1>0
  <2>3. intents[a.key] # None
    BY <2>1, <2>2
  <2>4. QED
    BY <1>0, <2>1, <2>2, <2>3 DEF Kept
<1>2. ASSUME NEW c \in Callers, Create(c) PROVE Answered'
  <2>1. call[c] \in Making /\ intents' = intents
    BY <1>0, <1>2 DEF Create, At, TypeOK, Idle, Settling, Making
  <2>2. CASE /\ Run(c) \in FreshRuns
             /\ answered' = answered \cup
                  {[key |-> call[c].key, request |-> call[c].request, run |-> Run(c)]}
    <3>1. intents[call[c].key] = [request |-> call[c].request, run |-> Run(c)]
      BY <1>2, <2>2 DEF IInv, Sent, Create, At, Intent
    <3>2. ASSUME NEW a, a = [key |-> call[c].key, request |-> call[c].request,
                             run |-> Run(c)]
          PROVE  a.run \in FreshRuns
                 /\ intents'[a.key] = [request |-> a.request, run |-> a.run]
      <4>1. a.key = call[c].key /\ a.request = call[c].request /\ a.run = Run(c)
        BY <3>2
      <4>2. QED
        BY <2>1, <2>2, <3>1, <4>1
    <3>3. QED
      BY <1>1, <2>2, <3>2
  <2>3. CASE answered' = answered
    BY <1>1, <2>3
  <2>4. QED
    BY <1>2, <2>2, <2>3 DEF Create
<1>3. CASE UNCHANGED answered
  BY <1>1, <1>3
<1>4. QED
  BY <1>2, <1>3 DEF Next, vars, Ask, LockRegistry, FindIntent, Intend, LockRun, Die,
                    DieInAppend

\* What is refused at the run itself is always somebody's who named the run: a call
\* sent by the registry finds its own event there, or none.
LEMMA OwnRun ==
  ASSUME IInv, NEW c \in Callers, At(c, "create"), Run(c) \in FreshRuns,
         created[Run(c)] # None
  PROVE  created[Run(c)] = Asks(c)
<1> USE CreationAssumption
<1>1. call[c] \in Making
  BY DEF IInv, TypeOK, At, Idle, Settling, Making
<1>2. created[Run(c)] \in Creations
  BY DEF IInv, TypeOK, Runs
<1>3. intents[call[c].key] = [request |-> call[c].request, run |-> Run(c)]
  BY DEF IInv, Sent, Intent
<1>4. intents[created[Run(c)].key] = [request |-> created[Run(c)].request, run |-> Run(c)]
  BY DEF IInv, RunsAreRegistered
<1>5. intents[call[c].key] # None /\ intents[created[Run(c)].key] # None
  BY <1>1, <1>2, <1>3, <1>4 DEF Making, Creations
<1>6. call[c].key = created[Run(c)].key
  BY <1>1, <1>2, <1>3, <1>4, <1>5 DEF IInv, Apart, Making, Creations
<1>7. call[c].request = created[Run(c)].request
  BY <1>3, <1>4, <1>6
<1>8. QED
  BY <1>2, <1>6, <1>7 DEF Asks, Creations

LEMMA Refusing ==
  ASSUME IInv, [Next]_vars PROVE RefusalsAreTrue'
<1> USE DEF RefusalsAreTrue
<1>0. TypeOK /\ RefusalsAreTrue /\ Kept
  BY Keeps DEF IInv
<1>1. ASSUME NEW ask \in refused
      PROVE  intents'[ask.key] # None /\ intents'[ask.key].request # ask.request
  BY <1>0, <1>1 DEF TypeOK, Creations, Kept
<1>2. ASSUME NEW c \in Callers, FindIntent(c) PROVE RefusalsAreTrue'
  <2>1. CASE refused' = refused
    BY <1>1, <2>1
  <2>2. CASE /\ Intent(c) # None /\ Intent(c).request # call[c].request
             /\ refused' = refused \cup {Asks(c)}
    <3>1. Asks(c).key = call[c].key /\ Asks(c).request = call[c].request
      BY DEF Asks
    <3>2. intents' = intents
      BY <1>2 DEF FindIntent
    <3>3. QED
      BY <1>1, <2>2, <3>1, <3>2 DEF Intent
  <2>3. QED
    BY <1>2, <2>1, <2>2 DEF FindIntent
<1>3. ASSUME NEW c \in Callers, Intend(c) PROVE RefusalsAreTrue'
  <2>1. refused' = refused
    BY <1>3 DEF Intend, IInv, Alone
  <2>2. QED
    BY <1>1, <2>1
<1>4. ASSUME NEW c \in Callers, Create(c) PROVE RefusalsAreTrue'
  <2>1. refused' = refused
    BY <1>4, OwnRun DEF Create
  <2>2. QED
    BY <1>1, <2>1
<1>5. CASE UNCHANGED refused
  BY <1>1, <1>5
<1>6. QED
  BY <1>2, <1>3, <1>4, <1>5 DEF Next, vars, Ask, LockRegistry, LockRun, Die, DieInAppend

-----------------------------------------------------------------------------
(* The theorems *)

LEMMA Start == Init => IInv
<1> SUFFICES ASSUME Init PROVE IInv
  OBVIOUS
<1>1. TypeOK
  BY InitTypes
<1>2. Alone /\ Sent
  BY DEF Init, Alone, Sent, At, Idle
<1>3. Apart /\ RunsAreRegistered /\ Answered /\ RefusalsAreTrue
  BY DEF Init, Apart, RunsAreRegistered, Answered, RefusalsAreTrue, Runs
<1>4. QED
  BY <1>1, <1>2, <1>3 DEF IInv

LEMMA Invariance == Spec => []IInv
<1>1. IInv /\ [Next]_vars => IInv'
  BY Types, Aloneness, Apartness, Sending, Registering, Answering, Refusing DEF IInv
<1>2. QED
  BY Start, <1>1, PTL DEF Spec

\* A key and its run find each other, whoever dies between the registry and the run
\* (create): the keys of answers, and the intents of runs.
THEOREM KeysAlwaysNameRuns == Spec => []KeysNameRuns
<1>1. IInv => OneRunPerKey
  <2> SUFFICES ASSUME IInv, NEW a \in answered, NEW b \in answered, a.key = b.key
               PROVE  a = b
    BY DEF OneRunPerKey
  <2>1. /\ a \in [key : Keys, request : Requests, run : Runs]
        /\ b \in [key : Keys, request : Requests, run : Runs]
    BY DEF IInv, TypeOK
  <2>2. [request |-> a.request, run |-> a.run] = [request |-> b.request, run |-> b.run]
    BY DEF IInv, Answered
  <2>3. a.request = b.request /\ a.run = b.run
    BY <2>2
  <2>4. QED
    BY <2>1, <2>3
<1>2. IInv => KeysNameRuns
  BY <1>1 DEF IInv, KeysNameRuns
<1>3. QED
  BY Invariance, <1>2, PTL

\* A caller is told that its key stands for another request only when it does, for any
\* number of first callers that race.
THEOREM RefusalsAreAlwaysTrue == Spec => []RefusalsAreTrue
<1>1. IInv => RefusalsAreTrue
  BY DEF IInv
<1>2. QED
  BY Invariance, <1>1, PTL
=============================================================================
