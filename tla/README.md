# Verification of the SIPS runtime

TLA+ models of the SIPS graph runtime (`src/scripts/sips_runtime/`) and of the
parts around it that keep state, the TLC runs that check them, and the TLAPS
proofs of what holds for every plan, every limit and any number of actors.

Run a model with `tlc -config X.cfg M`, check the proofs with `tlapm` on each of
`RunControllerProofs`, `TaskGraphAlgorithmsProofs`, `EventStoreProofs`,
`RunReceiptsProofs`, `RunCreationProofs`, `RunRecoveryProofs`,
`CampaignFleetProofs` and `MemoryFabricProofs`. `PROJECT.json` lists the runs,
the faults each property was shown to catch, the source lines behind every
definition, the hazards, the findings and the theorems.

## 1. The system

SIPS turns a request into a *run*: a plan of tasks with AND dependencies, worked
on by workers that lease tasks, send heartbeats and report results. Nothing runs
on its own: every operation is a call (CLI, MCP server, hook, dashboard) in some
process, and all processes meet in the files of a run directory.

| Component | State | Operations | Meets the others through |
|---|---|---|---|
| Event store (`events.py`) | `events.jsonl` (hash chain), `head.json`, `.events.lock` | open, events/replay, append | the files; a file lock per operation |
| Run controller (`controller.py`) | none of its own: `_reduce` rebuilds run, tasks, leases from the events | create, submit, lease, advance, cancel, promote, readers | the event store; `.transition.lock` around each mutator |
| Create registry (`controller.py` `create`) | an event stream of intents | find or append an intent | its own lock, then the run's |
| Task DAG (`dag.py`) | none (pure) | compile, ready, critical path | called by create and lease |
| Budget (`budget.py`) | rebuilt for each call from the events | reserve, release a tranche | called by lease and create |
| Receipts (`controller.py`) | `receipts/*.json`, `slices/<task>/attempt-*.json` | written after each result and when the run closes | written by the call that appended; read by promote and the board |
| Campaign fleet (`campaign_fleet.py`) | one event stream per campaign, `projection.json` | create, attach, set status, archive, reopen, close | the event store, *without* a transition lock |
| Recovery (`recovery.py`) | none; a forked run | audit a run, fork it with its provenance | reads the source's files unlocked; the fork's transition lock |
| Promotion (`controller.py` `promote`) | candidate and receipt events, memory records | propose, activate | the run's transition lock; the memory store |
| Memory store and sidecar (`memory_fabric_jsonl.py`, `memory_fabric_graph_index.py`) | `memory.jsonl`; a SQLite index with the fingerprint of what it indexed | append, refresh, search | the writer lock; the sidecar's lock; unlocked reads |
| Snapshots, fan-in, board | snapshot files | rebuild, validate a result, show | the event store and the controller |
| Session bridge (`sips_session_bridge.py`) | a handle per session in memory | start, beat, close, finish | one-task runs of the controller |
| Goal state, fan-out (`goal_state.py`, `fan_out.py`) | one JSON file each | load, change, save | the file, without a lock |
| Memory Fabric, the rest (`memory_fabric_*.py`) | none | audits, scoring, reports | one read of the store |
| Adapter, hooks, monitor, dashboard, MCP servers | append-only logs | callbacks and requests | everything above |

What is hard here: workers that outlive their leases; heartbeats at the ceiling;
processes that die between two file operations; callers that repeat a call
whose answer they lost; decisions made on a stream that has grown since; plans
in which one failure closes a long tail of tasks; and budgets that count
abandoned attempts; decisions on files that others tear, rewrite or are still
writing. `PROJECT.json` lists each of these with its source line and
the properties that cover it, and says of the others why none does.

What makes each part correct:

- *controller*: a result counts only under the newest token of an open task;
  leases end; dependency order, path exclusion, concurrency, retries and budget
  survive expiry and reissue; a closed run is quiet and stays closed; an open
  one can go on or is stuck for a reason that can be named.
- *event store*: the head trails the events by at most the event being written;
  what was answered stays on disk; a key enters once; a broken store is closed.
- *create*: one key, one run, one request, whoever races or dies.
- *receipts*: files follow the attempt that reported and all get there if callers
  keep asking; readers of the graph receipt get one and the same, true of the run.
- *campaigns*: what a caller does who names no revision ahead of what its call
  read is a move the tables allow, although the decision and the append are apart.
- *recovery*: an audit that finds nothing is true of a moment of the source; a
  fork has its provenance once, second, and as its caller was told.
- *promotion*: a receipt is earned; a record is written once; every activation
  that was asked for is settled, unless the store is left undecodable for good.
- *memory sidecar*: a reader gets what a rebuild would give it.
- *DAG*: exactly the acyclic plans are taken; the loops compute the closures.
- *session bridge*: a session that keeps working keeps its lease; hooks that
  race send few beats; a session that ends is on record.

## 2. Modules

| Module | Models | Over |
|---|---|---|
| `TaskGraph` | a plan, readiness, the required closure and the blocked descendants, each as the least set closed under its step | |
| `TaskGraphAlgorithms` | the loops of `dag.py` and the two worklists of the controller, an iteration a step | checks `TaskGraph` |
| `TrancheBudget` | tranche limits with Python's rounding, the release loop of `lease` | |
| `RunController` | the transitions of one run, leases against a clock | `TaskGraph`, `TrancheBudget` |
| `FencedWork` | abstract: work under growing tokens, only the newest grant reports | implemented by `RunController` |
| `EventStore` | the files of a run directory, the lock, crashes | |
| `RunLog` | abstract: a log of unique keys that only grows | implemented by `EventStore` |
| `RunReceipts` | receipts, slices and the graph receipt, repeated calls, unlocked readers | the order of events given by `RunController` |
| `RunCreation` | `create`, its registry, two locks, crashes | streams as in `EventStore` |
| `CampaignFleet` | a campaign and its children, clients that read, decide and append | a stream as in `EventStore` |
| `SessionBridge` | a Hermes session: the handle, start, beats of racing hooks, close, finish, processes that die | `RunController` with one task |
| `RunRecovery` | `audit_run` and `recover_run`: a moving, dying, damaged source, a fork in two appends | streams as in `EventStore` |
| `MemoryStore` | the JSONL store: appends under the writer lock, torn tails, others' notes and rewritings | |
| `Promotion` | `promote`: candidate, record, receipt, with deaths between them | `MemoryStore` |
| `GraphIndex` | a refresh of the sidecar: check, scan, commit | `MemoryStore` |
| `MemoryFabric` | runs that promote and a sidecar that follows, over one store | `Promotion`, `GraphIndex` |
| `RunControllerProofs` | the theorems | `RunController`, `SessionBridge` |
| `TaskGraphAlgorithmsProofs`, `EventStoreProofs`, `RunReceiptsProofs`, `RunCreationProofs`, `RunRecoveryProofs`, `CampaignFleetProofs`, `MemoryFabricProofs` | the theorems | the module of that name |

### State and actions

`RunController` has one action for each accepted call; a rejected call changes
nothing and has no step. `taskStatus`, `lease`, `attempts`, `fence` and
`runStatus` are the fields of the reduced state. `lastToken`, `charged` and
`released` are what `_next_fencing_token`, `_charged_resources` and
`_released_tranche_count` compute from the stream; `settledToken` remembers the
token of the latest result event. A mutator runs under the transition lock from
its first read to its append, so it is one step. Time is relative to each lease
(`left`, `age`), which keeps the state space finite without a bound on the
clock. Any owner may present any token issued so far. `_block_descendants` and
`_update_run_status` are part of the event's reduction and therefore of the
action (`Settle`), as is the release of all leases of closed tasks.

`EventStore` splits what the code does not do at once: the unlocked look at
`head.json`, the look under the lock, the fsync of the line, the replacement of
the head. A process dies between any two; the kernel drops its lock. The digest
chain makes a digest stand for the whole prefix, so revision and hash are one
number. The store never repairs: a stream and head that disagree refuse every
read and append, and recovery forks a new run.

`RunReceipts` takes the order of events from the controller (a lease may be
reissued, the latest lease reports) and adds the writes that follow an append,
one per step, any of which may be the last of its process, and calls repeated
under their key in any order. The graph receipt is the revision it names (`graph`)
and the outcomes it holds (`content`): for each task the event that decided what
became of it, which promotions, the only events of a closed run, do not change.
A reader takes no lock: it finds the file, and then has it rebuilt from the stream
as it is by then and compared with the file as it is by then (`ReadReceipt`,
`AnswerReader`). Readers are a set of revisions found, since any number may stand
between the two steps. The provisional answer while there is no file is left out.

`RunCreation` has the registry's stream and the runs' streams as maps from a key
to an intent and from a run to its first event, the two locks, and the code
positions of each call. `CampaignFleet` has the stream itself, and for each
client the event it has decided on with the revision it will name. That is the one
its call read or any its caller gave: the code compares a given one with nothing
but the stream at the append, so a call that read revision R may name R+1 and be
accepted behind somebody else's event. `ahead` marks such events, as history.
`reopen_child` alone drops what it is given.

`SessionBridge` takes the controller's actions as they are, for one task and one
owner, and conjoins them with what the bridge does around them. `start` makes
four calls and is four steps; `heartbeat` looks at the throttle, reads the run
and appends in three steps with nothing over them, so hooks of several threads
interleave, and `stale` names those whose read is behind. Each beat is keyed by
its number, so `taken` (the numbers on the stream) decides whether a beat renews
the lease or is only answered, also for a process that starts over. The handle
dies with its process; the run does not. A call takes less than a tick (30 s
where the throttle is 60 s), and the hooks that start and end a session do not
overlap with each other.

`RunRecovery` has the source as three numbers: how many lines verify, how many
there are from the first that does not, and what the head says. Its writers
append as in `EventStore` and die there; the disk or an editor takes lines or the
head. The audit reads the stream and then the head, without the source's lock,
and classifies what it met in the order of the code (`Reason`). A line that lacks
only its newline counts as begun. The fork is a run like any other: from its
first event on, workers may append under its lock whenever a recovery does not
hold it. `sound` and `interrupted` are history.

`MemoryFabric` composes three modules. `MemoryStore` gives the file, with a line
half written (`torn`) while its writer is in `append_record` or after it died
there; `append_record` refuses a tail without a newline. Lines are written in
UTF-8 beyond ASCII, and a writer that dies may leave half a character (`cut`), also
behind which somebody ends the line later. The audit of a lesson's references
catches lines that do not parse and not bytes that do not decode: such a store
raises `UnicodeDecodeError` out of `promote` before the candidate is looked up
(`AuditRaises`), where the later looks at the store catch everything. A call that
raises has done nothing and is no step. `Promotion` has the code
positions of `promote` after its candidate is journalled: the look at the store,
the write, the look after it, the look after an error, the receipt; each position
is a step, the run's transition lock is held throughout, and the process may die
at each. A run's record of a lesson has one digest, which stays the same once
the run is terminal, so it is one value (`RecordOf`). The audits of evidence,
usage and conflicts may come out either way on any call. `GraphIndex` has the
three unlocked reads of a refresh (`Check`, `Scan`, `Commit`) under the sidecar's
lock; the fingerprint is the indexed prefix itself, which the code hashes; its second
hash, of the first 4 KiB, is left out, since whatever it tells apart beyond the
indexed lines only makes the code rebuild more often. The count of rewritings
stands for the file's mtime.
A promotion and a refresh do not influence each other: a refresh writes nothing
a promotion reads, and to a refresh a promotion is one more append, which notes
are too. So a behaviour has one or the other (`side`), next to the notes, deaths
and rewritings that concern both.

`TaskGraphAlgorithms` starts from every graph on its tasks, self loops and
cycles included.

## 3. Runs

Passing runs:

| Run | Instance | Question |
|---|---|---|
| `run_join` | four tasks: an AND join with a tail, a retry, two workers, `block_descendants`, with fairness | are fencing, dependency order, descendants and budget kept, do leases end, and does a run close unless attempts or budget are used up? |
| `run_wide` | three tasks side by side and one behind, one optional, one conflict, concurrency 2, `continue` | do expiry and reissue keep exclusion, concurrency and result order; does a closed run leave nothing in a worker's hands, does an open one have work; does the run implement `FencedWork`? |
| `task_graph` | every graph on four tasks | do the loops compute what `TaskGraph` says, and end? |
| `event_store` | two processes, two keys, three events | do crashes and races leave a store that tells the truth, and does it implement `RunLog`? |
| `run_receipts` | two tasks, one retry, any repetition, with fairness | are the slices those of the right attempts, is everything filed in the end, and do all readers of the graph receipt get the same one, still true? |
| `run_creation` | two callers, two keys, two requests | does a key stand for one run, is every run found by its key, and is nobody refused because of a race? |
| `recovery` | two callers, one fork that is fresh or taken, a source of up to two lines | is a sound audit true of some moment, and does a fork have one provenance, in its place, the one that was answered? |
| `memory` | one run, two lessons of which one refers to the other, two keys, notes by others, one rewriting, one death, with fairness | are receipts earned and records written once, is every intent settled if the store does not stay undecodable, and does the sidecar show what a rebuild would? |
| `campaign_fleet` | two clients who name no revision or any, two children, five events | among callers who name no revision ahead of what they read: is what they do legal, do they close the campaign quiet? among all: does each reopening follow the incarnation it saw? |
| `session` | one session, two hooks, a ceiling of eight ticks | does a working session keep its lease, and how many beats can racing hooks send? |

Runs that TLC finds violated, each a disagreement of the code with what the
repository says of it (details and quotations in `PROJECT.json`):

- `run_receipts_repeat`: an identical result repeated after the graph receipt
  was written for another event is refused, although a repetition is to be
  idempotent.
- `session_finish`: a session finished past the attempt ceiling gets neither a
  result nor the documented second attempt; its run stays open.

Read off the code without a run; each is a few lines, or appends nothing and so
is no step of a model:

- `archive_child` under its default key answers a child that was archived,
  reopened and ended again from its first archive, and changes nothing
  (`campaign_fleet.py:581-590`), where `Graph-Theory/operations.md:72-74` has it
  removed from the foreground.
- `create` of a campaign makes `head.json` before its event. One that dies in
  between makes the campaign id unusable, and a repetition in between is refused
  (`campaign_fleet.py:478-492`), where `Graph-Theory/contracts.md:52-53` has a
  repetition replay the projection.
- `reopen_child` drops the revision its caller names (`campaign_fleet.py:632`).
- The other mutators of a campaign pass a given revision on unchecked
  (`campaign_fleet.py:544`, `575`, `598`, `654`), and the store compares it with the
  stream at the append (`events.py:352`). A caller who names R+1 to a call that
  reads R is accepted if another's event lands in between, with a decision made on
  the stream before: a child just reopened is archived while open, where
  `Graph-Theory/contracts.md:48` has archive "allowed only after a terminal child
  outcome", and a campaign is closed with a child just attached. `HistoryIsLegal`
  and `ClosesQuiet` leave these events out; without the exception TLC finds the
  second in the instance of `campaign_fleet`.
- A memory store that ends, or was mended, within a UTF-8 character makes the audit
  of references raise (`controller.py:2033-2048` catches `OSError` and
  `JSONDecodeError`, and is called at `2117`). An activation whose lesson has
  references then raises on every repetition and stays without a receipt, which
  the comment at `controller.py:2355-2359` means to prevent, until somebody repairs
  the file. `IntentsAreSettled` says that nothing else keeps an intent from its
  receipt; without that exception TLC finds this one.
- A promotion that meets another appender's half-written line at both of its
  looks after the write is journalled as failed although its record is active
  (`controller.py:2335-2350`). A failed receipt is therefore no proof of absence,
  and `ReceiptsAreEarned` says nothing of it.
- A store rewritten between the scan of a refresh and its reading of the metadata
  is not noticed before its next change (`memory_fabric_graph_index.py:543`),
  where `Graph-Theory/architecture.md:72` has a mutation in place cause a rebuild.
  `ReadersSeeTheStore` leaves out the refreshes this happened to.
- The bridge's beats are throttled per check and not per beat, so racing hooks
  may send as many as there are hooks (`BurstsAreBounded`), where the docstring
  promises one.

### Bounds

Lease TTL 2 and attempt ceiling 3 ticks put one heartbeat below the ceiling and
one at it. `HardLimit` 6 gives tranches 2, 4, 6, so the join needs all three and
a retry can exhaust them. Retry limits of 1 and 0 let an attempt end by retry,
by silence and for good. Two workers are enough for a stale and a current
holder; tokens of all attempts are presented by both. Four tasks hold an AND
join with a tail, which is the shortest plan where a blocked task is not a child
of the failed one. The event log of three entries has a creation, a keyed event
and a conflicting one. Five campaign events are attach, end, archive, reopen and
one more; a revision a caller may name is any from the one before what its call
reads up to the last an append can expect, which stand for all others. The
recovery's source needs a creation and one line to be torn, lost or behind the
head (`MaxLines` 2), its fork a creation, a provenance and a worker's event, in
any order (`MaxEvents` 3). In the memory run, three events before a candidate
(`MaxEvents`) leave room for the end of the run and for an event between a
candidate and its receipt; two notes (`MaxNotes`) make a duplicate and an
update; one rewriting (`MaxEdits`) and one death (`MaxDeaths`) may come at every
position of a call. In the session a lease lasts three ticks, the throttle two
and the ceiling eight, the ratios of 90, 60 and 900 s with the ceiling cut
short: it takes three beats to reach it. Two hooks are the fewest that race; the
cap of beats (`_MAX_BEATS`) is not reached below the ceiling, in the code as in
the instance (`EnoughBeats`, see section 4). Every bounded variable is bounded
by a constant of its module; the clock, the tokens and the attempts are bounded
by the retry limits and by relative time and not by a constraint.

Deadlock is not checked where the system may stop: runs close, logs fill up to
their bound, loops end.

### Fairness

`RunController!FairSpec` has the clock run on and a scheduler that keeps calling
`lease` while some task can be leased: time passes by itself, and the API's
callers poll for work. Workers owe nothing: they may send heartbeats for ever or
fall silent. `RunReceipts!FairSpec` assumes that an unanswered caller repeats
its call and that not every serving process dies in the same place for ever.
`TaskGraphAlgorithms` assumes only that its one thread runs. `MemoryFabric!FairSpec`
has the steps of a call and an append of a note go on, and a caller repeat an
activation until its key is settled, which is what a receiptless candidate is
repeated for; deaths are bounded, so not every repetition dies, and not every one
meets a line that is still being written. Of repetitions whose audit may stumble
over half a character (`MayRaise`) nothing is assumed. A refresh owes
nothing: no property needs it to come.

## 4. Proofs

`RunControllerProofs` proves for every finite acyclic plan, all limits and any
set of workers, from the named assumptions of `TaskGraph` (`GraphAssumption`),
`TrancheBudget` (`HardLimitAssumption`) and `RunController`
(`ControllerAssumption`):

1. `TypeCorrect`: one step per action; `Settle` and `BlockDescendants` have
   lemmas of their own.
2. `Fencing`: `FencingOK` is inductive relative to the type invariant. It needs
   all four conjuncts together: that a held task carries its newest token rests
   on tokens being below `lastToken`, and that no two tasks share one on both.
   `ResultsFenced` and `ExpiredStaysExpired` are action properties read off it.
3. `Exclusion` and `Concurrency`: a step other than `Lease` only shrinks the set
   of live leases (a heartbeat needs a live lease, the clock takes away), and
   `Lease` tests the set it adds to.
4. `Dependencies`: `Completed` only grows, because closed statuses stay
   (`ClosedStaysClosed`), and `Lease` tests it.
5. `Budget`: `Lease` charges only what fits the tranche it leaves released, and a
   report replaces an estimate by a use of at most that much, which never raises
   the sum; no other step touches either.
6. `Retries`, `Quiet`: from the guards of `Lease` and the shape of `Settle`.

Its second part is about what the end of one task does to the others:

1. `Descendants`: `Doomed` is an intersection of closed sets, so what it leaves
   out depends on nothing stopped or doomed (`BlockingReaches`); settling either
   closes every task or leaves the statuses as they were given
   (`SettleAllOrNothing`), so canceled optional work has no open descendants.
2. `Causes`: a doomed task with nothing stopped or doomed before it could be
   taken out of the least closed set (`BlockingHasCause`); needs that a task in
   somebody's hands has been dispatched (`Dispatched`).
3. `WorkLeft`: the run's status is looked at in every step that closes a task.
4. `RunImplementsWork`: each step is a grant, a report or a withdrawal of
   `FencedWork`; heartbeats, the clock and submit are withdrawals of nothing new.
   It rests on `FencingOK`, which says that a closed task has no token out.

Its third part is about sessions, which are runs with one task. `SessionBridge`
states what such a run is as a definition (`SessionAssumption`) and not as an
assumption of the module, because the theorems above are about every run; the
session theorems have it as a hypothesis, and `MCSessionBridge` assumes it.

1. `SessionImplementsRun`: every step of a session is a step of `RunController`
   or leaves the run alone. A session finishes under the token it reads off the
   run, and an open task's lease has the token that was issued for it.
2. `SessionBursts` (`BurstInv`): while beats come close together, the throttle
   lets no hook join those in flight, and each of those has one beat to send; so
   the beats that came and the hooks in flight are together at most all hooks.
3. `SteadySessions` (`SteadyInv`): the lease is as young as the latest beat that
   renewed it, and that is as young as the pauses between calls let it be
   (`BeatsKeepUp`). A hook whose number is on the stream already renews nothing,
   but this happens only in the tick of the beat that used the number up
   (`NumbersAhead`). A throttle's time uses up no more numbers than there are
   hooks (`BeatsLast`), so with `EnoughBeats` none of them meets `_MAX_BEATS`
   before the attempt ceiling. With the code's 60 s, 900 s and 200 beats,
   `EnoughBeats` says at most 14 hooks at once (840 x 14 <= 199 x 60). It is
   nearly what is needed: in the instance of the run it asks for seven beats, and
   TLC finds sessions that lose their lease with five and none with six.

`TaskGraphAlgorithmsProofs` proves what the loops compute, for every finite
graph, cycles included. Every induction is over the naturals and goes through a
set: one that holds 0 and the successor of each member holds all (`Inductive`,
from the well-foundedness of the naturals).

1. `CompileTakesDags` (`KahnInv`): between two turns of Kahn's loop the queue is
   the unvisited tasks that depend on visited ones alone, an indegree counts the
   unvisited dependencies, and every visited task comes after its own. A visit
   of all tasks is then a proof that there is no cycle; when the queue is empty
   early, the unvisited tasks contain one.
2. `WorklistsCompute` (`WorklistInv`): what a worklist has found is in the least
   closed set, and what it has dealt with is closed; an empty worklist, or a
   sweep without a change, leaves the set closed, so the two are equal.
3. `CriticalPaths` (`WeighInv`): tasks are weighed in the reverse of the visit,
   so after their children, and a heaviest way down from a task is the task and
   a heaviest way down from a child. That an acyclic graph has no way longer than
   its number of tasks makes the set of ways the property ranges over the set of
   all ways.

`EventStoreProofs` proves every safety property of `EventStore`, and that it
implements `RunLog`, for any number of processes, keys and events, from
`EventStoreAssumption`. The invariant (`IInv`) adds to the checked properties
what they rest on: while a process holds the lock, the head is one behind and
nothing is broken (`Holding`); after a death inside an append, the stream ends in
a partial line or is one ahead of the head, and so refuses every reader
(`Broken`). Without the second half a store could be broken and then read.
`NothingSlipsIn` also needs that what was read is a prefix of the stream.

`RunReceiptsProofs` needs the order of the stream: a result is about a task that
was leased before it, and between two results of one task it was leased again
(`OneResultEach`), because `Out` asks for a lease as the latest event. So no two
results count the same number of leases, the slice a call is about to write is
free or its own (`SliceIsFree`), a slice lasts, and only the graph receipt can
refuse a repetition. For the readers (`OneReceipt`): a stream that has closed takes
nothing more, because every action that appends asks for an open run
(`ClosedForGood`), so what was put into the graph receipt is what the stream says
ever after, whatever a reader has found is the one that is there, and a repetition
finds it equal or leaves it alone (`Receipt`).

`RunCreationProofs` rests on intents being permanent (`Kept`), which needs the
registry's lock to have one holder, who has found no intent (`Alone`). A call
that the registry sent to a run then holds the intent of its key for ever
(`Sent`), and no two keys have one run (`Apart`), because a run id is handed out
while nobody has it.

`RunRecoveryProofs`: the head of the source names a length at which stream and
head have agreed, or is gone (`HeadWasSound`), so an audit that read the stream
earlier and finds the same length in the head is true of that moment. On the
fork's side, the lock has one holder (`Exclusive`), who finds the stream as it
examined it (`Prepared`); a fork with its creation alone is in the hands of a
recovery about to link it (`HalfMadeInHand`) unless one died there.

`CampaignFleetProofs`: a call that waits to append holds a revision. Unless it
was ahead of the stream, the decision is right for the stream of that revision
(`Waiting`), and an append that is let in finds that very stream; so every event
that is on it and is not marked `ahead` was right where it stands (`Sound`).
Calls that name a revision ahead are steps like the others: they may put a child
where it should not be, and those after them must still start from there. That
the latest position of a child moves only with the child's own events uses that
a finite set of positions has a greatest member, from the well-foundedness of
the naturals.

`MemoryFabricProofs` is about promotions in the composed specification. That a
call has its candidate on the stream and its run has ended before it reaches the
store (`Working`), and that a key has one request (`OneIntent`), hold always.
While nobody rewrites the store (`edits = 0 => Clean`): lines are records
(`Lines`); a call about to write knows the record is absent (`Fresh`), because
only a call of the same run could have written it and the run's lock is taken;
records that are no notes are backed by a candidate (`Rows`) and unique
(`Single`); a call about to report success has seen its record (`SeenIt`); and
receipts are worth what they say (`Earned`). The theorems carry the condition
`edits = 0` because the properties do.

About the sidecar, `SidecarInv` says that an index shows the last line of each
id among the lines it has the fingerprint of (`IndexShows`), and that a refresh
which no rewriting overtook goes on from rows of lines the store still has
(`RefreshShows`). The fingerprint is what makes the second follow from the first:
lines equal to those that were indexed have the same rows. What `Project` makes
of a list of lines is characterised by its values (`Projecting`), by the same
kind of induction as above. `Readers` carries no condition on `edits`.

Every invariant and action property of a passing run is a theorem. Only
model-checked are:

- liveness (`LeaseEnds`, `ClosesOrExhausts`, `EverythingGetsFiled`,
  `IntentsAreSettled`, `LoopsEnd`): it rests on fairness, and so on ENABLED,
  which is out of the prover's reach;
- the properties of the two runs that are expected to find a violation: they are
  what the repository says and the code does not do.

## 5. Not modelled

- *Fan-in, autonomy gate, quality gates, contracts, context packets, memory
  frontier*: pure functions of one input. What they reject is a rejected call of
  the models; what they select is text ranked under a budget, and no later
  transition reads it.
- *Goal state, fan-out*: one JSON file each, loaded, changed and saved without a
  lock. Concurrent commands lose updates; neither the code nor its documents
  promise otherwise, so a property would have to be invented.
- *Lease manager, path lock table, scheduler, snapshots and projection, commit
  and release of the budget*: reached by tests only. The controller derives
  leases, conflicts and budgets from the event stream.
- *Readers* (plan, status, board, search, audits, reports): they read once and
  change nothing. The readers of the graph receipt, who read twice, are in
  `RunReceipts`. About 150 files of `memory_fabric_*` are of this kind.
- *Adapter, hooks, MCP servers, dashboard, monitor*: dispatch to the operations
  above, append-only telemetry, and presentation. The hooks' races reach the
  state in the session bridge, and are modelled there.
- *Operator scripts, evaluation and release tooling*: run once, by hand, over
  files nobody else has open.

What remains to be done is in this list. The models are spent on the parts that
keep state several actors share.
