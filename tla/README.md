# A verification of the stateful core of The Machine

The Machine is a Rust system of some 260 library modules.  Most of them are pure
functions from text to answers (domain packs, solvers, frontends) or numeric
experiments with high-dimensional vectors.  Two programs in it *run*: a conversation
server over a durable, versioned knowledge memory, and a broker ("the hive") that
agents connect to.  That is where state, failure, concurrency and crash recovery meet,
and what this project models.  Paths below are those of the repository (`src/` is the
crate's source directory).

## 1. Inventory

| part | state | operations | hard behaviours | correct when |
|---|---|---|---|---|
| Knowledge store (`src/persistence/knowledge.rs`, `sessions.rs`) | tables `assertions`, `assertion_versions`, `turns`, `conclusions`, `conclusion_assertions` | insert, reaffirm, correct, retract, forget, record a turn; each one SQLite transaction | a write must find every dependent turn; four operations number the versions; tombstones | dependents are marked with the change; versions are gapless; a tombstone is final |
| Database (`db.rs`) | the SQLite file, WAL, schema version | open and migrate, transaction, backup, restore in place | crash between transactions; restore under a running service | what committed is there after a restart |
| Conversation service (`src/conversation/service.rs`) | the QaEngine, two maps from claim to assertion id, the ConversationStore, `storage_error` | a turn (teach, ask, follow up), correct, retract, forget, backup, restore, documents | three copies of the same knowledge edited separately; partial failure inside a turn; panic under the lock | answers come from active assertions and cite them |
| Conversation store (`store.rs`, session tables) | sessions, their turns, pending clarification and context, capped in memory | create or evict a session, record a turn, load | eviction under a client, records that were rejected, restore and restart | memory shows the end of what is stored |
| QA engine (`src/qa.rs`) | facts with contradiction flags, rules, an index | store, remove by text, answer, chain | removal by normalised text; flags nobody clears | a cache of the active assertions |
| Chat server (`src/chat_server.rs`) | service mutex, turn slots, active turns and their cancel flags, health cache | submit, cancel, timeout, disconnect, explicit operations, health | worker, stream, deadline and cancel race on one flag; slots; poisoned lock | slots are bounded and given back; a turn ends once |
| Document learning (`src/persistence/documents.rs`, service.rs 1344-1758) | documents and their items | import, review, commit, learn, remove | commit is two transactions per item, removal one per item | removal retracts exactly what the document taught |
| Legacy import (`src/persistence/import.rs`) | two markers in `meta` | import JSON snapshots once | crash before the marker | imported once and whole |
| Hive broker (`src/broker.rs`, `ledger.rs`, the agents in `main.rs`) | clients, agent states and last-seen epochs, cohorts with similarity caches, deja-vu clusters, the ledger file and its vault | handshake, submission, two-stage consensus, disconnect, dead-agent sweep, sieve, compaction, quarantine | a dozen locks taken in different orders; caches under one lock and read under another; two tasks that rewrite one file | what is stored about an agent goes with it; caches say what they were computed from; nothing learned is lost |
| Autonomy task runner (`src/autonomy_task.rs`) | tasks with status, budget and checkpoint | enqueue, start, step, pause, resume, cancel | any order of calls | a budget is never exceeded, a terminal task stays terminal |
| Operator (`src/operator.rs`, `src/bin/machine.rs`) | the database file, the backups beside it | back up, upgrade, restore, recover, set up, start | commands and a server meet on one file without a lock; any may end after any step | files have the tables their version says; an upgrade can be taken back |
| Governed promotion, reliability (`governed_promotion.rs`, `reliability.rs`) | gates; budgets | | thresholds | |
| Everything else | | pure functions, benchmarks, browser client, scripts | | not modelled |

How they interact.  The chat server runs each turn on a blocking worker that takes the
service mutex, so turns, explicit operations and health probes are serialised; the
service writes each taught claim in its own transaction, then changes the engine and
its maps, and records the whole turn in one last transaction.  A crash or a panic can
fall between any two of these.  Document operations go through the same service and the
same assertions, one transaction per item or two.  At startup (and after a restore)
legacy snapshots are imported, then engine, maps and sessions are rebuilt from the
tables.  The hive is a process of its own and shares nothing with the conversation
server: every connection is a task, the sweep and the compactor are two more, and they
meet in the maps of the broker, each behind its own `tokio` or `std` lock.  The operator's
commands are processes that share the database file, and nothing else, with the server
and with each other.

`PROJECT.json` lists every component with its status and every hazard at the
line where it bites.

## 2. Modules

| module | models |
|---|---|
| `KnowledgeLedger` | the abstract promise: claims in force, answers that are current exactly until something they rest on changes, and a saved copy one can go back to |
| `AssertionStore` | the tables and their transactions, one action each |
| `ConversationService` | extends `AssertionStore` with the engine, the assertion map, the session view, the turn in progress, storage errors, panic, backup, restore and restart; the properties; the refinement of `KnowledgeLedger` |
| `DocumentLearning` | extends `ConversationService` with documents, their items and the document operation in progress |
| `ConversationStore` | sessions in memory and in the database: startup with both imports, turns, eviction, pending questions, contexts, backup, restore, crash |
| `AdmissionControl` | the abstract promise of the server: at most `Slots` turns use it, one of these owns the service, each request is served once |
| `TurnServer` | `submit_turn` and `cancel_turn`: handlers, slots, blocking workers, the service lock, event streams, cancel flags; the refinement of `AdmissionControl` |
| `HiveBroker` | connections, cohorts and their caches, both stages of the consensus, the sweep and disconnects, lock by lock |
| `HiveMemory` | the sieve's clusters, the ledger file, the compactor, the quarantine, a restart, the agents' replicas |
| `Operator` | the operator's commands, as processes on one database file and its backups, with the migrations; a server that starts, migrates and writes; a later build |
| `MCConversationService`, `MCDocumentLearning`, `MCConversationStore`, `MCTurnServer`, `MCHiveBroker`, `MCOperator` | the values of the small instances; `HiveMemory` needs none |
| `ConversationServiceProofs`, `DocumentLearningProofs`, `KnowledgeLedgerProofs`, `ConversationStoreProofs`, `TurnServerProofs`, `HiveBrokerProofs`, `HiveMemoryProofs`, `OperatorProofs` | the theorems |

### The knowledge memory

- A **claim** is one payload, the exact text of a fact or rule.  The engine
  compares facts by trimmed lower-case text with the verb's lemma
  (`fact_text_matches`): `Norm` maps a claim to the representative of its
  spelling class.  Rules compare exactly, which `ServiceAssumption` says.
- **Ids** are random UUIDs in the code; the model draws them in order, so id order
  is `created_at` order.  Ties of the clock are not modelled.
- `assertions`, `history`, `turns`, `conclusions` are the tables.  A turn's
  `evidence` is its stored result's list of claims and assertion ids (0: none).
- `engine[c]` is the set of contradiction flags of the stored copies of `c`; the
  number of copies does not matter to any operation, which remove all or none.
- `factIds` is `fact_assertions` and `rule_assertions` together (0: absent).
- `view`, `viewStale` are the turns of one session of the ConversationStore.
- `turn` is the local state of `handle_turn_with` while the lock is held.

A turn is `Ask`, `AskBefore`, `FailLookup`, `CorrectInTurn` or `BeginLesson`,
then for a lesson one `TeachClaim` (or `RejectClaim`, `CancelLesson`,
`LoseClaim`) per claim, then `FinishTurn`.  `AbandonTurn` is a panic: the lock is
poisoned, `lock_service` takes it over as it is.  Which claims are retrieved,
ranked and chained is left open: any set of stored claims may be cited.  A rule may
be cited without an id, because `assertion_id_for_rule` is called with the text of
the event, which the rule only matched by similarity.  `CorrectKnowledge`,
`RetractKnowledge` and `ForgetKnowledge` are the explicit operations; they need
the lock, hence `turn = Idle`.  A transaction that is rejected outside a turn
changes nothing and is a stuttering step.  The constant `FaultyReads` adds the
outcomes in which a query fails after the write before it committed
(`insert_assertion`, `correct_assertion` and `restore` read back).
`Restart` is a crash at any point followed by `from_storage`; everything that is
not a table is lost.

### Documents

`documents` and `items` are the two tables.  An operation on a document holds the
service lock over several transactions; `job` is what it has left to do: which items
(`todo`), whether a commit follows (`learn`), which assertion was inserted and not yet
marked.  `CutShort` ends it between any two transactions, as a rejected write or a panic
does; a crash is `Restart`, which also drops the job.  An item is committed by
`CommitNext` (the assertion, the engine, the map) and `MarkCommitted` (the row of the
item).  A removal takes whatever error a retraction meets for "already retracted", also
a rejected write (`refused`).  A commit does not look at the document's status, and a
review may hit an item that was committed, as in the code.  `sources` is not a variable
of the program: it records who asserted each version, a document or a user, and only a
property reads it.  Reads inside these operations succeed, and backups are left to
`ConversationService` (`MaxBackups = 0`): one file holds these tables and those.

### Sessions and the import

Here the knowledge is a counter of imported facts and a turn is one step under the lock,
because what interests is which turns memory and database hold.  `boot` goes through the
phases of startup (facts, sessions, load, up); each record of a snapshot is a step.  The
snapshots stay in place until both markers are set, since nothing removes them.  A
request looks its session up in one step and runs in another (`waiting`), so that it may
be evicted in between.  `AbandonTurn` is a turn that panics after the session was looked
up or created and before its record: no turn is stored or shown, but its question may be
pending already, or the pending one cleared (service.rs:799-833), and the next request
takes the poisoned lock over with that.  `abandoned` is history: which sessions ended
with such a turn since memory was loaded; only a property reads it.  `Stop` is a crash,
or an import that fails on a record: the process ends either way and somebody starts it
again.  The ids in a snapshot are taken to be distinct (`SnapshotIsSane`): the store
that wrote it drew them at random. The stored context and the pending question are each
represented by the turn they come from.

### The turn server

A request has three parties.  `phase[r]` is its *handler*: `checking` is the lookup of
the session, which takes the service lock through `with_service`; `queued` is the wait
for a permit of `turn_slots`.  From the permit to the returned stream the handler has
no await, so `Admit` is one step: permit, entry in `active_turns`, channel, stream,
worker.  `worker[r]` is the *blocking task*: it waits for the lock, runs
`handle_turn_with` (`interpreting`, `running`, `cleared`, `answering` are the places
between its looks at the flag and its writes), records, sends Done, takes the lock
again to save, and drops guard, permit and sender in this order (locals in reverse,
captured variables last).  `stream[r]` is what ended the *event stream*.  `chan[r]` is
the channel's last content; Started and Stage events are left out.  `left` and `taught`
count the claims of a lesson; a question has none.  What a turn does to the knowledge
is `ConversationService`'s matter: there the whole turn runs under the lock and a
cancel is an input (`CancelLesson`), here the flag has a history and the knowledge has
none.

A `Panic` anywhere under the lock releases it, because `lock_service` takes a poisoned
lock over.  The deadline counts from the admission and `select!` may prefer it to an
answer that is ready, so `Deadline` can happen while the stream is open, and later the
worker goes on.  Explicit operations and the other readers take the lock for one call
each; they delay a worker as another worker does and are not modelled.

### The hive

A submission is handled by a task that takes and gives back some ten locks on its way.
An action of `HiveBroker` is what a task does from one lock to the next, with the locals
it carries along in `task[c]`.  Where neighbouring sections only read, or only clear
caches, one action stands for two or three of them (`Screen`, `Collect`, `Greet`,
`CloseCaches`); no property tells them apart.  Three locks are held from one action to
another: `agent_states` by a disconnect (`closing`), `last_seen_tick` by the sweep
(`holding`), and `clients` by a broadcast (`send`) until every client has read the
message or has closed its socket.  A handshake is answered (`answer`), which waits for
its own agent to read, and then waits for `clients` (`join`).  A submission that ends in
a SyncUpdate or a DissonanceAlert is broadcast (`announce`, `send`); nothing in the code
limits how long a client may leave a message unread.  A centroid is a view, `Bundle` and
`Similarity` are constants.  `Hole` is the NEG_INFINITY of a cell that was invalidated
and not computed again.

`Screen` and `Collect` are the quorum filter of `process_consolidation`.  It subtracts
the last-seen epoch of another agent from the epoch of this task, both `u64`; the other
may have submitted later, and then the difference wraps to a huge number, which counts
as silent for long, or panics.  `OverflowChecks` says which build it is: a debug build
panics, a release build wraps; `Cargo.toml` changes neither default.  A panic ends the
task without its clean-up (`panicked`).  The other two
panics, an index beyond a cache that another task rebuilt smaller (`Weigh`, `Decide`),
are modelled but need three agents in a cohort or three voting cohorts, which is more
than the instances have; the theorems cover them.

`HiveMemory` begins where consensus ends.  A consolidation is a number; a cluster, and a
record of the ledger, is the set of the consolidations it was bundled from, so that
"something was lost" can be said.  `Sieve` and `Record` are one stretch under
`dejavu_clusters` (`append` is the wait for the file mutex inside it).  The compactor
looks at the file without a lock (`due`), then holds the file mutex from its reading to
its last record (`loaded`, `rewriting`).  The quarantine takes no file mutex; it renames
the file and creates a new one, and clears the clusters last.  `Restart` finds records
it cannot read, because the sealing vector is drawn anew by each process, and puts the
file under quarantine.  `sending` is the task that has `clients`; `unsent` says to whom it
has yet to write, and `Write` is a client that reads.  The lockdown that follows a
quarantine is broadcast like an update and changes nothing at the agents.

### The operator

A database file is its `user_version` (`schema`), the migrations whose tables it has
(`done`) and the lessons it stores; `Absent` is no file.  `proc[p].at` is where a command
is.  An upgrade goes from `planned` (it has read the version) through `copying` (the
target is open) and `ready` (the copy is there) to `migrating` and `verifying`; `setup` and
`start` begin at `ready`; a restore has its backup `chosen` before the copy.  SQLite's
backup API writes its target in one transaction, so the copy is one step, but opening a
target creates the file, so a command that ends in between leaves an empty one.  A
migration whose tables are there fails, and with it the command, because `CREATE TABLE`
does.  `Stop` is a crash, a kill, or any error: none of them undoes what was done.  Backups
are named by the second, their order is that of the names, and the clock may be set back;
`machine backup` may write a name that sorts before or after them all.  `latest`,
`torn`, `seen` and `overrun` are history that only properties read.  What a lesson does is
`ConversationService`'s matter, the imports at startup are `ConversationStore`'s, and the
backup through the API of the server is a step of both.

## 3. Runs

| run | question |
|---|---|
| `service` | do engine, maps, tables, stale marks and history agree through every order of lessons, corrections, retractions, forgetting, crashes, panics and restores, and does the whole implement `KnowledgeLedger`? |
| `faulty_reads` | does the view keep the most recent turns when any read after a commit may fail, and does every turn give the lock back? |
| `sessions` | does memory show the end of what is stored, with the pending question and the context of the last turn, through imports, crashes, panics, evictions, backups and restores; what may an abandoned turn leave pending? |
| `documents` | do items point to what was inserted for them, does the engine stay supported, and does a removal leave nothing of its own document in force and everything of the others, with two spellings of a fact and any operation cut short? |
| `server` | do slots, lock, `active_turns` and the last event of each stream stay consistent through every order of completion, panic, deadline, disconnection and cancellation; what can a cancelled turn still teach; is every request refused or served to its end? |
| `hive` | is what is stored about an agent gone with it, are the caches what they were computed from, and is nobody swept who is not silent? |
| `hive_settles` | does every task get as far as the sockets whatever the agents do, unless the sweep and a disconnect wait for each other, and does it leave them unless some agent never reads? (debug build) |
| `memory` | is everything a cluster was bundled from in the ledger or on its way there; does every task get away from `dejavu_clusters` and the ledger file whatever the agents do, and from the sockets unless some agent never reads? |
| `operator` | do files have the tables their version says, do servers run on their schema, and does an upgrade keep its way back, with two commands at once, each cut short anywhere? |
| `sessions_import` (violated) | one crash during the import of sessions keeps the service from ever starting |
| `hive_lock_cycle` (violated) | the sweep and a disconnect wait for each other for ever |
| `operator_recover` (violated) | an upgrade fails as it begins its backup, and the recovery that its message recommends replaces the database by an empty one |

The three violated runs are the findings of `PROJECT.json`; each quotes the sentence
of the repository it contradicts.  EngineIsSupported holds only while reads
succeed: after a lost correction the engine still answers from the old text until a
restart, which is why it is not in `faulty_reads`.

**Bounds.**  *Knowledge*: two claims that contradict each other in `service`, two
spellings of one in `documents`, a fact and a rule in `faulty_reads`.  Two assertions: a
duplicate and its original.  Two versions: a correction or reaffirmation and then a
tombstone (a third version repeats the second).  A view of one turn; three turns in
`service` (one teaches, one cites, one evicts it, and then the assertion changes), two in
`faulty_reads`, one in `documents`, where a turn is somebody else who teaches or cites.
One backup, of tables with more turns than the view holds.  Two claims cited by an
answer.  *Documents*: two, which propose the same fact, each after an item the extraction
itself rejected; the same fact twice in one document is rejected there
(`REASON_DUPLICATE`), and a document of several committable items is left to the
theorems.  *Sessions*: three
sessions with room for two and two turns of each, a snapshot with one session of two
turns and a pending question and two facts, three turns, two stops, one backup: one
eviction, one import that begins again, one restore to before the last turn.  *Server*:
two requests for one slot, so that the second needs what the first gives back, and
lessons of two claims, where the second is what a flag set during the first must stop.
*Hive*: two agents and two connections, which may be both of one agent; two cohorts
between which an agent moves; four submissions, an agent silent after one; at most two
tasks at work at the same time (`MaxBusy`, the sweep counts as one).  *Memory*: two
connections and two consolidations, one seal, one compaction, one restart (with more than
one seal or compaction, `MemoryIsBacked` is left to its theorem).  *Operator*: two
commands at a time, any number in a row, from no database and from every schema; two
migrations and a third of a later build; one lesson; one second, so that the backups of
two upgrades meet, and one name given by hand, so that there is an older backup to go back
to.  The theorems below
remove the bounds for what they state.

**Fairness.**  In the service only the steps inside a turn are fair (`LessonStep`,
`FinishTurn`): a turn runs on its own blocking thread, holds the lock and waits for
nothing, its loop is over a finite lesson.  Nothing is assumed of requests, crashes,
restores.  In `TurnServer` the lookup, the admission, each worker and the delivery of a
terminal event are weakly fair: the runtime polls ready futures and gives every blocking
task a thread.  Weak fairness suffices at the lock and the semaphore because a request
comes once, so nobody is overtaken for ever; std's mutex promises no more than that.
Timeouts, clients, cancels and panics are not fair.  In the hive a connection may submit
again and again, so the steps of a task are strongly fair: tokio schedules every
runnable task and hands its locks on in the order they were asked for.  Handshakes,
submissions and hang-ups are not fair.  Nor is reading: `write_all` to an agent has no
timeout, so `Answer`, `Deliver` and `Write` may never happen, and `TasksSettle` and
`MemorySettles` name that as the way a task can stay at the sockets.  In
`ConversationStore` the steps of startup are fair and so is the start itself: somebody
restarts a service that ended.  A command of the operator goes on unless it is stopped.

**Deadlock** is checked in `service`, `faulty_reads` and `memory`, which can always be
restarted or go on.  It is not in the others: a server stops when every request has been
served (`EveryRequestSettles` says that it stops nowhere else), the hive
when its submissions are used up or in the lock cycle of `hive_lock_cycle`, sessions and
documents when their bounds are; the operator may leave a server alone that has learned
all there is.

## 4. Proofs

Each theorem holds for every value of the constants that satisfies the module's ASSUME.
Every safety and action property of a passing run is one of these theorems.  Three
properties are stated beside their proofs and belong to no run: `RestartHeals`,
`FactsRepeatPerStop` and `LedgerForgetsOnlySealed`.

`ConversationServiceProofs`:

| theorem | states | also assumes |
|---|---|---|
| `TypeCorrect` | `[]TypeOK` | |
| `TombstonesStayFinal` | `TombstonesAreFinal` | |
| `HistoryStaysComplete` | `[]HistoryIsComplete` | |
| `ConclusionsStayMatched` | `[]ConclusionsMatchTurns` | |
| `EngineStaysSupported` | `[]EngineIsSupported` | no failing reads |
| `FreshTurnsStayCurrent` | `[]FreshTurnsAreCurrent` | no failing reads |
| `ViewStaysRecent` | `[]ViewIsRecent` | |
| `ViewStaysInAgreement` | `[]ViewAgreesOnStaleness` | no failing reads |
| `RestartsHeal` | `RestartHeals`: after a restart the engine is supported and the view agrees with the tables | |

The argument.  `StepIsDurableStep` reduces a step of the service to what it does to
the tables: nothing, one transaction, a backup, or a restore.  The invariants of the
tables follow from that alone, which is why they hold with failing reads:
`FreshIds` (an id not generated yet names no row, here and in the backup; without
it an insertion could hit a tombstone), `Histories` and `TablesLinked` (the
properties themselves, for the live tables and for the backup, since a restore
makes the backup live; `TablesLinked` also says that a turn without a conclusion
cites nothing, or a correction could miss it).  `Supported` splits
EngineIsSupported in two: a mapped claim is mapped to an active assertion of it,
and what is stored is mapped.  The map may be wider than the engine (a removal by
text takes the other spelling out of the engine and leaves it in the map), so
the first half is not implied by the property.  `Current` says
FreshTurnsAreCurrent of the tables, of the backup and of the turn in progress, which
read its evidence before it is recorded.  `Youngest`, from the well-foundedness of
the naturals, gives the assertion the map is rebuilt with.

The view needs `TurnsInOrder`: a turn's id is used once, and the backup has no turn the
tables do not have, or a restore could lead to a turn being numbered twice.
`RecentKeepsTheNewest` says what the capped list keeps when a turn is appended, in terms of
the greatest and least of a finite set (`Greatest`, `Least`), so no induction over the
list is needed.  `StepFlows` reduces a step to what it does to turns and view together.
`RestartsHeal` is what remains with failing reads, when EngineIsSupported and
ViewAgreesOnStaleness do not hold: the damage is in memory only, so it is gone with the
process.  It needs no invariant.

`DocumentLearningProofs`:

| theorem | states | also assumes |
|---|---|---|
| `DocumentsTypeCorrect` | `[]DocumentsTypeOK` | |
| `LearnedEngineStaysSupported` | `[]EngineIsSupported` | no failing reads |
| `RemovalIsThorough` | `RemovalLeavesNothing` | |
| `ItemsStayLinked` | `[]ItemsPointBack` | |
| `RemovalSparesOthers` | `RemovalSparesTheOthers` | |
| `LearnedTurnsStayCurrent` | `[]FreshTurnsAreCurrent` | no failing reads |
| `LearnedTablesStaySound` | `[](HistoryIsComplete /\ ConclusionsMatchTurns)` | |
| `LearnedTombstonesStayFinal` | `TombstonesAreFinal` | |
| `LearnedViewStaysRecent` | `[]ViewIsRecent` | |
| `LearnedViewStaysInAgreement` | `[]ViewAgreesOnStaleness` | no failing reads |

A document operation is built from the transactions of the store, so the lemmas about
those are used again.  `RemovedSoFar` is what makes the removal provable: of the items
of the document, those no longer in `todo` point to nothing in force unless a write was
refused; and nothing else can touch an assertion while the lock is held.  `Linked` needs
`AllBegan` (an assertion a commit inserted, marked or not yet marked, was first written
with the claim of its item: the property is about version 1, since a correction may
change the text later) and `Apart` (the assertion a commit has in hand is no item's).
That no two items point to one assertion is part of ItemsPointBack, and it is why a
removal spares the others.  The theorems with the names of the service's say that
documents, with a lock held over several transactions, leave its invariants alone.

`KnowledgeLedgerProofs`:

| theorem | states | also assumes |
|---|---|---|
| `ServiceImplementsLedger` | `ImplementsLedger`, for the service | no failing reads |
| `LearningImplementsLedger` | `ImplementsLedger`, with documents | no failing reads |

The refinement goes transaction by transaction (`InsertAsserts`, `CorrectRevises`,
`RetractWithdraws`, `RecordGives` and so on), and `DurableStepIsLedgerStep` combines
them; everything else a step does is invisible to the ledger.  The work is in
`MarkingOutdates`: the code finds the dependents of an assertion through the table of
conclusions, the ledger through what the answers rest on, and the two agree because the
tables are linked (`TablesLinked`).  `Current` is why recording a turn is a legal step
(what it cites is in force) and why purging a retracted assertion is none (no fresh
answer rests on it).

`ConversationStoreProofs`:

| theorem | states |
|---|---|
| `SessionsTypeCorrect` | `[]TypeOK` |
| `SessionsShowTheLatest` | `[]ViewIsTheLatest` |
| `PendingIsDurable` | `[]PendingSurvivesRestart` |
| `ContextIsOfTheLastTurn` | `[]ContextFollowsTurns` |
| `MarkedImportsAreComplete` | `[]ImportIsComplete` |
| `FactsRepeatOncePerStop` | `[]FactsRepeatPerStop`: a fact is stored at most once more than the service was stopped |

The inductive invariant says which turns can be where: `Fresh` (a turn that has not run
is nowhere, backup included), `Unrepeated` (no turn twice), `Stages` (which markers are
set in which phase of the start; memory is empty before the load; there is no backup
before both imports), `Beginnings` (before its marker, the database holds prefixes of the
snapshot), `Progress` (how far the import of this start has come, against what an earlier
one left), `Contexts` and `Views` (the properties, the first for the backup too, which a
restore makes live).  `PendingIsDurable` needs `Questions`: what is pending in memory is what
is stored, or a question that is `Spent`: no table, no backup and no waiting request has
its turn, so none ever will.  `FactsRepeatOncePerStop` bounds the damage of section 5's
`FactsAreImportedOnce`, with `Ahead`: what the import of this start has still to store was
stored at most once by each start that was cut short.

`TurnServerProofs`:

| theorem | states |
|---|---|
| `TypeCorrect` | `[]TypeOK` |
| `SlotsStayConserved` | `[]SlotsAreConserved` |
| `ServerImplementsAdmission` | `ImplementsAdmission`, the refinement |
| `LiveTurnsStayCancellable` | `[]LiveTurnsCanBeCancelled` |
| `LastEventsStayTrue` | `[]LastEventsAreTrue` |
| `CancelledInTimeStaysHarmless` | `CancelledInTimeTeachesNothing` |
| `OneClaimAfterCancelAtMost` | `OneClaimAfterCancel` |

The argument.  Types need `ClaimsAreLeft` (a cleared claim is one of those left), or the
count could go below zero.  Five actions concern slots and lock (`AdmitStep`,
`TakeLockStep`, `ReleaseLockStep`, `DropPermitStep`); `QuietSteps` says the others leave
both alone, so conservation and the refinement have the same five cases.
`EntriesMatch` makes LiveTurnsCanBeCancelled an equality, without which the entry of
a turn could survive its slot; `EventsMatch` follows recorded turns from the worker
through the channel to the stream.  The two cancellation theorems say that a formula,
once true, stays true: `Harmless` and `Bounded` are these formulas, `CancelStep` what
a step does to them.

`HiveBrokerProofs`:

| theorem | states |
|---|---|
| `HiveTypeCorrect` | `[]TypeOK` |
| `HiveCachesAreConsistent` | `[]CachesAreConsistent` |
| `HiveForgetsTheGone` | `[]GoneAgentsLeaveNothing` |
| `HiveSubmissionsCanExpire` | `[]SubmissionsCanExpire` |
| `HiveSweepIsJust` | `SweepTakesOnlyTheSilent` |

`Basics` is the type invariant together with `SoundCache` of every cache: what
`SimilarityCache` keeps is a table with the similarities of its centroids, which
`Build`, `Recompute` and `Clear` each preserve, and no task ever has a snapshot of
another length than its listing.  `Ownership` is about the order of the disconnect:
`ClosingHasNoState` (no submission between its two removals, or the sweep would find one
without an epoch), and `Owned`, the first property without the connections that have
begun to forget (`Outside`, with those that have not joined the clients yet).
`HiveSweepIsJust` needs only that the epoch the sweep read is not later than the current
one.

`HiveMemoryProofs`:

| theorem | states |
|---|---|
| `MemoryTypeCorrect` | `[]TypeOK` |
| `MemoryStaysBacked` | `[]MemoryIsBacked` |
| `LedgerForgetsNothingElse` | `LedgerForgetsOnlySealed`: what was appended leaves the ledger only with a seal or a restart |

Types need `BatchInHand`, or the compactor could write the head of nothing.
MemoryIsBacked needs `BatchIsComplete`: before the compactor removes the file, its batch
holds all that the file holds, because an append waits for the file mutex and a
quarantine, which does not, only takes away.  From the same invariant, an action property:
no compaction loses a record, be it appended before, during or after it.

`OperatorProofs`:

| theorem | states |
|---|---|
| `TypesHold` | types, and no command loses the file it reads or writes |
| `MigrationsStayExact` | `[]MigrationsAreExact` |
| `ServersStayOnTheirSchema` | `[]ServersRunOnTheirSchema` |
| `UpgradesKeepAWayBack` | `[]UpgradeKeepsAWayBack` |

`InOrder` is what makes the two of the schema inductive: the next migration of a process
is the file's next or one that another has applied, since versions only grow until the
file changes hands; `CREATE TABLE` refuses the second case.  `Settled` is the same for a
process that has none left.  The way back needs `SeenIsStored` (what an upgrade saw is
still in the database, so a second upgrade that overwrites its backup writes it again) and
that a backup, once there, changes only into a copy of the database.

**Only model-checked**: the liveness properties EveryRequestSettles, TurnsComplete,
TasksSettle and MemorySettles (liveness under fairness is out of the prover's reach), and
the three violated runs.

## 5. What the code says and does not do

Three are runs and findings.  The rest are definitions in the modules, each with the
sentence it states; none of them is true of the code.

| definition | what happens instead |
|---|---|
| `EngineIsComplete` | a correction may give a second assertion the same fact; correcting one of them removes both from the engine until a restart (service.rs:1079) |
| `RebuildKeepsBeliefs` | a contradiction flag outlives its cause, so a restart changes which of two facts is believed (qa.rs:2932) |
| `StorageErrorIsForThisTurn` | a turn whose writes succeeded reports an earlier turn's storage error (service.rs:865, types.rs:212) |
| `FailedLessonIsNotDurable` | a lesson that says it never reached durable memory did: the insert committed and the read after it failed (knowledge.rs:608, service.rs:2025) |
| `WaitersAreBounded` | requests wait for the service lock before admission, bounded by nothing (chat_server.rs:724, 736) |
| `FinishedTurnsCannotBeCancelled` | a turn whose answer was delivered can be cancelled with success while its worker waits to save (chat_server.rs:797, 1610) |
| `PendingQuestionIsSeen` | a session evicted between the lookup and the turn is recreated empty; the turn does not see the question that is pending (service.rs:633) |
| `ContextCanBeReconstructed` | the reconstruction goes from the newest turn to the oldest and lets each overwrite the last result, so it ends with the oldest's (sessions.rs:3-6) |
| `FactsAreImportedOnce` | a crash in the import stores facts again (import.rs:4-5) |
| `DependentTurnsAreStale` | `chain_evidence` looks a rule up by the text of the event it was applied to; a rule that matched by similarity is cited without its id, and the turn stays fresh when the rule is retracted (service.rs:3573, docs/DEVELOPMENT.md:340) |
| `TaughtKnowledgeIsUntouched` | a lesson that repeats a committed claim reaffirms the document's assertion, so removing the document retracts what the user taught (service.rs:1711, documents.rs:7-9) |
| `RemovalRetractsDerived` | an item reviewed again after its commit loses its link, and removing the document passes its assertion over (service.rs:1683-1685, documents.rs:422) |
| `OnlyTheSilentAreExcluded` | an agent that submitted after a task took its epoch is dropped from that task's quorum, or makes it panic (broker.rs:858, 81-83) |
| `ClearedCachesAreRebuilt` | a cleared cache keeps its size, and only another size rebuilds it (broker.rs:875, 1488-1491); the cache between cohorts likewise ignores new centroids (broker.rs:963, 966-968) |
| `ReplicasAreInSync` | an update between the copy of the clusters and the registration of the client is missed, and two may overtake each other (broker.rs:1415, main.rs:722) |
| `MigrationsAreBackedUp` | `machine start` and `machine setup` migrate what they find, without a backup (operator.rs:1713, docs/DEVELOPMENT.md:957-959) |
| `MigrationsAreInOrder` | the version is read once and outside the transactions: after a restore in between, the second migration is applied to a database without the first, which then says it is current (db.rs:80, 3-5) |

Met on the way and not modelled: two quarantines in one second rename onto one file; a
crash between the compactor's removal of the ledger and its last record loses what was
not written yet; errors of an append are ignored; "rotate keys" (broker.rs:509) rotates
nothing; the document tool (`bin/machine_docs.rs`) opens the server's database from
another process, whose engine then knows nothing of it; a session that was opened and
never asked is gone after a restart; the map `session_memory` never shrinks; a backup of
a database that others keep writing to begins again at each write, without a limit
(operator.rs:1449); a server goes on with what it has in memory when `machine restore`
replaces its database. Two that are modelled, and that the properties allow for: after a
turn that panicked a session waits for a question that is not the stored one, or for
none, until its next turn or the next load (service.rs:799-856); and one agent that does
not read holds up every broadcast and every handshake for as long as it likes
(broker.rs:403-409).

## 6. Plan

Done: `AssertionStore`, `ConversationService`, `KnowledgeLedger`; `TurnServer`,
`AdmissionControl`; `HiveBroker`, `HiveMemory`; `DocumentLearning`; `ConversationStore`
with the imports; `Operator`; each with the theorems above.  What would come next, in
this order:

1. an abstract log of a session (what was said, oldest first, and how much of it memory
   shows) that `ConversationStore` implements, and its proof;
2. a clock with ties: rows of one microsecond are loaded in the order of random ids;
3. the state machine of `autonomy_task.rs` with its budget;
4. the drift consensus (`dcp_consensus`) of the broker.

## 7. Not modelled

Some 250 of the library's modules are pure functions: text analysis, retrieval, ranking,
rendering, algebra, physics, planners and solvers.  They hold most of its lines, keep no
state between calls and choose inputs of what is modelled; what they compute is for
tests, and a share of lines covered says little here.  Vector arithmetic (similarity,
bundling, re-entry weights, the sector index) is numeric: the hive models take its
results as constants.  Working context beyond the turn it stems from, and the follow-up
memory, rank references.  The gates of `governed_promotion.rs` and the measurements of
`reliability.rs` check reports; benchmark drivers and the agent loop of `cognition.rs`
are sequential.  HTTP, the browser client and scripts are input and output.  SQLite
itself is not modelled, including the loss of the last commits on power failure with
`synchronous=NORMAL`, which leaves an earlier committed state.
