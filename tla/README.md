# A TLA+ verification of OpenFunctions

This directory specifies the parts of OpenFunctions (`src/framework`) whose
correctness depends on the order in which things happen: who may run, what is
left on record when something fails or dies, and what the next process, turn or
run makes of that record. TLC checks each module on small instances; TLAPS
proves what is marked "proved" below for every value of the constants.

Contents: 1 inventory · 2 modules and plan · 3 how the modules correspond to the
code · 4 runs · 5 fairness · 6 proofs · 7 findings · 8 what is not modelled.

## 1. Inventory

| component (`src/framework/...`) | state it keeps | operations | interacts with |
|---|---|---|---|
| `tool-scheduler.ts` | FIFO queue, reader count, writer flag, one `tail` promise per reservation | run, cancel, deadline timer, drain, bound run | called by the executor; calls operations back |
| `executor.ts` | one receipt and `journalState` per invocation, the active invocation (async local) | invoke, withChildExecution, renewal runner | scheduler, policies, journal sinks, observers, catalog |
| `execution-journal.ts`, `journal-file.ts` | append-only JSONL streams, append locks, owner locks, reclaim gates | record, append, read, recover, acquire/release lock | file system, other processes |
| `work/*.ts` | attempt journal (full snapshots), backend snapshots, grants, inflight and unknown calls, mutation epoch | start, step, verify, submit evidence, renew, reconcile, finish, shutdown | executor (private registry), backend, verifiers, grants |
| `session.ts` | event stream, projections (history, open turn/step/calls, adapter state, thread), cached file identity | append, read, recoverInterrupted, preserve v1 bytes | file system, other processes, chat agent |
| `chat-agent.ts` | turn FIFO, session kernel, memory projection | chat (async and stream), reset, deleteThread, destroy, ingest | session, adapter, registry, memory, providers |
| `memory.ts` | threads in a store, `knownSnapshots` per instance | replaceMessages, addMessages, getThread, deleteThread | file or Postgres store, chat agent |
| `store.ts` | JSON file, cache, baseline, temporary snapshots, file lock | get, set, delete, clear, mutate | file system, other processes |
| `pg-store.ts` | shared pool and its epoch, cache and write tail per store | createPgStore, set, delete, clear, flush, closePgPool | Postgres |
| `agents.ts`, `workflows.ts` | effect receipts, crew progress | agent loop, delegation, crews, pipes | registry, adapters, runs |
| `runs.ts` | none: run records, outcome claims, verification attempts, assurance bundles and decisions are values its callers keep | one ending per run, claim, evaluate, decide | agents, hosts, verifiers |
| `adapters/*` | per session and provider: response id, model, fingerprint | chat, continuation, replay | remote providers, session |
| `context.ts` | snapshot cache per connection, connections invalidated | collectContextSnapshots, invalidateContext | providers, every chat agent of a connection |
| `chat-agent-http.ts` | per request: headers sent, abort signal | /chat, /chat/stream, /reset, disconnection | HTTP clients, chat agent |
| `providers/mcp` | catalog and its generation, `stale`, `invalidations`, active calls | connect, refreshCatalog, createTools, tool handlers, disconnect | MCP server, registry |
| `registry.ts`, `rag.ts`, `artifacts.ts`, `server.ts`, hosts, the other `providers/*`, `plugins/*`, `cli.ts` | definitions, indexes, clients | projection, retrieval, transport | outside world |

What is hard in this code: the readers/writer queue with cancellation, expiry
and nesting; the awaits inside `invoke`, at each of which authority, signals,
deadlines, the catalog and the journals can change or fail; processes that die
between any two system calls of the file lock; torn writes and power loss; an
attempt whose effects, evidence, lease and ownership are in four places that
crash separately; a chat turn that is a dozen separate appends, interrupted at
any of them by a failure, a closed stream or a crash, while its recovery can be
interrupted in turn; and copies of one history in three places (journal,
conversation store, provider) that must not drift apart; caches of the outside
world (context evidence, a tool catalog) that change while they are read.
`PROJECT.json` lists these hazards at their lines.

What makes each component correct:

- **Scheduler**: an exclusive operation runs alone, never more readers than
  `maxParallel`, first come first admitted, no operation entered after its
  signal or deadline, no call or slot stuck, an admitted call keeps its result.
- **Executor**: the intent is durable before the handler is entered; "not
  started" is never said of a handler that was; an answer given to the caller
  is on record; observers hear of an uncertain effect before the next one can
  start; a handler is entered only under the authority its receipt names;
  every call is answered.
- **Journals**: one owner at a time, also across dying reclaimers; a reader
  sees a prefix of what was appended; what append acknowledged survives.
- **Work**: a completed item stands on a passing proof of what was really
  done; no effect is started past an unresolved doubt; no operation is
  repeated under another key; crashes and reconciliations forget no doubt and
  let an attempt end an item only as its own; calls do not deadlock; after a
  shutdown nothing is started.
- **Grants**: limits are exact under concurrency; nothing is charged to, or
  bound to, a revoked grant; the newest grant in force pays.
- **Sessions and chat**: an event stream never forks; the agent never writes an
  event its own validator refuses; every call asked for is answered in the
  history, truthfully, in call order; a turn ends exactly once, keeps the
  receipts of what it did and tells its caller; one turn at a time, in order.
- **Memory**: the projection follows the journal and erases nothing of another
  writer which the projecting process has not seen.
- **Stores**: no update is lost between processes; a flush or a shutdown that
  reports no error vouches for every write before it; no store outlives its pool.
- **Agents and crews**: a run's record tells every effect, in order, however the
  run ended; no run reports success over an effect whose outcome is unknown.
- **Stateful providers**: what the model sees is the session's history.
- **Context evidence**: what an agent is given as fresh is no older than the last
  invalidation it could know of; what a request records is what was shown.
- **MCP**: a tool is called only as it stood after the last change heard of.
- **Assurance**: a task is called fulfilled only on the verification of its own
  claim, and no verdict of failure is worn down by further attempts.
- **HTTP server**: every request is answered once, whoever else disconnects.

## 2. Modules and plan

```
ToolScheduler <- ToolScheduler_proofs         ExclusiveOwner <- JournalLock (implements)
ExecutionJournal <- ToolExecutor              AppendLog <- SecureJournal (implements)
ToolExecutor <- ToolExecutor_proofs           ChatTurn <- MCChatTurn
WorkBackend <- WorkAttempt <- WorkRecovery    GrantStore, FileStore, PgStore <- MCStores
WorkRecovery <- WorkRecovery_proofs           MCStores <- MCStores_proofs
SessionJournal, ThreadProjection <- ChatTurn  TurnQueue <- ChatServer
MCChatTurn <- ChatTurn_proofs <- ChatRecovery_proofs   ThreadProjection <- ConversationMemory
JournalLock, TurnQueue, ChatServer <- MCExclusion <- MCExclusion_proofs
SecureJournal, SessionStore, ConversationMemory, AgentRuns, AdapterContinuation,
ContextEvidence, McpConnection, Assurance <- MCRecords <- MCRecords_proofs
```

| module | what it is | state |
|---|---|---|
| `ToolScheduler` | the scheduler with nesting, signals and deadlines | checked; all but liveness proved |
| `ExclusiveOwner` | what a file lock promises (abstract) | - |
| `JournalLock` | `acquireExclusiveLock` with claims and gates; implements `ExclusiveOwner` | checked; consistency and the refinement proved |
| `AppendLog` | what a journal stream promises (abstract) | - |
| `SecureJournal` | `SecureJsonlJournal` byte writes, cuts, fsyncs, power loss; implements `AppendLog`, uses the lock as `ExclusiveOwner` | checked; durability and the refinement proved |
| `ExecutionJournal` | the event lifecycle that `execution-journal.ts` validates and `recover` completes, as operators | used by `ToolExecutor` |
| `ToolExecutor` | `invoke`, await by await, over sinks, policies, observers and a scheduler slot | checked; all but `SomeoneGoes` proved |
| `WorkBackend` | the item in `local-backend.ts`, its legal transitions and receipts | used by `WorkAttempt` |
| `WorkAttempt` | `WorkAttemptController`: start, step, verify, renew, finish, shutdown, two mutexes, one executor slot | used by `WorkRecovery` |
| `WorkRecovery` | crash, reopening and `reconcile()`; composes the three Work modules | checked; all but `NoCallStuck` proved |
| `GrantStore` | `grants.ts`: issue, revoke and the charges of `updateUsage` | checked; limits and the finality of revocation proved |
| `SessionJournal` | a chat session's event stream as operators: what the validator accepts, the projections, the recovery plan | used by `ChatTurn` |
| `SessionStore` | `JsonlSessionEventStore` and `SessionKernel.append` among processes | checked; `NeverForks` proved |
| `ChatTurn` | the turn engine of `chat-agent.ts` over a journal that fails and a process that dies | checked; all but `MemoryFollows` proved |
| `TurnQueue` | `acquireTurn`: who holds the session | checked; mutual exclusion and order proved |
| `ThreadProjection` | `replaceMessages`: what may replace what, as operators | used by the next and by `ChatTurn` |
| `ConversationMemory` | several writers over one thread | checked; `NoErasure` proved |
| `FileStore` | `createStore` among processes | checked; `NoLostUpdate` proved |
| `PgStore` | `createPgStore`, its write tail, the shared pool | checked; `Vouched` proved |
| `AgentRuns` | agent loop, delegation, crews and settled workflow steps | checked; `RunsTellAll` proved |
| `AdapterContinuation` | what a stateful provider is sent | checked; `SeesTheHistory` proved |
| `Assurance` | the records of `runs.ts` from a run's ending to a fulfilment decision | checked; `Earned` proved |
| `ContextEvidence` | the snapshot cache of `context.ts` and the agents that share it | checked; `Evidence` proved |
| `McpConnection` | an MCP connection whose server changes its tools | checked; `CurrentTools` proved |
| `ChatServer` | the HTTP server over the queue of turns; extends `TurnQueue` | checked; `OneAnswer` proved |

`MC<module>.tla` holds the model-checking constants of a module. Three of them
hold several modules that share no state: in `MCExclusion` (`JournalLock`,
`TurnQueue`, `ChatServer`), `MCStores` (`GrantStore`, `FileStore`, `PgStore`) and
`MCRecords` (`SecureJournal`, `SessionStore`, `ConversationMemory`, `AgentRuns`,
`AdapterContinuation`, `ContextEvidence`, `McpConnection`, `Assurance`) a variable `part` chooses, once and for all, which of them a
behaviour exercises. They ask one question of several components: who has
exclusive use, whether an update survives its competitors, whether the record
holds for whoever reads it next. `MCToolExecutor` does the same with two executors
of different size, which have variables of their own.

Plan, what is left of it, in the order of importance:

1. The block disposition in `WorkAttempt`; `LocalBackend` as a detailed module of
   `local-backend.ts` implementing `WorkBackend`.
2. The renewal lane of the executor; `registry.ts` beyond what `ToolExecutor`
   sees of it.
3. A proof of `MemoryFollows` of `ChatTurn`, which TLC checks.

## 3. How the modules correspond to the code

`PROJECT.json` maps every definition to its lines. JavaScript runs to
completion between two awaits, so **a stretch between two awaits is one
action**, with the calls it makes inside it; where a stretch touches files that
other processes share, or where a process may die inside it, each system call
or append is an action.

**ToolScheduler.** `status[c]` follows a call: idle, queued (root) or chained
(nested), running, draining (the operation has ended, its nested calls have
not), settled, released (the slot is back) or rejected.
`queue`, `readers` and `writer` are the fields of the class. A nested call uses
the bound capability of its parent; it waits for its elder siblings (`chain` is
the `tail` promise), inherits signal and deadline, and is refused when its
parent is over. A deadline passes silently (`expired`) until a timer or a drain
notices it. The abort of a signal shared by several entries removes all of them
in one action, since nothing runs between its listeners.

**JournalLock.** One action per system call of `acquireExclusiveLock`,
`reclaim` and `release`: link the claim, read the owner, link a gate of the next
generation, check its owner, unlink. `readLockOwner` (open, fstat, read) is
atomic; a pid is not reused; files nobody can link any more are garbage, and a
token is drawn again once nothing refers to it. `Crash` may happen in front of
every action. `broken` remembers that an "inconsistent" error was thrown.
`session.ts` and `store.ts` lock by the same algorithm and are given its result,
`ExclusiveOwner`.

**SecureJournal.** The file is its committed `lines` and the `fragment` after
the last newline. `record()` numbers its event from an unlocked read, which
fails when the file changes under it; `append()` takes the lock (an
`ExclusiveOwner`), compares the length, cuts a torn tail, writes in two parts,
fsyncs, and gives the lock back. A write or an fsync may fail, a process may
die in front of every action, and power loss keeps a beginning of the file no
shorter than what was synced, any number of times.

**ToolExecutor.** `pc` and `stage` say where `invoke` is. Events go to every
sink in order; a sink may throw, also after it stored. A policy may deny, throw,
or issue a reference; between awaits the environment revokes or reissues
authority, replaces the tool in the catalog, fires the signal, passes the
deadline. `receiptRefs` is what the receipt binds. The scheduler is a slot with
the accounting that `SlotAccounting` proves of it. `MaxFaults` bounds the
throwing sinks, policies and observers together. A reference revoked is not
granted again under the same number.

**WorkBackend, WorkAttempt, WorkRecovery.** One attempt at one item. `st` is the
attempt's state in memory, `saved` the snapshot in the last journal event
(`Absent` before the first), `backend` the item, its receipts and its evidence.
`lifecycle` and `admissions` are the FIFO mutexes as sequences; `pc[c]` is how
far a method call has come. The executor is its exclusive slot plus what its
journal would recover about a call (none, started, known, unknown, rejected).
Operations at the backend are keyed `<<kind, nr>>`, or `<<"evidence", v>>`; a
reply can be lost (`Faulty`), and a recovered "refused" operation is one the
journal did not accept. `Crash` takes everything but `saved`, the executor's
journal, the backend and the work tree; `Revived` is what the next process makes
of it, and `reconcile()` has one action per stage. `done` is what really
happened, a history variable that no guard of the code reads. A mutating step is
`Tracked` when its writes lie under a fingerprinted subject. `Foreign` is
somebody else settling or taking over the item, `Expire`, `Revoke` and `Edit` a
lapsed lease, a grant out of force and a change of the tree by others;
`MaxFaults` bounds them together with lost replies and failing appends. Several
persists within one recovery stage are merged: repeating a stage is idempotent.
A call goes through the executor in stretches that the properties tell apart. Its
admission ends at "launch": `Mutex.run` wakes the next in the queue before its
caller goes on, and only the caller adds the call to `inflight` (`Launch`), so that
the next check of step() or verify() may not see it yet. Who takes a second mutex
first, as finish() and reconcile(), has let the caller go on (`Launched`). A result that
is unknown, or that the journal did not take, which the executor answers as
unknown (`Doubtful`), is published by step()'s observer while the call has the
slot (`Publish`, `Published`), and settled or recorded behind that
(`SettleStep`, `DoubtRun`). Behind stored evidence verify() lets the mutex go before
it asks for the next (`AwaitSubmit`), and finish() may come in between.
`shutdown` is a method call like the others, in five steps: `CallShutdown` sets
`stopping`, `DrainCalls` awaits the calls in flight, `DrainAdmissions` and
`AwaitLifecycle` stand in the two queues, `GiveUp` releases the ownership.
`Stopping` is in every guard where the code tests `stopping`: `Begin`, the
admissions of steps, verifications and renewals, `finish`, recovery. A verification
that has passed its first admission does not test it again (see below), and a call that was
admitted but not in flight is not awaited: its policy refuses it, and it is given up
when `shutdown()` may be over.

**GrantStore.** `log` is the stream "local-grants-v1", `lock` the "grant-state"
lock (that a dead holder's lock is reclaimed is `JournalLock`'s result), `call`
how far a call has come: lock taken, grant resolved (before the await), limits
checked, then appended and released. One action per file operation, so that
the lock, not the event loop, is what keeps processes apart.

**SessionJournal.** A journal is represented by the fold of its events, which is
what the code rebuilds on every open: `hist`, `adapter` and `thread` are the
projections, `turn`, `step` and `tools` what the validator and
`inspectOpenWork` know of open work. `Accepts` is `validateCorrelationTransition`
and `validateLifecycleTransition`; `Advance` the projections; `RecoveryPlan` the
events `recoverInterrupted` appends. Ids are left out: one turn and one step are
open at a time. A text is a number, an adapter's continuation is the history it
covers.

**ChatTurn.** `run` is the operation in progress. A synchronous segment of the
code is a *script*: the appends it still has to make, where it goes after the
last, and which catch block gets the exception of a failed one. An append may
fail before or after the store took the event; in the second case `kernel` and
`disk` differ and every later append is refused, as in the code. `mem` is the
conversation store, `known` this process's snapshots of it, `effect` what a
handler really did (a history variable). A consumer may abort or close its
stream at every yield (`Aborted`, `Closed`). `Crash` leaves `disk` and `mem`;
`Open` recovers the journal, `Import` brings journal and store together.
`torn` remembers that a crash fell into the termination of a turn (section 7).

**TurnQueue.** `place` is the position of a caller's promise in the chain behind
`turnTail`, `passed` the resolved ones, `pending` the counter `reset()` and
`deleteThread()` look at.

**SessionStore.** `lines`, `torn` and `stamp` are the file and its identity,
`events[k]` the kernel's copy, `known[k]` the store's cache entry. A kernel
numbers its event from its copy; under the append lock the store looks at the
file or, when the identity is the same, at its cache.

**ThreadProjection, ConversationMemory.** `Agrees` is when `replaceMessages`
does not throw, `Projection` what it leaves in the thread. The store's
`mutate()` makes each operation atomic, which is `FileStore`'s result. `seen`
is a history variable: what a writer has been shown, or has written itself.

**FileStore.** `cache` and `baseline` are what the closure of `createStore`
keeps; a key where they differ counts as changed by reference. `mutated` is the
history variable that says which really were. **PgStore**: `pools` is every pool
made, `current` the `poolPromise`; `queue` and `done` are the tail of writes.

**AgentRuns.** Run 0 is the delegate, 1..n the crew. `batch[r]` is the round
under way with its concurrent calls, `entered` the history of handlers entered,
`doubted` the runs under which an outcome is unknown. **AdapterContinuation**:
`responses` is the conversation the provider keeps behind each id (external),
`state[k]` the continuation a session keeps per adapter.

**Assurance.** `attempts`, `bundles` and `decisions` are all records of their
kind that were ever made; since the functions of `runs.ts` take them as
arguments, whoever evaluates or decides may hand in any of them, in any order.
A record is what the decisions look at; a claim is named by its run, a second
claim of one run is the same claim.

**ContextEvidence.** `cache`, `invalidated` are the entry of `contextCache` and
the membership in `invalidatedConnections` of one connection; `agent[a]` one
chat agent: `at` says whether it is collecting, in a turn or idle, `holds` is
its `contextSnapshots`, `shown` the snapshots in its history. A collection is one
action up to the await of the provider (`Refresh`), one for the provider's read,
one behind it (`Store`, `Retain`); served from the cache it is one (`Serve`).
`since` is the version at the last invalidation, which an agent notes as `asked`;
`clock` passes the expiry of the snapshots once, or never. `forgotten` and
`overlapped` are history variables (see section 7).

**McpConnection.** The variables are those of `connect()`'s closure. `version`
is the server's catalog, `notices` the notifications on their way, which may
arrive late and in any order; `listing` is the `discover()` in progress, with the
version each page was listed at and `before`, its value of `invalidations`;
`call[c]` a tool call with the projection its caller keeps. `heard` is a history
variable.

**ChatServer.** It extends `TurnQueue`: a request waits for its turn by `Acquire`
and `Enter`, and a disconnection cancels it. `at[o]` is the await its handler
stands at, `watched` the requests between `abortOnDisconnect` and `dispose`,
`up` those whose connection is open, `heads` counts `writeHead`. /health and the
404 are left out: no await, no state.

## 4. Runs

Every run finishes on 2 workers within 5 minutes. `PROJECT.json` gives each
property a seeded fault of the code that breaks it; the faults stand in the
modules, beside what they replace, as definitions called "Seeded fault".

| run | question | bounds, and why they are enough |
|---|---|---|
| `scheduler` | is admission exclusive, FIFO, timely, accounted; is no wakeup lost and no call stuck? | 3 calls of any mode and nesting, 2 slots, 2 interruptions: a running reader, a barrier and a reader behind it; a parent, a child and a rival; slots can be full |
| `executor` | do journals, receipt, answer and observers agree when sinks, policies or observers throw; is a handler entered only under the authority of its receipt? | 2 invocations in 2 slots, 2 sinks, 2 faults: the first failure and the failure of its handling. For authority: 1 invocation, 2 policies with 2 references each, while authority, catalog, signals and deadlines move at every await |
| `work_races` | do concurrent steps, verification, renewal and finish keep the proof honest, a step admitted before a verification is in flight too, and does no error leave a call waiting; does anything start after shutdown() has returned? | 2 mutating steps (one tracked), 1 verification or 1 renewal, 1 fault: an uncertain step, a queued one, a proof between them. With shutdown: 1 step, and 1 verification and finish, or 1 renewal: it overtakes each of them |
| `work_crashes` | what survives a crash and repeated reconciliation? | a completion grant is there at the start; 1 step, its verification, finish, 1 crash and 1 fault anywhere, 2 reconciliations: the second meets what the first left |
| `chat` | does every turn end once, balanced and truthful, whatever fails or dies? | six plans of at most 3 operations, 2 tool calls, 2 rounds, a budget of 4 messages of history, shared out between a failed append, 1 or 2 crashes (the second inside a recovery), 2 threads and another process (`Plans`): together they are more than an instance can hold, each pair meets in one of them. Under the budget a round of two calls just fits, a second turn is compacted, and a third one to nothing |
| `exclusion` | is the lock exclusive and never stuck, whoever dies where; is the session given to one at a time and to everybody who waits, and is every HTTP request answered? | 3 processes, 2 deaths, 2 tokens each: a dead owner, a dead reclaimer of it, a live one who meets both. 4 callers: a holder, two cancelled waiters in a row, their successor. A /chat, a /chat/stream and a /reset, 2 disconnections at any await |
| `stores` | are grants exact and revocation final; does no update get lost; do flush and shutdown tell of every failure? | 2 processes, 2 grants, 2 attempts against 1, 2 outputs of 2 bytes against 3, one tick. 2 clients, 2 keys, 1 crash or failure: a change by reference in one, a commit in the other. 2 Postgres stores, 2 writes, 1 failing query, 2 pools: a store being created while its pool closes and another opens |
| `records` | is what is left on record there, whole and true for the next who reads it? | journals: 2 writers of 3 records, power lost any number of times (with three writers the same states recur with names exchanged, at a cost the run cannot pay). Sessions: 2 kernels, 4 appends, 2 upsets, v1 files. Threads: 2 writers, 3 messages. Crews: 2 members with 2 rounds for the first, 2 calls at once, delegation, 2 Ralph iterations. Providers: 2 adapters, 2 models, 6 messages, 2 losses. Context: 2 agents of either policy, 2 versions of the source, 3 snapshots, 1 failed read or dropped message. MCP: 2 pages, 2 changes, 2 refreshes, 2 calls. Assurance: 2 runs of one task, 1 policy that asks for everything, 2 attempts, 2 bundles, 1 decision (proved for all) |
| `work_untracked`, `work_lapsed`, `chat_effects`, `chat_reopen` | section 7 | smallest instance that shows it |

In a composite run the type invariant of a module is a conjunct of one of its
properties (`Durable`, `Budgets`, `Consistent`), as is done for `Healthy`.

`CHECK_DEADLOCK FALSE` everywhere: callers owe no further calls, so each system
really may stop when its calls are over.

## 5. Fairness

Only what the runtime gives: promise reactions, timers and started operations
go on (weak fairness on each continuation, per call), and nothing is owed by
callers, by the environment or by faults.

- `ToolScheduler`'s `LiveSpec`: an admitted operation ends, a drain that was
  asked for happens. `EveryCallAnswered` follows.
- `JournalLock` (in `MCSpec` of `MCExclusion`): live processes go on, and a
  caller that was refused tries again, as the callers of `acquireExclusiveLock`
  do. `DeadOwnerCleared` follows.
- `TurnQueue`'s `Fairness`: a promise that is resolved runs its reactions, and
  an operation ends, because the code bounds providers and handlers by
  deadlines. `EveryWaiterServed` follows.
- `ChatServer`'s `ServerSpec`: as `TurnQueue`, and `resolveExecutionContext`
  answers. Nothing is owed by clients: a body need not arrive, so a request counts
  as owed an answer only from there on. `EveryRequestAnswered` follows, and with
  the former it is `EveryoneServed`.
- `ChatTurn`'s `FairSpec` is used by `chat_effects` only: the agent's own steps
  go on and the process is restarted, so that the counterexample is not one of
  a process that stays down.

For the executor and the work controller liveness is checked in a safety form,
because each call makes finitely many steps: in no reachable state is an
unfinished call without a step that could be taken (`SomeoneGoes`, `NoCallStuck`).
A call that can always go on, and has finitely many steps, returns.

## 6. Proofs

`ToolScheduler_proofs` proves for every finite set of calls and every
`MaxParallel` (`SchedulerAssumption`: a positive natural number, as the constructor checks):

- `TypeCorrect`: `Spec => []TypeOK`;
- `SlotsAccounted`: `Spec => []SlotAccounting`: `readers` and `writer` are
  exactly the reservations held, at most one writer and never with a reader,
  never more than `MaxParallel` readers;
- `WakeupsAreNotLost`: `Spec => []NoLostWakeup`: the head of the queue is held
  back by a reservation that is out, or its deadline has passed;
- `ExclusiveIsAlone`: `Spec => []ExclusiveIsolation`: what runs beside an
  exclusive operation, at any depth, is its ancestor or descendant;
- `StepsAreOrderly`: `Spec => OrderlySteps`, an action property: first come
  first admitted, nothing entered late, no admitted outcome taken back.

The first two are not inductive: whether `Release` may decrement the count depends on who
holds a reservation, and that depends on the waiting calls and on the chains.
`IInv == TypeOK /\ Balanced /\ Waiting /\ Chained` is: `Balanced` equates the
counters with the cardinalities of the holders, `Waiting` says that the queue
lists queued root calls, each once, and `Chained` that a nested call that has
started is the first of its parent's chain. `Invariance` proves `IInv` from one lemma per
action; `Drain`, which starts a prefix of the queue at once, rests on lemmas
about that prefix and on the library's facts on cardinalities.

`NoLostWakeup` follows from what one drain does: `DrainBlocks` shows that whatever
queue, counters and statuses a drain is given, provided they agree (`Ready`), what
it leaves at the head cannot start; the steps that do not drain leave queue and
counters alone (`QuietSteps`). `ExclusiveIsAlone` is about trees. `Family` says that
a nested call in progress, or waiting in a chain, has a parent in progress, in whose
chain it is and which is exclusive if it is, and that every call in progress has a
root. At most one child of a call is in progress, and at most one root if one is
exclusive, so the calls in progress stand on one line. A lineage is defined as the
least closed set, which lets the lemmas use it without an induction over its
length. `StepsAreOrderly` is proved step by step: each caller of drain hands it a
queue and statuses that follow the current ones (`Follows`).

`MCStores_proofs` proves of the three stores, first of the grants, for any
processes, attempts, executions, sizes and limits (`LimitsAssumption`: positive
limits, and `None` is neither a process nor a number):

- `TypeCorrect`: `Spec => []TypeOK`: events of the schema only, and a call is
  under way exactly while its process has the lock;
- `RevocationFinal`: `Spec => []NothingAfterRevocation`;
- `WithinBudgets`: `Spec => []Budgets`: the sums of what was charged to a grant,
  over the whole journal, never exceed its limits, and the newest grant in force
  pays.

The second speaks of the journal alone, and is kept only because what a call
found out before its await still holds when it appends. `IInv == TypeOK /\
Naming /\ Underway /\ NothingAfterRevocation` says so: `Underway`, that the
holder of the lock is about to charge, or to bind to, a grant that is not
revoked; `Naming`, that only issued grants are revoked, so that a new id has no
revocation before it. `ResolvedInForce` shows that `resolve` returns such a
grant: a nonempty set of positions of the journal has a last one
(`LastPosition`, from the well-foundedness of `<`). `AppendKeeps` is the one
lemma about the write; every other step keeps the journal.

The third needs more, `Paid`: what the holder of the lock has computed before
its await is still the sum over the journal as it stands (`Paying`), and each
charge was within the limits when it was written. The sum is a fold of the
community modules, over the outputs charged to an attempt; that one event more adds exactly
its size is proved by induction over the elements of the set. The
library's induction theorems take an operator, so `AllNumbers` states the principle for a set
of numbers instead, from the well-foundedness of `<`; `SumExists` and `SumsAgree`
use it.

Then of the other two, for any processes, keys, values and bounds
(`StoresAssumption`: what stands for a dead process is no process):

- `UpdatesAreKept`: `MCSpec => NoLostUpdate`, an action property. `FComputed` says that
  what the holder of the lock has computed differs from the file in its own keys only,
  and not at all when it goes on without a write; `FChanged`, that a cached
  value differs from its baseline only where the caller changed it. The file
  stays as it was loaded because only the holder writes (`OthersStay`).
- `FlushesVouch`: `MCSpec => Vouched`, an action property. `Connected` says that a store still
  being created in the epoch in which it began has its pool, for no shutdown has
  begun; `Drained`, that only an open store, or one that a shutdown is flushing,
  has writes behind its tail; `Follows`, that as long as nothing failed there is a row of
  tables, one per pending write, that leads from the table to what the cache shows.

`ToolExecutor_proofs` proves for any finite set of invocations, any sinks (none
included) and any nonempty list of policies (`ExecutorAssumption`), with any
number of calls that throw:

- `IntentIsOnRecord`: `Spec => []EffectHasIntent`;
- `ToldIsTheTruth`: `Spec => []ToldIsTrue`, the four claims on what caller,
  journals and observers are told;
- `HeardBeforeTheNext`: `Spec => ObservedBeforeNext`, and `ReceiptCovers`:
  `Spec => EnteredUnderReceipt`, action properties. The run checks the second
  as `AuthorityCovers`, of its second executor.

The invariant is about one invocation at a time: `Placed` says in which stage,
with what receipt and at which sink it can be, `Logged` what each journal holds
of it there, `Heard` what its observers have heard, `Granted` which references
it has. Three parts are there to make it inductive. An invocation whose handler
was not entered says "not_started" in every final event, since `finish` may be
run twice. There is one settlement that every journal has or still waits for,
although the caller may be told "unknown" and nobody remembers the settlement.
And a reference invalid when the intent became durable stays invalid, because a
policy that comes back issues a later one. `Elsewhere` shows once that a step leaves
the other invocations alone; only `Shared`, that a writer is alone and a
handler is heard before its slot goes, relates two.

`MCExclusion_proofs` proves of the lock, for any finite set of processes, any tokens and any
deaths:

- `NeverConfused`: `Spec => []Consistent`: the "inconsistent" errors are not thrown;
- `OwnerIsExclusive`: `Spec => ImplementsExclusiveOwner`: the refinement of `ExclusiveOwner`.

Both rest on at most one process being inside a gate of the dead owner that
the lock names (`OneReclaimer`). No gate says so by itself: a process may stand
in front of a gate that was left long ago. `Chain` says that each gate of that
owner is at the first place or behind a dead gate. Places are distinct, so n
dead gates leave n+1 of them (the first, and one behind each), which n dead gates
and one live one fill: a second live gate has no place. That is a count of
finite sets (pigeonhole), not an induction over the chain.

`MCRecords_proofs` proves of the journal stream, for any processes and any number
of records and power failures:

- `StreamIsDurable`: `Spec => []Durable`: what `append` acknowledged is in the
  stream for good, at the position it was told, and all that is committed parses;
- `StreamIsAppendLog`: `Spec => ImplementsAppendLog`: the refinement of `AppendLog`.

`JournalOwned` ties each phase of an append to the lock, `WrittenOnce` says that an event is
in one line, `JournalWrites` that the view a writer compared is still the length of the
file, `JournalKept` that an acknowledged event is in the part that was synced.
`RoomLeft` counts once more: who has a record to append has not
used up the places of the stream.

`MCExclusion_proofs` also proves of the queue of turns, alone and behind the HTTP
server, for any set of operations and requests, without an assumption:

- `MutualExclusion`: `MCSpec => []OneTurn`;
- `FirstComeFirstServed`: `MCSpec => Queue!InTurn`, an action property: the session
  goes to a caller only when everybody who asked before is over, and a direct reset
  or deletion never runs beside a turn;
- `AnsweredOnce`: `MCSpec => []Http!OneAnswer`, the safety half of
  `EveryRequestAnswered`: one status line per response, and a success only for a
  turn that ended well.

`OneTurn` alone says nothing about cancelled waiters, whose places are what
keeps the others apart. The inductive invariant says that the passed places are
a prefix of the chain (`Prefix`), that a place is passed exactly when its owner is
over (`Owners`), that no two callers have one place (`Places`), and that
`pending` counts the callers in between (`Counted`). Two holders would own two
places of which the first is both passed and not. Every step of the server is a
step of the queue or leaves it alone (`Serves`), which carries the invariant over.

`MCRecords_proofs` proves of the seven other keepers of records, for any processes,
agents, calls, keys, models and bounds, what the run `records` checks of them.
`KernelsAssumption` says of the sentinels that they are none of the values they
stand beside, and that `MaxCalls` gives every run a number of calls. Each keeper has an invariant of its own; `EachOnItsOwn`
says once that a step is a step of one keeper and leaves the others alone, and
`Invariance` puts the seven together.

- `SessionsNeverFork`: `MCSpec => []NeverForks`. The lock alone does not give it: the
  file may change behind a cache between two writes. `Cached` says that an entry
  whose identity is the file's holds the file's lines; `SessionWrites`, that the
  kernel behind the lock had the whole file when it set out to write, so that the
  event it numbers is the next one; `Preserved`, that only the first line can be of
  the old version, and is what the copy holds.
- `NothingIsErased`: `MCSpec => NoErasure`, an action property. A thread is
  replaced when the snapshot still equals what was last read or written, or by
  something that extends it; in the first case everything of others in it has been seen.
- `RunsAreTold`: `MCSpec => []RunsTellAll`. `RunsTell` says that what a run has entered
  is on record or in the batch under way, `Delegated` that a delegate's
  run is a call its caller is in the middle of, and `Doubts` where an unknown outcome
  is until its run has failed of it: in the batch, or in the delegate it waits for. That
  a crew is no success over it needs the members to run one by one (`OneByOne`), and
  every member to have succeeded (`Finished`).
- `HistoryIsSeen`: `MCSpec => []SeesTheHistory`. `Continued` says of the state kept
  for a key, and of the one a failed turn would put back, that the conversation it
  names is the history up to the last answer of that adapter.
- `EvidenceIsGood`: `MCSpec => []Evidence`. `Latest` orders what an agent was
  shown by the time of its capture; `Validated` says that, while no two collections overlap, whoever
  collects began after the last invalidation. The excuse `overlapped` is in
  the property for the reason section 7 gives.
- `ToolsAreCurrent`: `MCSpec => []CurrentTools`. A catalog that is not stale was
  listed after all that was heard (`CatalogFresh`), and so are the pages of a listing
  during which nothing more was heard (`Listed`); no notification on its way is newer
  than the server.
- `FulfilmentIsEarned`: `MCSpec => []Earned`. `Earned` speaks of decisions; the
  invariant says where they come from: claims are those of completed runs (`Claims`,
  which needs `EndedRuns`: endings are final), a bundle's decision is what its
  attempts give and they are attempts at its claim (`Bundles`), a decision rests on a
  bundle made before (`Decisions`). That verdicts only settle is `Monotone`: more
  attempts fail more and miss less.

`WorkRecovery_proofs` proves for any steps, mutating and tracked or not, any
verifications, any bounds on renewals, finishes, reconciliations, faults and
crashes, and whichever methods are never called (`AnySpec`, which both runs'
specifications are instances of; `WorkAssumption` says only that the names of
steps, verifications and methods differ):

- `UncertaintyIsRemembered`: `AnySpec => []UncertainRemembered`: what may have run
  without a known result is in the saved attempt;
- `CompletionsStand`: `AnySpec => []CompletionStands`;
- `DoubtBlocksEffects`: `AnySpec => NoEffectPastDoubt`, an action property;
- `OneAttemptsOperations`: `AnySpec => []BackendOperations`: one claim, an ending of
  the attempt's own, no operation in doubt behind a completion;
- `ShutdownIsFinal`: `AnySpec => QuietAfterShutdown`, an action property.

A completion is decided in one stretch of `finish()` and committed in a later one, and
what it was decided on must not move in between. `Exclusive` says who has which mutex
where. `Finalizing`, that from the drain check of `finish()` to its dispatch nothing is
in flight or in doubt, and that the item has the evidence the attempt names; only
the subjects may have moved, which the fence at the dispatch looks at again.
`Ended`, that once the item is completed no method is at a point from which it
would put the attempt to work, in this process or the next. `Remembered` keeps a started step on
record in memory and on disk, from before it waits for the slot. `Recovered` says that
whoever may put the attempt to work has met what a crash left: it is
in doubt or resolved. Most actions keep all of this for the same reasons, which three lemmas
give once: `MethodKeeps` for a method between two awaits (`MethodStep`),
`RunKeeps` for the executor, `OtherKeeps` for the world. Each action then is
shown to be such a step; the exceptions, an admission, an operation at the backend, the first
record and the crash, have lemmas of their own.

What the backend took is a set of keys, and what the attempt knows of it two
ledgers, in memory and on disk. `Ledger` says of both that a
receipt is noted only when the backend has one and an absence only when it has none.
An absence would not stay true if the operation were still on its way to the backend;
`UnderWay` excludes that: an operation to be dispatched is started in the
ledgers, and a claim only without one before it. It says as well that `finish()` has nothing else started when it
dispatches. `Orderly` says that the claim is first and the ending last.
A verification left over when `reconcile()` recovered its result can start an
evidence operation behind a completion whose reply was lost. The backend refuses it,
so `NoUnknownOperation` is about the operations the backend has taken.

`shutdown()` drains what it finds in flight and then goes through both mutexes.
`Awaited` says that whose handler may run is one of those it drains, and that behind
that nobody runs. `InLine`, that a call that is still to settle is ahead of
`shutdown()` in the queue of the admissions, unless it is `Late`: a step that was
admitted but not in flight when `shutdown()` looked, which its policy has refused
since. `Past`, that behind the first mutex nobody but the late is past his admission,
and behind the second nobody is at the backend. A verification that `shutdown()`
overtakes between its two admissions only adds itself to the runs, and a late call
only takes itself off the record. These are the writes that the property
allows (`Overtaken`, `GivesUp`); it allows no handler, operation or effect.

`ChatTurn_proofs` proves of the chat turn, for any threads, calls, rounds and
budgets of history, and for any number of operations, failed appends, crashes
inside turns and recoveries, and messages of other processes (`ChatAssumption`: the
calls a model may ask for differ, as session.ts:2528 demands; `NoneAssumption`: the
code's `undefined` is no message, turn, step or checkpoint):

- `ChatIsTruthful`: `Spec => []Truthful`: a tool message says of its call what is
  true of it, and the caller is told of every handler that was entered.
- `ContinuationIsRestored`: `Spec => []ContinuationRestored`: between turns the
  provider continues only from what the model history holds.
- `EffectsAreRetained`: `Spec => EffectsRetained`: whatever ends a turn whose calls
  are answered keeps the answers of those that may have acted.
- `JournalStaysWhole`: `Spec => []WellFormed`: the validator refuses nothing the agent
  appends, and between steps every call in the history is answered right behind it.

A message once written can come back later, from where it was kept in between. So
`IInv` says the same of every such place: the history of the journal and the one a
failing turn goes back to (`JournalHonest`), the copy and the checkpoint of the
operation (`RunHonest`), the conversation store (`MemHonest`), the receipts that the
validator holds (`ToolsTrue`), and the events that the operation is still to append
(`AllTrue`). "Not executed" would not stay true if the handler could still be entered:
`OpenNow` are the calls that may yet be, and nothing may say so of them. `Accounted`
ties where a call is to what its handler did and what the caller is told. `Advances` says once
what the fold makes of a journal with an accepted event; `HonestAfter` and
`ToolsTrueAfter`, that a true event leaves it honest. An action then only has to show
that what it appends is true, and most append silent events. `RecoveryIsTrue`
is about `recoverInterrupted`: it calls "not executed" what has no intent on record,
and the intent is on record before the handler is entered.

The others are in `ChatRecovery_proofs`. Two of them share `CInv`: either a crash fell into a rollback (`torn`, the finding
`chat_effects`), or the operation is `Restoring`. A turn puts its continuation
back with events of its own, so what matters is what it has still to append.
`Continues` is what every journal satisfies: between turns the continuation
covers nothing beyond the history, in a step nothing beyond what the model has just
said, and a turn without a message of its own has no receipt of its own. `PlaceFits`
says where the operation stands: the turn it believes to be open is open, the history
and continuation it kept are those the turn began with or, after a round with
effects, the checkpoint; and when it is in the midst of a run of appends, that the rest
of the run leads to the next place (`Means`), and its failure to what catches it
(`Catches`). `Recovers` is the same promise of a journal alone, for the process that
finds it: what its recovery plan begins with is either rolled back already or holds no
receipt that would be lost. The steps between appends are simple, one
lemma each. For the appends, `EventContinues` says when an event leaves `Continues`
true, `StillContinues` proves it, and the lemmas `Gets...` and `Mends...` go
through the destinations: of a run with `n` events left each shows that its
first event is such a one and the remaining `n - 1` still lead there. No induction
over the run is needed, because the state between two appends is a state of the model.
`EffectsRetained` follows from the same account of the appended event.

`JournalStaysWhole` has an invariant of its own, `SoundInv`. `Sound` says of a
journal that it owes its history the answers of its tools, in their order, and nothing
else: what stands behind them is answered, and without a step nothing is owed.
`StandsWell` says of each place of the operation what the journal is ready for
there, `MeansWell` of each run of appends that its first event is accepted and the
rest leads to the next place, or its failure to a rollback that is accepted
(`Mending`). `Admits` is the one lemma that compares such an event with the validator; the
rest is that each action ends where it says. The process may be behind the
store by the one event whose append failed, so both are spoken of. A conversation in
the conversation store is whole too, with one exception (`MemSound`): a turn that a failed
recovery left open, whose thread the next switch projects, lacks answers there
until the journal has them. The histories that a thread switch reads from
the store are whole because of this, and the journal takes them as they are.

Only model-checked: everything temporal beyond `[]` and `[][A]` (liveness is out of the
prover's reach: `EveryCallAnswered`, `DeadOwnerCleared`, `EveryoneServed`); what
says ENABLED (`SomeoneGoes`, and `NoCallStuck` in `Healthy`); and of the chat turn
`MemoryFollows`, which needs that no two histories repeat a text. Where a proof takes from another
component what is proved there (the lock as an owner, the scheduler as slots), the
module says so at its head. The invariants that the proofs use were
checked by TLC first on the instances of the runs.

## 7. Findings

- `work_untracked`: docs/RUNS.md:107 says of the completion gate that later
  writes invalidate the proof. A mutating step admitted between the two
  admissions of `verify()` (controller.ts:679) moves the epoch before the
  evidence is collected and may write after it; when what it writes is not
  under a subject of the evidence, the completion goes through on it.
- `work_lapsed`: a test (test-client/run-work-tests.ts:79) says that a failed
  renewal stops admissions. `step()` checks the flag before it awaits its
  reservations (controller.ts:505), and `renew()` does not take the admissions
  mutex; a step checked before is admitted after the failure. The attempt's
  policy still keeps its handler from running.
- `chat_effects`: chat-agent.ts:988-990 says that completed effects must keep
  their model-facing receipts. `terminateTurn` (chat-agent.ts:805) appends the
  failed step, then the replacement that keeps the completed rounds, then the
  end of the turn. A crash behind the first makes recovery roll the whole turn
  back, receipts of completed rounds included. `EffectsRetained` is the property
  that holds when no crash falls into a termination.
- `chat_reopen`: chat-agent.ts:322-327 and 1098-1100 call the conversation store
  a projection that can be rebuilt. A history budget compacts the journal before
  the store follows (chat-agent.ts:408); a crash in between leaves a thread that
  is no prefix, nor an extension, of the journal, and the constructor throws
  "changed concurrently" at every later opening.

Seen while modelling, and in the modules as the code does it; no line of the
repository says otherwise clearly enough to be a finding:

- A look through the `get_thread` tool (memory.ts:212-217) becomes the instance's
  baseline; the next projection then erases another writer's messages that the
  model was shown but the journal does not hold. `NoErasure` excuses it by `seen`.
- The same crash with a history that was compacted to nothing has another ending:
  the session opens (the constructor skips an empty history), but this process
  never gets a snapshot of the thread, each later projection is refused as a conflict
  with the messages left in the store, and chat-agent.ts:706-718 swallows the
  refusal; the store keeps the old thread for good. `MemoryFollows` is
  therefore about a process that has once agreed with the store (`known`).
- A crash between the rollback of a turn and the restoration of the adapter's
  state (chat-agent.ts:1029-1035) leaves a continuation that covers the dropped
  answer: `ContinuationCovered` fails there, `ContinuationRestored` excuses `torn`.
- A crash during the first v2 append to a v1 session, after its `.pre-v2` copy is
  linked and while the file has grown, makes `preserveV1Bytes` compare unequal
  bytes and refuse every later append (session.ts:2873-2882; `PreserveRefused`).
- `verify()` does not test `stopping` in its second admission (controller.ts:679).
  When shutdown() overtakes it there, the shutdown releases the ownership and the
  verification then writes its run to the journal without it. It is refused before
  its command starts, so no effect follows. In the same way a call that is admitted but
  not yet in flight (controller.ts:571 and 746) is not awaited: its policy
  refuses it, and it is taken off the record after the ownership is released.
  `QuietAfterShutdown` excuses these writes only.
- Between the return of verify()'s second admission and `inflight.add`
  (controller.ts:746) a mutating step waiting in the queue passes the freeze check
  (controller.ts:466) and is admitted. Nothing is completed on it that should not be:
  admitted while the evidence is collected, it moves the epoch and the run does not pass;
  admitted before that, it runs behind the proof, and a tracked write is what the
  subjects' fingerprints catch (`CompletionStands`); an untracked one is `work_untracked`.
- `collectContextSnapshots` deletes the invalidation before it reads
  (context.ts:292). A collection by another agent that begins before that read has
  answered is served the old snapshot as fresh; and of two reads under way
  the one that answers last is kept, be it older. `NoneOutdated` holds as long
  as no two collections overlap (`overlapped`).
- When a turn is rolled back, refused for its history budget, reset or compacted,
  the evidence its message carried goes, but `contextSnapshots` still counts it as
  shown: later requests record snapshots the model is not shown, and it is not shown
  them until they change. `RecordedIsShown` excuses these (`forgotten`).

## 8. Not modelled

The implementation lines counted for this repository include its test clients (some 14,000 lines) and remote service
clients; these have no state of the program's own and are not modelled. Of the
code itself:

- In modelled components: permission, symlink and identity checks of files; the
  granularity of the time stamps in a cached file identity; power loss in
  `SessionStore`; ids and schemas; the executor's renewal lane; contents of
  records, digests and bindings (one binding); output artifacts; several items,
  plans and criteria per attempt; the block disposition of the controller; the
  formatting of context evidence; the schema and approval of MCP tools; the explicit thread a chat agent's constructor can be pinned to;
  the console of the chat agent; that the error of a failed parallel or
  sequential crew carries the record of the failing member only.
- `registry.ts`, `artifacts.ts`: maps of definitions and write-once files; what
  depends on their order (a replaced tool, a stale digest) is in `ToolExecutor`.
- `rag.ts`, the stateless adapters, `server.ts`, the other hosts and
  `providers/*`, `plugins/*`, `cli.ts`: format conversion, transport and numeric
  retrieval, with no state whose interleavings matter beyond what calls them.
