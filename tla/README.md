# monSQLize: a verification project

TLA+ models of monSQLize 3.5.1, a TypeScript runtime over MongoDB (`src/src/`, about 31,800 lines). The models
are read from the code. TLC checks them on small instances; TLAPS proves, for every value of the constants, all
but one of the safety properties that are checked. Paths below are relative to the repository's `src/`, so
`capabilities/lock/index.ts` is `src/src/capabilities/lock/index.ts`, and `docs/` is `src/docs/en/`.

Contents: [1 the system](#1-the-system) · [2 plan](#2-plan) · [3 modules](#3-modules-and-the-code) ·
[4 runs](#4-runs-bounds-and-fairness) · [5 proofs](#5-what-is-proved) ·
[6 disagreements](#6-where-the-code-and-the-documentation-disagree) · [7 limits](#7-what-is-not-modelled)

One run: `tlc -config MCDataPaths.cfg MCDataPaths`. One proof: `tlapm DataPathProofs.tla`.

## 1. The system

The README of the repository (Runtime Consistency Contract) states what the runtime claims: it coordinates cache,
transactions, sync and queues inside one process; invalidation follows a successful write or commit; Change Stream
sync is at-least-once; transaction cache locks are local to the process. All of it runs on one Node.js thread, so a
step is the code between two awaits, and the interleavings that matter are those of callers, timers, driver answers
and of several processes that share a database or Redis.

| Component (source) | State | Operations | What is hard, and what makes it correct |
|---|---|---|---|
| Query cache coordination (`core/cache-coordination.ts`) | read tickets, a tail of promises per key, holds | readThroughCache, coordinateInvalidation | a slow fill lands after the deletion that should have covered it; holds and fills wait for each other. After an acknowledged invalidation nothing older is served |
| Collection accessors (`adapters/mongodb/common`) | which routes share a cache | cached reads, writes, invalidate | keys of one read on several routes, in several shapes; writes that say too little in their answer. A write removes what its options ask for and nothing else |
| Transaction (`capabilities/transaction`) | state, three promises, timer, intents, locks | start, commit, abort, end, timeout, writes | the calls overlap; commit answers get lost and commit is retried. One outcome, the right one, caches invalidated, locks freed |
| Transaction manager (same file) | active transactions | withTransaction, abortAll | a callback that is retried while everything is being aborted. One attempt is committed at most |
| Distributed invalidation (`capabilities/cache`) | local and remote levels, messages | publish, handle | messages late or lost, refills under way. Who has handled an invalidation holds nothing older |
| Multi-level cache fence (`capabilities/cache`) | generations, pending setters, dirty flag | get, del, clear, invalidateByTag, cleanup | a refill of the first level races an invalidation |
| Count queue (`capabilities/count-queue`) | counter, FIFO queue, timers | execute, clear, abort signals, timers | a slot is handed over a microtask before its owner resumes; a cancelled count keeps its slot. Slots are neither lost nor duplicated, everybody is answered |
| Change Stream sync (`capabilities/sync`) | generation, targets, queue, token, marks | start, stop, handler, stream errors | start and stop overlap; targets fail one by one; crashes between applying and saving. No event skipped, no connection left behind |
| Data-task lease (`capabilities/data-tasks/job-lock.ts`) | one document, a deadline, a renewal timer | acquire, renew, assertHeld, release | late and lost answers, expiry, crash. One task may write at a time |
| Data-task jobs (`capabilities/data-tasks`) | documents, indexes, approvals, backups with a manifest on disk | preview, apply, restore | a failure at any point, other writers between any two reads of a plan. What was approved is what is written, what was written can be undone, nobody else's write is lost |
| Business locks (`capabilities/lock`) | Redis key, handle | acquireLock, renew, release, isHeld | as the lease, over Redis with retries |
| Runtime lifecycle (`entry/runtime-core.ts`) | promises, generation, resources, a shared memory server | connect, close | close during a startup, a cleanup that fails. Nothing leaks, both settle |
| Connection pools (`capabilities/pool`) | pools, clients on their way, health | addPool, removePool, close, checks | a client that opens after close; a stale health answer |
| Slow-query log (`capabilities/slow-query-log`) | buffer, timer, batch under way | save, flush, close | overflow while flushing, save while closing. Every entry accounted for |
| Saga (`capabilities/saga`) | completed steps | execute, retry, time out, compensate | a timed-out step completes later |
| GridFS uploads (`capabilities/gridfs`) | sessions, chunks, files | begin, append, finalize, abort | operations of several requests interleave. A visible file is whole |
| Models (`capabilities/model`) | versions, deletion marks, references, index tasks | every kind of call, with its hooks; strict updates, protected delete, ensure indexes | lost updates, hooks that rewrite a call, references made during a delete, deployments with other indexes. What is stored was validated, what is deleted stays unseen |
| Writes (`adapters/mongodb/writes/write-batch.ts`) | batches, report | insertBatch, updateBatch, deleteBatch | workers, partial failures, retries, lost answers. The report is true |
| Inputs of cached reads (`queries/query-helpers.ts`, `query-cache-keys.ts`, `index.ts`, `utils/objectid-converter.ts`) | what a chain was built with, whether it has asked | find, aggregate, findOne, count, distinct, findOneById, findByIds | a program changes its objects while a read waits; two conversions of identifiers, and keys made twice, by a read and by a descriptor. A key tells all that decides the result, a read is answered with what it has asked |
| Queries (`adapters/mongodb/queries`) | cursors, bookmarks | findPage | null and missing values, ties, stale bookmarks |
| Expression compiler (`core/expression`) | none | expr | precedence, captured variables |
| Model schema extensions (`capabilities/model/schema-dsl*.ts`) | keys remembered for a runtime that instances share | connect, configure, dispose | whether a function uses names of its surroundings, from its source; registrations that fail half-way |
| Write-path policy (`capabilities/write-path-policy`, `collection-accessor.ts`, `database-surface.ts`) | rules, open model writes | decisions, every operation of a collection, database and client | a database is screened by the text of keys; what a rule closes on one path may be open on another |
| Function cache, management, conversions, exports, logger, CLI | little or none | | delegation and data; not modelled |

How they interact. A query goes through the accessor to the cache coordinator; `count` goes through the count
queue. A write is sent by the accessor, which then calls `coordinateInvalidation` or, inside a managed transaction,
records an intent that `Transaction.commit` flushes the same way; the deletion is also published to other processes.
Data-task jobs take the lease of their target and ask `assertHeld()` before each write. `connect()` creates pools,
sync, log, transactions and locks, and `close()` takes them down. Each hazard, with its line and the properties
that cover it, is in `PROJECT.json` ("hazards").

## 2. Plan

Done: every component above but the last row; a theorem for every safety property of the runs but `TextsUnderstood`.

Left, in this order:

1. More code under the map: the in-process lock managers, the wiring of a runtime, the function cache with its barrier.
2. More abstract specifications: the fence and the distributed invalidation as implementations of `CacheContract`,
   as the coordination is; the transaction that `TransactionManager` sees as what `Transaction` implements.

## 3. Modules and the code

`PROJECT.json` ("map") gives the lines of every definition. Throughout, a step of a model is the code between two
awaits; a request is a step of its own when its answer may be late or lost. Mutated forms (`...Leaky`,
`...Unchecked`, ...) stand in front of the definition they mutate, no specification uses them, and "mutants" says
which property each one breaks.

**Caches.** *CacheCoordination* is the whole of `core/cache-coordination.ts`: `tail[k]` is the chain of promises on key
k; a fill queues there (`Chain`, `SendFill`, `Stored`), an invalidation revokes tickets and reserves every tail its
intents match at once (`Revoke`), waits for what is ahead (`Drained`), deletes (`Delete`) and lets go. A query with page
totals takes in an entry of another query (`TakeNested`, from `find-page.ts`). The content of the collection is its
version number. *CacheContract* says what callers may assume, with `floor[k]` the oldest version still allowed.
*QueryCaching* says which entries those intents are: what each kind of read stores, what descriptors resolve to on
linked routes, which answers of writes invalidate. *BackfillFence* is the first level of `MultiLevelCache` with the
tickets and setters of its wrappers, *DistributedInvalidation* one key in several processes with messages between them;
inside a process it uses what the other two come to.

**Transactions.** *Transaction* has one record `tx` with the fields of the class and a phase per call, since any
number of `commit()`, `abort()` and `end()` may be suspended at once; the timeout is a call of `abort()`. Server and
driver session are external: a commit request is applied in flight or not at all, and its answer can be lost.
`MayForget` lets a retry of an applied commit get a definite error; `MayRecommit` lets the program call `commit()`
again after a definite failure. *TransactionManager* is `withTransaction` with its retries, `abortAll` and the timeout; a
transaction's commit and abort are single steps there.

**Leases.** *DataTaskLease* and *RedisLock* both implement *LeaseContract*: one believer at a time, and never passed on
in one step. A request, its execution and its answer are separate steps, answers may be lost, a request given up may be
executed later (`StrayGranted`, `StrayExecuted`, ...). Redis removes an expired key by itself; the lease document is taken over
by a filter on `expiresAt`. *DataTaskJob* treats `apply()` and `restore()` alike: each executes a backup made just before.
The manifest is written ahead: `AnnounceBatch` saves what is about to be written, `RecordBatch` what was. Every save and
write may fail before or after it took effect, and the process may die anywhere. *DataTaskPlan* is what is in such a plan:
`job-normalizer.ts` is `JobAllowed`, the awaits of `planCollection` are `ReadIndexes`, `ReadOrigin`, `MatchTarget`, `MatchConflicts`,
`CheckExisting`, `ScanTarget` and `CheckScanned`, `preview()` ends in `Issue`; `apply()` plans again, compares (`Approved` stands
for the four hashes) and writes index by index and document by document (`BuildIndex`, `WriteChange`, `ConfirmChange`). The server
keeps its unique indexes at every write (`Enforced`). A check that throws and a call that fails are both `RefuseTask`. The lease is left
out, so what holds of any number of planners holds without it. Of a planner, `quiet` and `start` are history: the target when it
began, as long as nobody else has written since.

**Services of a runtime.** *RuntimeLifecycle* is `connect()` and `close()` of several runtimes with four resources that
stand for all, and the memory server they share; a client that is refused (`ClientRefused`) gives its reservation back and,
if it was the last, stops the server first (stage `stop`; `left` is a server whose stop failed). *ConnectionPools* names a client by the
call of `addPool()` that made it,
since it is open long before its pool is registered. *PoolHealth* follows one pool name through its clients; a check that
the code's epoch makes obsolete is marked superseded. *CountQueue* is `execute` and what it calls; `woken` is the
interval between `_wakeNext` and the resumption, in which an abort may still arrive. *SlowQueryLog*, *Saga* and
*ResumableUpload* are those classes whole, the last with one phase per call since four collections are read and written
in turn. *ChangeStreamSync* is the manager over several lives of a process; streams and targets carry the generation of their
`start()`; its `Resumed` guard says that callers awaiting a promise that has just settled continue before new calls arrive
(microtasks). *AtLeastOnce* is the promise of `docs/sync-backup.md`.

**Data.** *ModelVersions* has one counter and two flags per document, and the twelve kinds of calls that read, write
or report versions; a patch of a document read without one looks it up (`Unexpected`, `Lookup`). *ProtectedDelete* and *ModelIndexes* are
the deletes that scan relations and the tasks that ensure
indexes, against other programs. *ModelCalls* puts the calls of a Model among those deletes: a call is a record of what its
properties tell apart (`AskType`), a before hook puts another one in its place or throws (`Send`, `HookThrows`), then it is
validated, given its visibility condition, and sent; the server comes to its documents one by one (`Finds`, `Stores`,
`SoftDeletes`, ...), so calls interleave inside a bulk write as well. *BatchWrites* is one batch call; a retried insert sends the same
`_id`s. `InsertWorker`, `UpdateWorker` and `DeleteWorker` are the loops of the three functions, which differ in what an answer
tells and in what may be sent again; `Accepted` is the refusal to retry `$inc`, `$push` and the like, `ProgressThrows` and `WorkerThrows`
are a callback that throws where a failure is caught and where it is not, or a transaction that is over. *PageWalk* is
`findPage` by cursor, number and bookmark over documents of one sort value. *Expressions* writes trees down as tokens and
reads them back as `expression-compiler.ts` does.
*FunctionSources* does the same for functions that extend a schema runtime: a text is a sequence of tokens, masked, bound and looked
through as the six files `schema-dsl*.ts` do (`ClosureSensitive`), and its bodies grow statement by statement, so that `Captured`, the
scopes of the language, is known of each. Where the code tries patterns one after the other, an operator tells the tokens they match;
`0` stands for every literal, a string, number, regular expression or comment. `RegisterAll` and `Reset` are what instances do to the runtime
they share.
*ReadKeys* is what a read asks and what it is keyed by. A filter is a tree of kinds and contents, a key the tree that its text spells, so
that `Normalized` and `Converted`, the two conversions of identifiers (`normalizeQueryFilter`, `convertObjectIdStrings`), `Snapshot`,
`KeyOptions` and `DriverOptions` are short recursions and sets of names. `BuildChain` and `Await` are a chain's constructor and
`executeResult`, `Call` the reads that start at once, `PassBarrier` and `Ask` what follows each await, and `GoOn` a program that meanwhile
changes the objects it has handed over. *WritePathPolicy* decides for a collection and for a database, and
*DatabaseOperations* is what asks it: the wrappers a runtime hands out, each operation with its category and its source, and
`runWithModelWriteSource`, inside which a collection write counts as the model's.

`MC...` modules give constants their values and put several components side by side: the variable `part` chooses the one
that moves, the others stay in an initial state. Nothing crosses between parts; it saves runs, and every component is
explored whole. What is proved for a component is checked there in every state.

## 4. Runs, bounds and fairness

| Run | Instance | What it shows |
|---|---|---|
| `cached_reads` | 3 queries, one a page with totals, 2 writes, 2 keys; 10 families of entries of a query on 4 routes, 9 cache options; 3 documents, a sort down and `_id` up, limits 1 and 2, 3 pages, 1 change; trees of 2 operators, 3 binders; bodies of 2 statements in each other, 2 names, 2 functions of a source, 3 registrations; 24 filters under 5 settings of conversion, 2 filters with 28 sets of options, 4 lists of ids, 2 reads of a kind, 1 change by the program | `NothingStale`: no entry, and no fill on its way when a deletion begins, is older than an acknowledged write. `ImplementsContract`. `RemovalsAreRight`: a write removes what its options ask for, nothing of others, and no read of a transaction is stored. `PagesExact`: pages are what a sort would show. `TextsUnderstood`: expressions keep their operators and variables; a function that uses a name it does not bind is told from others of its source, and what is remembered as registered is there; keys of reads tell all that the database is told, reads are answered with what they asked, descriptors name their keys, and hex strings become ObjectIds but in excluded fields |
| `data_task_lease` | 3 tasks, a lease of 2 in 4 instants | `BeliefIsBacked`, `ImplementsLease`: a task that believes owns the document until its deadline |
| `data_task_job` | manifests: 2 documents, 1 index, 3 backups, 1 foreign write. Plans: 3 ids, 2 values, 2 keys of indexes, 5 jobs; one planner on every source and target of at most 2 documents, or two and a foreign write on a few | `TasksHold`, of four parts. `UndoIsWhole`: wherever the last run stopped, its backup undoes it, and "failed" means nothing changed. `SyncIsExact`: an apply() that passed alone left the source in the target, each document once, and nothing else changed. `QuietProceeds`: alone it fails for two reasons only, below. `PlanTypeOK`. `TasksWriteWithCare`: no later write of another program is overwritten (`LaterWritesKept`), and each write is one that an approval shows, from the same image (`WritesAreApproved`) |
| `transaction` | 2 commits, timeout, abort, 2 ends, 2 keys | `OutcomeIsOne`: commit and abort do not overlap and the state shown is the server's. `NothingStaleLeft`; `EndIsClean`: what is over holds no lock and takes no write; `EveryCallSettles` |
| `shared_state` | 2 users of a lock; 3 documents, any 3 of 13 calls (a patch of a document an upsert made among them); 2 runtimes with 2 declarations of 3 indexes; 2 processes, 3 queries, a write, 1 lost message; 2 withTransaction with 2 retries and an abortAll | `BeliefIsBacked`, `ImplementsLease` of the lock; `VersionsHold`: no versioned change overwritten unseen; `IndexesStay`: what a fulfilled task does not report is there; `InvalidationReaches`; `ManagerCorrect` |
| `runtime_services` | 5 counts on 2 slots and a queue of 2; 2 runtimes, 3 connects, 2 closes; 3 addPool, 2 removePool, 2 pools; 3 clients of a pool; 4 log entries, batches and buffer of 2; 4 saga steps; 2 starts, 1 stop, 2 targets, 2 events, 1 crash; 3 appends, 2 begins, 2 finalizes, 1 abort of 2 chunks | `SlotsAccounted`, `HandOverInOrder`; `RuntimeOwned`; `ClientsAccounted`; `DownIsItsOwn`; `LogAccounted`; `SagaAccounted`; `ConnectionsKept`, `AtLeastOnceDelivery`; `UploadIsWhole` |
| `data_paths` | 2 wrappers with a read and an operation each; 5 documents in batches of 2, one of them refusable, 2 retries, 3 answers lost or short of the write concern, or callbacks that throw; 2 documents, 2 relations, 2 protected deletes; a caller with 18 different calls (a replacement that inserts and an update that unsets the mark among them) beside a deleteMany, and beside a protected delete, with hooks of both kinds; 2 rules on 2 databases and 2 collections, then 2 callers under 1 rule | `FenceHolds`: no refill of a read older than an operation, closing is alone; `BatchReported`: the report is true, an update that may not be repeated is not; `ModelsHold`: what had to be validated fits the schema, a soft deletion is reported once, no read returns what was deleted before it began, what is in use is spared; `PolicyHolds`: no path is open that the rules close, no operation is carried out that was refused |
| `progress` | the smallest instances in which somebody waits | every count, query, invalidation, start, stop, connect and close settles, a hung pool is found, log entries leave, declared indexes are made |
| `page_totals_stale`, `transaction_forget`, `data_task_undo`, `gridfs_abort_race` | | violations, section 6 |

Why the bounds are enough. Two slots and a queue of two with five calls fill both, so that a refusal, a hand-over and an
abort in the window of a hand-over happen together. Two writes over two keys hold overlapping tails in both orders,
with a third query between. In QueryCaching, intents touch each entry on its own, so one entry at a time stands for any
number, and while a transaction is open nothing else writes or registers a route. Two commits, ends and aborts give each
await of the transaction a second caller of its kind. In sync, one event concerns both targets and one only the first,
and the crash can fall between any two steps. A lease of two units in four lets it expire, pass on, expire again and be
renewed on both sides; for the lock, an acquisition of one and renewals of two in three instants do, since it is proved for all.
Three backups are the shortest chain in which a restore is restored. The five jobs of a plan have both identities, a
renaming, an unset, a business identity, both strategies, a sparse and a declared index between them; three ids are two documents and
a place for a third, and a preview is followed by an apply of the same job (`OneJob`), since another job cannot be `Approved`. Any three
of the model's calls are made together:
a lost update needs two and a witness. Five documents in batches of two leave a short batch; two retries let a batch
fail in part twice, by what is refused and by what an earlier attempt has stored; of a write-concern error a result counts all and names none
(`counted`, `confirmed`). Operations are tried with a default and one more rule (`KeysInUse`), one call at a time: a call looks at the policy
and asks the server at once. Sorts of pages are halved by symmetry: turning the documents round turns the other two into these.
`MaxTime`, `MaxMeddling`, `MaxEvents`, `MaxCrashes`, `MaxBackups`, `MaxOthers`, `MaxPage`, `MaxChanges`, `MaxLost`, `MaxFailures`,
`MaxDropped`, `MaxRedefined`, `KeysInUse`, `MaxUnheard`, `MaxGrowth`, `MaxBinders`, `MaxConnects`, `MaxCloses`, `MaxPoolCloses` and `LogCloses` cap what
the code leaves unbounded. Deadlock checking is off because all of these systems come to rest when every call is answered.
Symmetry is used in runs without liveness, over writers, users, tasks, documents and relations that nothing distinguishes.

Fairness, always weak, is on steps the code takes by itself once enabled, never on calls, writes or failures:

- CountQueue: resumption and the two timers, which always exist (the constructor sets their defaults); that a count ends is not assumed.
- CacheCoordination: each step of a query or write under way. That fetches, `cache.set` and deletions answer is assumed of driver and
  cache, whose time-outs reject.
- Transaction: answers of the server (driver time-outs turn them into errors), the retry loop, the continuations. A flush may fail.
- ChangeStreamSync: the stream's close, the handler, the emission of events by an open stream, the steps of a `start()` or
  `stop()` under way. Nothing obliges anybody to call `start()`.
- RuntimeLifecycle: the steps of a startup or release under way and of the server; ConnectionPools has no liveness property.
- PoolHealth: the interval and the time-out of a ping. SlowQueryLog: the steps of the queue and of the drain of a close.
- ModelIndexes: the steps of a task, and that a model in use is used again.

## 5. What is proved

Assumptions on constants are named and evaluated by the runs. Each safety theorem is `Spec => []P` with P the very definition
a run checks, for any numbers of actors and any values of the constants, through an inductive invariant.

| Module | Theorems (property) | The inductive invariant, and why it is needed |
|---|---|---|
| CountQueueProofs | `TypeCorrect`, `SlotsAreAccounted`, `HandedOverInOrder` | Types, slot conservation and exactness of the queue (each waiting call is there once, nobody waits beside a free slot): a splice must remove the one entry and a hand-over find a waiting call |
| CachedReadsProofs | `TypeCorrect`, `InvalidationIsFinal` (NothingStale), `Implements` (ImplementsContract) | Versions related to positions in the tails: a valid ticket saw nothing older than any revocation of its key, an older fill is ahead of the hold that revoked it, what a writer deleted stays fresh until acknowledged. The refinement adds that values and entries are no newer than `db` |
| | `RemovalsHold` (RemovalsAreRight) | `CachingInv`: the intents of an open transaction are what its write would have now. The rest is lemmas on operators: what descriptors ask for is touched by what they resolve to, no intent is foreign, no answer that owes an invalidation goes without |
| | `PagesAreExact` (PagesExact) | Sorting is given by ranks: a row's number is how many documents come before it, which is a bijection because cursors are totally ordered, and a query from a cursor matches those after it, missing and null values included. `SweepOK`: the front of a sweep lies beyond where it began, and it ends where there is no more. `JumpOK`, `BookmarksOK`: unless something was written since, what a jump or bookmark holds is the page of its number and that page's last row, so the rows after it are the next page |
| TransactionProofs | `TypeCorrect`, `Serialized`, `EndsAreClean`, `OneOutcome`, `CachesFollow` | `SInv` says whom a suspended call awaits and that what `commitOnce` found out shows in the handle; `HInv` adds when writes are accepted and who holds locks; `OInv` that the state shown agrees with the server and that every intent is flushed or still to be |
| DataTaskProofs | `TypeCorrect`, `BeliefBacked`, `Implements` | A believer has the document until its deadline at least, since both count from the same instant, the request's; so two believers would both own it |
| | `TasksStayWhole` (TasksHold), `TasksTakeCare` (TasksWriteWithCare) | Manifests, `JobInv`: types; images as old as their backups, and what others wrote the image of no backup; the manifest on disk explains the target; the run in memory accounts for what it announced and recorded. Plans, `PlanIInv`: what each phase has read agrees with the source as read (distinct identities, items that keep them) and, while nobody else has written, with the target when the call began (`start`); the changes are then exactly what `After` asks for, the limits of the reads have cut off nothing that matters (lemmas on `Limited`), what is left to do is still as planned and what is done is in place. Without the images of `start`, a step that writes one document would say nothing of the others |
| SharedStateProofs | `TypeCorrect`, `BeliefBacked`, `Implements` of the lock | As the lease, and `Timely`: when an "OK" arrives nothing of the same process is left to be executed, and while a handle is held all that is left are renewals that end no earlier than what is believed |
| | `RetriesAreSafe` (ManagerCorrect) | Status and fate of a transaction agree, attempts are made in order, what is listed is a current attempt |
| | `FulfilledStaysThere` (IndexesStay) | The declared indexes of a running task are missing, reported or there |
| | `InvalidationHolds` (InvalidationReaches) | A read with a valid ticket takes in every write its process has handled; after the deletion nothing older is being stored; a remote entry is clean or a deletion of it is still to be done |
| | `VersionsAreKept` (VersionsHold) | A document's version counts its versioned changes; what a call has sighted fits a prefix of that history; strict calls hold each candidate once |
| RuntimeProofs | `RuntimeStaysOwned` | Per runtime: a startup opens in order and unwinds what it opened, a release covers what its snapshot held, generations separate them, no two own one resource; and the server follows its clients: no client is left while it stops, whoever stops it |
| | `NoClientLeaks`, `DownByItsOwn`, `NoEntrySlips` | Every client is in one of the manager's places; failures counted belong to the current client; every entry is in one place, and a sealed manager accepts none |
| ServiceProofs | `SagaTellsTruth`, `AcceptedStays`, `FilesAreWhole` | What is reported follows what was done; chunks that were accepted stay unless an abort runs, and a finalize that inserts the file has seen them all |
| | `StreamsAreKept` (ConnectionsKept), `EventsAreDelivered` (AtLeastOnceDelivery) | `Kept`: one start at a time, each phase says what its generation has open, nothing is orphaned. `Delivered` adds that the queue is in order and that what is taken from it was served |
| DataPathProofs | `NoReadComesLate` (FenceHolds) | A ticket is as old as the last increment or revoked; setters under way keep a cleanup out |
| | `UsedStays`, `ModelsAgree` (ModelsHold) | No relation scanned so far has held a reference to the target ever since. What is sent was validated if it had to be and has its condition unless a hook took it away; a visible document's deletions are not yet counted, a deleted one's once; a read has taken nothing that has been deleted since it began |
| | `BatchIsReported` (BatchReported) | What an answer says was done is stored and not counted yet; what is named was counted, and all of it unless a request or callback went wrong; what is not sent again is stored unless the call is to be rejected; an update or delete has left something of a batch to do until its answer says it is done |
| | `PolicyAgrees`, `OperationsObey` (PolicyHolds) | Types; the decision is a predicate of the rules. Of each answer: what it says was done concerns a namespace that a rule lets through, whichever wrapper was asked |

Hypotheses that are part of statements, and what happens without them:

- `InvalidationIsFinal` and `Implements` are about keys whose queries take in no other query's result (`PlainKeys`): with nested totals
  a stale page is possible (section 6).
- Transaction: `~MayRecommit`, since a second `commit()` after a definite failure may overlap an abort; for the last two also
  `~MayForget` (section 6).
- `EventsAreDelivered`: `MarkMode # "start"`. A mark stored before a failed apply skips the event, by design.
- `FilesAreWhole`: `~MayOverlap` (section 6). `AcceptedStays` needs no such condition.
- `VersionsAreKept`: what is purged is not inserted again under its `_id` (`NeverReborn`: versions would restart), and calls that move a
  document out of the filter are versioned (`MoversAreVersioned`: a strict update tells "moved" from "gone" by the version).
- `BatchIsReported`: `~LosesMany`. When the answer to an updateMany or deleteMany of a batch is lost, the call can count nothing for it and
  leave the cached query (section 6).
- Lease and lock assume one clock; the lock, that a renewal does not shorten it and that commands of a process are executed in order.

What `QuietProceeds` excepts, and why. Changes are written one by one, so when two documents exchange a value of a unique
index the first write is refused, although the plan passed (`Exchanged`). Missing indexes are built before the documents are written, so
an index that only holds after the changes cannot be built (`Repaired`). In both cases the task stops and its backup says so; TLC shows
both when the exception is taken out.

Left to TLC. Liveness (`EveryCallSettles` and the run `progress`) needs fairness and ENABLED. `TextsUnderstood` is
about recursive operators over trees and token sequences: what they compute for every one takes induction over data.

## 6. Where the code and the documentation disagree

Four runs reach a state a document rules out (`PROJECT.json`, "findings", quotes the lines):

- `page_totals_stale`: between the revocation and the deletion of an invalidation, `findPage` can read an old totals entry and store a
  page with it after the page key was deleted. The page outlives the invalidation.
- `transaction_forget`: the first commit attempt is applied and reported unknown, the retry gets a definite error. Only the last error is
  kept, so the transaction is shown aborted and its invalidations are discarded although the server has committed.
- `data_task_undo`: the safety backup made by undoing a restore that deleted an inserted document has `op: update, before: null`, which
  the planner refuses, though the documents say that the backup of a restore can be restored.
- `gridfs_abort_race`: an abort that found no file deletes the chunks of a file that a finalize has made visible in between.

Also met while modelling, and kept out of the runs:

- Transaction: `commit()` called again after a definite failure may run while an `abort()` resumes from its await of the first.
  `CacheLockManager.isLocked` is never asked by the read path (`docs/transaction.md` says other reads bypass the cache).
- Locks: a renewal that shortens a lock, or a release, may be executed and its answer lost; `isHeld()` then says true of a key that is
  gone (`docs/business-lock.md:171`).
- FunctionSources: `isStatementLabel` and `isObjectLiteralKey` take the middle of a ternary over several lines (`flag ?`, then `captured :`) and
  the last of `case a, captured:` for a label and a key, so a captured name there is not seen. Such statements are not among `Forms`. The other way
  round, a method in an object inside a method, or a class after a line without a semicolon, is seen as depending on its surroundings when it
  does not: it is registered once for each function, which is safe, so `ClosuresAreSeen` asks for the converse of bodies of plain statements only.
- ReadKeys: an `excludeFields` entry that is a dotted path is not respected under an operator (`{'a.b': {$in: [hex]}}` keeps it in a chain only;
  `docs/objectid-auto-convert.md:138`); `convertObjectIdStrings` converts under `$not` or in lists of lists, which a chain leaves, and a chain
  converts in `$expr: {$in: ...}`, so the descriptor of such a findOne, count or distinct names another key (`docs/cache-invalidation.md:74`,
  `Usual` excepts these); the key of a findOneById descriptor takes `project` and lists of names as they are, which the read does not
  (`query-cache-keys.ts:129`); `singleBatch` and `allowPartialResults` are in no key.
- BatchWrites: with `LosesMany`, `CacheShowsBatch` is violated (`docs/cache-configuration.md:29`); single writes with a lost answer, failed
  deleteMany and aggregate pipelines that write do not invalidate either. An insertMany that fails with a write-concern error
  only is counted, but its `insertedIds` are not in the report (`write-batch.ts:284`).
- QueryCaching: an exact `findPage` descriptor leaves totals and bookmarks (`docs/cache-invalidation.md:70`); hosts named
  differently count as different servers (`docs/cache-invalidation.md:9`); management operations never invalidate.
- DistributedInvalidation: with a shared remote level a process that has handled a message can be refilled by an old entry that another
  process stores there late, so `InvalidationReaches` claims `HandledIsForgotten` without such a level only
  (`docs/distributed-deployment.md:627`, `docs/configuration.md:278`).
- Models: a v1 before hook that replaces the query of a `find` drops the visibility condition, and `save()` of a soft-deleted document
  that was read without its mark revives it; what a standard after hook throws rejects a call whose write is done (`docs/hooks.md:619`);
  an updateOne with `upsert: true` reports WRITE_CONFLICT though it stored, upserted documents have no version, upsertOne
  bypasses it (`docs/model.md:1668`, `1674`); `save()` may undo an unversioned change; a reference made after the scan of its
  relation dangles; a dropped collection's fulfilled index task is not done again (`docs/model.md:331`, `335`, `993`, `1034`).
- PageWalk: a NaN cursor becomes null, Decimal128 values end a walk early (`docs/findPage.md:1397`), a page beyond the end answers the
  number of an empty page, `hasNext` is always true after `before`.
- ResumableUpload: chunks appended after an abort are orphans that block a later begin; `nextChunk` is never read back.
- Data tasks: a write sent right after `assertHeld()` carries no fencing token (`job-apply.ts:96`); indexes are dropped by name (`job-restore.ts:370`).
- WritePathPolicy: a key that names a collection with a dot is taken to name its database (`docs/write-path-policy.md:55`);
  `PolicyConsistent` excepts these (`Misread`).
- Expressions: a value whose only top-level operator is `===` or `!==` is not compiled unless parenthesised
  (`expression-compiler.ts:251`), chained comparisons split at the leftmost (the model parenthesises them), `??` binds looser than
  `||`, and `expr('+a')`, `a & b`, `a | b` recurse endlessly.
- Lifecycle and pools: a memory server whose stop failed while no client was open stays up until the next connection; `connect()` awaits a
  closing promise once; clients of failed `addPool()` calls do not count for
  `maxPoolsCount`; `startHealthCheck` during a pending `removePool` leaves a timer; `selectPool` may hand out a client being closed.
- BackfillFence: `setPublish` has no caller in `src/`.

## 7. What is not modelled

- Caches: how trees become text in keys, how BSON leaves, functions and `DBRef`s are copied, read preferences; explain, streams and meta of
  reads; patterns as text, and those given by the application (`cacheKey`, `pattern`); function-cache and
  its barrier; batches of own keys; the write policy "local-first-async-remote"; more than one key in several processes.
- Transaction: statistics; `LockManager` in one process, `withLock`'s fallback, `addLock`; renew() and release() of one handle that
  overlap (one command of a process at a time).
- ChangeStreamSync: the best-effort token store (`strictSave: false`), health checks of targets; a stream that never closes.
- Data tasks: several collections, batches of a read (one batch each), nested paths of a patch, arrays under a unique index, collations,
  `verify.fields`, the bytes of a backup and the files; clocks that differ. Manifests and plans are modelled side by side: the manifest has
  images in place of documents and no deletes by other programs; in plans other programs may also delete. An older backup restored
  after a newer apply is judged by content: a document that is back at the same image counts as unchanged.
- Lifecycle: of the resources four stand for all; accessors, events and statistics. Pools: selection strategies. SSH: the socket.
- Models: defaults, time stamps, virtuals and normalisation change documents in ways no property tells apart; how population joins
  documents. Hooks change what a call is given, not what kind of call it is. Queries other than `findPage`, options and explain; the
  stages of `core/expression/index.ts`.
- The last row of the table of section 1; the reasons are in `PROJECT.json` ("components").
