# A TLA+ development for InDB8

InDB8 is a JSON document store that runs as a service on a message bus.  Clients
put, merge, delete and query objects, watch queries, and define *kinds* (schemas
with indexes) and quotas.  This directory models the parts of it whose
correctness depends on the order in which threads, transactions, failures and
restarts happen.  TLC checks the models on small instances; TLAPS proves the
main results for every instance.

Run a model with `tlc -config X.cfg MCM.tla` and the proofs with `tlapm M.tla`.
`PROJECT.json` maps every definition to the lines of the source it stands for.

## The system

| component | state it keeps | operations | what makes it hard |
|---|---|---|---|
| Luna and socket service (`src/core/MojService*.cpp`, `src/luna`) | subscriptions, requests awaiting a reply, categories | send, cancel, dispatch of requests, replies and cancels, close | the maps are shared by the reactor and the pool; a message may be cancelled while it is being answered |
| Message dispatcher (`MojMessageDispatcher`) | two lists of queues, the messages of each, a stop flag | schedule, dispatch, stop, wait | several threads, one sender at a time, wake-ups, drain on stop |
| Signals (`MojSignal`) | the slots connected to a signal | connect, cancel, fire, call | slots cancelled and fired by different threads |
| Service handler (`MojDbServiceHandler*`) | per watched request a `Watcher`; per request a batch | one handler per method, retry on deadlock, rollback on error | notification against cancel; replies before and after commit |
| Internal handler (`MojDbServiceHandlerInternal`) | the calls to other services, the activity of the purge | scheduled purge, pre and post backup and restore, alert at boot, locale change | long calls to other services, answered late, twice or not at all |
| Database (`MojDb`) | open flag, schema lock, engines | open, close, drop, put, merge, del, find, watch, change of locale | read-modify-write on objects, revisions, nested batches, a failure at any step of an open |
| Purge, backup and restore (`MojDbAdmin`) | the last purged revision, a revision per day | purge, dump, load | long walks in batches beside writers, files that fill up, crashes between batches |
| Client of the service (`MojDbServiceClient`) | the batch being written | the methods of the database, as messages | what one side writes the other must read |
| Request (`MojDbReq`) | nesting count, batch flag, transaction, schema lock held | begin, end, beginBatch, endBatch, abort | nesting; when the lock and the transaction end |
| Kinds (`MojDbKind`, `MojDbKindEngine`) | kinds, inheritance, indexes | putKind, delKind, reload, find | index sets rebuilt inside transactions, reload after failure |
| Kind state (`MojDbKindState`) | tokens of property names, index ids | new tokens, load, reload | shared by requests, stored in transactions of its own |
| Index and query (`MojDbIndex`, `MojDbQueryPlan`, `MojDbIsamQuery`, `MojDbCursor`) | index collection, watchers, ranges, position | update, build, find, seek, next, nextPage | limits, end keys, ranges, indexes under construction |
| Watcher (`MojDbWatcher`) | state, ranges, limit key, fire key | init, activate, fire, cancel | commits race with the reading of the rows |
| Transaction (`MojDbStorageTxn`) | quota offsets, watchers to fire, commit signals | addWatcher, commit, abort | what happens when a step of the commit fails |
| Engines (`db-engine/leveldb`, `sandwich`, `berkeley`) | tables, overlays of pending writes, sequences, object ids | open, put, get, del, find, begin, commit, abort | several tables in one transaction, crash between them |
| Text search (`MojDbSearchCursor`, `MojDbTextTokenizer`, `MojDbQueryFilter`) | everything found, sorted | load, sort, distinct, page | made again for each page among writes |
| Revision sequence (`MojDbStorageSeq`) | next value, allocated limit, limit on disk | open, get, close | lock-free fast path, failed writes, restart |
| Quotas (`MojDbQuotaEngine`) | quotas, usage in the database and in memory | curKind, offset, applyUsage, applyQuota, refresh | concurrent transactions account in the same record |
| Permissions (`MojDbPermissionEngine`) | permissions per type, object and caller | put, check | wildcards, default deny |
| Reactors (`MojGmainReactor`, `MojEpollReactor`) | the sockets watched, the events asked for | add, remove, notify, run, stop | handlers and other threads change what the loop dispatches |
| Containers (`MojRbTree`, `MojHashMap`, `MojVector`, `MojString`) | nodes, shared arrays | put, delete, edit, copy | copy on write between threads; long sequences of changes |
| Values (`MojObject`, `MojNumber`, JSON, `MojSchema`, `MojObjectFilter`) | parsers' stacks | compare, encode, parse, validate, project | a text cut anywhere; bounds of encodings and words |

The reactor's thread receives messages from the bus and schedules them; three
pool threads (`MojDbLunaServiceApp::NumThreads`) call the handlers; a handler
opens a request (`MojDbReq`), which takes the schema lock and a storage
transaction; kinds, permissions, quotas and indexes work inside it; the commit
writes to the engine and then fires the watchers of the indexes it touched, and
their signal calls back into the service handlers of other clients.  So the
notification of one client runs on the thread of another, while the cancel of
the first arrives on a third.

What makes each part correct:

* service and dispatcher: messages of one sender one at a time and in order,
  every message handled, stop drains; a subscription is recorded and removed once;
* watched queries: a client whose rows are outdated is notified, once, after its
  rows, never for an aborted or irrelevant change, and nothing is left behind;
* revisions: never the same twice, increasing, across crashes and failed writes;
* requests: one transaction and one lock per outermost operation, released on
  every path; nothing committed after an error;
* engines: a transaction is visible in full or not at all, also after a crash;
  reads see the transaction's own writes;
* indexes: exactly the keys of the live objects, also while built or after a
  failed kind change; a query returns the objects its conditions select, pages
  cover them once;
* quotas: usage equals the sum of the objects, and a committed transaction
  stays within the quota; permissions: the most specific entry decides, before
  and after a restart;
* tokens: whatever an object was stored with can be read again, after any crash;
* lifecycle: an open ends open or closed with nothing left over, and nobody
  reads an index in an order other than the one it is stored in;
* purge, backup and restore: only what is old enough is removed, and a full
  dump with its increments gives back what was stored;
* base library: a value has one meaning as a tree, as bytes and as text;
  containers hold what was put.

## Modules

### Revision sequence: `IdSupply`, `MojDbSeq`, `MojDbStorageProofs`

`MojDbSeq` models `MojDbSandwichSeq` (and `MojDbLevelSeq`, which has the same
code): `open`, `get`, `close` and `store`.  Several threads call `get`.  Every
atomic load, store and `fetch_add`, the mutex section and the write are steps of
their own.  `disk` is what a read of the record returns, `recoverable` the set of
limits the log may give back when the process has died, `survives` the set the disk
may give back when the machine has lost power (a failed write leaves the old limit and
the new one possible; a write that is not synced leaves every limit since the engine was
opened, as leveldb syncs a table of what it finds in its log when it opens).  Whether
writes are synced is an option of the engine that `Configure` takes either way: the
shipped `maindb.conf` and `tempdb.conf` have it on for leveldb and off for sandwich.
`Crash` ends the process at any point and `PowerFails` the machine; `Open` and
`Close` delimit a run.  `IdSupply` is the abstract promise: every value is given
at most once over all runs, and is above every value returned before the call
began; a supply that is not `durable` may be set back: the values from some point on are
forgotten.

Properties: `IssuedIsDurable` (a value that was returned is below every limit
that a dead process leaves, and with synced writes below every limit a power failure
leaves) and `SupplySpec`, the implementation of `IdSupply`, in which `durable` is
`sync`.  So sandwich as shipped may give a revision or an id a second time after a power
failure, and in no other case; with synced writes neither engine ever does.
`StoredAndCachedAgree` (the check `store` makes in debug builds) and the inductive
invariant `IInv` are proved.  The assertion of `store` about `m_next` is not among them: it relies
on fewer concurrent callers than a page has values and fails when a write has
failed before; it exists in debug builds only.

Proved for any number of threads and any page size (`MojDbStorageProofs`):
`TypeCorrect`, `Invariance` (`IInv`), `Durability`, `Agreement` and
`Refinement` (`Spec => IdSupply!Spec`).  `IInv` is needed because neither
freshness nor durability is inductive alone: it says which values the threads
inside `get` hold (distinct, not issued), that only the holder of the mutex
writes, and that issued values < `m_allocated` <= every recoverable limit (and with
synced writes every one that survives), with `m_allocated` possibly stale for the reader.

### Watched queries: `MojDbWatch`, `MojDbWatchProofs`

The index's watcher list, the watchers a transaction collects, its commit, and
`MojDbWatcher`.  A reader is one `find` (with a watch) or `watch` request:
`AddWatch` (under the index lock), `InitWatch` (after it), `OpenQuery`,
`Reply`, `CloseCursor`; then `Cancel`.  A writer is a transaction: `Update`
(one object: the index keys change and the watchers are noted), `Commit`,
`Abort`, `Fire` (one watcher of the loop after the commit).  A commit may return an
error with something stored (`CommitFails`): `commitImpl` goes on with the other
tables after one was not written, and the post-commit signal and the quotas come
after it and before the loop.  A watcher in the loop may fail as well (`FireFails`,
when the index cannot take it out): it is invalid by then, is not notified, and the
loop ends.  In both the clients still noted are not told and never will be; `lost`
records them.  Keys are numbers in
index order; an entry is abstracted to the transaction that wrote it.  Each
reader chooses its order.  The result of the query is the first `Limit` entries
in that order and the end key the last of them, when the limit was reached.
(Ascending, the code keeps the next key above the last row, which no entry has;
the comparison is the same.)  The ranges of a watcher between its two steps of
registration are seen by a writer or not, as the race allows.

Properties: `NoMissedUpdateAnswerable` (a commit that changes the rows of a
query is noted in time, but for the two cases below and the clients in `lost`),
`EventuallyNotified` (with the same exceptions), and
`WatchKept`: notified once (`NotifiedOnce`), for a reason (`NotifiedForACause`), and
the watcher, the list of its index and its state agree (`IndexConsistent`).

Two runs show disagreements between the code and what it says:

* `watch_desc_min`: a descending query with a limit can miss a transaction,
  because the transaction keeps the least key per watcher
  (`MojDbStorageTxn::addWatcher`) and the watcher rejects keys below its last
  row;
* `watch_raced`: a transaction that went through the index before the watch was
  added and commits after the query opened is missed, although the watch is
  added first "or we may miss events".

Those two runs leave failing commits out (`CommitMayFail`), as the disagreement does
not need one.  With `FindMayFail` the engine's `find` may return an error after the watch was
added.  The request ends, but the watcher stays pending in the index and is
never activated; the model ends the reader there, and the entry it leaves behind
is not followed further.

Proved for any keys, limit and transactions and any finite set of readers
(`MojDbWatchProofs`): `WatchInvariant` (`WatchIInv`), `WatchersKept`
(`WatchKept`) and `NoUpdateMissed` (`NoMissedUpdateAnswerable`).  That no update is
missed is not inductive: it says only that some transaction will fire a key the
watcher accepts.  The invariant says where that key comes from.  A transaction
notes every watcher it could see with the least of the keys it has written
(`LeastIsNoted`); the rows and the end key are those of one state of the index
(`ReadAtOnce`); a key the watcher keeps until it is activated is one of a committed
transaction (`FireKeyIsCommitted`); then a row that is outdated has a key that is
still to be fired, or kept, inside the range (`OutdatedWillFire`).  The lemma
`RowsUpToEnd` carries the step of a commit: rows differ only if a key up to the end
of the old ones does, so the least key of the transaction lies in the range, and
for a descending query the only one, which is the case the invariant asks for.  A commit
that fails has noted the same clients (`CommitFailsKeeps`), so those it skips are exactly
the ones in `lost`; the run has one reader, and the watchers that a failing one in the loop
cuts off are covered by the proof.

### Message dispatcher: `SerialQueues`, `MojMessageDispatcher`, `MojRuntimeProofs`

Each section of `schedule`, `stop` and `dispatch` under the mutex is one action;
the handling of a message lies between `Take` and `Done`.  The condition
variable is modelled by the set of waiting threads: `signal` wakes any one of
them, and a thread may wake without a signal.  `schedule` and `stop` come from
one thread, so nothing is scheduled after `stop`, as in
`MojDbLunaServiceApp::close`.

`SerialQueues` is the abstract promise (per queue: a backlog and the message
being handled).  TLC checks that the dispatcher implements it with
its fairness (`SerialFair`), that no thread sleeps while more queues are
scheduled than threads are awake to take them (`WorkConserving`: a queue is put
back without a signal), and that `stop` drains (`StopDrains`).

Proved for any threads, queues and messages: `Invariance`, `Exclusion`,
`NoneStranded` and `Refinement` (`Spec => SerialQueues!Spec`).  The invariant
adds to exclusiveness that the pending list holds exactly the queues of the
threads handling a message; that is what makes the refinement's
`running` well defined.  `WorkConserved` (`WorkConserving`), for any finite pool,
counts the threads that are ready against the queues that are scheduled; it is
inductive with the types alone.

### Service watch handler: `MojDbServiceWatch`

The notification (on a committing thread, with the mutex of the `MojDbWatcher`
held) against the cancel (on a pool thread).  Each signal takes a slot out under
its own mutex and then calls the handler; each handler cancels the other slot,
first by an unsynchronised read of `m_connected`.  The steps between those reads,
sections and assignments interleave.  Checked (`ServiceWatchKept`): at most one
notification, the subscription's flag and map agree, nothing is left when all is
done; and the threads end (`EverythingEnds`).  `service_watch_assert` refutes the assertion at the start
of `handleWatch`: both slots can be out before either handler runs, and the
cancel then resets the message.  (The assertion of `handleCancel` fails by the
mirror image of that schedule.)  A handler that meets the null message ends the
process (`crashed`), and `NothingLeft` speaks of the runs in which it does not.

Proved for any number of committing threads (`MojRuntimeProofs`): `ServiceWatchSafe`
(`ServiceWatchKept`).  The invariant `ServiceWatchIInv` says that the mutex of the
watcher is held by the one thread between its two ends, that the watcher is active
until that thread or the cancel ends it, which slots are still connected at each
point of the two, and who still refers to the message; the agreement of flag and map
follows as long as anyone does.

### Kinds: `MojDbKind`, `MojDbTxnProofs`

A kind exists three times: its definition is an object on disk (`kindObj`, with
the `_del` flag `delKind` sets), its indexes have ids on disk (`indexIds`) and
entries (`entries`), and in memory it is a `MojDbKind` with pointers to its supers
and subs (`m_supers`, `m_subs`), the ids it extends (`m_superIds`) and its open
indexes (`m_indexes`).  One action is one section under the schema lock:

* `PutKind`: `configure` as a whole, that is `configureIndexes` (drop, open, build
  at the commit), the move of the objects to the new supers and out of the old
  ones (`Reindex`), `updateSupers` (`Relink`), the commit;
* `PutKindFails`, `PutNewKindFails`, `DelKindFails`: the transaction is aborted and
  the lock dropped; memory is whatever `configure` had reached; `Reload` follows
  as an action of its own, so that others run in between.  `BatchCommitFails`
  is the commit of the handler's batch, after which nothing is reloaded;
* `DelKind`, and for a large kind `DelKindBatch` and `DelKindRest`;
* `Put` (with change of kind), `Del`, `Purge`, `PurgeKindObj`; `Reopen` and
  `LoadKind` for a crash or a close and the following open.

`KindsFollowDefinitions` has five parts.  The types, `LinksMirror` (each link is in both
lists, and none leads to a kind that has left memory) and `Acyclic` (no kind is above itself)
hold always.  `LinksFollowDefs` (memory is what the definitions on disk say) and `NoOrphans`
(no id and no entry on disk that belongs to no declared index) hold, as `IndexesStayExact` does,
as long as nothing happened after which the code makes no promise; the history variables
`disturbed` (memory) and `damaged` (disk) record it: a cycle was declared, an
operation ran between an abort and its reload, the commit of a batch failed, a
large kind was deleted in batches, a failing new kind was already extended, or a
failed put brought back the definition of a deleted kind (`reloadKind` does not
look at the `_del` flag).  A restart mends memory, not the disk.  `IndexesStayExact`
compares the entries with the declared hierarchy before and after every operation
and excuses two cases: `LateSuper` (a kind put after the kinds that extend it gets none of
their objects) and `LosesAWay`, which `kinds_reparent` turns into a counterexample:
when a kind drops its only super, its objects leave the indexes of everything
above that super, the root kind's included, though the root kind is its super
from then on.  Backup and purge work on the root kind's index.  `IndexesStayExact` also says that no
object outlives its kind (`NoStrays`), from exact indexes only: see the end of this file.

Proved for any finite set of kinds and any objects: `KindsAlwaysFollow`
(`KindsFollowDefinitions`) and `ExactForever` (`IndexesStayExact`), in these layers.

* Above.  What is above a kind is a recursive function of the number of links.  The
  prover knows nothing of recursion, but the least-number principle gives all that is needed: `Above` is the
  least set that has the kinds and the supers of its members (`AboveLeast`, `AboveClosed`;
  as many steps as there are kinds suffice, since a step that adds nothing is the last).  A kind is not above itself iff
  some closed set has its supers and not the kind (`OutsideDecides`), so that each change of
  links is a matter of naming that set.
* Links (`LinksInvariance`, `Mirroring`) and `NeverCyclic`: `updateSupers` takes the kind out of all
  links, adds its supers, then adds it as a super of the kinds that name it and are not above it, then
  the root kind.  No step closes a cycle, whatever the definitions say.
* Memory (`FollowInv`).  `LinksFollowDefs` speaks of moments when nothing waits to be loaded
  and is not inductive.  Between an abort and its reload, and while kinds are loaded one by one,
  every kind that does not wait is linked as declared to those in memory, but for what the
  waiting one has to do with it (`LinkedBut`), at most one kind waits for its reload, and no cycle is declared.
* Storage (`StoreInv`): the ids are those of the declared indexes, and no other has an entry.
* Exactness.  From `Ready` (memory is what is stored, indexes are exact) each operation is looked at on its own
  (`ExactStep`).  For a definition that replaces another it is shown that the kinds above the
  new supers, less those that were above already, are where the objects enter, and those above the removed
  supers where they leave (`PutOldAbove`, `PutOldEntries`); what `LosesAWay` excuses is the
  one case in which the two meet.

### The life of an index: `MojDbIndexing`

One kind with the index of ids, which every kind has, and one index that `putKind`
adds, redefines and removes.  `tables` is what is committed: the objects (with that of
the kind), the entries and the id of the index; `mem` the kind in memory with its index,
its id and `m_ready`.  A request takes its view of the tables (`PutItem`, `DefineIndex`,
`ReloadIndex`, `LoadIndex`, each of which may fail), `HandlePreCommit` builds an index
that was created, `WriteTable` and `WriteTableFails` write the tables of the request one
by one in the order of their first use, as `MojDbLevelEnvTxn::commitImpl` does, and
`HandlePostCommit` makes the index ready or `CommitFailed` keeps the error.  `Dies`
comes at any point.  `DefineIndex` is a request of its own, after whose failure the
kind is reloaded, or one in a batch, after which it is not.

Property (`IndexesAnswer`): an index that is ready finds
exactly the stored objects, with or without those that are deleted as it is defined; it
becomes ready whenever memory and disk agree; and the counts and warnings that
`stats` reports of it are those of the objects.  An index that is added to a kind with
objects survives every crash, since the table of its entries is used, and so written,
before that of the ids.  The property says nothing once a cut commit has torn the id of an
index from its entries (`parted`), and nothing of objects that were cut (`tornObjs`);
TLC looks no further there (`NotParted`).  What parts them:

* a commit cut off after the entries of a dropped index are gone and before its id is:
  the id is found later, opened as that of an index that is ready, and not built;
* a write of the entries that fails when that of the id succeeds: all tables are
  tried, whatever became of the one before;
* any cut in the order of `reloadKind`, which writes the id before the entries;
* a `putKind` in a batch whose commit fails: memory keeps the new index, never ready,
  until a restart, an update of an object from before fails meanwhile, as its old entries
  are not in the index, and a second attempt stores the new definition with the id of the old index.

Proved for any objects, values and definitions: `IndexesAlwaysAnswer`.  `IndexesAnswer`
speaks of a kind at rest and is not inductive: what memory holds after a commit
depends on what the request put into its view, and what is found after a crash on how far
the commit came.  `IxIInv` therefore says of each point of a request what a crash there
would tear (`TornNow`) or part (`PartedNow`), that the tables are exact for every other
object (`StoredExact`), and so is the view (`RequestExact`), that the two differ only where the
request wrote (`ViewDiffers`), that no id is drawn twice (`IdsDrawn`), and which index in memory is the
stored one (`ReadyAgrees`, `UnreadyDiffers`).

### Requests and transactions: `MojDbTxn`, `MojDbTxnProofs`

A client is a thread that carries out one message after the other.  `Receive`
to `Finish` follow `MojDbServiceHandlerBase::invoke` and `MojDbReq`: the batch, the
first operation that takes the lock and begins the transaction, the operations
of the message, `EndBatch`, the commit, the release.  `Fail` is what the
destructors do on every error path.  `Fetch` and `Store` are the two halves of
`putImpl` and `delImpl` (read for update; check the revision, update the index,
write), `OpenCursor`, `DeleteNext`, `CloseCursor`, `Rebegin` those of delete by
query, which commits after every `AutoBatchSize` objects.  A transaction is an
overlay: pending objects, pending index entries, pending deletes, and the tables in
the order of their first use.  Three engines are run: LevelDB writes table by
table (`CommitTable`), goes on with the next when the write of one has failed, and waits for the disk; sandwich writes all at once and does
not wait (`Flush` does it later), as in `files/conf/maindb.conf`; Berkeley DB locks
what is read for update and reports deadlocks, which `invoke` retries
(`MaxDeadlockRetries`).  A LevelDB or sandwich delete of an index entry always
reports that it was found, and under Berkeley's locks it is, so the retry for a
missing index entry is never taken and is left out.

A commit may also return an error after its rows were written: a post-commit slot, the
quota engine or a watcher has failed.  Such an error, or that of a failing write, ends the
message in `Finish`; `NothingWritten` has the errors of a commit before the first row.

Properties: `ReportedIsStored`, which is `LeftIsStored` (what was answered with success is
in the tables; of a message that failed there is nothing, unless its commit returned the
error: then the objects are there whose table was written) and `IndexExact`; `UpdatesGuarded`, which is
`RevsGrow` and `NoLostUpdate`; `LockDiscipline`.  The first four speak of objects no two open transactions have touched (`raced`): the schema
lock is shared and neither the LevelDB nor the sandwich engine notices that
another transaction wrote the object it has read, so the later commit wins and
the index may list a value that was lost.  `IndexExact` also leaves out the
objects of a transaction that a crash or a failing write has cut between two tables (`torn`): the
code mends that only on demand.  `NoLostUpdate` speaks of messages that name their
objects: one that also deletes by a query may meet the object again after its batch
was committed.

`txn_del_kind` refutes the assertion of the kind engine: a kind with as many
objects as a batch is deleted half under the write lock and half under a read
lock, which is what the comment of `commitBatch` warns of.  In `database` kinds are
smaller than a batch.

Proved for any clients, objects, values and engines and for any messages made of
the `Operations` (`MojDbTxnProofs`), in layers of which each uses those before it:

* `LockInvariance`, `Discipline` (`LockDiscipline`) and `SchemaIsolation`.  The
  discipline is inductive with the types of the lock, the transactions and the
  program counters; the lemmas reduce every action to giving up, taking up or keeping
  the lock.
* `TypesInvariance`: the types of everything, and for each request what its program
  counter says about its message, its cursor and its transaction (`PhasesAgree`).
* `DataInvariance`, whose parts (`DataInv`) follow an object through a transaction: what
  is written was read first (`OverlayTouched`); two who have touched an object race
  (`TouchedByOne`); what an operation has read is still what its transaction sees
  (`ReadIsCurrent`), and so are the index entries (`ViewExact`); a table the commit
  has written holds what the transaction sees (`StoredIsSeen`, `TablesUsed`), but for one
  whose write failed, and then the objects are torn (`FailuresKnown`); an object
  is as the last commit that ended has left it until the next one writes
  (`LeftUnlessWritten`), and the tables agree,
  on disk as well, while no commit is between them (`TablesExact`, `DiskFollows`);
  what is written is newer than what it replaces (`RevsDrawn`, `WrittenIsNewer`).
  `Reported` (`ReportedIsStored`) and `RevisionsGrow` (`RevsGrow`) follow.
  Every step of a request is first shown to have one of three effects: it passes
  without reading or writing (`Passes`), it reads or writes one object (`Works`), or it
  writes tables (`Commits`).  The invariant is then shown once for each effect, and
  for the two steps of the system, `Crash` and `Flush`.
* `SeenInvariance`, and with it `Guarded` (`UpdatesGuarded`): from the moment a put
  that names a revision was carried out, until its commit writes, the object is the one
  its sender has seen (`SeenIsReplaced`), since whoever else would write it would race.

### Queries: `MojDbQueryPlan`, `MojDbLevelTxnIterator`, `MojDbQueries`, `MojDbQueriesProofs`

`MojDbQueryPlan` has the pure part: index keys, the keys of an object
(`ObjKeys`, an array gives several), `canAnswer`, the ranges of a query
(`buildRanges`) and their cut at a page (`Cut`).  A key is a number of `KeyLen`
digits, each a byte plus one, so that the order of numbers is the order of byte
strings; `increment` carries as `MojDbKey::increment` does.

`MojDbLevelTxnIterator` is the iterator of a LevelDB transaction.  It walks two
containers at once: the snapshot of the database without the deleted keys, and
the keys the transaction has put, which change under it.  Its four fields are
`m_it`, `m_insertsItertor`, `m_fwd` and `m_invalid`; its operators are the methods.

`MojDbQueries` is one request over one index: `Open` (ranges, limit, snapshot),
`GetKey` (one turn of the loop of `MojDbIsamQuery::getKey`), `GetVal` (the object,
the count, the end key), `Apply` (what del, purge and merge do to the item, under
the open cursor), `NoMore`, `CountRest` (the count after a page), `NextPage`,
`NextPass` (deletion in batches), `Finish`.  `EarlierWrite` is an operation of the
same batch before the query, `OtherWrite` another client's commit at any time, also to
an object this request has found, read or written: nothing locks it out.  The
index therefore has keys of its own (`idx`), which may be those of an object that is no
longer as it was.
The specification of a query, `Selected`, `Satisfies` and `Matching`, speaks of the
objects and the clauses and knows neither ranges nor keys of pages.

Properties: `FindsExact`, which is `PagesCoverOnce`, `EndKeyDivides` and
`CountsAll`; `WritesReachAll`; that a request ends (`RequestsEnd`).  `WritesReachAll`: every
object that nobody else wrote is deleted or changed if the query selects it and left alone if
not; one that others wrote meanwhile ends as they wrote it, or as this request makes it of a version
it may have met, provided one of these was selected.

Met while modelling, and excluded where said:

* `notifyDelete` marks the walk invalid when the pending key it leaves is *ahead*
  of the current one, not only under it; the current key is then returned twice.
  It takes a batch that had written before (`dirty`); `WritesReachAll` asks for each
  key once only where it had not;
* deleting the last pending key can leave both positions at the end, and the debug
  assertion of `next` fails then; the release build stays at the end;
* merge by query over an index on what it writes ahead of its cursor (`_rev`, or a
  delete over an index with `_del` and `includeDeleted`) meets its own results
  again and does not end; the model's indexes do not have such a property, but
  for `MergeValues`, which moves each object once.
* `delImpl` deletes what its query found without asking again, so an object written
  meanwhile is deleted though it may no longer match, or the other write is lost;
* an index entry whose object another transaction rewrote stays behind a deletion.  Each pass
  finds it again and counts the deleted object once more, so the passes end only because each
  takes its limit off the 2^32-1 the query began with (`NoLimit`).

Proved for any keys, ranges, snapshots and pending writes: the cut of the ranges
(`CutAscending`, `CutDescending`), and that the iterator's steps are those of one
sorted set: `SeekFinds`, `NextIsSeek`, `SeekThenPrev`, `PrevIsDown`, also after the
object under the cursor was deleted (`DeleteThenNext`) or a key was put
(`PutKeepsPlace`, if the batch had not deleted that key before).  They rest on the least
number principle, which comes from `WFMin` and `NatLessThanWellFounded`.

Left out: `distinct` and its memory across pages, the exclusion of kinds (whose
objects the count includes), collation; search cursors are in `MojDbSearch`, the
verification of an index in `MojDbIndexing`.

### Service and its binding: `MojService`, `MojServiceProofs`

Outgoing: `send` connects the slot, then calls the bus and puts the request in the
table under one mutex; replies come in one queue, are looked up under the mutex and
dispatched without it; a request leaves the table with its last expected reply, an
error, or a cancel of its slot, and whoever took it out tells the bus.  Each of these is
a step of its own: the lookup, the call of the handler, its return, the removal, the
cancel on the bus, and the same for a cancel on another thread.  Incoming: messages and
cancels come in a queue per sender; a handler may make its message a subscription;
`close` cancels what is left after the dispatcher has drained.  `RepliesKept`: a reply
that is not found is one of a request that was given up; when no reply of a request is
dispatched and no cancel of it under way, it is in the table with its slot and an open
call, or has none of them; and the call is cancelled at most once, never while the
request is in the table, with no more replies handed over than expected.  It speaks of
what the code promises: a handler whose slot was taken before the cancel may still run
beside it, and a slot cancelled between `connect` and the call (`early`) leaves an open
call that no slot hears, since the cancel finds no token to remove.  The sender keeps no
reference of its own, and a cancel that begins while the last one is released is not
followed.  `SubscriptionsKept`: the map has the
messages that wait, each message is answered, and neither a cancel nor `close`
leaves one.

Proved for any requests, messages and senders (`MojServiceProofs`).  `RequestsAnswered`
(`RepliesKept`): nothing is counted and no call cancelled before the request is in the
table, the call of a request in the table is open and nobody is about to cancel it, and
one that left it has exactly one thread that cancels its call, or that did
(`ClientIInv`).  `SubscriptionsEnd` (`SubscriptionsKept`) needs to know where each
message is (`ServerIInv`): the queue of a sender has its own messages, a request once and
no cancel before it; a message in the map is queued or was kept by its handler with its
cancel slot; and the cancel of one that waits can still come or is in its queue.

### Service handlers: `MojDbServiceHandler`, `MojDbServiceHandlerInternal`, `MojServiceProofs`

`MojDbServiceHandler` is `invoke` with the methods it calls, in a batch of the
database: what each asks of the database, what it writes or replies, the retry after a
deadlock or a locked index entry, and the rollback.  A commit may return an error with
everything stored (`CommitFails`): a slot, the quota engine or a watcher fails after the
writes.  `HandlerAnswers`: one answer, with what was stored, however often it was tried, or
an error; an error means that nothing was stored, unless the method commits in parts or
the commit itself returned it, and then all of it may have been stored, once.  That one
error a client cannot tell from the others.
`MojDbServiceHandlerInternal` has the calls the service makes: adoption and
completion of the activity of a purge, the alert at boot, the locale.  A call ends
with its reply, or lasts (`Unlimited`) until an error or a cancel.  `PurgedOnce`: a
scheduled purge is done at most once and its activity completed only after it.

Both are proved in `MojServiceProofs`, for any calls, values and bounds on retries
(`MethodsAnswer`, `ScheduledPurges`).  `HandlerIInv`: what an attempt has done is in its
transaction or committed in parts, the writer lists the results so far and nothing of an
earlier attempt, an attempt that is made again has stored nothing, and no answer is out
before the last.  `InternalIInv`: before the
adoption is asked for nothing is purged, and once its answer was handled it is not handled again.

### The client: `MojDbServiceClient`

Each method of `MojDbServiceClient` and of its batches as the events it writes;
the service builds the value, checks the properties against the schema of the
method and reads the arguments.  `ClientReadBack`: the calls read are the calls made.
Excused, as the code has them: `merge` by query in a batch does not begin its
request, so the whole batch is refused; flags other than that for purge are
dropped, and the schemas of `put` and `merge` refuse it; the service has no
`getPermissions`.

### Signals and reactors: `MojSignal`, `MojReactor`

`MojSignal`: `fire` and `call` take the list of slots (one for all, one for each)
under the mutex and invoke the slots without it, while other threads connect and
cancel.  `SignalKept`: a slot is in one place, it is ended once, and its handler is
referenced as long as anyone will call it.  A failing handler drops the slots after
it, and a cancel of a slot in a list another thread took fails the assertion of
the list (`sigAsserted`); the property speaks of the runs without that.

`MojReactor` is both reactors: epoll re-arms a socket by asking (`EPOLLONESHOT`),
glib's changes the events of its source before it calls the handlers.
`WaitersRegistered`: whoever waits for an event will be told of it.  A socket number
that is used again while the loop still dispatches the old one is excluded
(`spoiled`): the two share an entry.  `StopEnds` holds for a `stop` inside `run`; one
before it is lost.

Proved in `MojRuntimeProofs`: `SignalsKept` (`SignalKept`), for any slots and finitely
many threads, and `WaitersAreRegistered` (`WaitersRegistered`), for any sockets.
`SignalIInv`: the lists of the signal and of the calls share no slot, the slots with the
flag are those in a list and those a failing handler left, and references are counted
accordingly.  `ReactorIInv`: an info belongs to one socket; what a slot waits for is
requested or about to be fired; what epoll has registered the kernel will report, unless
the loop has an event of that socket in hand.

### What requests share: `MojDbEngines`, `MojDbEnginesProofs`

`MojDbEngines` composes the four modules that follow: what the requests of one
database share besides its objects.  Each has its state, and a step of the whole is a
step of one.  The run `engines` takes each on its own, since together they are only the
product; what is proved is proved of `EnginesSpec`, in which they interleave.

### Kind state: `MojDbKindState`, `MojDbEnginesProofs`

Requests share the tokens that stand for property names in stored objects; each
has a copy, and a new token is written at once, in a transaction of its own.  What
is written is a log of which a crash keeps a prefix.  `EveryTokenResolves`: every token
in a stored object means the property it was written for, before and after a
restart.  Objects written between the abort of a failed `putKind` and its reload
are excused.

Proved for any requests, objects, schemas and any room for tokens (`TokensResolve`): the
invariant `KStateIInv` says that a write of tokens in the log adds to those before it,
that the table in memory is the last one written unless a reload is due, that the copy
of each request is part of it, and that a stored object uses only tokens written before it.

### Permissions and quotas: `MojDbPermissionEngine`, `MojDbQuotaEngine`, `MojDbEnginesProofs`

`putPermissions` and `delKind` hold the schema lock as writers; the commit, the
failure and the restart are steps.  Checked: the decision is that of the most
specific name (kind, then its super; owner; caller, then wildcards), it survives a restart, and
the database opens again.  Excused (history): an aborted put, whose entries stay in
memory; a deleted kind's permissions, which stay until the restart; and a crash
between the batches of the deletion of a large kind, after which
permissions name a kind that is not there and `MojDb::open` fails from then on.

Quotas: `offset` when the request writes (checked against what is available), the
usage record at the commit, the sums after it; put of a quota; loading and
refresh.  `QuotasKept`: the usage is the sum of the bytes stored.  With an engine that
takes no locks two transactions of one kind lose an update of the record; a
quota object that lies under a quota is counted twice; an error after the write
leaves the sums stale; all three are recorded in `hist` and excused.
`OvershootExplained`: a quota is exceeded only by a new size, a
refresh, or by transactions that overlapped or wrote several kinds, since
each kind's offset is checked alone.

All three are proved for any kinds, owners, callers, requests and sizes.
`PermissionsAlways` rests on `PermIInv`: outside a put what memory has is what `open`
would load, up to what is excused, and only kinds cut off by a crash, or the one that is
being deleted, leave permissions without a kind.  `QuotasRight` and `OvershootAlways` rest on `QuotaIInv`: a
writer of the schema lock is alone (`WritersAlone`), so that the quota of a kind is the
same from the write of an object to the commit (`QuotaCurrent`); a usage record read for
update is still what is stored (`UsageRead`) unless the kind is recorded as drifted; and the
sum in memory, with what the commits that are between their two halves will add, is the
sum of the records (`SumsAgree`).  The sum is a fold over a set; that it splits, is
independent of the order and changes with one of its members is proved first.

### Opening and closing: `MojDbLifecycle`, `MojDbEnginesProofs`

`open`, `close`, `drop`, `checkDbVersion` and `updateLocale` step by step, each of which may
fail, with crashes, beside requests that read under the schema lock.  `SortedAsStored`:
whoever reads the kinds sorts by the locale the entries are stored in.
`OpenSettles`: an open ends, open or with everything closed.  A failed change of
locale closes the kinds without the schema lock, and a failed reopen
leaves them closed; a version file that cannot be parsed is replaced.  `SortedAsStored` is
proved for any readers, kinds and locales (`ReadersSorted`): between the first
kind that is sorted anew and the commit the main thread holds the lock (`LockHeld`), and
outside of it the kinds are sorted as stored unless a reopen failed (`LocaleKept`).

### Purge, backup and restore: `MojDbAdmin`, `MojDbQueriesProofs`

The clock counts days.  `PurgeBegin` reads it and `PurgeStamp` draws the revision that is mapped to
what was read; `PurgePass` is the query of a pass, `PurgeObj` the deletion of one object it found,
`PassEnd`, `PurgeAgain` and `PurgeEnd` commit.  Clients write between any two of these steps, also the
objects that are being purged.  `Dump…` full and incremental backups whose file fills up,
`Load…` a restore in steps; writes, failures and crashes come in between.
`RestoreReproduces`: a full dump and its increments, loaded in order, give what was
stored when the last was made.  `PurgedRevRecorded` and `PurgedAfterWindow` are in
`PurgesKept`; a purge ends.  Both leave out an object written again between the query that found
it and the commit of its batch (`purge.over`): it is removed with what was written, and the
recorded revision need not cover that.  A revision drawn between the purge's reading
of the clock and its own counts as of the day the purge read.  `backup_full` refutes the comment about the next
incremental key.  Excused: writes that overlap a dump (their revision is older than
the one the dump names when they commit); an object rewritten while its old index entry is
waiting for a full file; a purge before the dump, which leaves objects that were
deleted in the restored database; an object put back under a purge that removes it while
the dump runs; a crash between a full batch and the revision
of the purge.  Backups never consult that revision, a dump with deletions
but without an empty answer never dumps them, a kind deleted and put again between
two increments is not replayed, and kind objects that overflow the file fail
the dump.

`PurgesKept` is proved for any objects, batches, windows and days (`PurgesAlways`).
`PurgeIInv`: revisions and days grow together over all objects, mappings and the write in
hand (`StampsOrdered`), also while a purge has read the clock and not drawn its revision, so the mapping
a purge goes by, the newest that is old enough, dates every revision below its own; what a purge has
found or deleted and not committed stays deleted unless it is written again (`GoneDeleted`); the mappings left are newer than the last one used (`MapsAbove`), so
the recorded revision never goes back; and a purge that has committed objects still owes
their revision, or has recorded it (`RevCovered`).

`RestoreReproduces` is proved for any objects, file sizes, steps and orders of writes,
purges, dumps and failures (`RestoresReproduce`).  What a set of entries says of an object is
the one with its highest revision (`LatestIn`).  `SourceIInv` is about the source: the finished
files tell every version up to the incremental key that no dump overlapped
(`ChainTells`); the running dump tells it, has it waiting in its pass, or leaves it above
the key it will answer with (`DumpTells`); no entry is newer than its object and two of one
revision say the same (`EntriesAgree`), a write that is not committed is newer than what the
files hold (`WriteAhead`), the files tell of an object in the order of its revisions
(`ChainOrdered`) and the kind comes first (`KindFirst`).  From `DumpTells` and what has not
changed since the dump began (`AsAtDump`), a chain without `hasMore` tells the state at the last
dump (`LastComplete`).  `Restored` is about the device: it has, of every object, what the latest of
the entries read so far says (`Follows`), whatever an earlier attempt left in it.

### Sandwich engine: `MojDbSandwich`, `MojDbStorageProofs`

Databases and indexes as prefixes in one LevelDB; `Insert`, `Update`, `Del` with the
bytes they add to a quota; the scan of a range.  `QuotaCountsBytes`: for
transactions that did not overlap on an object, the quota has moved by the bytes
stored, and each index has the keys of the stored objects (two that write one object at the same time count its bytes twice, or not at
all, and are left out); `ScanExact`: a cursor
gives the keys of a range once and in order, both ways, wherever the bounds lie.  A second part is the lock file of the directory: create, lock,
unlink, close, by processes that may crash.  `OneInstanceUnraced`: one instance owns the directory,
unless the file was deleted (`unlink` before `close`) under one that had opened it and
not yet locked it; then two do.  This is proved for any processes (`DirectoryLocked`): whoever
is in holds the lock of the file it has open, and without such a race that file is the one
at the path.  A file lock that fails for another reason than that someone holds it is not
modelled: the open then fails with the file open, and the destructor deletes it whoever holds its lock.  `MojDbLevelEnv` and `MojDbBerkeleyEnv` have the same code.

### Containers: `MojRbTree`, `MojHashMap`, `MojShared`

`MojRbTree` is `MojRbTreeBase` (top-down insertion and deletion with a dummy
root).  Each operation is recorded with its key and its value (`done`): a put adds that key, or
gives it the new value, a deletion removes it, nothing else changes, and the tree is a search tree whose
red nodes have black children and whose paths have the same black height.  `MojHashMap`: chains, the
list of all nodes with its back pointers, growth.  `MojShared`: vectors, strings and
the implementations under maps share an array until a handle writes; counts and
copies interleave between threads, allocations fail.  `SharedKept`: a handle reads
what was written through it, no array is freed twice or used after, and the counts
are those of the handles.  Excluded: an operation whose argument lies in
its own array (assignment of a vector to itself, push of its own element,
append of a string to itself), which reads freed memory.

### Values: `MojObject`, `MojObjectFilter`, `MojNumber`, `MojJson`, `MojSchema`

`MojObject`: values, `compare`, the visitor, the builder, the bytes written and read
with tokens.  `ObjectReadBack`, and `OrderAgrees`: the bytes of two values compare
as the values do, at each bound of the encodings.  The widths are those of the code with a digit
for a byte.

`MojNumber`: lexer, parser and decimal with narrow words, so that a
text of six characters reaches every bound.  `NumberKept`: what is read is the number
spelled, rounded half down on the digit after the last, or it is too large for a decimal and
refused; a zero with a large exponent is refused as well.  A text is refused for its digits
only when these, the point left out, do not fit a word (or fall nine short of that), however small the
number is: `1.0` with twenty more zeros is refused, and `1.0` is not.  It is refused for its
exponent only when that has a digit after the bound.  Nothing is said of what is read where
a power of ten wraps the word (`Wraps`): zeros that were put off are multiplied in by the next digit
without a test, so that `1`, sixty-four zeros and `1` is read as 1, and a
divisor is a power of ten that may wrap.

`MojJson`: writer and parser, with the text cut anywhere and filled with spaces and comments.
`JsonKept`: the text of a value is read as the value unless it is too deep, and in
any text the levels of the parser and the stack of its builder agree, and a text
that is taken leaves nothing open.  The parser takes `[1,]`, text
after the value, octal integers, and saturates large ones.

`MojSchema`: from a schema to rules, `fromObject` with its failures, and validation.
`SchemaDecides`: the rules accept what the keywords do.  As in the code an empty union
accepts nothing, a required property is missing in what is not an object, and
`divisibleBy: 0` is never satisfied.  `MojObjectFilter`: the events passed on are those of
the selected paths and their parents; `"a-c"` next to `"a.b"` loses the latter
(the tree is built in the order of dotted names), which is excused.

### Text search: `MojDbSearch`

The query written as an object and read again, the extraction of values along
a path, words and the groups of ranges, the filter, and `MojDbSearchCursor`: load
everything, sort (the quick sort of `MojUtil`, which is not stable), distinct,
and cut at the page.  `QueryReadBack`; `SearchPagesCover`: each object that matches comes once and in
order; a write between two pages takes away what it writes and at most objects that
share their place in the order, as long as the object the next page begins with
stays.  `toObject` writes the where clauses
twice instead of the filter, so a query sent over the bus loses it; `clear` leaves order
and distinct; an unknown page id gives an empty page with the same next id for ever.

## Runs

A run checks several modules.  Where they share no state, each behaviour is one of
one module: `unit` in the MC module names it, the others keep their initial state, and
the properties of a module speak of its own behaviours.  Each MC module is then as
large as the sum of its parts, not the product.  Where components do interact, the
interaction is inside a module: `MojDbTxn` is the handler with the database, the
lock, the transaction and the engine; `MojDbQueries` a request, the plan, the iterator
and the service; `MojDbWatch` readers, the index and commits; `MojDbQuotaEngine` quotas with
kinds and commits.

| run | instance | shows |
|---|---|---|
| `watch` | 1 reader (either order), 2 transactions of up to 2 keys, 2 keys, limit 1, `find` may fail | no miss, no groundless or second notification, and the notification comes |
| `watch_desc_min`, `watch_raced` | 3 keys, limit 2 | refutations |
| `runtime` | dispatcher: 3 threads, 3 queues, 4 messages; signal: 2 slots, 2 threads, 2 connects each; reactor: one socket number used twice, both reactors; service watch: 3 transactions, 1 cancel | safety of each, the dispatcher implements `SerialQueues` fairly, all end |
| `service_watch_assert` | the service watch | refutation |
| `core` | see below | the service and its clients, the base library, text search, the sandwich engine, the sequence |
| `database` | kinds: 3 kinds of which two may extend each other and one a third, which may have a second index, 1 object; transactions: 2 clients, 3 messages of 7 kinds, 2 objects, 2 indexed values, batches of 2, 1 retry, 1 crash, 1 failing write of a table, each engine; life of an index: 1 object, 1 value, 3 definitions, 2 ids of indexes, any failures and crashes | the properties of kinds, of a kind's index and of transactions |
| `kinds_reparent` | the kinds | refutation |
| `txn_del_kind` | 2 messages, a kind of 2 objects | refutation |
| `queries` | queries: 2 objects in 5 states, 11 clauses, both directions, limits 1, 2 and none, 2 indexes, 1 earlier write, 1 write by others (also under del, purge and merge), batches of 2, and 10 for the limit that stands for none; admin: 3 objects, 2 of them backed up, batches of 1, 2 objects to a file; without dumps 3 revisions in 2 days or 2 in 3, and 2 revisions with 2 dumps or 1 with 3 in a day, of writes and purges | the properties of queries; purge, backup and restore |
| `backup_full` | the admin instances | refutation |
| `engines` | quotas: 3 kinds, one with the quotas, an owner and a wildcard, 2 requests, 2 bytes to a kind; permissions: 2 kinds, one the super of the other; tokens: 2 requests, 3 names, room for 2 tokens, 4 writes; lifecycle: 2 readers, 2 kinds, 2 locales | the properties of these |

The instances of `core`, with their distinct states: sequence, 3 threads, pages of 2, 4
values, failing writes and crashes (121 716); requests of the service, one that expects one reply and one three,
2 replies (68 828); messages, two of one sender and one of another (30 862); handler, one call or a batch of two, 3 and 2 attempts (22 139);
internal calls with up to 5 replies (308); client, batches of 2 calls (1 913); tree, 7 keys, two of them with two values (24 993);
shared arrays, 2 handles, 3 arrays, 3 elements (279 886); hash map, 5 keys two to
a code (17 122); objects, 2 properties and 2 elements nested twice (2 130);
filter, 5 paths (2 112); numbers, texts of 6 characters of 7 (12 376); JSON, values three
levels deep, any 5 of 11 characters (59 881); schema, 2 keywords, a schema inside another (56 759);
query, 2 clauses (16 896); search, 4 ids, 3 texts, 6 searches, a write between pages (16 742);
sandwich, 2 transactions of 2 writes, 2 ids (161 176); lock file, 3 processes, 3 files (1 403).

Bounds.  The sequence needs a second page while a thread still holds a value of
the first: three threads and pages of two.  A watched query needs a row inside
the window, the last row and a key beyond it; one transaction that touches two
keys; a second one to fire twice.  With limit 1 the last row is the only one,
which is enough for what the passing run checks; the two refutations have a row
above it as well.  The dispatcher needs more queues than awake threads, and
enough messages that a queue is put back while others wait.  A signal needs a slot
cancelled by one thread while another holds its list, and connected again.  Kinds need a
super to gain and one to lose at the same time, a chain (the objects of a sub
move with its super), two ways up to the root kind, and a cycle: three kinds that
may extend each other as `MCMayExtend` says have all of them.  Every object is on its own in the indexes, so one
object suffices.  While nothing is promised about entries (`damaged`) objects
are left alone and kinds change only when there are no objects.  Transactions
need two objects written in opposite orders (a deadlock), an object written twice
in one message, a query that fills a batch and one that does not, and a third
message that meets what the first two left, before or after a crash.  An index needs a definition
without and one with deleted objects and a second id, for the index that replaces the
first; entries of different objects and values do not meet.  A query needs
an object with two keys, a value that is a prefix of another, one that ends in
the greatest byte (the increment carries), keys of other indexes on either side,
and a limit that ends a page between two keys of one object.  A purge needs an object that is
old enough, one that is not, and a full batch; a backup a full file, the one that continues it, and an
increment.  Quotas need a kind under two quotas, a wildcard and an owner, and two
transactions that read the usage before either writes it.  Tokens need one more
name than there is room for.  Seven keys make the tree four levels deep,
where every case of a rotation occurs, and three processes are the
fewest that can fail to exclude each other over a deleted file.  Narrow
words reach each bound of the numbers with six characters.

Fairness.  Weak fairness of the steps of a thread that holds or waits for a
mutex held briefly, and of handlers, which all return; none of clients: a
client need not cancel, a writer need not commit.  In `MojDbWatch` the loop that
fires watchers runs on until it is done or one of them fails, and the requests run on; in the dispatcher the handling of a
message ends and a woken thread takes the mutex; the loop of a reactor turns once `run` was
called; a commit that fires a watch and a cancel that was begun run on.  In `MojDbQueries` the
thread of the request runs on and the client asks for all pages; nothing is assumed
of other clients, whose writes are bounded.  A purge and the commit of a write that was begun go
on.  In `MojDbLifecycle` the main thread goes on with an open and requests
give the lock back; nobody need close.  The other modules have safety properties only.

Deadlock checking is off where the system may rest: no more messages, all
transactions and requests done.

## What is proved

| module | theorems | rests on |
|---|---|---|
| `MojDbStorageProofs` | `TypeCorrect`, `Invariance`, `Durability` (`IssuedIsDurable`), `Agreement`, `Refinement` (`SupplySpec`) | `IInv`: the values threads hold are distinct and not issued, only the holder of the mutex writes, issued values lie below every limit the log may give back, and with synced writes the disk |
| `MojDbStorageProofs` | `DirectoryLocked` (`OneInstanceUnraced`) | `EnvIInv`: whoever is in, or leaving, holds the lock of the file it has open; without a race that file is the one at the path |
| `MojRuntimeProofs` | `Invariance` (`IInv`), `Exclusion`, `NoneStranded`, `Refinement` (`SerialQueues!Spec`), `WorkConserved` (`WorkConserving`) | `IInv`: the pending list is the queues of the threads that handle a message |
| `MojRuntimeProofs` | `ServiceWatchSafe` (`ServiceWatchKept`), `WaitersAreRegistered` (`WaitersRegistered`), `SignalsKept` (`SignalKept`) | `ServiceWatchIInv`, `ReactorIInv`, `SignalIInv`: who holds the mutex, the message, the info or the list at each point |
| `MojServiceProofs` | `RequestsAnswered` (`RepliesKept`), `SubscriptionsEnd` (`SubscriptionsKept`) | `ClientIInv`: an open call for each request in the table, one thread to cancel it for each that left it; `ServerIInv`: where each message and its cancel are |
| `MojServiceProofs` | `MethodsAnswer` (`HandlerAnswers`), `ScheduledPurges` (`PurgedOnce`) | `HandlerIInv`: what was done is in the transaction or committed, and the writer lists it; `InternalIInv`: an adoption is handled once |
| `MojDbWatchProofs` | `WatchInvariant` (`WatchIInv`), `WatchersKept` (`WatchKept`), `NoUpdateMissed` (`NoMissedUpdateAnswerable`) | a transaction notes each watcher with its least key, and an outdated row has a key that will end the watcher unless a failed commit dropped it |
| `MojDbTxnProofs` | `LinksInvariance`, `Mirroring` (`LinksMirror`), `NeverCyclic` (`Acyclic`) | the links are symmetric and typed, and the root kind stays; what is above a kind is the least closed set |
| `MojDbTxnProofs` | `KindsInvariance`, `KindsAlwaysFollow` (`KindsFollowDefinitions`) | `KindsInv`: links, types and no cycle, `FollowInv`, `StoreInv`, the index of the root kind |
| `MojDbTxnProofs` | `ExactForever` (`IndexesStayExact`) | `KindsInv` before and after a step, and which kinds are above which before and after it |
| `MojDbEnginesProofs` | `PermissionsAlways` (`PermissionsKept`), `SharedStateRight` (`SharedStateKept`), `OvershootAlways` (`OvershootExplained`), from `TokensResolve`, `QuotasRight`, `ReadersSorted` | `PermIInv`, `KStateIInv`, `QuotaIInv`, `LifeIInv`: memory is what would be loaded, tokens are only added, sums and what commits still owe are the records, who holds the schema lock |
| `MojDbTxnProofs` | `LockInvariance`, `Discipline` (`LockDiscipline`), `SchemaIsolation`, `TypesInvariance`, `DataInvariance`, `Reported` (`ReportedIsStored`), `RevisionsGrow` (`RevsGrow`), `SeenInvariance`, `Guarded` (`UpdatesGuarded`) | who is past `Begin` holds the lock in its mode; what is written was read, is still what was read, and agrees with its entries; what a put replaces is what its sender has seen |
| `MojDbTxnProofs` | `IndexesAlwaysAnswer` (`IndexesAnswer`) | `IxIInv`: ids are drawn once, tables are exact but for what a cut now would tear, a ready index is the stored one |
| `MojDbQueriesProofs` | `PurgesAlways` (`PurgesKept`), `RestoresReproduce` (`RestoreReproduces`) | `PurgeIInv`: revisions and days grow together, what is found and deleted in hand stays so unless written over, a purge owes the revision it has not recorded; `SourceIInv`, `Restored`: files and running dump tell every version below their keys, in order, and the device follows the latest entry it has read |
| `MojDbQueriesProofs` | `CutAscending`, `CutDescending`, `SeekFinds`, `NextIsSeek`, `DeleteThenNext`, `PutKeepsPlace`, `SeekThenPrev`, `PrevIsDown` | the least number principle |

They hold for any constants that meet the named assumptions of the modules (a page
has at least one value, the marks for "none" are not elements, threads and readers are
finitely many, the mark for no kind is no definition and no object, and the like).  The bounds of the models (`MaxReqs`, `MaxCrashes`,
`MaxConnects`, `MaxInfos`, `MaxTouched`) are any numbers.  The runs check the properties
first on the instances above.

## What is only model-checked, and what is not modelled

Liveness (`EventuallyNotified`, `SerialFair`, `EverythingEnds`, `RequestsEnd`,
`OpenSettles`) and anything with `ENABLED` is outside the prover, and so is what depends on induction
over data: trees, parsers, schemas, encodings and searches, whose definitions are recursive.  So are
what the client keeps, whose module builds
on the objects; and `QuotaCountsBytes` and `ScanExact`, whose sums are folds over sets.  The results of `MojDbQueries`
(`FindsExact`, `WritesReachAll`) are within the prover's reach and checked by TLC only; what
is proved of the iterators (`SeekFinds`, `DeleteThenNext` and the like) is the step they rest on.

Not modelled, with the reason: the socket service, its messages and encoding (commented out
of `src/core/CMakeLists.txt`); the space alert (nothing creates it) and the space check; revision
sets (one comparison before a write); memory reclamation other than where said,
logging, the frame of the application and the tools, wrappers of the operating
system (`MojOs`); text collation (ICU), the bus, LevelDB and Berkeley DB themselves.  `reserveId`,
the exclusion of kinds and the sizes that statistics add up are left out of modules that
have the rest.  `PROJECT.json` lists each
component with the reason.

## Other things met while modelling

These are excused or excluded in the modules and are not runs of their own.

* Service: `LSSubscriptionAdd` failing after `addSubscription` leaves a pointer to a message
  that ends; a watch or find that fails after `new Watcher(msg)` stays subscribed until
  the client cancels; a deadlock retry of a watched find connects a second watcher; a
  watch inside a batch is refused only where the batch's own payload asks for it; methods
  that end with `replySuccess` answer before the batch is committed; the space check, and `del` without
  ids or query, send no reply.
* A scheduled purge that fails never completes its activity, and its caller has been
  answered before anything is done.
* Signals and reactors: `stop` before `run` is lost; a hang-up with no events asked for
  spins the loop of glib's reactor.
* Containers: appending to a shared string doubles its capacity; `appendVFormat`
  returns no error after one; `delString` accepts an index equal to the size.
* Schema: a failed `fromObject` keeps the old rule but has added its strings.
* Sandwich: `commitImpl` drops the status of the commit; `del` reports that
  something was found whenever there is a transaction; `drop` closes the sequences and then fails as not
  implemented; `forUpdate` is ignored.
* Kinds: an unparsable or skipped kind leaves permissions that stop the next open;
  `reloadKind` that fails in `createKind` leaves the kind out of the map.
* Kinds: an object can outlive its kind.  It takes four kinds and the super `LosesAWay` excuses: k extends r
  and r extends a, o is an object of k.  A kind g that extends r is put, and k changes its super from r to g: r
  loses o though it is still above k, and a keeps it.  Then r drops a, which keeps o although k is no longer
  below it.  Then a is put to extend k, and put again without: the objects a finds, o among them,
  leave the index of k, where o belongs.  `delKind` of k finds no object and leaves o without
  a kind (`MojDbKind::updateSupers`).  No step from exact indexes does this.

## Plan

1. Proofs next: the results of queries (`FindsExact`), from the lemmas on the iterators and an
   order on byte keys.
2. `MojDbQuotaEngine` under the transactions of `MojDbTxn`, so that the two interleave at
   every step.
3. The Berkeley DB environment (checkpoints, deadlock detection) as far as its wrapper
   decides anything.
