------------------------------- MODULE MojDbTxn -------------------------------
(***************************************************************************)
(* Requests and their transactions: MojDbServiceHandlerBase::invoke with its *)
(* retries, MojDbReq (nesting, batches, schema lock), put, merge and del of  *)
(* MojDb with the revision check, the overlay of a transaction, the way each *)
(* engine commits it, and crashes.                                          *)
(*                                                                         *)
(* A request carries out a program, the operations of one message, in one    *)
(* transaction.  Reads see the committed tables under the writes of the own  *)
(* transaction; nothing keeps two transactions of the leveldb or sandwich    *)
(* engine from reading and writing the same object, while the Berkeley       *)
(* engine locks what is read for update and reports deadlocks.  The leveldb  *)
(* engine keeps each table in a database of its own and writes them one by   *)
(* one; the others commit both tables together.                             *)
(*                                                                         *)
(* A commit may return an error with rows stored: leveldb goes on to the next *)
(* table when the write of one has failed, and what follows the writes (slots, *)
(* quotas, watchers) may fail.  There is one index, of the live objects by   *)
(* one property.  raced collects the objects that two open transactions have *)
(* touched, torn those of a commit that a crash or a failing write has cut   *)
(* between two tables: their index entries are nobody's promise.             *)
(* Bounds: Programs, MaxReqs requests, MaxCrashes crashes, MaxFailures writes    *)
(* that fail.  The configuration is the shipped one: leveldb writes with     *)
(* sync, sandwich without.                                                   *)
(***************************************************************************)
EXTENDS Naturals, Sequences, FiniteSets

CONSTANTS Clients, Ids, Vals,
          Programs,           \* the sequences of operations that a message may ask for
          Engines,            \* the engines to choose from
          AutoBatchSize, MaxDeadlockRetries,
          MaxReqs, MaxCrashes, MaxFailures,
          None

\* An operation is [do |-> "put", id, val, rev], rev being "none" or "seen";
\* merge and force (a put with FlagForce) with an id and a value; del and purge
\* with an id; delQuery with a value; putKind; delKind with the objects of the kind.
Schema == {"putKind", "delKind"}

Operations ==
  [do : {"put"}, id : Ids, val : Vals, rev : {"none", "seen"}]
  \cup [do : {"merge", "force"}, id : Ids, val : Vals]
  \cup [do : {"del", "purge"}, id : Ids]
  \cup [do : {"delQuery"}, val : Vals]
  \cup [do : {"putKind"}] \cup [do : {"delKind"}, ids : SUBSET Ids]

ASSUME TxnAssumption ==
  /\ Engines \subseteq {"leveldb", "sandwich", "berkeley"}
  /\ AutoBatchSize \in Nat \ {0} /\ MaxDeadlockRetries \in Nat \ {0}
  /\ MaxReqs \in Nat /\ MaxCrashes \in Nat /\ MaxFailures \in Nat
  /\ None \notin Clients \cup Ids \cup Vals
  /\ Programs \subseteq Seq(Operations)
  /\ \A p \in Programs : Len(p) > 0 /\ ((\E i \in 1..Len(p) : p[i].do \in Schema) => Len(p) = 1)

NoObj == [rev |-> 0, val |-> None, del |-> FALSE]
Clean == [rev |-> 0, val |-> None, del |-> TRUE]    \* an object the transaction has not written

NoTxn == [written |-> [i \in Ids |-> Clean],  \* pending objects; NoObj deletes
          put     |-> {}, gone |-> {},        \* pending index entries, pending deletes
          tables  |-> <<>>,                   \* tables to commit, in the order of their first use
          failed  |-> {},                     \* tables whose write has failed
          touched |-> {}]                     \* objects it has read in order to write
NoWork == [prev |-> NoObj, cursor |-> {}, count |-> 0, more |-> FALSE]
NoMsg  == [program |-> <<>>, at |-> 1, seen |-> [i \in Ids |-> 0], retries |-> 0]

VARIABLES
  engine,
  readers, writer,              \* m_schemaLock
  m_lock,                       \* how the request holds it: "none", "read", "write" (m_db, m_schemaLocked)
  m_beginCount, m_batch, m_txn, \* MojDbReq; "yes"/"no", "open"/"none"
  pc,                           \* where the request is
  msg,                          \* its message: program, current operation, revisions its sender has seen
  work,                         \* locals of the operation: object read, open cursor, objects it had
  txn,                          \* the transaction
  objs, idx,                    \* committed tables
  disk,                         \* what a crash leaves of them
  nextRev,                      \* MojDb::nextId
  reqs, crashes, failures,          \* bounds
  raced, torn,                  \* history, see above
  left                          \* history: what the last commit that has ended left of an object

lockVars == <<readers, writer, m_lock>>
reqVars  == <<m_beginCount, m_batch, m_txn>>
store    == <<objs, idx, disk>>
history  == <<raced, torn, left>>
bounds   == <<reqs, crashes, failures>>
vars     == <<engine, lockVars, reqVars, pc, msg, work, txn, store, nextRev, bounds, history>>

Entries == Vals \X Ids
ObjType  == {NoObj} \cup [rev : Nat \ {0}, val : Vals, del : BOOLEAN]
MsgType  == [program : Programs \cup {<<>>}, at : Nat \ {0}, seen : [Ids -> Nat],
             retries : 0..MaxDeadlockRetries]
WorkType == [prev : ObjType, cursor : SUBSET Ids, count : Nat, more : BOOLEAN]
Tables   == {"objs", "idx"}
TableLists == {s \in Seq(Tables) : \A i, j \in DOMAIN s : s[i] = s[j] => i = j}
TxnType  == [written : [Ids -> ObjType \cup {Clean}], put : SUBSET Entries, gone : SUBSET Entries,
             tables : TableLists, failed : SUBSET Tables, touched : SUBSET Ids]

\* What the requests share, but for the lock.
StoreTypes ==
  /\ engine \in Engines
  /\ objs \in [Ids -> ObjType] /\ idx \subseteq Entries
  /\ disk \in [objs : [Ids -> ObjType], idx : SUBSET Entries]
  /\ nextRev \in Nat \ {0} /\ reqs \in 0..MaxReqs /\ crashes \in 0..MaxCrashes
  /\ failures \in 0..MaxFailures
  /\ raced \subseteq Ids /\ torn \subseteq Ids /\ left \in [Ids -> ObjType]

\* The lock, and what each request has.
RequestTypes ==
  /\ readers \subseteq Clients /\ writer \in Clients \cup {None}
  /\ m_lock \in [Clients -> {"none", "read", "write"}]
  /\ m_beginCount \in [Clients -> 0..2]
  /\ m_batch \in [Clients -> {"yes", "no"}] /\ m_txn \in [Clients -> {"none", "open"}]
  /\ pc \in [Clients -> {"idle", "call", "fetch", "store", "query", "next", "kind",
                         "reload", "reloading", "commit", "writing", "written", "rebegin"}]
  /\ msg \in [Clients -> MsgType] /\ work \in [Clients -> WorkType] /\ txn \in [Clients -> TxnType]
  /\ \A c \in Clients :
       /\ msg[c].at <= Len(msg[c].program) + 1
       /\ txn[c].put \cap txn[c].gone = {}
       /\ m_txn[c] = "none" => txn[c] = NoTxn

TypeOK == StoreTypes /\ RequestTypes

Init ==
  /\ engine \in Engines
  /\ readers = {} /\ writer = None /\ m_lock = [c \in Clients |-> "none"]
  /\ m_beginCount = [c \in Clients |-> 0]
  /\ m_batch = [c \in Clients |-> "no"] /\ m_txn = [c \in Clients |-> "none"]
  /\ pc = [c \in Clients |-> "idle"]
  /\ msg = [c \in Clients |-> NoMsg] /\ work = [c \in Clients |-> NoWork]
  /\ txn = [c \in Clients |-> NoTxn]
  /\ objs = [i \in Ids |-> NoObj] /\ idx = {}
  /\ disk = [objs |-> objs, idx |-> idx]
  /\ nextRev = 1 /\ reqs = 0 /\ crashes = 0 /\ failures = 0
  /\ raced = {} /\ torn = {} /\ left = objs
-----------------------------------------------------------------------------
(* The schema lock and the request. *)

\* MojDbReq::lock, when the request does not hold the lock yet.
Lock(c, mode) ==
  /\ writer = None /\ (mode = "write" => readers = {})
  /\ IF mode = "write" THEN writer' = c /\ UNCHANGED readers
                       ELSE readers' = readers \cup {c} /\ UNCHANGED writer
  /\ m_lock' = [m_lock EXCEPT ![c] = mode]

\* Mutant: the request still believes it holds the lock.
UnlockKeepsDb(c) ==
  /\ readers' = readers \ {c}
  /\ writer' = IF writer = c THEN None ELSE writer
  /\ UNCHANGED m_lock

\* MojDbReq::unlock.
Unlock(c) ==
  /\ readers' = readers \ {c}
  /\ writer' = IF writer = c THEN None ELSE writer
  /\ m_lock' = [m_lock EXCEPT ![c] = "none"]

\* MojDbReq::begin at the first of several nested calls: the lock, and a
\* transaction unless the batch has one.
Begin(c, mode) ==
  /\ m_beginCount[c] = 0
  /\ IF m_lock[c] = "none" THEN Lock(c, mode) ELSE UNCHANGED lockVars
  /\ m_beginCount' = [m_beginCount EXCEPT ![c] = 1]
  /\ m_txn' = [m_txn EXCEPT ![c] = "open"]
  /\ UNCHANGED m_batch

\* MojDbReq::end in a batch: the transaction goes on.
End(c) ==
  /\ m_beginCount' = [m_beginCount EXCEPT ![c] = @ - 1]
  /\ UNCHANGED <<m_batch, m_txn, lockVars>>

\* The request gives up its transaction and the lock: abort(), the destructor,
\* and the end of commit().
Leave(c) ==
  /\ Unlock(c)
  /\ m_beginCount' = [m_beginCount EXCEPT ![c] = 0]
  /\ m_batch' = [m_batch EXCEPT ![c] = "no"]
  /\ m_txn' = [m_txn EXCEPT ![c] = "none"]
  /\ txn' = [txn EXCEPT ![c] = NoTxn]
-----------------------------------------------------------------------------
(* Overlay and committed tables. *)

\* MojDbLevelTableTxn::Get: pending writes hide the committed table.
View(c, id) == IF txn[c].written[id] = Clean THEN objs[id] ELSE txn[c].written[id]
IndexView(c) == (idx \ txn[c].gone) \cup txn[c].put

\* MojDbIndex::includeObj and getKeys.
Keys(id, o) == IF o = NoObj \/ o.del THEN {} ELSE {<<o.val, id>>}

\* MojDbLevelEnvTxn::tableTxn: a table has its own transaction from its first use.
Uses(t, table) == \E i \in DOMAIN t.tables : t.tables[i] = table
Use(t, table)  == IF Uses(t, table) THEN t ELSE [t EXCEPT !.tables = Append(@, table)]

\* Put and Delete of index entries: the later of the two counts.
Index(t, del, ins) == [t EXCEPT !.put = (@ \ del) \cup ins, !.gone = (@ \ ins) \cup del]

\* MojDbIndex::update with the old and the new object, and the object itself
\* (MojDb::putObj, or the purge of delObj when new is NoObj).
Write(t, id, old, new) ==
  Use(Use([Index(t, Keys(id, old) \ Keys(id, new), Keys(id, new) \ Keys(id, old))
             EXCEPT !.written[id] = new], "idx"), "objs")

\* The transaction reads an object in order to write it.  Only the Berkeley
\* engine makes it wait for another transaction that has done so.
Free(c, id) == engine = "berkeley" => \A d \in Clients \ {c} : id \notin txn[d].touched
Race(c, id) == raced' = raced \cup {i \in {id} : \E d \in Clients \ {c} : id \in txn[d].touched}
-----------------------------------------------------------------------------
(* The handler. *)

\* invokeImpl: a new request, in a batch.
StartBatch(c) == m_batch' = [m_batch EXCEPT ![c] = "yes"] /\ UNCHANGED <<m_beginCount, m_txn>>

Receive(c) ==
  /\ pc[c] = "idle" /\ reqs < MaxReqs
  /\ \E p \in Programs :
       msg' = [msg EXCEPT ![c] = [program |-> p, at |-> 1, retries |-> 0,
                                  seen |-> [i \in Ids |-> objs[i].rev]]]
  /\ StartBatch(c)
  /\ pc' = [pc EXCEPT ![c] = "call"] /\ reqs' = reqs + 1
  /\ UNCHANGED <<engine, lockVars, work, txn, store, nextRev, crashes, failures, history>>

Op(c) == msg[c].program[msg[c].at]

\* The request fails: its destructor drops the lock and the transaction.
Fail(c) ==
  /\ Leave(c)
  /\ pc' = [pc EXCEPT ![c] = "idle"] /\ msg' = [msg EXCEPT ![c] = NoMsg]
  /\ work' = [work EXCEPT ![c] = NoWork]
  /\ UNCHANGED <<engine, store, nextRev, bounds, history>>

\* The current operation is done.
Done(c) ==
  /\ End(c)
  /\ pc' = [pc EXCEPT ![c] = "call"]
  /\ msg' = [msg EXCEPT ![c].at = @ + 1]
  /\ work' = [work EXCEPT ![c] = NoWork]

\* MojDb::beginReq at the start of an operation.
BeginOp(c) ==
  /\ pc[c] = "call" /\ msg[c].at <= Len(msg[c].program)
  /\ Begin(c, IF Op(c).do \in Schema THEN "write" ELSE "read")
  /\ pc' = [pc EXCEPT ![c] = CASE Op(c).do = "putKind"               -> "kind"
                               [] Op(c).do \in {"delQuery", "delKind"} -> "query"
                               [] OTHER                              -> "fetch"]
  /\ UNCHANGED <<engine, msg, work, txn, store, nextRev, bounds, history>>

\* The callback has returned: endBatch.
EndBatch(c) ==
  /\ pc[c] = "call" /\ msg[c].at > Len(msg[c].program)
  /\ m_batch' = [m_batch EXCEPT ![c] = "no"]
  /\ pc' = [pc EXCEPT ![c] = "commit"]
  /\ UNCHANGED <<engine, lockVars, m_beginCount, m_txn, msg, work, txn, store, nextRev, bounds, history>>
-----------------------------------------------------------------------------
(* put, merge and del of an object by its id. *)

\* m_objDb->get(..., forUpdate) of putImpl and delImpl.
Fetch(c) ==
  /\ pc[c] = "fetch" /\ Free(c, Op(c).id) /\ Race(c, Op(c).id)
  /\ work' = [work EXCEPT ![c].prev = View(c, Op(c).id)]
  /\ txn' = [txn EXCEPT ![c] = Use([txn[c] EXCEPT !.touched = @ \cup {Op(c).id}], "objs")]
  /\ pc' = [pc EXCEPT ![c] = "store"]
  /\ UNCHANGED <<engine, lockVars, reqVars, msg, store, nextRev, bounds, torn, left>>

\* MojDb::nextId, called for an object that is stored.
DrawRev(stored) == nextRev' = IF stored THEN nextRev + 1 ELSE nextRev

\* The revision a put names, 0 for none.
NamedRev(c) == IF Op(c).do = "put" /\ Op(c).rev = "seen" THEN msg[c].seen[Op(c).id] ELSE 0

\* Mutant: a put that names no revision is not refused.
RejectedNamed(c) ==
  LET prev == work[c].prev
  IN  Op(c).do = "put" /\ prev # NoObj /\ NamedRev(c) \notin {0, prev.rev}

\* putImpl: MojErrDbRevNotSpecified and MojErrDbRevisionMismatch.
Rejected(c) ==
  LET prev == work[c].prev
  IN  /\ Op(c).do = "put" /\ prev # NoObj
      /\ IF NamedRev(c) = 0 THEN ~prev.del ELSE NamedRev(c) # prev.rev

\* What the operation wants to store.  A merge keeps the _del flag of the old object.
NewObj(c) ==
  LET prev == work[c].prev
  IN  CASE Op(c).do \in {"put", "force"} -> [rev |-> nextRev, val |-> Op(c).val, del |-> FALSE]
        [] Op(c).do = "merge" -> [rev |-> nextRev, val |-> Op(c).val, del |-> prev # NoObj /\ prev.del]
        [] Op(c).do = "del"   -> [prev EXCEPT !.rev = nextRev, !.del = TRUE]
        [] Op(c).do = "purge" -> NoObj

\* A deletion finds nothing, or putObj sees no difference: a put that names no
\* revision always differs from the old object, which has one.
Idle(c) ==
  LET prev == work[c].prev
      same == [NewObj(c) EXCEPT !.rev = prev.rev] = prev
  IN  IF prev = NoObj THEN Op(c).do \in {"del", "purge"}
      ELSE same /\ (Op(c).do \in {"merge", "del"} \/ NamedRev(c) # 0)

\* putImpl and putObj, or delObj.
Store(c) ==
  /\ pc[c] = "store"
  /\ \/ Rejected(c) /\ Fail(c)
     \/ /\ ~Rejected(c) /\ Idle(c)
        /\ Done(c)
        /\ UNCHANGED <<engine, txn, store, nextRev, bounds, history>>
     \/ /\ ~Rejected(c) /\ ~Idle(c)
        /\ Done(c)
        /\ txn' = [txn EXCEPT ![c] = Write(@, Op(c).id, work[c].prev, NewObj(c))]
        /\ DrawRev(NewObj(c) # NoObj)
        /\ UNCHANGED <<engine, store, bounds, history>>

\* Any other error of an operation: permission, schema, quota, storage.
OperationFails(c) == pc[c] \in {"fetch", "store", "query", "next"} /\ Fail(c)
-----------------------------------------------------------------------------
(* del by query: delImpl in batches. *)

\* What the index lists for the query; all objects of the kind for delKind.
Matches(c) == IF Op(c).do = "delQuery" THEN {i \in Ids : <<Op(c).val, i>> \in IndexView(c)}
                                       ELSE {i \in Op(c).ids : View(c, i) # NoObj}

\* The cursor sees the index as it is now, up to the limit.
OpenCursor(c) ==
  /\ pc[c] = "query"
  /\ \E found \in SUBSET Matches(c) :
       /\ Cardinality(found) = IF Cardinality(Matches(c)) < AutoBatchSize
                               THEN Cardinality(Matches(c)) ELSE AutoBatchSize
       /\ work' = [work EXCEPT ![c].cursor = found, ![c].count = 0]
  /\ txn' = [txn EXCEPT ![c] = Use(@, "idx")]
  /\ pc' = [pc EXCEPT ![c] = "next"]
  /\ UNCHANGED <<engine, lockVars, reqVars, msg, store, nextRev, bounds, history>>

\* The next entry: the object is read and deleted, or gone already (a ghost key).
\* delKind purges.
DeleteNext(c) ==
  /\ pc[c] = "next"
  /\ \E id \in work[c].cursor :
       LET prev == View(c, id)
           new  == IF Op(c).do = "delKind" THEN NoObj ELSE [prev EXCEPT !.rev = nextRev, !.del = TRUE]
           read == Use([txn[c] EXCEPT !.touched = @ \cup {id}], "objs")
           idle == prev = NoObj \/ (prev.del /\ new # NoObj)
       IN  /\ Free(c, id) /\ Race(c, id)
           /\ work' = [work EXCEPT ![c].cursor = @ \ {id}, ![c].count = IF prev = NoObj THEN @ ELSE @ + 1]
           /\ txn' = [txn EXCEPT ![c] = IF idle THEN read ELSE Write(read, id, prev, new)]
           /\ DrawRev(~idle /\ new # NoObj)
  /\ UNCHANGED <<engine, lockVars, reqVars, pc, msg, store, bounds, torn, left>>

\* The cursor is at its end: commitBatch after a full batch, another round after
\* any other that found something.
CloseCursor(c) ==
  /\ pc[c] = "next" /\ work[c].cursor = {}
  /\ \/ /\ work[c].count >= AutoBatchSize
        /\ m_beginCount' = [m_beginCount EXCEPT ![c] = 0]
        /\ m_batch' = [m_batch EXCEPT ![c] = "no"]
        /\ pc' = [pc EXCEPT ![c] = "commit"]
        /\ work' = [work EXCEPT ![c].more = TRUE]
        /\ UNCHANGED <<lockVars, m_txn, msg>>
     \/ /\ work[c].count \in 1..AutoBatchSize - 1
        /\ pc' = [pc EXCEPT ![c] = "query"]
        /\ UNCHANGED <<lockVars, reqVars, msg, work>>
     \/ /\ work[c].count = 0 /\ Op(c).do = "delQuery"
        /\ Done(c)
     \/ /\ work[c].count = 0 /\ Op(c).do = "delKind"
        /\ pc' = [pc EXCEPT ![c] = "kind"]
        /\ UNCHANGED <<lockVars, reqVars, msg, work>>
  /\ UNCHANGED <<engine, txn, store, nextRev, bounds, history>>

\* commitBatch goes on: a new transaction, and the lock as a reader.
Rebegin(c) ==
  /\ pc[c] = "rebegin"
  /\ Lock(c, "read")
  /\ m_beginCount' = [m_beginCount EXCEPT ![c] = 1]
  /\ m_batch' = [m_batch EXCEPT ![c] = "yes"] /\ m_txn' = [m_txn EXCEPT ![c] = "open"]
  /\ pc' = [pc EXCEPT ![c] = "query"]
  /\ work' = [work EXCEPT ![c] = NoWork]
  /\ UNCHANGED <<engine, msg, txn, store, nextRev, bounds, history>>
-----------------------------------------------------------------------------
(* putKind and delKind: only what they do with the lock; see MojDbKind. *)

\* m_kindEngine.putKind or delKind changes the kinds in memory; when it fails,
\* commitKind aborts the transaction.
ChangeKinds(c) ==
  /\ pc[c] = "kind"
  /\ \/ Done(c) /\ UNCHANGED txn
     \/ Leave(c) /\ pc' = [pc EXCEPT ![c] = "reload"] /\ UNCHANGED <<msg, work>>
  /\ UNCHANGED <<engine, store, nextRev, bounds, history>>

\* reloadKind, in a request of its own ...
BeginReload(c) ==
  /\ pc[c] = "reload" /\ Begin(c, "write")
  /\ pc' = [pc EXCEPT ![c] = "reloading"]
  /\ UNCHANGED <<engine, msg, work, txn, store, nextRev, bounds, history>>

\* ... which commits nothing; then the error of the operation is returned.
EndReload(c) == pc[c] = "reloading" /\ Fail(c)
-----------------------------------------------------------------------------
(* Commit (MojDbStorageTxn::commit) and the end of the request. *)

\* A pre-commit slot or the quota fails, or the one write of both tables, or those of
\* every table: nothing is written.
NothingWritten(c) == pc[c] = "commit" /\ Fail(c)

\* Mutant: no engine waits for the disk.
NeverSynced == FALSE

\* Does a commit wait for the disk?
Synced == engine # "sandwich"

WrittenObjs(c) == [i \in Ids |-> View(c, i)]

\* sandwich and Berkeley: both tables.
CommitWhole(c) ==
  /\ pc[c] = "commit" /\ engine # "leveldb"
  /\ objs' = WrittenObjs(c) /\ idx' = IndexView(c)
  /\ disk' = IF Synced THEN [objs |-> objs', idx |-> idx'] ELSE disk
  /\ pc' = [pc EXCEPT ![c] = "written"]
  /\ UNCHANGED <<engine, lockVars, reqVars, msg, work, txn, nextRev, bounds, history>>

\* MojDbLevelEnvTxn::commitImpl: one table after the other, in a batch each.  When the
\* write of one fails the others are written all the same.
CommitTable(c) ==
  /\ pc[c] \in {"commit", "writing"} /\ engine = "leveldb"
  /\ \/ txn[c].tables = <<>> /\ UNCHANGED <<objs, idx, txn, failures, torn>>
     \/ /\ txn[c].tables # <<>>
        /\ objs' = IF Head(txn[c].tables) = "objs" THEN WrittenObjs(c) ELSE objs
        /\ idx' = IF Head(txn[c].tables) = "idx" THEN IndexView(c) ELSE idx
        /\ txn' = [txn EXCEPT ![c].tables = Tail(@)]
        /\ UNCHANGED <<failures, torn>>
     \/ /\ txn[c].tables # <<>> /\ failures < MaxFailures /\ failures' = failures + 1
        /\ txn' = [txn EXCEPT ![c].tables = Tail(@), ![c].failed = @ \cup {Head(txn[c].tables)}]
        /\ torn' = torn \cup txn[c].touched
        /\ UNCHANGED <<objs, idx>>
  /\ disk' = IF Synced THEN [objs |-> objs', idx |-> idx'] ELSE disk
  /\ pc' = [pc EXCEPT ![c] = IF txn'[c].tables = <<>> THEN "written" ELSE "writing"]
  /\ UNCHANGED <<engine, lockVars, reqVars, msg, work, nextRev, reqs, crashes, raced, left>>

\* What is left of the objects when those of the transaction count, if they do.
Leaves(c, counts) ==
  [i \in Ids |-> IF counts /\ txn[c].written[i] # Clean THEN txn[c].written[i] ELSE left[i]]

\* MojDbReq::commit returns, and the lock is dropped.  With success, which takes that no
\* write has failed, all of it counts, and commitBatch goes on or the message is answered.
\* The error of a write, or that of a slot, the quota engine or a watcher called after the
\* writes, ends the message, and the objects count that are in their table.
Finish(c) ==
  /\ pc[c] = "written"
  /\ Leave(c)
  /\ \/ /\ txn[c].failed = {} /\ left' = Leaves(c, TRUE)
        /\ work[c].more /\ pc' = [pc EXCEPT ![c] = "rebegin"] /\ UNCHANGED <<msg, work>>
     \/ /\ \/ txn[c].failed = {} /\ left' = Leaves(c, TRUE)
           \/ left' = Leaves(c, "objs" \notin txn[c].failed)
        /\ pc' = [pc EXCEPT ![c] = "idle"]
        /\ msg' = [msg EXCEPT ![c] = NoMsg] /\ work' = [work EXCEPT ![c] = NoWork]
  /\ UNCHANGED <<engine, store, nextRev, bounds, raced, torn>>
-----------------------------------------------------------------------------
(* Deadlocks and crashes. *)

Wants(c) == CASE pc[c] = "fetch" -> {Op(c).id}
              [] pc[c] = "next"  -> work[c].cursor
              [] OTHER           -> {}

\* c waits for d.
Waits(c, d) == Wants(c) # {} /\ Wants(c) \subseteq txn[d].touched

\* MojErrDbDeadlock: invoke starts the request again, a bounded number of times.
Deadlock(c) ==
  /\ engine = "berkeley"
  /\ \E d \in Clients \ {c} : Waits(c, d) /\ Waits(d, c)
  /\ \/ /\ msg[c].retries + 1 < MaxDeadlockRetries
        /\ Unlock(c)
        /\ m_beginCount' = [m_beginCount EXCEPT ![c] = 0]
        /\ m_txn' = [m_txn EXCEPT ![c] = "none"] /\ UNCHANGED m_batch
        /\ txn' = [txn EXCEPT ![c] = NoTxn]
        /\ pc' = [pc EXCEPT ![c] = "call"]
        /\ msg' = [msg EXCEPT ![c].at = 1, ![c].retries = @ + 1]
        /\ work' = [work EXCEPT ![c] = NoWork]
        /\ UNCHANGED <<engine, store, nextRev, bounds, history>>
     \/ msg[c].retries + 1 >= MaxDeadlockRetries /\ Fail(c)

\* The system writes the log of the sandwich engine back.
Flush ==
  /\ engine = "sandwich" /\ disk # [objs |-> objs, idx |-> idx]
  /\ disk' = [objs |-> objs, idx |-> idx]
  /\ UNCHANGED <<engine, lockVars, reqVars, pc, msg, work, txn, objs, idx, nextRev, bounds, history>>

\* Objects of a request whose commit the crash interrupts.
Committing == UNION {txn[c].touched : c \in {c \in Clients : pc[c] \in {"writing", "written"}}}

\* Power fails.  nextRev goes on above all revisions on disk (see IdSupply).
Crash ==
  /\ crashes < MaxCrashes /\ crashes' = crashes + 1
  /\ readers' = {} /\ writer' = None /\ m_lock' = [c \in Clients |-> "none"]
  /\ m_beginCount' = [c \in Clients |-> 0]
  /\ m_batch' = [c \in Clients |-> "no"] /\ m_txn' = [c \in Clients |-> "none"]
  /\ pc' = [c \in Clients |-> "idle"]
  /\ msg' = [c \in Clients |-> NoMsg] /\ work' = [c \in Clients |-> NoWork]
  /\ txn' = [c \in Clients |-> NoTxn]
  /\ objs' = disk.objs /\ idx' = disk.idx
  /\ left' = [i \in Ids |-> IF engine = "sandwich" \/ i \in Committing THEN disk.objs[i] ELSE left[i]]
  /\ torn' = torn \cup UNION {txn[c].touched : c \in {c \in Clients : pc[c] = "writing"}}
  /\ UNCHANGED <<engine, disk, nextRev, reqs, failures, raced>>

\* Every message that may arrive has been dealt with.
Over == reqs = MaxReqs /\ (\A c \in Clients : pc[c] = "idle") /\ UNCHANGED vars

Step(c) ==
  \/ Receive(c) \/ BeginOp(c) \/ EndBatch(c) \/ Fetch(c) \/ Store(c) \/ OperationFails(c)
  \/ OpenCursor(c) \/ DeleteNext(c) \/ CloseCursor(c) \/ Rebegin(c)
  \/ ChangeKinds(c) \/ BeginReload(c) \/ EndReload(c)
  \/ NothingWritten(c) \/ CommitWhole(c) \/ CommitTable(c) \/ Finish(c) \/ Deadlock(c)

Next == (\E c \in Clients : Step(c)) \/ Flush \/ Crash \/ Over
Spec == Init /\ [][Next]_vars
-----------------------------------------------------------------------------
(* Properties. *)

\* MojDbReq and the schema lock agree, a writer is alone, a transaction is only
\* open under the lock, and a thread between two messages holds nothing.
LockDiscipline ==
  /\ \A c \in Clients : (c \in readers <=> m_lock[c] = "read") /\ (c = writer <=> m_lock[c] = "write")
  /\ writer # None => readers = {}
  /\ \A c \in Clients : m_txn[c] = "open" => m_lock[c] # "none"
  /\ \A c \in Clients : pc[c] \in {"idle", "reload", "rebegin"} => m_lock[c] = "none"

\* MojAssertWriteLocked(m_db->m_schemaLock) of the kind engine: kinds change in
\* memory while no other request runs.
KindEngineWriteLocked ==
  \A c \in Clients : pc[c] \in {"kind", "reloading"} => writer = c /\ readers = {}

\* Objects that somebody is writing right now.
InCommit(id) == id \in Committing

\* What a message that was answered with success, or a batch of commitBatch, has written
\* is in the tables.  Of a message that failed there is nothing, unless the error is one
\* of the commit itself: then there is what the tables hold whose write did not fail, all
\* of it when none did.  No abort, retry or crash adds to or takes from that (before a
\* crash, for the engine that does not sync).
LeftIsStored == \A id \in Ids \ raced : ~InCommit(id) => objs[id] = left[id]

\* The index lists an object under its current value and no other, in memory and after a
\* crash, but for objects that a failing write or a crash has torn from their entries.
IndexExact ==
  \A id \in Ids \ (raced \cup torn) : ~InCommit(id) =>
     /\ idx \cap (Vals \X {id}) = Keys(id, objs[id])
     /\ disk.idx \cap (Vals \X {id}) = Keys(id, disk.objs[id])

\* What was reported to a client is stored, of what failed only what a commit that returned
\* an error has written, and the index has the entries of what is stored, in memory and
\* after a crash (MojDbReq, MojDb::putObj and delObj, MojDbStorageTxn::commit).
ReportedIsStored == TypeOK /\ LeftIsStored /\ IndexExact

\* Without a race the revision of an object only grows, except that a crash goes
\* back to an earlier state.
RevsGrow ==
  crashes' = crashes => \A id \in Ids \ raced' :
    objs'[id] \in {objs[id], NoObj} \/ objs'[id].rev > objs[id].rev

\* The message names every object it is about.
NamesObjects(c) == \A i \in DOMAIN msg[c].program : msg[c].program[i].do \notin Schema \cup {"delQuery"}

\* First operation of such a message on an object.
FirstOn(c, id) == {i \in DOMAIN msg[c].program :
                     /\ msg[c].program[i].id = id
                     /\ \A j \in 1..i - 1 : msg[c].program[j].id # id}

\* A put that names a revision replaces that revision or nothing: an update that
\* its sender has not seen is not lost (unless the two ran in transactions that
\* overlap, or the message also deletes by a query, which may meet the object again).
NoLostUpdate ==
  \A c \in Clients, id \in Ids :
    (/\ pc[c] = "commit" /\ pc'[c] \in {"writing", "written"}
     /\ id \notin raced /\ objs'[id] # objs[id] /\ objs[id] # NoObj /\ NamesObjects(c)
     /\ \E i \in FirstOn(c, id) : msg[c].program[i].do = "put" /\ msg[c].program[i].rev = "seen")
    => objs[id].rev = msg[c].seen[id] \/ (objs[id].del /\ msg[c].seen[id] = 0)

\* The revision of an object grows with what is stored of it, and a put that names a
\* revision replaces that one or nothing (MojDb::putImpl and nextId).
UpdatesGuarded == [][RevsGrow /\ NoLostUpdate]_vars
=============================================================================
