----------------------------- MODULE MojDbSandwich -----------------------------
(***************************************************************************)
(* The sandwich engine: databases and indexes as parts of one LevelDB          *)
(* (MojDbSandwichEngine, MojDbSandwichDatabase, MojDbSandwichIndex), what a     *)
(* transaction puts over them and adds to its quota (MojDbSandwichEnvTxn),      *)
(* the cursor of a query (MojDbSandwichQuery), and the file that keeps other    *)
(* instances out of the directory (MojDbSandwichEnv).                          *)
(*                                                                         *)
(* An object is [size, prop]: the length of its value and what indexes take     *)
(* from it.  A key of an index is a number, in the order of its bytes.  The     *)
(* overlay of a transaction, the parts and the order of an iterator are those   *)
(* of the LevelDB sandwich library.                                            *)
(***************************************************************************)
EXTENDS Integers, FiniteSets, Sequences, TLC
LOCAL INSTANCE SequencesExt
LOCAL INSTANCE FiniteSetsExt

CONSTANTS
  Txns,                      \* transactions
  MaxId, MaxProp, MaxIndex,  \* ids 1..MaxId, properties 1..MaxProp, indexes 1..MaxIndex
  Values,                    \* what objects hold
  MaxWrites,                 \* bound: writes of a transaction
  Instances,                 \* processes that want the directory
  MaxFiles                   \* bound: times the lock file is made

ASSUME EnvAssumption == MaxFiles \in Nat /\ "nobody" \notin Instances

VARIABLES
  stored,    \* [objs, keys]: what is committed
  usage,     \* the quota offsets of the committed transactions
  indexes,   \* the indexes there are
  txn,       \* what each transaction has written, [open, objs, put, del, quota, stale, writes]
  drifted    \* a transaction was committed over objects another one had changed
sandwichVars == <<stored, usage, indexes, txn, drifted>>

VARIABLES
  lockFile,  \* the file at the path, 0 if none
  made,      \* files made so far
  opened,    \* the file each instance has open
  holder,    \* who holds the lock of each file
  envStage,     \* "out", "opened", "in", "leaving"
  raced      \* the file was deleted while an instance had it open, not locked
envVars == <<lockFile, made, opened, holder, envStage, raced>>

SIds == 1..MaxId
KeySize == 2
Gone == [size |-> -1, prop |-> 0]
-----------------------------------------------------------------------------
(* Keys of indexes, and what a transaction sees. *)

IndexKey(i, v, id) == (i * (MaxProp + 1) + v.prop) * (MaxId + 1) + id
KeysOf(i, v, id) == IF v = Gone THEN {} ELSE {IndexKey(i, v, id)}
IndexOf(k) == k \div ((MaxProp + 1) * (MaxId + 1))

MaxKey == IndexKey(MaxIndex, [prop |-> MaxProp], MaxId)

NewTxn == [open |-> FALSE, objs |-> [id \in {} |-> Gone], put |-> {}, del |-> {}, quota |-> 0, stale |-> FALSE, writes |-> 0]
StoredObj(s, id) == IF id \in DOMAIN s.objs THEN s.objs[id] ELSE Gone

\* The committed state with what a transaction has written over it.
Over(s, x) ==
  LET there == {id \in SIds : (IF id \in DOMAIN x.objs THEN x.objs[id] ELSE StoredObj(s, id)) # Gone} IN
    [objs |-> [id \in there |-> IF id \in DOMAIN x.objs THEN x.objs[id] ELSE s.objs[id]],
     keys |-> (s.keys \cup x.put) \ x.del]
View(t) == Over(stored, txn[t])

\* stats: the entries with a prefix, and their bytes.
Bytes(s) == FoldSet(LAMBDA id, n : n + KeySize + s.objs[id].size, 0, DOMAIN s.objs) + KeySize * Cardinality(s.keys)
-----------------------------------------------------------------------------
(* The steps of a transaction. *)

\* put: the value and, for a new entry, its key.
PutItem(x, id, v, updateIdQuota) ==
  [x EXCEPT !.objs = (id :> v) @@ @, !.quota = @ + v.size + (IF updateIdQuota THEN KeySize ELSE 0)]
Insert(x, id, v) == PutItem(x, id, v, TRUE)

\* Mutant: the old value stays in the quota.
UpdateKeepsOld(x, id, v, old) == PutItem(x, id, v, FALSE)

Update(x, id, v, old) == PutItem([x EXCEPT !.quota = @ - old.size], id, v, FALSE)
\* del: the key only, whether it is there or not.
DelItem(x, id) == [x EXCEPT !.objs = (id :> Gone) @@ @, !.quota = @ - KeySize]

InsertKey(x, k) == [x EXCEPT !.put = @ \cup {k}, !.del = @ \ {k}, !.quota = @ + KeySize]
DelKey(x, k) == [x EXCEPT !.put = @ \ {k}, !.del = @ \cup {k}, !.quota = @ - KeySize]
InsertKeys(x, ks) == FoldSet(LAMBDA k, y : InsertKey(y, k), x, ks)
DelKeys(x, ks) == FoldSet(LAMBDA k, y : DelKey(y, k), x, ks)

\* delPrefix: every entry of the index.
DelPrefix(x, keys, i) == DelKeys(x, {k \in keys : IndexOf(k) = i})

\* What an update makes of the indexes: entries that stay are left alone.
UpdateIndexes(x, old, new, id) ==
  LET oldKeys == UNION {KeysOf(i, old, id) : i \in indexes}
      newKeys == UNION {KeysOf(i, new, id) : i \in indexes} IN
    InsertKeys(DelKeys(x, oldKeys \ newKeys), newKeys \ oldKeys)
-----------------------------------------------------------------------------
SandwichInit ==
  /\ stored = [objs |-> [id \in {} |-> Gone], keys |-> {}]
  /\ usage = 0 /\ indexes = {1} /\ drifted = FALSE
  /\ txn = [t \in Txns |-> NewTxn]

\* (Nothing begins once the quota has drifted: bound.)
BeginTxn(t) ==
  /\ ~txn[t].open /\ ~drifted
  /\ txn' = [txn EXCEPT ![t] = [NewTxn EXCEPT !.open = TRUE]]
  /\ UNCHANGED <<stored, usage, indexes, drifted>>

CountWrite(t) == [txn[t] EXCEPT !.writes = @ + 1]

\* An object is put: get, then the indexes, then insert or update.
PutObj(t, id, v) ==
  LET old == StoredObj(View(t), id)
      x == UpdateIndexes(CountWrite(t), old, v, id) IN
    /\ txn[t].open /\ txn[t].writes < MaxWrites
    /\ txn' = [txn EXCEPT ![t] = IF old = Gone THEN Insert(x, id, v) ELSE Update(x, id, v, old)]
    /\ UNCHANGED <<stored, usage, indexes, drifted>>

\* An object is purged; its value is taken off the quota by the caller.
PurgeObj(t, id) ==
  LET old == StoredObj(View(t), id)
      x == UpdateIndexes(CountWrite(t), old, Gone, id) IN
    /\ txn[t].open /\ txn[t].writes < MaxWrites /\ old # Gone
    /\ txn' = [txn EXCEPT ![t] = DelItem([x EXCEPT !.quota = @ - old.size], id)]
    /\ UNCHANGED <<stored, usage, indexes, drifted>>

Commit(t) ==
  LET x == txn[t] IN
    /\ x.open
    /\ stored' = View(t)
    /\ usage' = usage + x.quota
    /\ drifted' = (drifted \/ x.stale)
    /\ txn' = [u \in Txns |-> IF u = t THEN NewTxn
                ELSE [txn[u] EXCEPT !.stale = @ \/ DOMAIN txn[u].objs \cap DOMAIN x.objs # {}]]
    /\ UNCHANGED indexes

Abort(t) ==
  /\ txn[t].open
  /\ txn' = [txn EXCEPT ![t] = NewTxn]
  /\ UNCHANGED <<stored, usage, indexes, drifted>>

\* An index is built or dropped, in a transaction that has the schema to itself.
ChangeIndex(i) ==
  /\ \A t \in Txns : ~txn[t].open
  /\ LET x == IF i \in indexes THEN DelPrefix(NewTxn, stored.keys, i)
              ELSE InsertKeys(NewTxn, UNION {KeysOf(i, stored.objs[id], id) : id \in DOMAIN stored.objs}) IN
       /\ stored' = Over(stored, x)
       /\ usage' = usage + x.quota
  /\ indexes' = IF i \in indexes THEN indexes \ {i} ELSE indexes \cup {i}
  /\ UNCHANGED <<txn, drifted>>

\* close and open, or a crash: what was not committed is gone.
Reopen ==
  /\ txn' = [t \in Txns |-> NewTxn]
  /\ UNCHANGED <<stored, usage, indexes, drifted>>

SandwichNext ==
  \/ \E t \in Txns : BeginTxn(t) \/ Commit(t) \/ Abort(t)
  \/ \E t \in Txns, id \in SIds, v \in Values : PutObj(t, id, v)
  \/ \E t \in Txns, id \in SIds : PurgeObj(t, id)
  \/ \E i \in 1..MaxIndex : ChangeIndex(i)
  \/ Reopen
-----------------------------------------------------------------------------
(* The cursor of a query: a position among the keys, 0 when it is not valid. *)

First(keys) == IF keys = {} THEN 0 ELSE Min(keys)
Latest(keys) == IF keys = {} THEN 0 ELSE Max(keys)
Following(keys, k, desc) == IF desc THEN Latest({x \in keys : x < k}) ELSE First({x \in keys : x > k})

\* seekImpl: downwards, the entry found first is outside the range.
SeekImpl(keys, key, desc) ==
  IF key = 0 THEN IF desc THEN Latest(keys) ELSE First(keys)
  ELSE LET at == First({x \in keys : x >= key}) IN
    CASE ~desc -> at
      [] desc /\ at # 0 -> Following(keys, at, TRUE)
      [] desc /\ at = 0 -> Latest(keys)

\* The entries of a range, lower bound included, upper not; 0 is no bound.
Within(k, lower, upper) == k >= lower /\ (upper = 0 \/ k < upper)
Scan(keys, lower, upper, desc) ==
  LET Reads[k \in keys \cup {0}] ==
        IF k = 0 \/ ~Within(k, IF desc THEN lower ELSE 0, IF desc THEN 0 ELSE upper) THEN <<>>
        ELSE <<k>> \o Reads[Following(keys, k, desc)] IN
    Reads[SeekImpl(keys, IF desc THEN upper ELSE lower, desc)]
-----------------------------------------------------------------------------
(* The lock file. *)

EnvInit ==
  /\ lockFile = 0 /\ made = 0 /\ raced = FALSE
  /\ opened = [p \in Instances |-> 0] /\ envStage = [p \in Instances |-> "out"]
  /\ holder = [f \in 1..MaxFiles |-> "nobody"]

\* lockDir: the file is opened, or made.
OpenFile(p) ==
  /\ envStage[p] = "out" /\ (lockFile # 0 \/ made < MaxFiles)
  /\ made' = IF lockFile = 0 THEN made + 1 ELSE made
  /\ lockFile' = IF lockFile = 0 THEN made' ELSE lockFile
  /\ opened' = [opened EXCEPT ![p] = lockFile'] /\ envStage' = [envStage EXCEPT ![p] = "opened"]
  /\ UNCHANGED <<holder, raced>>

\* lockDir: the lock, or MojErrLocked.
LockFile(p) ==
  /\ envStage[p] = "opened"
  /\ IF holder[opened[p]] = "nobody"
     THEN /\ holder' = [holder EXCEPT ![opened[p]] = p]
          /\ envStage' = [envStage EXCEPT ![p] = "in"] /\ UNCHANGED opened
     ELSE /\ envStage' = [envStage EXCEPT ![p] = "out"] /\ opened' = [opened EXCEPT ![p] = 0] /\ UNCHANGED holder
  /\ UNCHANGED <<lockFile, made, raced>>

\* MojUnlink: whatever file is at the path.
UnlinkPath(p) ==
  /\ lockFile' = 0
  /\ raced' = (raced \/ \E q \in Instances \ {p} : envStage[q] = "opened")
CloseFile(p) ==
  /\ holder' = [f \in DOMAIN holder |-> IF holder[f] = p THEN "nobody" ELSE holder[f]]
  /\ opened' = [opened EXCEPT ![p] = 0]

\* Mutant: the lock is given up before the file is deleted.
UnlockDirClosesFirst(p) ==
  \/ /\ envStage[p] = "in" /\ CloseFile(p)
     /\ envStage' = [envStage EXCEPT ![p] = "leaving"] /\ UNCHANGED <<lockFile, made, raced>>
  \/ /\ envStage[p] = "leaving" /\ UnlinkPath(p)
     /\ envStage' = [envStage EXCEPT ![p] = "out"] /\ UNCHANGED <<opened, holder, made>>

\* unlockDir: unlink, then close.
UnlockDir(p) ==
  \/ /\ envStage[p] = "in" /\ UnlinkPath(p)
     /\ envStage' = [envStage EXCEPT ![p] = "leaving"] /\ UNCHANGED <<opened, holder, made>>
  \/ /\ envStage[p] = "leaving" /\ CloseFile(p)
     /\ envStage' = [envStage EXCEPT ![p] = "out"] /\ UNCHANGED <<lockFile, made, raced>>

\* The process dies: its lock is gone, the file stays.
Die(p) ==
  /\ envStage[p] # "out" /\ CloseFile(p)
  /\ envStage' = [envStage EXCEPT ![p] = "out"]
  /\ UNCHANGED <<lockFile, made, raced>>

EnvNext == \E p \in Instances : OpenFile(p) \/ LockFile(p) \/ UnlockDir(p) \/ Die(p)
-----------------------------------------------------------------------------
(* Properties. *)

\* The quota is what is stored, keys and values, and each index has one entry for
\* each object as it stands, as long as no transaction writes an object that
\* another one has changed meanwhile: each takes off the value it has read
\* (MojDbSandwichDatabase::update, put, del and delPrefix).
QuotaCountsBytes ==
  ~drifted =>
    /\ usage = Bytes(stored)
    /\ stored.keys = UNION {KeysOf(i, stored.objs[id], id) : i \in indexes, id \in DOMAIN stored.objs}

\* A cursor gives the keys of a range once each, in order, upwards and downwards,
\* wherever the bounds lie (MojDbSandwichQuery::seekImpl and next).
ScanExact ==
  (\A t \in Txns : ~txn[t].open) =>
    \A lower, upper \in 0..(MaxKey + 1), desc \in BOOLEAN :
      Scan(stored.keys, lower, upper, desc) =
        SetToSortSeq({k \in stored.keys : Within(k, lower, upper)}, LAMBDA a, b : IF desc THEN a > b ELSE a < b)

\* At most one instance has the directory (MojDbSandwichEnv::lockDir).
OneInstance == Cardinality({p \in Instances : envStage[p] = "in"}) <= 1

\* The same, unless the file was deleted while another instance had it open and
\* was about to lock it (MojDbSandwichEnv::lockDir and unlockDir).
OneInstanceUnraced == ~raced => OneInstance
=============================================================================
