---------------------------- MODULE MojDbTxnProofs ----------------------------
(***************************************************************************)
(* The schema lock and the transactions of requests, for any clients,       *)
(* objects, values, programs and engines: the lock discipline; types and the *)
(* phases of a request; what tables, index and disk hold of what was         *)
(* reported; what an update replaces.  Each layer uses the ones before it.   *)
(* Then kinds, for any set of them: what is above a kind; links, which are   *)
(* symmetric, stay within the kinds in memory and close no cycle; memory and *)
(* storage, which follow the definitions; the indexes, which stay exact.     *)
(* Last the life of an index: what it answers, whatever writes fail.         *)
(***************************************************************************)
EXTENDS MojDbTxn, MojDbKind, MojDbIndexing, FiniteSetTheorems, TLAPS

PCs == {"idle", "call", "fetch", "store", "query", "next", "kind",
        "reload", "reloading", "commit", "writing", "written", "rebegin"}

\* Where a request holds nothing.
AtRest == {"idle", "reload", "rebegin"}

\* LockDiscipline with the types of what it speaks of.
LockInv ==
  /\ readers \subseteq Clients
  /\ writer \in Clients \cup {None}
  /\ m_lock \in [Clients -> {"none", "read", "write"}]
  /\ m_txn \in [Clients -> {"none", "open"}]
  /\ pc \in [Clients -> PCs]
  /\ LockDiscipline

\* MojDbReq::unlock and the end of the transaction, whatever follows: nothing else
\* depends on what the request held.
LEMMA GiveUp ==
  ASSUME LockInv, NEW c \in Clients, NEW p \in PCs,
         Unlock(c), m_txn' = [m_txn EXCEPT ![c] = "none"], pc' = [pc EXCEPT ![c] = p]
  PROVE  LockInv'
  BY TxnAssumption DEF LockInv, LockDiscipline, Unlock, PCs

\* MojDbReq::lock by a request that holds nothing, with the transaction it begins.
LEMMA TakeUp ==
  ASSUME LockInv, NEW c \in Clients, NEW p \in PCs \ AtRest, NEW mode \in {"read", "write"},
         m_lock[c] = "none", Lock(c, mode),
         m_txn' = [m_txn EXCEPT ![c] = "open"], pc' = [pc EXCEPT ![c] = p]
  PROVE  LockInv'
<1>1. CASE mode = "read"
  BY <1>1, TxnAssumption DEF LockInv, LockDiscipline, Lock, PCs, AtRest
<1>2. CASE mode = "write"
  BY <1>2, TxnAssumption DEF LockInv, LockDiscipline, Lock, PCs, AtRest
<1> QED BY <1>1, <1>2

\* A step that leaves the lock alone, opens no transaction without it and goes on.
LEMMA GoOn ==
  ASSUME LockInv, NEW c \in Clients, NEW p \in PCs \ AtRest,
         UNCHANGED lockVars, pc' = [pc EXCEPT ![c] = p],
         \/ UNCHANGED m_txn
         \/ m_lock[c] # "none" /\ m_txn' = [m_txn EXCEPT ![c] = "open"]
  PROVE  LockInv'
  BY DEF LockInv, LockDiscipline, lockVars, PCs, AtRest

\* MojDbReq::begin, the request holding the lock or not.
LEMMA BeginKeeps ==
  ASSUME LockInv, NEW c \in Clients, NEW p \in PCs \ AtRest, NEW mode \in {"read", "write"},
         Begin(c, mode), pc' = [pc EXCEPT ![c] = p]
  PROVE  LockInv'
<1>1. CASE m_lock[c] = "none"
  BY <1>1, TakeUp DEF Begin
<1>2. CASE m_lock[c] # "none"
  BY <1>2, GoOn DEF Begin
<1> QED BY <1>1, <1>2

\* An operation that fails, wherever.
LEMMA FailKeeps ==
  ASSUME LockInv, NEW c \in Clients, Fail(c)
  PROVE  LockInv'
<1>1. "idle" \in PCs
  BY DEF PCs
<1> QED BY <1>1, GiveUp DEF Fail, Leave

\* An operation that is done.
LEMMA DoneKeeps ==
  ASSUME LockInv, NEW c \in Clients, Done(c)
  PROVE  LockInv'
<1>1. "call" \in PCs \ AtRest
  BY DEF PCs, AtRest
<1> QED BY <1>1, GoOn DEF Done, End

\* One lemma per group of actions: messages and operations by id ...
LEMMA OperationKeeps ==
  ASSUME LockInv, NEW c \in Clients,
         Receive(c) \/ BeginOp(c) \/ EndBatch(c) \/ Fetch(c) \/ Store(c) \/ OperationFails(c)
  PROVE  LockInv'
<1> USE DEF PCs, AtRest
<1>1. CASE Receive(c)
  BY <1>1, GoOn DEF Receive, StartBatch
<1>2. CASE BeginOp(c)
  <2> DEFINE mode == IF Op(c).do \in Schema THEN "write" ELSE "read"
             p == CASE Op(c).do = "putKind"               -> "kind"
                    [] Op(c).do \in {"delQuery", "delKind"} -> "query"
                    [] OTHER                              -> "fetch"
  <2>1. mode \in {"read", "write"} /\ p \in PCs \ AtRest
    OBVIOUS
  <2>2. Begin(c, mode) /\ pc' = [pc EXCEPT ![c] = p]
    BY <1>2 DEF BeginOp
  <2> HIDE DEF mode, p, PCs, AtRest
  <2> QED BY <2>1, <2>2, BeginKeeps
<1>3. CASE EndBatch(c)
  BY <1>3, GoOn DEF EndBatch
<1>4. CASE Fetch(c)
  BY <1>4, GoOn DEF Fetch, reqVars
<1>5. CASE Store(c)
  BY <1>5, FailKeeps, DoneKeeps DEF Store
<1>6. CASE OperationFails(c)
  BY <1>6, FailKeeps DEF OperationFails
<1> QED BY <1>1, <1>2, <1>3, <1>4, <1>5, <1>6

\* ... del by query ...
LEMMA DelQueryKeeps ==
  ASSUME LockInv, NEW c \in Clients,
         OpenCursor(c) \/ DeleteNext(c) \/ CloseCursor(c) \/ Rebegin(c)
  PROVE  LockInv'
<1>1. CASE OpenCursor(c)
  BY <1>1, GoOn DEF OpenCursor, reqVars, PCs, AtRest
<1>2. CASE DeleteNext(c)
  <2>1. UNCHANGED <<lockVars, reqVars, pc>>
    BY <1>2, Zenon DEF DeleteNext
  <2> QED BY <2>1 DEF reqVars, lockVars, LockInv, LockDiscipline
<1>3. CASE CloseCursor(c)
  <2>1. CASE Done(c)
    BY <2>1, DoneKeeps
  <2>2. CASE UNCHANGED lockVars /\ UNCHANGED m_txn /\ \E p \in PCs \ AtRest : pc' = [pc EXCEPT ![c] = p]
    BY <2>2, GoOn
  <2> QED BY <1>3, <2>1, <2>2 DEF CloseCursor, reqVars, PCs, AtRest
<1>4. CASE Rebegin(c)
  <2>1. m_lock[c] = "none"
    BY <1>4 DEF Rebegin, LockInv, LockDiscipline
  <2> QED BY <1>4, <2>1, TakeUp DEF Rebegin, PCs, AtRest
<1> QED BY <1>1, <1>2, <1>3, <1>4

\* ... kinds ...
LEMMA KindKeeps ==
  ASSUME LockInv, NEW c \in Clients, ChangeKinds(c) \/ BeginReload(c) \/ EndReload(c)
  PROVE  LockInv'
<1>1. CASE ChangeKinds(c)
  <2>1. CASE Done(c)
    BY <2>1, DoneKeeps
  <2>2. CASE Leave(c) /\ pc' = [pc EXCEPT ![c] = "reload"]
    BY <2>2, GiveUp DEF Leave, PCs
  <2> QED BY <1>1, <2>1, <2>2 DEF ChangeKinds
<1>2. CASE BeginReload(c)
  BY <1>2, BeginKeeps DEF BeginReload, PCs, AtRest
<1>3. CASE EndReload(c)
  BY <1>3, FailKeeps DEF EndReload
<1> QED BY <1>1, <1>2, <1>3

\* ... and the commit.
LEMMA CommitKeeps ==
  ASSUME LockInv, NEW c \in Clients,
         NothingWritten(c) \/ CommitWhole(c) \/ CommitTable(c) \/ Finish(c) \/ Deadlock(c)
  PROVE  LockInv'
<1>1. CASE NothingWritten(c)
  BY <1>1, FailKeeps DEF NothingWritten
<1>2. CASE CommitWhole(c)
  BY <1>2, GoOn DEF CommitWhole, reqVars, PCs, AtRest
<1>3. CASE CommitTable(c)
  <2>1. \E p \in PCs \ AtRest : pc' = [pc EXCEPT ![c] = p]
    BY <1>3 DEF CommitTable, PCs, AtRest
  <2> QED BY <1>3, <2>1, GoOn DEF CommitTable, reqVars
<1>4. CASE Finish(c)
  <2>1. \E p \in PCs : pc' = [pc EXCEPT ![c] = p]
    BY <1>4 DEF Finish, PCs
  <2> QED BY <1>4, <2>1, GiveUp DEF Finish, Leave
<1>5. CASE Deadlock(c)
  <2>1. CASE Fail(c)
    BY <2>1, FailKeeps
  <2>2. CASE Unlock(c) /\ m_txn' = [m_txn EXCEPT ![c] = "none"] /\ pc' = [pc EXCEPT ![c] = "call"]
    BY <2>2, GiveUp DEF PCs
  <2> QED BY <1>5, <2>1, <2>2 DEF Deadlock
<1> QED BY <1>1, <1>2, <1>3, <1>4, <1>5

\* A crash ends every request.
LEMMA CrashKeeps == ASSUME LockInv, Crash PROVE LockInv'
  BY TxnAssumption DEF LockInv, LockDiscipline, Crash, PCs

\* The strengthened lock discipline is an invariant.
THEOREM LockInvariance == Spec => []LockInv
<1>1. Init => LockInv
  BY TxnAssumption DEF Init, LockInv, LockDiscipline, PCs
<1>2. LockInv /\ [Next]_vars => LockInv'
  <2> SUFFICES ASSUME LockInv, [Next]_vars PROVE LockInv'
    OBVIOUS
  <2>1. ASSUME NEW c \in Clients, Step(c) PROVE LockInv'
    BY <2>1, OperationKeeps, DelQueryKeeps, KindKeeps, CommitKeeps DEF Step
  <2>2. CASE Flush
    BY <2>2 DEF Flush, lockVars, reqVars, LockInv, LockDiscipline
  <2>3. CASE Crash
    BY <2>3, CrashKeeps
  <2>4. CASE Over \/ UNCHANGED vars
    BY <2>4 DEF Over, vars, lockVars, reqVars, LockInv, LockDiscipline
  <2> QED BY <2>1, <2>2, <2>3, <2>4 DEF Next
<1> QED BY <1>1, <1>2, PTL DEF Spec

\* MojDbReq and the schema lock agree, a writer is alone, and a thread between two
\* messages, batches or requests holds nothing.
THEOREM Discipline == Spec => []LockDiscipline
<1>1. LockInv => LockDiscipline
  BY DEF LockInv
<1> QED BY <1>1, LockInvariance, PTL

\* While one request may change the kinds no other has a transaction.
SchemaChangesAlone ==
  \A c \in Clients : writer = c => \A d \in Clients \ {c} : m_txn[d] = "none"

\* The write lock of putKind, delKind and reloadKind keeps every transaction out.
THEOREM SchemaIsolation == Spec => []SchemaChangesAlone
<1>1. LockInv => SchemaChangesAlone
  BY TxnAssumption DEF LockInv, LockDiscipline, SchemaChangesAlone
<1> QED BY <1>1, LockInvariance, PTL
-----------------------------------------------------------------------------
(* How far a request is, and the types of what it holds. *)

InOperation == {"fetch", "store", "query", "next", "kind", "reloading"}
ByIdOps  == {"put", "merge", "force", "del", "purge"}
QueryOps == {"delQuery", "delKind"}

\* The message has an operation left.
HasOp(c) == msg[c].at <= Len(msg[c].program)

\* The operation of a request, and how far it is with it.
PhaseOf(c) ==
  /\ m_beginCount[c] = IF pc[c] \in InOperation THEN 1 ELSE 0
  /\ pc[c] \in InOperation => m_txn[c] = "open"
  /\ pc[c] \in AtRest => m_txn[c] = "none"
  /\ pc[c] \in {"fetch", "store"} => HasOp(c) /\ Op(c).do \in ByIdOps
  /\ pc[c] \in {"query", "next", "rebegin"} \/ work[c].more => HasOp(c) /\ Op(c).do \in QueryOps
  /\ pc[c] \in {"kind", "reload", "reloading"} => HasOp(c) /\ Op(c).do \in Schema
  /\ pc[c] = "commit" => work[c].more \/ ~HasOp(c)
  /\ work[c].more => pc[c] \in {"commit", "writing", "written", "rebegin"}
  /\ pc[c] = "writing" => engine = "leveldb"

PhasesAgree == \A c \in Clients : PhaseOf(c)

\* Types, the lock and the phases.
TypeInv == TypeOK /\ LockInv /\ PhasesAgree

\* An operation that is left is one of those a message may ask for.
LEMMA OpType ==
  ASSUME TypeOK, NEW c \in Clients, HasOp(c)
  PROVE  /\ Op(c) \in Operations
         /\ Op(c).do \in ByIdOps => Op(c).id \in Ids
         /\ Op(c).do \in {"put", "merge", "force"} => Op(c).val \in Vals
         /\ Op(c).do = "delQuery" => Op(c).val \in Vals
         /\ Op(c).do = "delKind" => Op(c).ids \subseteq Ids
         /\ Op(c).do \in ByIdOps \cup QueryOps \cup {"putKind"}
<1>1. msg[c] \in MsgType
  BY DEF TypeOK, RequestTypes, StoreTypes
<1>2. msg[c].program \in Programs \cup {<<>>} /\ msg[c].at \in Nat \ {0} /\ msg[c].at <= Len(msg[c].program)
  BY <1>1 DEF HasOp, MsgType
<1>3. msg[c].program \in Programs
  BY <1>2
<1>4. msg[c].program \in Seq(Operations)
  BY <1>3, TxnAssumption
<1>5. Op(c) \in Operations
  BY <1>2, <1>4 DEF Op
<1> QED BY <1>5 DEF Operations, ByIdOps, QueryOps

\* What a table is used for does not change what the transaction holds.
LEMMA UseEffect ==
  ASSUME NEW t \in TxnType, NEW table \in {"objs", "idx"}
  PROVE  /\ Use(t, table) \in TxnType
         /\ Use(t, table).written = t.written /\ Use(t, table).put = t.put /\ Use(t, table).gone = t.gone
         /\ Use(t, table).touched = t.touched /\ Use(t, table).failed = t.failed
         /\ Uses(Use(t, table), table)
         /\ \A other : Uses(t, other) => Uses(Use(t, table), other)
<1>1. CASE Uses(t, table)
  BY <1>1 DEF Use
<1>2. CASE ~Uses(t, table)
  <2> DEFINE u == [t EXCEPT !.tables = Append(@, table)]
  <2>1. Use(t, table) = u
    BY <1>2 DEF Use
  <2>2. t.tables \in TableLists /\ table \in Tables
    BY DEF TxnType, Tables
  <2>3. \A i \in DOMAIN t.tables : t.tables[i] # table
    BY <1>2 DEF Uses
  <2> DEFINE a == Append(t.tables, table)
  <2>4. t.tables \in Seq(Tables) /\ \A i, j \in DOMAIN t.tables : t.tables[i] = t.tables[j] => i = j
    BY <2>2 DEF TableLists
  <2>5. /\ a \in Seq(Tables) /\ Len(t.tables) \in Nat /\ DOMAIN t.tables = 1..Len(t.tables)
        /\ DOMAIN a = 1..Len(t.tables) + 1 /\ a[Len(t.tables) + 1] = table
        /\ \A i \in DOMAIN t.tables : a[i] = t.tables[i]
    BY <2>2, <2>4
  <2> HIDE DEF a
  <2>a. \A i, j \in DOMAIN a : a[i] = a[j] => i = j
    BY <2>3, <2>4, <2>5
  <2>6. Append(t.tables, table) \in TableLists
    BY <2>5, <2>a DEF TableLists, a
  <2>7. u \in TxnType /\ u.tables = Append(t.tables, table) /\ u.written = t.written /\ u.put = t.put
        /\ u.gone = t.gone /\ u.touched = t.touched /\ u.failed = t.failed
    BY <2>6 DEF TxnType
  <2>8. Uses(u, table) /\ \A other : Uses(t, other) => Uses(u, other)
    BY <2>2, <2>7 DEF Uses, TableLists
  <2> QED BY <2>1, <2>7, <2>8
<1> QED BY <1>1, <1>2

\* The entries of an object are entries.
LEMMA KeysType ==
  ASSUME NEW id \in Ids, NEW o \in ObjType
  PROVE  Keys(id, o) \in SUBSET Entries /\ \A e \in Keys(id, o) : e[2] = id
<1>1. CASE o = NoObj
  BY <1>1 DEF Keys
<1>2. CASE o \in [rev : Nat \ {0}, val : Vals, del : BOOLEAN]
  BY <1>2 DEF Keys, Entries
<1> QED BY <1>1, <1>2 DEF ObjType

\* A write puts the object, takes its old entry back and adds the new one.
LEMMA WriteEffect ==
  ASSUME NEW t \in TxnType, NEW id \in Ids, NEW old \in ObjType, NEW new \in ObjType
  PROVE  /\ Write(t, id, old, new) \in TxnType
         /\ Write(t, id, old, new).written = [t.written EXCEPT ![id] = new]
         /\ Write(t, id, old, new).put = (t.put \ (Keys(id, old) \ Keys(id, new))) \cup (Keys(id, new) \ Keys(id, old))
         /\ Write(t, id, old, new).gone = (t.gone \ (Keys(id, new) \ Keys(id, old))) \cup (Keys(id, old) \ Keys(id, new))
         /\ Write(t, id, old, new).touched = t.touched /\ Write(t, id, old, new).failed = t.failed
         /\ Uses(Write(t, id, old, new), "objs") /\ Uses(Write(t, id, old, new), "idx")
         /\ t.put \cap t.gone = {} => Write(t, id, old, new).put \cap Write(t, id, old, new).gone = {}
<1> DEFINE del == Keys(id, old) \ Keys(id, new)
<1> DEFINE ins == Keys(id, new) \ Keys(id, old)
<1> DEFINE u == [Index(t, del, ins) EXCEPT !.written[id] = new]
<1>1. del \in SUBSET Entries /\ ins \in SUBSET Entries
  BY KeysType
<1> HIDE DEF del, ins
<1>2. u \in TxnType /\ u.written = [t.written EXCEPT ![id] = new] /\ u.put = (t.put \ del) \cup ins
      /\ u.gone = (t.gone \ ins) \cup del /\ u.touched = t.touched /\ u.failed = t.failed
  BY <1>1 DEF TxnType, Index
<1>3. Write(t, id, old, new) = Use(Use(u, "idx"), "objs")
  BY DEF Write, del, ins
<1> HIDE DEF u
<1>4. Use(u, "idx") \in TxnType
  BY <1>2, UseEffect
<1>5. t.put \cap t.gone = {} => u.put \cap u.gone = {}
  <2>1. del \cap ins = {}
    BY DEF del, ins
  <2> QED BY <1>2, <2>1
<1> QED BY <1>2, <1>3, <1>4, <1>5, UseEffect DEF del, ins

\* A transaction stays one, and does not both put and delete an entry.
LEMMA WriteTyped ==
  ASSUME NEW t \in TxnType, t.put \cap t.gone = {},
         NEW id \in Ids, NEW old \in ObjType, NEW new \in ObjType
  PROVE  LET u == Write(t, id, old, new) IN u \in TxnType /\ u.put \cap u.gone = {}
<1>1. Write(t, id, old, new) \in TxnType
  BY WriteEffect
<1>2. Write(t, id, old, new).put \cap Write(t, id, old, new).gone = {}
  BY WriteEffect
<1> QED BY <1>1, <1>2

\* What a request sees of an object is an object.
LEMMA ViewType ==
  ASSUME TypeOK, NEW c \in Clients, NEW id \in Ids
  PROVE  View(c, id) \in ObjType
<1>1. txn[c].written[id] \in ObjType \cup {Clean} /\ objs[id] \in ObjType
  BY DEF TypeOK, RequestTypes, StoreTypes, TxnType
<1> QED BY <1>1 DEF View

\* A step of one request keeps all others, and every type when it keeps its own.
LEMMA LocalStep ==
  ASSUME TypeInv, LockInv', StoreTypes', NEW c \in Clients,
         NEW m \in MsgType, NEW w \in WorkType, NEW t \in TxnType, NEW n \in 0..1, NEW b \in {"yes", "no"},
         NEW p \in PCs, engine' = engine,
         msg' = [msg EXCEPT ![c] = m], work' = [work EXCEPT ![c] = w], txn' = [txn EXCEPT ![c] = t],
         pc' = [pc EXCEPT ![c] = p], m_beginCount' = [m_beginCount EXCEPT ![c] = n],
         m_batch' = [m_batch EXCEPT ![c] = b], \A d \in Clients \ {c} : m_txn'[d] = m_txn[d],
         m.at <= Len(m.program) + 1, t.put \cap t.gone = {}, m_txn'[c] = "none" => t = NoTxn,
         PhaseOf(c)'
  PROVE  TypeInv'
<1> USE DEF TypeInv, TypeOK
<1>1. msg' \in [Clients -> MsgType] /\ work' \in [Clients -> WorkType] /\ txn' \in [Clients -> TxnType]
  BY DEF RequestTypes
<1>2. \A d \in Clients : /\ msg'[d].at <= Len(msg'[d].program) + 1
                        /\ txn'[d].put \cap txn'[d].gone = {}
                        /\ m_txn'[d] = "none" => txn'[d] = NoTxn
  BY DEF RequestTypes
<1>3. m_beginCount' \in [Clients -> 0..2] /\ m_batch' \in [Clients -> {"yes", "no"}]
  BY DEF RequestTypes
<1>4. RequestTypes'
  BY <1>1, <1>2, <1>3 DEF RequestTypes, LockInv, PCs
<1>5. ASSUME NEW d \in Clients PROVE PhaseOf(d)'
  <2>1. CASE d = c
    BY <2>1
  <2>2. CASE d # c
    <3>1. PhaseOf(d)
      BY DEF PhasesAgree
    <3> QED BY <2>2, <3>1 DEF PhaseOf, HasOp, Op, RequestTypes
  <2> QED BY <2>1, <2>2
<1> QED BY <1>4, <1>5 DEF PhasesAgree

\* A request as it is between two messages.
LEMMA EmptyTypes ==
  NoMsg \in MsgType /\ NoWork \in WorkType /\ NoTxn \in TxnType /\ NoTxn.put \cap NoTxn.gone = {}
    /\ NoMsg.at <= Len(NoMsg.program) + 1 /\ ~NoWork.more /\ NoObj \in ObjType
<1>1. NoObj \in ObjType
  BY DEF ObjType
<1>2. NoMsg \in MsgType
  BY TxnAssumption DEF NoMsg, MsgType
<1>3. NoTxn \in TxnType
  BY DEF NoTxn, TxnType, TableLists, Entries
<1>4. NoWork \in WorkType
  BY <1>1 DEF NoWork, WorkType
<1> QED BY <1>1, <1>2, <1>3, <1>4 DEF NoMsg, NoTxn, NoWork

\* The parts of a request have their types.
LEMMA PartTypes ==
  ASSUME TypeInv, NEW c \in Clients
  PROVE  /\ msg[c] \in MsgType /\ work[c] \in WorkType /\ txn[c] \in TxnType
         /\ m_batch[c] \in {"yes", "no"} /\ m_beginCount[c] \in 0..1 /\ pc[c] \in PCs
         /\ msg[c].at <= Len(msg[c].program) + 1 /\ txn[c].put \cap txn[c].gone = {}
         /\ m_txn[c] = "none" => txn[c] = NoTxn
         /\ msg = [msg EXCEPT ![c] = msg[c]] /\ work = [work EXCEPT ![c] = work[c]]
         /\ txn = [txn EXCEPT ![c] = txn[c]] /\ m_batch = [m_batch EXCEPT ![c] = m_batch[c]]
         /\ m_beginCount = [m_beginCount EXCEPT ![c] = m_beginCount[c]] /\ pc = [pc EXCEPT ![c] = pc[c]]
<1>1. /\ msg[c] \in MsgType /\ work[c] \in WorkType /\ txn[c] \in TxnType
      /\ m_batch[c] \in {"yes", "no"} /\ pc[c] \in PCs
      /\ msg[c].at <= Len(msg[c].program) + 1 /\ txn[c].put \cap txn[c].gone = {}
      /\ m_txn[c] = "none" => txn[c] = NoTxn
  BY DEF TypeInv, TypeOK, RequestTypes, PCs
<1>2. m_beginCount[c] \in 0..1
  BY DEF TypeInv, PhasesAgree, PhaseOf
<1>3. /\ msg = [msg EXCEPT ![c] = msg[c]] /\ work = [work EXCEPT ![c] = work[c]]
      /\ txn = [txn EXCEPT ![c] = txn[c]] /\ m_batch = [m_batch EXCEPT ![c] = m_batch[c]]
      /\ m_beginCount = [m_beginCount EXCEPT ![c] = m_beginCount[c]] /\ pc = [pc EXCEPT ![c] = pc[c]]
  BY DEF TypeInv, TypeOK, RequestTypes
<1> QED BY <1>1, <1>2, <1>3

\* A step of one request that keeps its message, its work and its transaction.
LEMMA PhaseStep ==
  ASSUME TypeInv, LockInv', StoreTypes', NEW c \in Clients, NEW n \in 0..1, NEW p \in PCs, engine' = engine,
         pc' = [pc EXCEPT ![c] = p], m_beginCount' = [m_beginCount EXCEPT ![c] = n],
         UNCHANGED <<m_batch, msg, work, txn>>, \A d \in Clients \ {c} : m_txn'[d] = m_txn[d],
         m_txn'[c] = "none" => txn[c] = NoTxn, PhaseOf(c)'
  PROVE  TypeInv'
<1>1. PICK q \in {"yes", "no"} : m_batch' = [m_batch EXCEPT ![c] = q]
  BY PartTypes
<1>2. PICK m \in MsgType : msg' = [msg EXCEPT ![c] = m] /\ m.at <= Len(m.program) + 1
  BY PartTypes
<1>3. PICK w \in WorkType : work' = [work EXCEPT ![c] = w]
  BY PartTypes
<1>4. PICK t \in TxnType : txn' = [txn EXCEPT ![c] = t] /\ t.put \cap t.gone = {} /\ t = txn[c]
  BY PartTypes
<1> QED BY <1>1, <1>2, <1>3, <1>4, LocalStep

\* A request that gives up: its message, its work and its transaction are gone.
LEMMA FailTypes ==
  ASSUME TypeInv, LockInv', NEW c \in Clients, Fail(c)
  PROVE  TypeInv'
<1>1. /\ msg' = [msg EXCEPT ![c] = NoMsg] /\ work' = [work EXCEPT ![c] = NoWork]
         /\ txn' = [txn EXCEPT ![c] = NoTxn]
      /\ pc' = [pc EXCEPT ![c] = "idle"] /\ m_beginCount' = [m_beginCount EXCEPT ![c] = 0]
      /\ m_batch' = [m_batch EXCEPT ![c] = "no"] /\ m_txn' = [m_txn EXCEPT ![c] = "none"] /\ engine' = engine
  BY DEF Fail, Leave
<1>2. StoreTypes'
  BY DEF TypeInv, TypeOK, StoreTypes, Fail, store, bounds, history
<1>3. PhaseOf(c)'
  BY <1>1, EmptyTypes DEF TypeInv, TypeOK, RequestTypes, PhaseOf, InOperation, AtRest
<1>4. "idle" \in PCs /\ 0 \in 0..1 /\ \A d \in Clients \ {c} : m_txn'[d] = m_txn[d]
  BY <1>1 DEF PCs, TypeInv, TypeOK, RequestTypes
<1> QED BY <1>1, <1>2, <1>3, <1>4, EmptyTypes, LocalStep

\* A request whose operation is done.
LEMMA DoneTypes ==
  ASSUME TypeInv, LockInv', StoreTypes', engine' = engine, NEW c \in Clients, Done(c),
         pc[c] \in InOperation, HasOp(c),
         NEW t \in TxnType, txn' = [txn EXCEPT ![c] = t], t.put \cap t.gone = {}
  PROVE  TypeInv'
<1> DEFINE m == [msg[c] EXCEPT !.at = @ + 1]
<1>1. m_beginCount[c] = 1 /\ m_txn[c] = "open"
  BY DEF TypeInv, PhasesAgree, PhaseOf
<1>2. m \in MsgType /\ m.at <= Len(m.program) + 1
  <2>1. msg[c] \in MsgType
    BY PartTypes
  <2>2. m.at = msg[c].at + 1 /\ m.program = msg[c].program /\ m \in MsgType
    BY <2>1 DEF MsgType
  <2>3. msg[c].at \in Nat /\ msg[c].at <= Len(msg[c].program) /\ Len(msg[c].program) \in Nat
    <3>1. msg[c].program \in Seq(Operations)
      <4>1. msg[c].program \in Programs \cup {<<>>} /\ <<>> \in Seq(Operations)
        BY <2>1 DEF MsgType
      <4> QED BY <4>1, TxnAssumption
    <3> QED BY <2>1, <3>1 DEF MsgType, HasOp
  <2> QED BY <2>2, <2>3
<1>3. /\ msg' = [msg EXCEPT ![c] = m] /\ work' = [work EXCEPT ![c] = NoWork]
      /\ pc' = [pc EXCEPT ![c] = "call"] /\ m_batch' = m_batch /\ m_txn' = m_txn
      /\ m_beginCount' = [m_beginCount EXCEPT ![c] = 0]
  BY <1>1 DEF Done, End, TypeInv, TypeOK, RequestTypes
<1> HIDE DEF m
<1>4. PhaseOf(c)'
  BY <1>3, EmptyTypes DEF TypeInv, TypeOK, RequestTypes, PhaseOf, InOperation, AtRest
<1>5. "call" \in PCs /\ 0 \in 0..1
  BY DEF PCs
<1> QED BY <1>1, <1>2, <1>3, <1>4, <1>5, EmptyTypes, PartTypes, LocalStep

\* One lemma per action: messages and operations by id.
\* A message arrives.
LEMMA ReceiveTypes ==
  ASSUME TypeInv, LockInv', NEW c \in Clients, Receive(c)
  PROVE  TypeInv'
<1>p. PICK q \in Programs : msg' = [msg EXCEPT ![c] = [program |-> q, at |-> 1, retries |-> 0,
                                                     seen |-> [i \in Ids |-> objs[i].rev]]]
  BY DEF Receive
<1> DEFINE m == [program |-> q, at |-> 1, retries |-> 0, seen |-> [i \in Ids |-> objs[i].rev]]
<1>m. m \in MsgType /\ m.at <= Len(m.program) + 1
  <2>1. \A i \in Ids : objs[i].rev \in Nat
    BY DEF TypeInv, TypeOK, StoreTypes, ObjType, NoObj
  <2>2. Len(q) \in Nat
    BY TxnAssumption
  <2> QED BY <2>1, <2>2, TxnAssumption DEF MsgType
<1>n. msg' = [msg EXCEPT ![c] = m]
  BY <1>p
<1> HIDE DEF m
<1>1. /\ msg' = [msg EXCEPT ![c] = m] /\ work' = [work EXCEPT ![c] = work[c]]
         /\ txn' = [txn EXCEPT ![c] = txn[c]]
      /\ pc' = [pc EXCEPT ![c] = "call"] /\ m_beginCount' = [m_beginCount EXCEPT ![c] = m_beginCount[c]]
      /\ m_batch' = [m_batch EXCEPT ![c] = "yes"] /\ engine' = engine
      /\ m_txn' = [m_txn EXCEPT ![c] = m_txn[c]]
  BY <1>n, PartTypes DEF Receive, StartBatch, lockVars, reqVars, store, bounds, history, TypeInv, TypeOK,
     RequestTypes
<1>2. StoreTypes'
  <2>1. reqs + 1 \in 0..MaxReqs /\ reqs' = reqs + 1
    BY TxnAssumption DEF TypeInv, TypeOK, StoreTypes, Receive
  <2> QED BY <2>1 DEF TypeInv, TypeOK, StoreTypes, Receive, StartBatch, lockVars, store, history
<1>3. m \in MsgType /\ work[c] \in WorkType /\ txn[c] \in TxnType /\ m.at <= Len(m.program) + 1
      /\ txn[c].put \cap txn[c].gone = {} /\ "call" \in PCs /\ m_beginCount[c] \in 0..1
         /\ "yes" \in {"yes", "no"}
  BY <1>m, PartTypes DEF PCs
<1>4. PhaseOf(c)' /\ (m_txn'[c] = "none" => txn[c] = NoTxn) /\ \A d \in Clients \ {c} : m_txn'[d] = m_txn[d]
  <2>1. pc[c] = "idle" /\ m_txn[c] = "none" /\ m_beginCount[c] = 0 /\ ~work[c].more /\ txn[c] = NoTxn
    BY DEF Receive, TypeInv, TypeOK, RequestTypes, PhasesAgree, PhaseOf, InOperation, AtRest
  <2>2. pc'[c] = "call" /\ m_beginCount'[c] = 0 /\ work'[c] = work[c] /\ m_txn' = m_txn
    BY <2>1 DEF Receive, StartBatch, lockVars, TypeInv, TypeOK, RequestTypes
  <2>3. PhaseOf(c)'
    BY <2>1, <2>2 DEF PhaseOf, InOperation, AtRest
  <2> QED BY <2>1, <2>2, <2>3
<1> QED BY <1>1, <1>2, <1>3, <1>4, LocalStep

\* An operation begins.
LEMMA BeginOpTypes ==
  ASSUME TypeInv, LockInv', NEW c \in Clients, BeginOp(c)
  PROVE  TypeInv'
<1> DEFINE p == CASE Op(c).do = "putKind"               -> "kind"
                  [] Op(c).do \in {"delQuery", "delKind"} -> "query"
                  [] OTHER                              -> "fetch"
<1>h. HasOp(c)
  BY DEF BeginOp, HasOp
<1>p. /\ Op(c).do \in ByIdOps => p = "fetch"
      /\ Op(c).do \in QueryOps => p = "query"
      /\ Op(c).do = "putKind" => p = "kind"
  BY DEF ByIdOps, QueryOps
<1>q. Op(c).do \in ByIdOps \cup QueryOps \cup {"putKind"}
  BY <1>h, OpType DEF TypeInv
<1>n. pc' = [pc EXCEPT ![c] = p]
  BY DEF BeginOp
<1> HIDE DEF p
<1>1. /\ msg' = [msg EXCEPT ![c] = msg[c]] /\ work' = [work EXCEPT ![c] = work[c]]
         /\ txn' = [txn EXCEPT ![c] = txn[c]]
      /\ pc' = [pc EXCEPT ![c] = p] /\ m_beginCount' = [m_beginCount EXCEPT ![c] = 1]
      /\ m_batch' = [m_batch EXCEPT ![c] = m_batch[c]] /\ engine' = engine
      /\ m_txn' = [m_txn EXCEPT ![c] = "open"]
  BY <1>n, PartTypes DEF BeginOp, Begin, Schema, lockVars, reqVars, store, bounds, history, TypeInv, TypeOK,
     RequestTypes
<1>2. StoreTypes'
  BY DEF TypeInv, TypeOK, StoreTypes, BeginOp, Begin, Schema, lockVars, reqVars, store, bounds, history
<1>3. msg[c] \in MsgType /\ work[c] \in WorkType /\ txn[c] \in TxnType /\ msg[c].at <= Len(msg[c].program) + 1
      /\ txn[c].put \cap txn[c].gone = {} /\ p \in PCs /\ 1 \in 0..1 /\ m_batch[c] \in {"yes", "no"}
  BY <1>p, <1>q, PartTypes DEF PCs
<1>4. PhaseOf(c)' /\ (m_txn'[c] = "none" => txn[c] = NoTxn) /\ \A d \in Clients \ {c} : m_txn'[d] = m_txn[d]
  <2>1. p \in {"fetch", "query", "kind"}
    BY <1>p, <1>q
  <2>2. pc[c] = "call" /\ ~work[c].more
    BY <1>n, PartTypes DEF BeginOp, TypeInv, PhasesAgree, PhaseOf
  <2> QED BY <1>1, <1>h, <1>p, <1>q, <2>1, <2>2, PartTypes DEF TypeInv, TypeOK, RequestTypes, PhasesAgree,
          PhaseOf, HasOp, Op, InOperation, AtRest, ByIdOps, QueryOps, Schema
<1> QED BY <1>1, <1>2, <1>3, <1>4, LocalStep

\* The callback has returned.
LEMMA EndBatchTypes ==
  ASSUME TypeInv, LockInv', NEW c \in Clients, EndBatch(c)
  PROVE  TypeInv'
<1>1. /\ msg' = [msg EXCEPT ![c] = msg[c]] /\ work' = [work EXCEPT ![c] = work[c]]
         /\ txn' = [txn EXCEPT ![c] = txn[c]]
      /\ pc' = [pc EXCEPT ![c] = "commit"] /\ m_beginCount' = [m_beginCount EXCEPT ![c] = m_beginCount[c]]
      /\ m_batch' = [m_batch EXCEPT ![c] = "no"] /\ engine' = engine
      /\ m_txn' = [m_txn EXCEPT ![c] = m_txn[c]]
  BY PartTypes DEF EndBatch, lockVars, reqVars, store, bounds, history, TypeInv, TypeOK, RequestTypes
<1>2. StoreTypes'
  BY DEF TypeInv, TypeOK, StoreTypes, EndBatch, lockVars, reqVars, store, bounds, history
<1>3. msg[c] \in MsgType /\ work[c] \in WorkType /\ txn[c] \in TxnType /\ msg[c].at <= Len(msg[c].program) + 1
      /\ txn[c].put \cap txn[c].gone = {} /\ "commit" \in PCs /\ m_beginCount[c] \in 0..1
         /\ "no" \in {"yes", "no"}
  BY PartTypes, EmptyTypes DEF PCs
<1>4. PhaseOf(c)' /\ (m_txn'[c] = "none" => txn[c] = NoTxn) /\ \A d \in Clients \ {c} : m_txn'[d] = m_txn[d]
  <2>1. pc[c] = "call" /\ ~work[c].more
    BY DEF EndBatch, TypeInv, PhasesAgree, PhaseOf
  <2>2. ~HasOp(c)
    <3>1. msg[c] \in MsgType
      BY PartTypes
    <3>2. msg[c].program \in Programs \cup {<<>>} /\ <<>> \in Seq(Operations)
      BY <3>1 DEF MsgType
    <3>3. Len(msg[c].program) \in Nat /\ msg[c].at \in Nat
      BY <3>1, <3>2, TxnAssumption DEF MsgType
    <3> QED BY <3>3 DEF EndBatch, HasOp
  <2>3. ~HasOp(c)'
    BY <1>1, <2>2, PartTypes DEF HasOp
  <2> QED BY <1>1, <2>1, <2>3, PartTypes DEF TypeInv, TypeOK, RequestTypes, PhasesAgree, PhaseOf,
          InOperation, AtRest
<1> QED BY <1>1, <1>2, <1>3, <1>4, LocalStep

\* An object is read in order to write it.
LEMMA FetchTypes ==
  ASSUME TypeInv, LockInv', NEW c \in Clients, Fetch(c)
  PROVE  TypeInv'
<1> DEFINE w == [work[c] EXCEPT !.prev = View(c, Op(c).id)]
<1> DEFINE u == [txn[c] EXCEPT !.touched = @ \cup {Op(c).id}]
<1> DEFINE t == Use(u, "objs")
<1>h. HasOp(c) /\ Op(c).do \in ByIdOps /\ pc[c] = "fetch" /\ ~work[c].more /\ m_txn[c] = "open"
  BY DEF Fetch, TypeInv, PhasesAgree, PhaseOf, InOperation
<1>i. Op(c).id \in Ids
  BY <1>h, OpType DEF TypeInv
<1>v. View(c, Op(c).id) \in ObjType
  BY <1>i, ViewType DEF TypeInv
<1>w. w \in WorkType /\ ~w.more
  <2>1. work[c] \in WorkType
    BY PartTypes
  <2> QED BY <1>h, <1>v, <2>1 DEF WorkType
<1>u. u \in TxnType /\ u.put = txn[c].put /\ u.gone = txn[c].gone
  <2>1. txn[c] \in TxnType
    BY PartTypes
  <2> QED BY <1>i, <2>1 DEF TxnType
<1>n. work' = [work EXCEPT ![c] = w]
  BY DEF Fetch
<1>o. txn' = [txn EXCEPT ![c] = t]
  BY DEF Fetch
<1> HIDE DEF w, u
<1>t. t \in TxnType /\ t.put \cap t.gone = {}
  <2>1. txn[c].put \cap txn[c].gone = {}
    BY PartTypes
  <2> QED BY <1>u, <2>1, UseEffect
<1> HIDE DEF t
<1>1. /\ msg' = [msg EXCEPT ![c] = msg[c]] /\ work' = [work EXCEPT ![c] = w] /\ txn' = [txn EXCEPT ![c] = t]
      /\ pc' = [pc EXCEPT ![c] = "store"] /\ m_beginCount' = [m_beginCount EXCEPT ![c] = m_beginCount[c]]
      /\ m_batch' = [m_batch EXCEPT ![c] = m_batch[c]] /\ engine' = engine
      /\ m_txn' = [m_txn EXCEPT ![c] = m_txn[c]]
  BY <1>n, <1>o, PartTypes DEF Fetch, lockVars, reqVars, store, bounds, history, TypeInv, TypeOK, RequestTypes
<1>2. StoreTypes'
  <2>1. raced' \subseteq Ids
    BY <1>i DEF Fetch, Race, TypeInv, TypeOK, StoreTypes
  <2> QED BY <2>1 DEF TypeInv, TypeOK, StoreTypes, Fetch, store, bounds
<1>3. msg[c] \in MsgType /\ w \in WorkType /\ t \in TxnType /\ msg[c].at <= Len(msg[c].program) + 1
      /\ t.put \cap t.gone = {} /\ "store" \in PCs /\ m_beginCount[c] \in 0..1 /\ m_batch[c] \in {"yes", "no"}
  BY <1>w, <1>t, PartTypes DEF PCs
<1>4. PhaseOf(c)' /\ (m_txn'[c] = "none" => t = NoTxn) /\ \A d \in Clients \ {c} : m_txn'[d] = m_txn[d]
  BY <1>1, <1>h, <1>w, PartTypes DEF TypeInv, TypeOK, RequestTypes, PhasesAgree, PhaseOf, HasOp, Op,
     InOperation, AtRest, ByIdOps, QueryOps
<1> QED BY <1>1, <1>2, <1>3, <1>4, LocalStep

\* What an operation wants to store is an object.
LEMMA NewObjType ==
  ASSUME TypeInv, NEW c \in Clients, pc[c] = "store", ~Idle(c)
  PROVE  /\ NewObj(c) \in ObjType
         /\ NewObj(c) = NoObj \/ NewObj(c).rev = nextRev
<1>1. HasOp(c) /\ Op(c).do \in ByIdOps
  BY DEF TypeInv, PhasesAgree, PhaseOf
<1>2. Op(c).do \in {"put", "merge", "force"} => Op(c).val \in Vals
  BY <1>1, OpType DEF TypeInv
<1>3. nextRev \in Nat \ {0} /\ work[c].prev \in ObjType
  BY PartTypes DEF TypeInv, TypeOK, StoreTypes, WorkType
<1>4. CASE Op(c).do \in {"put", "force"}
  BY <1>2, <1>3, <1>4 DEF NewObj, ObjType
<1>5. CASE Op(c).do = "merge"
  BY <1>2, <1>3, <1>5 DEF NewObj, ObjType
<1>6. CASE Op(c).do = "del"
  <2>1. work[c].prev # NoObj
    BY <1>6 DEF Idle
  <2>2. work[c].prev \in [rev : Nat \ {0}, val : Vals, del : BOOLEAN]
    BY <1>3, <2>1 DEF ObjType
  <2>3. NewObj(c) = [work[c].prev EXCEPT !.rev = nextRev, !.del = TRUE]
    BY <1>6 DEF NewObj
  <2> QED BY <1>3, <2>2, <2>3 DEF ObjType
<1>7. CASE Op(c).do = "purge"
  BY <1>7 DEF NewObj, ObjType
<1> QED BY <1>1, <1>4, <1>5, <1>6, <1>7 DEF ByIdOps

\* The operation is carried out, or refused.
LEMMA StoreTyped ==
  ASSUME TypeInv, LockInv', NEW c \in Clients, Store(c)
  PROVE  TypeInv'
<1>1. pc[c] \in InOperation /\ HasOp(c) /\ Op(c).do \in ByIdOps
  BY DEF Store, TypeInv, PhasesAgree, PhaseOf, InOperation
<1>2. CASE Fail(c)
  BY <1>2, FailTypes
<1>3. CASE /\ Done(c) /\ UNCHANGED <<engine, txn, store, nextRev, bounds, history>>
  <2>1. StoreTypes'
    BY <1>3 DEF TypeInv, TypeOK, StoreTypes, store, bounds, history
  <2> QED BY <1>1, <1>3, <2>1, PartTypes, DoneTypes
<1>4. CASE /\ ~Idle(c) /\ Done(c)
           /\ txn' = [txn EXCEPT ![c] = Write(@, Op(c).id, work[c].prev, NewObj(c))]
           /\ DrawRev(NewObj(c) # NoObj)
           /\ UNCHANGED <<engine, store, bounds, history>>
  <2>1. Op(c).id \in Ids
    BY <1>1, OpType DEF TypeInv
  <2>2. work[c].prev \in ObjType /\ NewObj(c) \in ObjType
    BY <1>4, PartTypes, NewObjType DEF WorkType, Store
  <2> DEFINE t == Write(txn[c], Op(c).id, work[c].prev, NewObj(c))
  <2>3. txn' = [txn EXCEPT ![c] = t]
    BY <1>4
  <2>4. t \in TxnType /\ t.put \cap t.gone = {}
    <3>1. txn[c] \in TxnType /\ txn[c].put \cap txn[c].gone = {}
      BY PartTypes
    <3> QED BY <2>1, <2>2, <3>1, WriteTyped
  <2>5. StoreTypes'
    BY <1>4 DEF TypeInv, TypeOK, StoreTypes, store, bounds, history, DrawRev
  <2> HIDE DEF t
  <2> QED BY <1>1, <1>4, <2>3, <2>4, <2>5, DoneTypes
<1> QED BY <1>2, <1>3, <1>4 DEF Store

\* Del by query.
\* The cursor sees the index.
LEMMA OpenCursorTypes ==
  ASSUME TypeInv, LockInv', NEW c \in Clients, OpenCursor(c)
  PROVE  TypeInv'
<1>p. PICK found \in SUBSET Matches(c) : work' = [work EXCEPT ![c].cursor = found, ![c].count = 0]
  BY DEF OpenCursor
<1> DEFINE w == [work[c] EXCEPT !.cursor = found, !.count = 0]
<1> DEFINE t == Use(txn[c], "idx")
<1>h. HasOp(c) /\ Op(c).do \in QueryOps /\ pc[c] = "query" /\ ~work[c].more /\ m_txn[c] = "open"
  BY DEF OpenCursor, TypeInv, PhasesAgree, PhaseOf, InOperation
<1>f. found \subseteq Ids
  BY <1>h, OpType DEF Matches, TypeInv, QueryOps
<1>w. w \in WorkType /\ ~w.more
  BY <1>h, <1>f, PartTypes DEF WorkType
<1>n. work' = [work EXCEPT ![c] = w]
  BY <1>p
<1>o. txn' = [txn EXCEPT ![c] = t]
  BY DEF OpenCursor
<1>t. t \in TxnType /\ t.put \cap t.gone = {}
  BY UseEffect, PartTypes
<1> HIDE DEF w, t
<1>1. /\ msg' = [msg EXCEPT ![c] = msg[c]] /\ work' = [work EXCEPT ![c] = w] /\ txn' = [txn EXCEPT ![c] = t]
      /\ pc' = [pc EXCEPT ![c] = "next"] /\ m_beginCount' = [m_beginCount EXCEPT ![c] = m_beginCount[c]]
      /\ m_batch' = [m_batch EXCEPT ![c] = m_batch[c]] /\ engine' = engine
      /\ m_txn' = [m_txn EXCEPT ![c] = m_txn[c]]
  BY <1>n, <1>o, PartTypes DEF OpenCursor, lockVars, reqVars, store, bounds, history, TypeInv, TypeOK,
     RequestTypes
<1>2. StoreTypes'
  BY DEF TypeInv, TypeOK, StoreTypes, OpenCursor, lockVars, reqVars, store, bounds, history
<1>3. msg[c] \in MsgType /\ w \in WorkType /\ t \in TxnType /\ msg[c].at <= Len(msg[c].program) + 1
      /\ t.put \cap t.gone = {} /\ "next" \in PCs /\ m_beginCount[c] \in 0..1 /\ m_batch[c] \in {"yes", "no"}
  BY <1>w, <1>t, PartTypes DEF PCs
<1>4. PhaseOf(c)' /\ (m_txn'[c] = "none" => t = NoTxn) /\ \A d \in Clients \ {c} : m_txn'[d] = m_txn[d]
  BY <1>1, <1>h, <1>w, PartTypes DEF TypeInv, TypeOK, RequestTypes, PhasesAgree, PhaseOf, HasOp, Op,
     InOperation, AtRest, ByIdOps, QueryOps
<1> QED BY <1>1, <1>2, <1>3, <1>4, LocalStep

\* What DeleteNext does with the object it has met.
DeletesNext(c, id, prev, new, read, idle) ==
  /\ prev = View(c, id)
  /\ new = IF Op(c).do = "delKind" THEN NoObj ELSE [prev EXCEPT !.rev = nextRev, !.del = TRUE]
  /\ read = Use([txn[c] EXCEPT !.touched = @ \cup {id}], "objs")
  /\ idle = (prev = NoObj \/ (prev.del /\ new # NoObj))
  /\ Race(c, id)
  /\ work' = [work EXCEPT ![c].cursor = @ \ {id}, ![c].count = IF prev = NoObj THEN @ ELSE @ + 1]
  /\ txn' = [txn EXCEPT ![c] = IF idle THEN read ELSE Write(read, id, prev, new)]
  /\ DrawRev(~idle /\ new # NoObj)

\* DeleteNext meets an object of the cursor, reads it and deletes what it has read.
LEMMA DeleteNextCases ==
  ASSUME TypeInv, NEW c \in Clients, DeleteNext(c)
  PROVE  \E id \in Ids, prev \in ObjType, read \in TxnType, idle \in BOOLEAN : \E new :
           /\ DeletesNext(c, id, prev, new, read, idle)
           /\ read.touched = txn[c].touched \cup {id} /\ read.written = txn[c].written
           /\ read.put = txn[c].put /\ read.gone = txn[c].gone /\ read.failed = txn[c].failed
           /\ Uses(read, "objs") /\ \A table : Uses(txn[c], table) => Uses(read, table)
           /\ ~idle => new \in ObjType /\ (new = NoObj \/ new.rev = nextRev)
<1>1. PICK id \in work[c].cursor :
       LET prev == View(c, id)
           new  == IF Op(c).do = "delKind" THEN NoObj ELSE [prev EXCEPT !.rev = nextRev, !.del = TRUE]
           read == Use([txn[c] EXCEPT !.touched = @ \cup {id}], "objs")
           idle == prev = NoObj \/ (prev.del /\ new # NoObj)
       IN  /\ Free(c, id) /\ Race(c, id)
           /\ work' = [work EXCEPT ![c].cursor = @ \ {id}, ![c].count = IF prev = NoObj THEN @ ELSE @ + 1]
           /\ txn' = [txn EXCEPT ![c] = IF idle THEN read ELSE Write(read, id, prev, new)]
           /\ DrawRev(~idle /\ new # NoObj)
  BY Zenon DEF DeleteNext
<1> DEFINE prev == View(c, id)
<1> DEFINE new  == IF Op(c).do = "delKind" THEN NoObj ELSE [prev EXCEPT !.rev = nextRev, !.del = TRUE]
<1> DEFINE u == [txn[c] EXCEPT !.touched = @ \cup {id}]
<1> DEFINE read == Use(u, "objs")
<1> DEFINE idle == (prev = NoObj \/ (prev.del /\ new # NoObj))
<1>2. id \in Ids
  BY PartTypes DEF WorkType
<1>3. prev \in ObjType
  BY <1>2, ViewType DEF TypeInv
<1>4. u \in TxnType /\ u.touched = txn[c].touched \cup {id} /\ u.written = txn[c].written
      /\ u.put = txn[c].put /\ u.gone = txn[c].gone /\ u.tables = txn[c].tables /\ u.failed = txn[c].failed
  BY SMTT(30), <1>2, PartTypes DEF TxnType
<1>5. DeletesNext(c, id, prev, new, read, idle)
  BY <1>1 DEF DeletesNext
<1>6. ~idle => new \in ObjType /\ (new = NoObj \/ new.rev = nextRev)
  <2>1. CASE Op(c).do = "delKind"
    BY <2>1 DEF ObjType
  <2>2. CASE Op(c).do # "delKind" /\ ~idle
    <3>1. prev \in [rev : Nat \ {0}, val : Vals, del : BOOLEAN]
      BY <1>3, <2>2 DEF ObjType
    <3>2. nextRev \in Nat \ {0}
      BY DEF TypeInv, TypeOK, StoreTypes
    <3> QED BY <2>2, <3>1, <3>2 DEF ObjType
  <2> QED BY <2>1, <2>2
<1> HIDE DEF u, prev, new
<1>7. read \in TxnType /\ read.touched = txn[c].touched \cup {id} /\ read.written = txn[c].written
      /\ read.put = txn[c].put /\ read.gone = txn[c].gone /\ read.failed = txn[c].failed
      /\ Uses(read, "objs") /\ \A table : Uses(txn[c], table) => Uses(read, table)
  <2>1. \A table : Uses(txn[c], table) => Uses(u, table)
    BY <1>4 DEF Uses
  <2> QED BY <1>4, <2>1, UseEffect
<1>8. idle \in BOOLEAN
  OBVIOUS
<1> QED BY <1>2, <1>3, <1>5, <1>6, <1>7, <1>8

\* The next entry of the cursor.
LEMMA DeleteNextTypes ==
  ASSUME TypeInv, LockInv', NEW c \in Clients, DeleteNext(c)
  PROVE  TypeInv'
<1>p. PICK id \in Ids, prev \in ObjType, read \in TxnType, idle \in BOOLEAN : \E new :
        /\ DeletesNext(c, id, prev, new, read, idle)
        /\ read.put = txn[c].put /\ read.gone = txn[c].gone
        /\ ~idle => new \in ObjType /\ (new = NoObj \/ new.rev = nextRev)
  BY DeleteNextCases
<1>q. PICK new :
        /\ DeletesNext(c, id, prev, new, read, idle)
        /\ ~idle => new \in ObjType /\ (new = NoObj \/ new.rev = nextRev)
  BY <1>p
<1> DEFINE w == [work[c] EXCEPT !.cursor = @ \ {id}, !.count = IF prev = NoObj THEN @ ELSE @ + 1]
<1> DEFINE t == IF idle THEN read ELSE Write(read, id, prev, new)
<1>h. HasOp(c) /\ Op(c).do \in QueryOps /\ pc[c] = "next" /\ ~work[c].more /\ m_txn[c] = "open"
  BY DEF DeleteNext, TypeInv, PhasesAgree, PhaseOf, InOperation
<1>w. w \in WorkType /\ ~w.more
  <2>1. work[c] \in WorkType
    BY PartTypes
  <2>2. (IF prev = NoObj THEN work[c].count ELSE work[c].count + 1) \in Nat
          /\ work[c].cursor \ {id} \in SUBSET Ids
    BY <2>1 DEF WorkType
  <2> QED BY <1>h, <2>1, <2>2 DEF WorkType
<1>n. work' = [work EXCEPT ![c] = w]
  BY <1>q DEF DeletesNext
<1>o. txn' = [txn EXCEPT ![c] = t]
  BY <1>q DEF DeletesNext
<1>t. t \in TxnType /\ t.put \cap t.gone = {}
  <2>1. CASE idle
    BY <1>p, <2>1, PartTypes
  <2>2. CASE ~idle
    <3>1. read.put \cap read.gone = {}
      BY <1>p, PartTypes
    <3>2. t = Write(read, id, prev, new) /\ new \in ObjType /\ prev \in ObjType /\ read \in TxnType
      BY <1>p, <1>q, <2>2
    <3> QED BY <3>1, <3>2, WriteEffect
  <2> QED BY <2>1, <2>2
<1> HIDE DEF w, t
<1>1. /\ msg' = [msg EXCEPT ![c] = msg[c]] /\ work' = [work EXCEPT ![c] = w] /\ txn' = [txn EXCEPT ![c] = t]
      /\ pc' = [pc EXCEPT ![c] = pc[c]] /\ m_beginCount' = [m_beginCount EXCEPT ![c] = m_beginCount[c]]
      /\ m_batch' = [m_batch EXCEPT ![c] = m_batch[c]] /\ engine' = engine
      /\ m_txn' = [m_txn EXCEPT ![c] = m_txn[c]]
  BY <1>n, <1>o, PartTypes DEF DeleteNext, lockVars, reqVars, store, bounds, history, TypeInv, TypeOK,
     RequestTypes
<1>2. StoreTypes'
  <2>1. raced' \subseteq Ids
    BY <1>q DEF DeletesNext, Race, TypeInv, TypeOK, StoreTypes
  <2>2. nextRev' \in Nat \ {0}
    BY <1>q DEF DeletesNext, DrawRev, TypeInv, TypeOK, StoreTypes
  <2> QED BY <2>1, <2>2 DEF TypeInv, TypeOK, StoreTypes, DeleteNext, store, bounds
<1>3. msg[c] \in MsgType /\ w \in WorkType /\ t \in TxnType /\ msg[c].at <= Len(msg[c].program) + 1
      /\ t.put \cap t.gone = {} /\ pc[c] \in PCs /\ m_beginCount[c] \in 0..1 /\ m_batch[c] \in {"yes", "no"}
  BY <1>w, <1>t, PartTypes DEF PCs
<1>4. PhaseOf(c)' /\ (m_txn'[c] = "none" => t = NoTxn) /\ \A d \in Clients \ {c} : m_txn'[d] = m_txn[d]
  BY <1>1, <1>h, <1>w, PartTypes DEF TypeInv, TypeOK, RequestTypes, PhasesAgree, PhaseOf, HasOp, Op,
     InOperation, AtRest, ByIdOps, QueryOps
<1> QED BY <1>1, <1>2, <1>3, <1>4, LocalStep

\* The cursor is at its end.
LEMMA CloseCursorTypes ==
  ASSUME TypeInv, LockInv', NEW c \in Clients, CloseCursor(c)
  PROVE  TypeInv'
<1>1. StoreTypes' /\ engine' = engine /\ txn' = txn
  BY DEF CloseCursor, TypeInv, TypeOK, StoreTypes, store, bounds, history
<1>2. pc[c] = "next" /\ pc[c] \in InOperation /\ HasOp(c) /\ Op(c).do \in QueryOps /\ m_txn[c] = "open"
        /\ ~work[c].more
  BY DEF CloseCursor, TypeInv, PhasesAgree, PhaseOf, InOperation
<1>3. CASE Done(c)
  BY <1>1, <1>2, <1>3, PartTypes, DoneTypes
<1>4. CASE /\ m_beginCount' = [m_beginCount EXCEPT ![c] = 0]
           /\ m_batch' = [m_batch EXCEPT ![c] = "no"]
           /\ pc' = [pc EXCEPT ![c] = "commit"]
           /\ work' = [work EXCEPT ![c].more = TRUE]
           /\ UNCHANGED <<lockVars, m_txn, msg>>
  <2> DEFINE w == [work[c] EXCEPT !.more = TRUE]
  <2>1. w \in WorkType /\ work' = [work EXCEPT ![c] = w]
    BY <1>4, PartTypes DEF WorkType
  <2>2. PhaseOf(c)'
    BY <1>1, <1>2, <1>4, PartTypes DEF TypeInv, TypeOK, RequestTypes, PhaseOf, HasOp, Op, InOperation, AtRest
  <2>3. "commit" \in PCs /\ 0 \in 0..1 /\ "no" \in {"yes", "no"}
    BY DEF PCs
  <2>4. (\A d \in Clients \ {c} : m_txn'[d] = m_txn[d]) /\ (m_txn'[c] = "none" => txn[c] = NoTxn)
    BY <1>4, PartTypes
  <2>5. msg' = [msg EXCEPT ![c] = msg[c]] /\ txn' = [txn EXCEPT ![c] = txn[c]]
    BY <1>1, <1>4, PartTypes
  <2> HIDE DEF w
  <2> QED BY <1>1, <1>4, <2>1, <2>2, <2>3, <2>4, <2>5, PartTypes, LocalStep
<1>5. ASSUME NEW p \in {"query", "kind"}, pc' = [pc EXCEPT ![c] = p],
        UNCHANGED <<lockVars, reqVars, msg, work>>,
             p = "kind" => Op(c).do = "delKind"
      PROVE  TypeInv'
  <2>1. PhaseOf(c)'
    BY <1>1, <1>2, <1>5, PartTypes
       DEF TypeInv, TypeOK, RequestTypes, PhasesAgree, PhaseOf, HasOp, Op, InOperation, AtRest, Schema, reqVars
  <2>2. p \in PCs
    BY DEF PCs
  <2>3. (\A d \in Clients \ {c} : m_txn'[d] = m_txn[d]) /\ (m_txn'[c] = "none" => txn[c] = NoTxn)
    BY <1>5, PartTypes DEF reqVars
  <2>4. m_beginCount' = [m_beginCount EXCEPT ![c] = m_beginCount[c]] /\ m_beginCount[c] \in 0..1
    BY <1>5, PartTypes DEF reqVars
  <2> QED BY <1>1, <1>5, <2>1, <2>2, <2>3, <2>4, PhaseStep DEF reqVars
<1> QED BY <1>3, <1>4, <1>5 DEF CloseCursor

\* commitBatch goes on.
LEMMA RebeginTypes ==
  ASSUME TypeInv, LockInv', NEW c \in Clients, Rebegin(c)
  PROVE  TypeInv'
<1>1. StoreTypes'
  BY DEF Rebegin, TypeInv, TypeOK, StoreTypes, store, bounds, history
<1>2. HasOp(c) /\ Op(c).do \in QueryOps
  BY DEF Rebegin, TypeInv, PhasesAgree, PhaseOf
<1>3. /\ m_beginCount' = [m_beginCount EXCEPT ![c] = 1] /\ m_batch' = [m_batch EXCEPT ![c] = "yes"]
      /\ m_txn' = [m_txn EXCEPT ![c] = "open"] /\ pc' = [pc EXCEPT ![c] = "query"]
      /\ work' = [work EXCEPT ![c] = NoWork] /\ engine' = engine /\ msg' = msg /\ txn' = txn
  BY DEF Rebegin
<1>4. PhaseOf(c)'
  BY <1>2, <1>3, EmptyTypes DEF TypeInv, TypeOK, RequestTypes, PhaseOf, HasOp, Op, InOperation, AtRest
<1>5. (\A d \in Clients \ {c} : m_txn'[d] = m_txn[d]) /\ m_txn'[c] = "open"
  BY <1>3 DEF TypeInv, TypeOK, RequestTypes
<1>6. "query" \in PCs /\ 1 \in 0..1 /\ "yes" \in {"yes", "no"}
  BY DEF PCs
<1>7. msg' = [msg EXCEPT ![c] = msg[c]] /\ txn' = [txn EXCEPT ![c] = txn[c]]
  BY <1>3, PartTypes
<1> QED BY <1>1, <1>3, <1>4, <1>5, <1>6, <1>7, EmptyTypes, PartTypes, LocalStep

\* The kinds change, or the transaction of commitKind is given up.
LEMMA ChangeKindsTypes ==
  ASSUME TypeInv, LockInv', NEW c \in Clients, ChangeKinds(c)
  PROVE  TypeInv'
<1>1. StoreTypes' /\ engine' = engine
  BY DEF ChangeKinds, TypeInv, TypeOK, StoreTypes, store, bounds, history
<1>2. pc[c] \in InOperation /\ HasOp(c) /\ ~work[c].more /\ Op(c).do \in Schema
  BY DEF ChangeKinds, TypeInv, PhasesAgree, PhaseOf, InOperation
<1>3. CASE Done(c) /\ UNCHANGED txn
  BY <1>1, <1>2, <1>3, PartTypes, DoneTypes
<1>4. CASE Leave(c) /\ pc' = [pc EXCEPT ![c] = "reload"] /\ UNCHANGED <<msg, work>>
  <2>1. /\ m_beginCount' = [m_beginCount EXCEPT ![c] = 0] /\ m_batch' = [m_batch EXCEPT ![c] = "no"]
        /\ m_txn' = [m_txn EXCEPT ![c] = "none"] /\ txn' = [txn EXCEPT ![c] = NoTxn]
    BY <1>4 DEF Leave
  <2>2. PhaseOf(c)'
    BY <1>1, <1>2, <1>4, <2>1 DEF TypeInv, TypeOK, RequestTypes, PhaseOf, HasOp, Op, InOperation, AtRest
  <2>3. \A d \in Clients \ {c} : m_txn'[d] = m_txn[d]
    BY <2>1 DEF TypeInv, TypeOK, RequestTypes
  <2>4. "reload" \in PCs /\ 0 \in 0..1 /\ "no" \in {"yes", "no"}
    BY DEF PCs
  <2>5. msg' = [msg EXCEPT ![c] = msg[c]] /\ work' = [work EXCEPT ![c] = work[c]]
    BY <1>4, PartTypes
  <2> QED BY <1>1, <1>4, <2>1, <2>2, <2>3, <2>4, <2>5, EmptyTypes, PartTypes, LocalStep
<1> QED BY <1>3, <1>4 DEF ChangeKinds

\* reloadKind begins.
LEMMA BeginReloadTypes ==
  ASSUME TypeInv, LockInv', NEW c \in Clients, BeginReload(c)
  PROVE  TypeInv'
<1>1. StoreTypes' /\ engine' = engine /\ msg' = msg /\ work' = work /\ txn' = txn
  BY DEF BeginReload, TypeInv, TypeOK, StoreTypes, store, bounds, history
<1>2. ~work[c].more /\ HasOp(c) /\ Op(c).do \in Schema
  BY DEF BeginReload, TypeInv, PhasesAgree, PhaseOf
<1>3. /\ m_beginCount' = [m_beginCount EXCEPT ![c] = 1] /\ m_txn' = [m_txn EXCEPT ![c] = "open"]
      /\ m_batch' = m_batch /\ pc' = [pc EXCEPT ![c] = "reloading"]
  BY DEF BeginReload, Begin
<1>4. PhaseOf(c)'
  BY <1>1, <1>2, <1>3 DEF TypeInv, TypeOK, RequestTypes, PhaseOf, HasOp, Op, InOperation, AtRest
<1>5. (\A d \in Clients \ {c} : m_txn'[d] = m_txn[d]) /\ m_txn'[c] = "open"
  BY <1>3 DEF TypeInv, TypeOK, RequestTypes
<1>6. "reloading" \in PCs /\ 1 \in 0..1
  BY DEF PCs
<1> QED BY <1>1, <1>3, <1>4, <1>5, <1>6, PhaseStep

\* What a request sees of the index are entries.
LEMMA IndexViewType ==
  ASSUME TypeInv, NEW c \in Clients
  PROVE  IndexView(c) \subseteq Entries
<1>1. txn[c].put \subseteq Entries
  BY PartTypes DEF TxnType
<1>2. idx \subseteq Entries
  BY DEF TypeInv, TypeOK, StoreTypes
<1> QED BY <1>1, <1>2 DEF IndexView

\* What a request sees of all objects are objects.
LEMMA WrittenObjsType ==
  ASSUME TypeInv, NEW c \in Clients
  PROVE  WrittenObjs(c) \in [Ids -> ObjType]
  BY ViewType DEF WrittenObjs, TypeInv

\* Both tables are written.
LEMMA CommitWholeTypes ==
  ASSUME TypeInv, LockInv', NEW c \in Clients, CommitWhole(c)
  PROVE  TypeInv'
<1>1. objs' \in [Ids -> ObjType] /\ idx' \subseteq Entries
  BY IndexViewType, WrittenObjsType DEF CommitWhole
<1>2. disk' \in [objs : [Ids -> ObjType], idx : SUBSET Entries]
  BY <1>1 DEF CommitWhole, TypeInv, TypeOK, StoreTypes
<1>3. StoreTypes' /\ engine' = engine /\ UNCHANGED <<m_beginCount, m_batch, m_txn, msg, work, txn>>
  BY <1>1, <1>2 DEF CommitWhole, TypeInv, TypeOK, StoreTypes, bounds, history, reqVars
<1>4. pc[c] = "commit" /\ pc' = [pc EXCEPT ![c] = "written"] /\ "written" \in PCs
  BY DEF CommitWhole, PCs
<1>5. PhaseOf(c)'
  BY <1>3, <1>4 DEF TypeInv, TypeOK, RequestTypes, PhasesAgree, PhaseOf, HasOp, Op, InOperation, AtRest
<1>6. /\ m_beginCount' = [m_beginCount EXCEPT ![c] = m_beginCount[c]] /\ m_beginCount[c] \in 0..1
      /\ (m_txn'[c] = "none" => txn[c] = NoTxn) /\ \A d \in Clients \ {c} : m_txn'[d] = m_txn[d]
  BY <1>3, PartTypes
<1> QED BY <1>3, <1>4, <1>5, <1>6, PhaseStep

\* A table that leaves the list of those to be written was at its head, and is not in it again.
LEMMA TablesType ==
  ASSUME NEW t \in TxnType, t.tables # <<>>
  PROVE  /\ Head(t.tables) \in {"objs", "idx"} /\ Tail(t.tables) \in TableLists
         /\ Uses(t, Head(t.tables))
         /\ \A i \in DOMAIN Tail(t.tables) : Tail(t.tables)[i] # Head(t.tables)
         /\ \A table : Uses(t, table) => Head(t.tables) = table \/ \E i \in DOMAIN Tail(t.tables) : Tail(t.tables)[i] = table
         /\ \A i \in DOMAIN Tail(t.tables) : Uses(t, Tail(t.tables)[i])
<1>1. /\ t.tables \in Seq(Tables) /\ t.tables # <<>>
      /\ \A i, j \in DOMAIN t.tables : t.tables[i] = t.tables[j] => i = j
  BY DEF TxnType, TableLists
<1>2. Head(t.tables) = t.tables[1] /\ 1 \in DOMAIN t.tables /\ Tail(t.tables) \in Seq(Tables)
  BY <1>1
<1>3. \A i \in DOMAIN Tail(t.tables) : Tail(t.tables)[i] = t.tables[i + 1] /\ i + 1 \in DOMAIN t.tables /\ i + 1 # 1
  BY <1>1
<1>4. \A i \in DOMAIN t.tables : i = 1 \/ (i - 1 \in DOMAIN Tail(t.tables) /\ Tail(t.tables)[i - 1] = t.tables[i])
  BY <1>1
<1>5. Head(t.tables) \in {"objs", "idx"} /\ Tail(t.tables) \in TableLists
  BY <1>1, <1>2, <1>3 DEF TableLists, Tables
<1>6. \A i \in DOMAIN Tail(t.tables) : Tail(t.tables)[i] # Head(t.tables) /\ Uses(t, Tail(t.tables)[i])
  BY <1>1, <1>2, <1>3 DEF Uses
<1>7. \A table : Uses(t, table) => Head(t.tables) = table \/ \E i \in DOMAIN Tail(t.tables) : Tail(t.tables)[i] = table
  BY <1>2, <1>4 DEF Uses
<1> QED BY <1>2, <1>5, <1>6, <1>7 DEF Uses

\* One table is written.
LEMMA CommitTableTypes ==
  ASSUME TypeInv, LockInv', NEW c \in Clients, CommitTable(c)
  PROVE  TypeInv'
<1>1. objs' \in [Ids -> ObjType] /\ idx' \subseteq Entries
  BY IndexViewType, WrittenObjsType DEF CommitTable, TypeInv, TypeOK, StoreTypes
<1>2. disk' \in [objs : [Ids -> ObjType], idx : SUBSET Entries]
  BY <1>1 DEF CommitTable, TypeInv, TypeOK, StoreTypes
<1>a. failures' \in 0..MaxFailures
  BY TxnAssumption DEF CommitTable, TypeInv, TypeOK, StoreTypes
<1>b. torn' \subseteq Ids
  <2>1. txn[c].touched \subseteq Ids
    BY PartTypes DEF TxnType
  <2> QED BY <2>1 DEF CommitTable, TypeInv, TypeOK, StoreTypes
<1>3. StoreTypes' /\ engine' = engine /\ UNCHANGED <<m_beginCount, m_batch, m_txn, msg, work>>
  BY <1>1, <1>2, <1>a, <1>b DEF CommitTable, TypeInv, TypeOK, StoreTypes, reqVars
<1>4. PICK t \in TxnType : txn' = [txn EXCEPT ![c] = t] /\ t.put \cap t.gone = {}
        /\ (m_txn[c] = "none" => t = NoTxn)
  <2>1. CASE UNCHANGED txn
    BY <2>1, PartTypes
  <2>2. CASE txn[c].tables # <<>>
    <3>1. txn[c] \in TxnType /\ txn[c].put \cap txn[c].gone = {} /\ m_txn[c] # "none"
      BY <2>2, PartTypes DEF NoTxn
    <3>2. PICK f \in SUBSET Tables : txn' = [txn EXCEPT ![c].tables = Tail(@), ![c].failed = f]
      <4>1. CASE txn' = [txn EXCEPT ![c].tables = Tail(@)]
        <5>1. txn' = [txn EXCEPT ![c].tables = Tail(@), ![c].failed = txn[c].failed] /\ txn[c].failed \subseteq Tables
          BY <3>1, <4>1 DEF TypeInv, TypeOK, RequestTypes, TxnType
        <5> QED BY <5>1
      <4>2. CASE txn' = [txn EXCEPT ![c].tables = Tail(@), ![c].failed = @ \cup {Head(txn[c].tables)}]
        <5>1. txn' = [txn EXCEPT ![c].tables = Tail(@), ![c].failed = txn[c].failed \cup {Head(txn[c].tables)}]
          BY <4>2
        <5>2. txn[c].failed \cup {Head(txn[c].tables)} \subseteq Tables
          BY <2>2, <3>1, TablesType DEF Tables, TxnType
        <5> QED BY <5>1, <5>2
      <4> QED BY <2>2, <4>1, <4>2 DEF CommitTable
    <3> DEFINE t == [txn[c] EXCEPT !.tables = Tail(@), !.failed = f]
    <3>3. Tail(txn[c].tables) \in TableLists
      BY <2>2, <3>1, TablesType
    <3>4. t \in TxnType /\ t.put = txn[c].put /\ t.gone = txn[c].gone
      BY <3>1, <3>3 DEF TxnType
    <3>5. txn' = [txn EXCEPT ![c] = t]
      BY <3>2
    <3> HIDE DEF t
    <3> QED BY <3>1, <3>4, <3>5
  <2> QED BY <2>1, <2>2 DEF CommitTable
<1>5. PICK p \in {"written", "writing"} : pc' = [pc EXCEPT ![c] = p]
  BY DEF CommitTable
<1>6. pc[c] \in {"commit", "writing"} /\ engine = "leveldb" /\ p \in PCs
  BY DEF CommitTable, PCs
<1>7. PhaseOf(c)'
  BY <1>3, <1>5, <1>6 DEF TypeInv, TypeOK, RequestTypes, PhasesAgree, PhaseOf, HasOp, Op, InOperation, AtRest
<1>8. (m_txn'[c] = "none" => t = NoTxn) /\ \A d \in Clients \ {c} : m_txn'[d] = m_txn[d]
  BY <1>3, <1>4
<1>9. PICK q \in {"yes", "no"} : m_batch' = [m_batch EXCEPT ![c] = q]
  BY <1>3, PartTypes
<1>10. PICK m \in MsgType : msg' = [msg EXCEPT ![c] = m] /\ m.at <= Len(m.program) + 1
  BY <1>3, PartTypes
<1>11. PICK w \in WorkType : work' = [work EXCEPT ![c] = w]
  BY <1>3, PartTypes
<1>12. PICK n \in 0..1 : m_beginCount' = [m_beginCount EXCEPT ![c] = n]
  BY <1>3, PartTypes
<1>13. StoreTypes' /\ engine' = engine
  BY <1>3
<1> QED BY <1>4, <1>5, <1>6, <1>7, <1>8, <1>9, <1>10, <1>11, <1>12, <1>13, LocalStep

\* Whatever a commit returns, its objects count when they are in their table.
LEMMA FinishLeaves ==
  ASSUME NEW c \in Clients, Finish(c)
  PROVE  left' = Leaves(c, "objs" \notin txn[c].failed)
<1>1. txn[c].failed = {} => Leaves(c, TRUE) = Leaves(c, "objs" \notin txn[c].failed)
  BY DEF Leaves
<1> QED BY <1>1 DEF Finish

\* The commit returns.
LEMMA FinishTypes ==
  ASSUME TypeInv, LockInv', NEW c \in Clients, Finish(c)
  PROVE  TypeInv'
<1>1. left' \in [Ids -> ObjType]
  <2>1. \A i \in Ids : txn[c].written[i] \in ObjType \cup {Clean} /\ left[i] \in ObjType
    BY PartTypes DEF TxnType, TypeInv, TypeOK, StoreTypes
  <2> QED BY <2>1, FinishLeaves DEF Leaves
<1>2. StoreTypes' /\ engine' = engine
  BY <1>1 DEF Finish, TypeInv, TypeOK, StoreTypes, store, bounds
<1>3. /\ m_beginCount' = [m_beginCount EXCEPT ![c] = 0] /\ m_batch' = [m_batch EXCEPT ![c] = "no"]
      /\ m_txn' = [m_txn EXCEPT ![c] = "none"] /\ txn' = [txn EXCEPT ![c] = NoTxn]
  BY DEF Finish, Leave
<1>4. \A d \in Clients \ {c} : m_txn'[d] = m_txn[d]
  BY <1>3 DEF TypeInv, TypeOK, RequestTypes
<1>5. "rebegin" \in PCs /\ "idle" \in PCs /\ 0 \in 0..1 /\ "no" \in {"yes", "no"}
  BY DEF PCs
<1>6. CASE work[c].more /\ pc' = [pc EXCEPT ![c] = "rebegin"] /\ UNCHANGED <<msg, work>>
  <2>1. PhaseOf(c)'
    BY <1>2, <1>3, <1>6 DEF TypeInv, TypeOK, RequestTypes, PhasesAgree, PhaseOf, HasOp, Op, InOperation, AtRest
  <2>2. msg' = [msg EXCEPT ![c] = msg[c]] /\ work' = [work EXCEPT ![c] = work[c]]
    BY <1>6, PartTypes
  <2> QED BY <1>2, <1>3, <1>4, <1>5, <1>6, <2>1, <2>2, EmptyTypes, PartTypes, LocalStep
<1>7. CASE pc' = [pc EXCEPT ![c] = "idle"] /\ msg' = [msg EXCEPT ![c] = NoMsg]
        /\ work' = [work EXCEPT ![c] = NoWork]
  <2>1. PhaseOf(c)'
    BY <1>2, <1>3, <1>7, EmptyTypes DEF TypeInv, TypeOK, RequestTypes, PhaseOf, InOperation, AtRest
  <2> QED BY <1>2, <1>3, <1>4, <1>5, <1>7, <2>1, EmptyTypes, PartTypes, LocalStep
<1> QED BY <1>6, <1>7 DEF Finish

\* A deadlock: the message starts again, or fails.
LEMMA DeadlockTypes ==
  ASSUME TypeInv, LockInv', NEW c \in Clients, Deadlock(c)
  PROVE  TypeInv'
<1>1. CASE Fail(c)
  BY <1>1, FailTypes
<1>2. CASE ~Fail(c)
  <2>1. /\ m_beginCount' = [m_beginCount EXCEPT ![c] = 0] /\ m_batch' = m_batch
        /\ m_txn' = [m_txn EXCEPT ![c] = "none"] /\ txn' = [txn EXCEPT ![c] = NoTxn]
        /\ pc' = [pc EXCEPT ![c] = "call"] /\ work' = [work EXCEPT ![c] = NoWork]
        /\ msg' = [msg EXCEPT ![c].at = 1, ![c].retries = @ + 1] /\ msg[c].retries + 1 < MaxDeadlockRetries
        /\ engine' = engine
    BY <1>2 DEF Deadlock
  <2>2. StoreTypes'
    BY <1>2 DEF Deadlock, TypeInv, TypeOK, StoreTypes, store, bounds, history
  <2> DEFINE m == [msg[c] EXCEPT !.at = 1, !.retries = @ + 1]
  <2>3. msg[c] \in MsgType /\ msg[c].retries + 1 \in 0..MaxDeadlockRetries
    BY <2>1, PartTypes, TxnAssumption DEF MsgType
  <2>4. m \in MsgType /\ m.at = 1 /\ m.program = msg[c].program
    <3>1. 1 \in Nat \ {0}
      OBVIOUS
    <3> QED BY <2>3, <3>1 DEF MsgType
  <2>5. Len(m.program) \in Nat
    <3>1. msg[c].program \in Programs \cup {<<>>} /\ <<>> \in Seq(Operations)
      BY <2>3 DEF MsgType
    <3>2. msg[c].program \in Seq(Operations)
      BY <3>1, TxnAssumption
    <3> QED BY <2>4, <3>2
  <2>6. msg' = [msg EXCEPT ![c] = m]
    BY <2>1
  <2> HIDE DEF m
  <2>7. PhaseOf(c)'
    BY <2>1, EmptyTypes DEF TypeInv, TypeOK, RequestTypes, PhaseOf, InOperation, AtRest
  <2>8. "call" \in PCs /\ 0 \in 0..1 /\ m.at <= Len(m.program) + 1
    BY <2>4, <2>5 DEF PCs
  <2>9. m_batch' = [m_batch EXCEPT ![c] = m_batch[c]] /\ \A d \in Clients \ {c} : m_txn'[d] = m_txn[d]
    BY <2>1, PartTypes DEF TypeInv, TypeOK, RequestTypes
  <2> QED BY <2>1, <2>2, <2>4, <2>6, <2>7, <2>8, <2>9, EmptyTypes, PartTypes, LocalStep
<1> QED BY <1>1, <1>2

\* A crash ends every request and goes back to what is on disk.
LEMMA CrashTypes ==
  ASSUME TypeInv, LockInv', Crash
  PROVE  TypeInv'
<1>1. StoreTypes'
  <2>1. objs' \in [Ids -> ObjType] /\ idx' \subseteq Entries /\ disk' = disk
    BY DEF Crash, TypeInv, TypeOK, StoreTypes
  <2>2. left' \in [Ids -> ObjType]
    BY DEF Crash, TypeInv, TypeOK, StoreTypes
  <2>3. torn' \subseteq Ids
    <3>1. \A c \in Clients : txn[c].touched \subseteq Ids
      BY PartTypes DEF TxnType
    <3> QED BY <3>1 DEF Crash, TypeInv, TypeOK, StoreTypes
  <2>4. crashes' \in 0..MaxCrashes
    BY TxnAssumption DEF Crash, TypeInv, TypeOK, StoreTypes
  <2> QED BY <2>1, <2>2, <2>3, <2>4 DEF Crash, TypeInv, TypeOK, StoreTypes
<1>2. RequestTypes'
  BY EmptyTypes, TxnAssumption DEF Crash, RequestTypes
<1>3. PhasesAgree'
  BY EmptyTypes DEF Crash, PhasesAgree, PhaseOf, InOperation, AtRest
<1> QED BY <1>1, <1>2, <1>3 DEF TypeInv, TypeOK

\* The types, with the lock and how far each request is.
THEOREM TypesInvariance == Spec => []TypeInv
<1>1. Init => TypeInv
  <2> SUFFICES ASSUME Init PROVE TypeInv
    OBVIOUS
  <2>1. LockInv
    BY TxnAssumption DEF Init, LockInv, LockDiscipline, PCs
  <2>2. StoreTypes
    BY EmptyTypes, TxnAssumption DEF Init, StoreTypes
  <2>3. RequestTypes
    BY EmptyTypes, TxnAssumption DEF Init, RequestTypes
  <2>4. PhasesAgree
    BY EmptyTypes DEF Init, PhasesAgree, PhaseOf, InOperation, AtRest
  <2> QED BY <2>1, <2>2, <2>3, <2>4 DEF TypeInv, TypeOK
<1>2. TypeInv /\ LockInv' /\ [Next]_vars => TypeInv'
  <2> SUFFICES ASSUME TypeInv, LockInv', [Next]_vars PROVE TypeInv'
    OBVIOUS
  <2>1. ASSUME NEW c \in Clients, Step(c) PROVE TypeInv'
    <3>1. CASE Receive(c) \/ BeginOp(c) \/ EndBatch(c) \/ Fetch(c) \/ Store(c) \/ OpenCursor(c)
      BY <3>1, ReceiveTypes, BeginOpTypes, EndBatchTypes, FetchTypes, StoreTyped, OpenCursorTypes
    <3>2. CASE OperationFails(c) \/ EndReload(c) \/ NothingWritten(c)
      BY <3>2, FailTypes DEF OperationFails, EndReload, NothingWritten
    <3>3. CASE DeleteNext(c) \/ CloseCursor(c) \/ Rebegin(c) \/ ChangeKinds(c) \/ BeginReload(c)
      BY <3>3, DeleteNextTypes, CloseCursorTypes, RebeginTypes, ChangeKindsTypes, BeginReloadTypes
    <3>4. CASE CommitWhole(c) \/ CommitTable(c) \/ Finish(c) \/ Deadlock(c)
      BY <3>4, CommitWholeTypes, CommitTableTypes, FinishTypes, DeadlockTypes
    <3> QED BY <2>1, <3>1, <3>2, <3>3, <3>4 DEF Step
  <2>2. CASE Flush
    BY <2>2 DEF Flush, lockVars, reqVars, bounds, history, TypeInv, TypeOK, StoreTypes, RequestTypes,
       PhasesAgree, PhaseOf,
                HasOp, Op
  <2>3. CASE Crash
    BY <2>3, CrashTypes
  <2>4. CASE UNCHANGED vars
    BY <2>4 DEF vars, lockVars, reqVars, store, bounds, history, TypeInv, TypeOK, StoreTypes, RequestTypes,
       PhasesAgree,
                PhaseOf, HasOp, Op
  <2> QED BY <2>1, <2>2, <2>3, <2>4 DEF Next, Over
<1> QED BY <1>1, <1>2, LockInvariance, PTL DEF Spec

-----------------------------------------------------------------------------
(* What a request does is kept apart from what others do, unless they race. *)

Committings == {"writing", "written"}

\* The transaction writes only what it has read, and notes it in the index.
OverlayTouched ==
  \A c \in Clients :
    /\ \A id \in Ids : txn[c].written[id] # Clean => id \in txn[c].touched
    /\ \A e \in txn[c].put \cup txn[c].gone : e[2] \in txn[c].touched
    /\ pc[c] = "store" => Op(c).id \in txn[c].touched

\* A table that is to be written takes part in the commit.
TablesUsed ==
  \A c \in Clients : pc[c] \notin Committings =>
    /\ (\E id \in Ids : txn[c].written[id] # Clean) => Uses(txn[c], "objs")
    /\ txn[c].put \cup txn[c].gone # {} => Uses(txn[c], "idx")

\* Two that have touched an object race.
TouchedByOne ==
  \A c, d \in Clients : c # d => txn[c].touched \cap txn[d].touched \subseteq raced

\* What the operation has read of an object is still what the transaction sees.
ReadIsCurrent ==
  \A c \in Clients : pc[c] = "store" /\ Op(c).id \notin raced => work[c].prev = View(c, Op(c).id)

\* Entries of an object in a table of the index.
Of(es, id) == es \cap (Vals \X {id})

\* The transaction sees the index entries of the objects it sees.
ViewExact ==
  \A c \in Clients : \A id \in txn[c].touched \ (raced \cup torn) :
    Of(IndexView(c), id) = Keys(id, View(c, id))

\* A table whose write has failed is not written again, and tears the objects.
FailuresKnown ==
  \A c \in Clients :
    /\ pc[c] \notin Committings => txn[c].failed = {}
    /\ \A table \in txn[c].failed : ~Uses(txn[c], table)
    /\ txn[c].failed # {} => txn[c].touched \subseteq torn

\* The table has been written by the commit of c.
Stored(c, table) ==
  table \notin txn[c].failed /\ (pc[c] = "written" \/ (pc[c] = "writing" /\ ~Uses(txn[c], table)))

\* A table that has been written holds what the transaction sees.
StoredIsSeen ==
  \A c \in Clients : \A id \in txn[c].touched \ raced :
    /\ Stored(c, "objs") => objs[id] = View(c, id)
    /\ Stored(c, "idx") => Of(idx, id) = Of(IndexView(c), id)

\* An object is as the last commit that has ended left it, unless another has written it.
LeftUnlessWritten ==
  \A id \in Ids \ raced :
    (\A c \in Clients : Stored(c, "objs") => txn[c].written[id] = Clean) => objs[id] = left[id]

\* The tables, and what a crash leaves of them, are exact while no transaction is
\* between the two.
TablesExact ==
  \A id \in Ids \ (raced \cup torn) :
    (\A c \in Clients : pc[c] = "writing" => id \notin txn[c].touched)
      => Of(idx, id) = Keys(id, objs[id]) /\ Of(disk.idx, id) = Keys(id, disk.objs[id])

\* Only the sandwich engine leaves a commit to the system.
DiskFollows == engine # "sandwich" => disk = [objs |-> objs, idx |-> idx]

\* Revisions are drawn from one counter.
RevsDrawn ==
  \A id \in Ids :
    /\ objs[id].rev < nextRev /\ disk.objs[id].rev < nextRev
    /\ \A c \in Clients : txn[c].written[id].rev < nextRev

\* What a transaction writes is newer than what it replaces.
WrittenIsNewer ==
  \A c \in Clients : \A id \in txn[c].touched \ raced :
    txn[c].written[id] \in {Clean, NoObj, objs[id]} \/ txn[c].written[id].rev > objs[id].rev

DataInv ==
  /\ OverlayTouched /\ TablesUsed /\ TouchedByOne /\ ReadIsCurrent
  /\ ViewExact /\ FailuresKnown /\ StoredIsSeen /\ LeftUnlessWritten /\ TablesExact /\ DiskFollows
  /\ RevsDrawn /\ WrittenIsNewer

\* What the data parts need to know of a step.  All requests but one go on as they are.
Others(c) ==
  \A d \in Clients \ {c} : txn'[d] = txn[d] /\ pc'[d] = pc[d] /\ work'[d] = work[d] /\ msg'[d] = msg[d]

SameOverlay(t, u) ==
  /\ u.written = t.written /\ u.put = t.put /\ u.gone = t.gone /\ u.failed = t.failed
  /\ \A table : Uses(t, table) => Uses(u, table)

\* The transaction has written the object, and not failed to store it.
Kept(c, id) == txn[c].written[id] # Clean /\ "objs" \notin txn[c].failed

\* The request reads and writes nothing: it goes on with its transaction or leaves it,
\* perhaps with a commit behind it that ends now.
Passes(c) ==
  /\ UNCHANGED <<engine, store, nextRev, raced, torn>>
  /\ pc[c] # "writing" /\ pc'[c] \notin {"store"} \cup Committings
  /\ txn'[c] = NoTxn \/ (SameOverlay(txn[c], txn'[c]) /\ txn'[c].touched = txn[c].touched)
  /\ pc[c] = "written" => txn'[c] = NoTxn
  /\ left' = [i \in Ids |-> IF pc[c] = "written" /\ Kept(c, i) THEN txn[c].written[i] ELSE left[i]]
  /\ Others(c)

\* What Write does to a transaction.
Wrote(t, u, id, old, new) ==
  /\ u.written = [t.written EXCEPT ![id] = new]
  /\ u.put = (t.put \ (Keys(id, old) \ Keys(id, new))) \cup (Keys(id, new) \ Keys(id, old))
  /\ u.gone = (t.gone \ (Keys(id, new) \ Keys(id, old))) \cup (Keys(id, old) \ Keys(id, new))
  /\ Uses(u, "objs") /\ Uses(u, "idx") /\ u.failed = t.failed

\* The request writes an object: it replaces what it sees, unless another has touched it.
WritesOver(c, id, old, new) ==
  /\ Wrote(txn[c], txn'[c], id, old, new)
  /\ id \in raced' \/ old = View(c, id)
  /\ new = NoObj \/ (new.rev = nextRev /\ nextRev' = nextRev + 1)
  /\ pc'[c] # "store"

\* The request reads an object, writes it or both.
Works(c, id) ==
  /\ UNCHANGED <<engine, store, torn, left>>
  /\ raced \subseteq raced' /\ nextRev' \in {nextRev, nextRev + 1}
  /\ id \in raced' \/ \A d \in Clients \ {c} : id \notin txn[d].touched
  /\ pc[c] \notin Committings /\ pc'[c] \notin Committings
  /\ txn'[c].touched = txn[c].touched \cup {id}
  /\ \/ SameOverlay(txn[c], txn'[c])
     \/ \E old, new \in ObjType : WritesOver(c, id, old, new)
  /\ pc'[c] = "store" => Op(c)'.id = id /\ work'[c].prev = View(c, id)
  /\ Others(c)

\* The commit writes a table or two, has none to write, or fails to write one.
Commits(c) ==
  /\ UNCHANGED <<engine, nextRev, raced, left>>
  /\ torn \subseteq torn' /\ torn' \subseteq torn \cup txn[c].touched
  /\ pc[c] \in {"commit", "writing"} /\ pc'[c] \in Committings
  /\ \/ objs' = WrittenObjs(c) /\ Stored(c, "objs")'
     \/ objs' = objs /\ (Stored(c, "objs")' => Stored(c, "objs") \/ WrittenObjs(c) = objs)
  /\ idx' = IndexView(c) \/ (idx' = idx /\ (Stored(c, "idx")' => Stored(c, "idx") \/ IndexView(c) = idx))
  /\ disk' = IF engine = "sandwich" THEN disk ELSE [objs |-> objs', idx |-> idx']
  /\ txn'[c].written = txn[c].written /\ txn'[c].put = txn[c].put /\ txn'[c].gone = txn[c].gone
  /\ txn'[c].touched = txn[c].touched
  /\ Stored(c, "objs") => Stored(c, "objs")'
  /\ \A table \in txn'[c].failed : ~Uses(txn'[c], table)
  /\ txn'[c].failed # {} => txn[c].touched \subseteq torn'
  /\ Others(c)

\* The parts of another request.
LEMMA OfOthers ==
  ASSUME NEW c \in Clients, Others(c), NEW d \in Clients, d # c
  PROVE  txn'[d] = txn[d] /\ pc'[d] = pc[d] /\ work'[d] = work[d] /\ Op(d)' = Op(d)
  BY DEF Others, Op

\* Types of the data.
LEMMA DataTypes ==
  ASSUME TypeInv
  PROVE  /\ \A c \in Clients : /\ txn[c].written \in [Ids -> ObjType \cup {Clean}]
                              /\ txn[c].touched \subseteq Ids
                               /\ txn[c].put \subseteq Entries /\ txn[c].gone \subseteq Entries
         /\ objs \in [Ids -> ObjType] /\ idx \subseteq Entries /\ left \in [Ids -> ObjType]
         /\ disk.objs \in [Ids -> ObjType] /\ disk.idx \subseteq Entries
            /\ disk = [objs |-> disk.objs, idx |-> disk.idx]
         /\ nextRev \in Nat \ {0} /\ raced \subseteq Ids /\ torn \subseteq Ids
         /\ Clean \notin ObjType /\ Clean # NoObj /\ NoObj.rev = 0 /\ Clean.rev = 0
            /\ \A o \in ObjType \cup {Clean} : o.rev \in Nat
<1>1. /\ \A c \in Clients : /\ txn[c].written \in [Ids -> ObjType \cup {Clean}] /\ txn[c].touched \subseteq Ids
                            /\ txn[c].put \subseteq Entries /\ txn[c].gone \subseteq Entries
  BY PartTypes DEF TxnType
<1>2. /\ objs \in [Ids -> ObjType] /\ idx \subseteq Entries /\ left \in [Ids -> ObjType]
      /\ disk \in [objs : [Ids -> ObjType], idx : SUBSET Entries]
      /\ nextRev \in Nat \ {0} /\ raced \subseteq Ids /\ torn \subseteq Ids
  BY DEF TypeInv, TypeOK, StoreTypes
<1>3. /\ disk.objs \in [Ids -> ObjType] /\ disk.idx \subseteq Entries
         /\ disk = [objs |-> disk.objs, idx |-> disk.idx]
  BY <1>2
<1>4. Clean \notin ObjType /\ Clean # NoObj /\ NoObj.rev = 0 /\ Clean.rev = 0
  BY TxnAssumption DEF Clean, NoObj, ObjType
<1>5. \A o \in ObjType \cup {Clean} : o.rev \in Nat
  BY <1>4 DEF ObjType
<1> QED BY <1>1, <1>2, <1>3, <1>4, <1>5

\* A transaction that has nothing.
LEMMA NothingIn ==
  /\ \A id \in Ids : NoTxn.written[id] = Clean
  /\ NoTxn.put = {} /\ NoTxn.gone = {} /\ NoTxn.touched = {} /\ NoTxn.failed = {}
  BY DEF NoTxn

\* Requests that pass keep what the requests share, whatever they hold.
LEMMA PassesKeeps ==
  ASSUME TypeInv, DataInv, NEW c \in Clients, Passes(c)
  PROVE  DataInv'
<1> USE OfOthers, NothingIn
<1>1. OverlayTouched'
  BY DEF Passes, DataInv, OverlayTouched, SameOverlay
<1>2. TablesUsed'
  <2> SUFFICES ASSUME NEW d \in Clients, pc'[d] \notin Committings
               PROVE  /\ (\E id \in Ids : txn'[d].written[id] # Clean) => Uses(txn'[d], "objs")
                      /\ txn'[d].put \cup txn'[d].gone # {} => Uses(txn'[d], "idx")
    BY DEF TablesUsed, Uses
  <2>1. CASE txn'[d] = NoTxn
    BY <2>1
  <2>2. CASE d # c
    BY <2>2 DEF Passes, DataInv, TablesUsed
  <2>3. CASE d = c /\ SameOverlay(txn[c], txn'[c]) /\ pc[c] \notin Committings
    BY <2>3 DEF DataInv, TablesUsed, SameOverlay
  <2>4. pc[c] = "written" => txn'[c] = NoTxn
    BY DEF Passes
  <2> QED BY <2>1, <2>2, <2>3, <2>4 DEF Passes, Committings
<1>3. TouchedByOne'
  BY DEF Passes, DataInv, TouchedByOne
<1>4. ReadIsCurrent'
  BY DEF Passes, DataInv, ReadIsCurrent, View, store
<1>5. ViewExact'
  BY DEF Passes, DataInv, ViewExact, View, IndexView, SameOverlay, store
<1>6. StoredIsSeen'
  BY DEF Passes, DataInv, StoredIsSeen, Stored, View, IndexView, Committings, store
<1>7. LeftUnlessWritten'
  <2> SUFFICES ASSUME NEW id \in Ids \ raced,
                      \A d \in Clients : Stored(d, "objs")' => txn'[d].written[id] = Clean
               PROVE  objs[id] = left'[id]
    BY DEF Passes, LeftUnlessWritten, store
  <2>1. \A d \in Clients \ {c} : Stored(d, "objs") => txn[d].written[id] = Clean
    <3> TAKE d \in Clients \ {c}
    <3>1. txn'[d] = txn[d] /\ pc'[d] = pc[d]
      BY DEF Passes
    <3>2. Stored(d, "objs") => Stored(d, "objs")'
      BY <3>1 DEF Stored, Uses
    <3> QED BY <3>1, <3>2
  <2>2. left'[id] = IF pc[c] = "written" /\ Kept(c, id) THEN txn[c].written[id] ELSE left[id]
    BY DEF Passes
  <2>3. CASE ~(pc[c] = "written" /\ Kept(c, id))
    <3>1. Stored(c, "objs") => txn[c].written[id] = Clean
      BY <2>3 DEF Passes, Stored, Kept
    <3> QED BY <2>1, <2>2, <2>3, <3>1 DEF DataInv, LeftUnlessWritten
  <2>4. CASE pc[c] = "written" /\ Kept(c, id)
    <3>1. id \in txn[c].touched
      BY <2>4 DEF DataInv, OverlayTouched, Kept
    <3>2. objs[id] = View(c, id)
      BY <2>4, <3>1 DEF DataInv, StoredIsSeen, Stored, Kept
    <3> QED BY <2>2, <2>4, <3>2 DEF View, Kept
  <2> QED BY <2>3, <2>4
<1>f. FailuresKnown'
  <2> SUFFICES ASSUME NEW d \in Clients
               PROVE  /\ pc'[d] \notin Committings => txn'[d].failed = {}
                      /\ \A table \in txn'[d].failed : ~Uses(txn'[d], table)
                      /\ txn'[d].failed # {} => txn'[d].touched \subseteq torn'
    BY DEF FailuresKnown, Uses
  <2>1. CASE d # c
    BY <2>1 DEF Passes, DataInv, FailuresKnown
  <2>2. CASE d = c /\ txn'[c] = NoTxn
    BY <2>2
  <2>3. CASE d = c /\ txn'[c] # NoTxn
    <3>1. SameOverlay(txn[c], txn'[c]) /\ pc[c] \notin Committings
      BY <2>3 DEF Passes, Committings
    <3>2. txn'[c].failed = {}
      BY <3>1 DEF SameOverlay, DataInv, FailuresKnown
    <3> QED BY <2>3, <3>2
  <2> QED BY <2>1, <2>2, <2>3
<1>8. TablesExact'
  BY DEF Passes, DataInv, TablesExact, store
<1>9. DiskFollows'
  BY DEF Passes, DataInv, DiskFollows, store
<1>10. RevsDrawn'
  BY DataTypes DEF Passes, DataInv, RevsDrawn, store, SameOverlay
<1>11. WrittenIsNewer'
  BY DEF Passes, DataInv, WrittenIsNewer, store, SameOverlay
<1> QED BY <1>1, <1>2, <1>3, <1>4, <1>5, <1>6, <1>7, <1>8, <1>9, <1>10, <1>11, <1>f DEF DataInv

\* The entries that a write adds and removes are those of its object.
LEMMA KeysAreOwn ==
  ASSUME NEW id \in Ids, NEW o \in ObjType
  PROVE  /\ Keys(id, o) \subseteq Vals \X {id} /\ \A e \in Keys(id, o) : e[2] = id
         /\ Of(Keys(id, o), id) = Keys(id, o)
         /\ \A other \in Ids \ {id} : Of(Keys(id, o), other) = {}
<1>1. Keys(id, o) \subseteq Vals \X {id}
  BY DEF Keys, ObjType
<1> QED BY <1>1 DEF Of

\* Pending writes and deletes over a table, when an entry is written.
LEMMA IndexWrite ==
  ASSUME NEW table, NEW put, NEW gone, NEW old, NEW new
  PROVE  (table \ ((gone \ (new \ old)) \cup (old \ new))) \cup ((put \ (old \ new)) \cup (new \ old))
           = (((table \ gone) \cup put) \ (old \ new)) \cup (new \ old)
  OBVIOUS

\* A write replaces the entries of its object and no other.
LEMMA WrittenEntries ==
  ASSUME TypeInv, NEW c \in Clients, NEW id \in Ids, NEW old \in ObjType, NEW new \in ObjType,
         Wrote(txn[c], txn'[c], id, old, new), idx' = idx
  PROVE  /\ Of(IndexView(c), id) = Keys(id, old) => Of(IndexView(c)', id) = Keys(id, new)
         /\ \A other \in Ids \ {id} : Of(IndexView(c)', other) = Of(IndexView(c), other)
<1> DEFINE o == Keys(id, old)
<1> DEFINE n == Keys(id, new)
<1>1. IndexView(c)' = (IndexView(c) \ (o \ n)) \cup (n \ o)
  BY IndexWrite DEF IndexView, Wrote
<1>2. /\ o \subseteq Vals \X {id} /\ n \subseteq Vals \X {id}
      /\ \A other \in Ids \ {id} : Of(o, other) = {} /\ Of(n, other) = {}
  BY KeysAreOwn
<1> HIDE DEF o, n
<1>3. Of(IndexView(c), id) = o => Of(IndexView(c)', id) = n
  BY <1>1, <1>2 DEF Of
<1>4. \A other \in Ids \ {id} : Of(IndexView(c)', other) = Of(IndexView(c), other)
  BY <1>1, <1>2 DEF Of
<1> QED BY <1>3, <1>4 DEF o, n

\* What a request sees of an object it has not touched is what is committed.
LEMMA Untouched ==
  ASSUME TypeInv, DataInv, NEW c \in Clients, NEW id \in Ids \ txn[c].touched
  PROVE  View(c, id) = objs[id] /\ Of(IndexView(c), id) = Of(idx, id)
<1>1. txn[c].written[id] = Clean /\ \A e \in txn[c].put \cup txn[c].gone : e[2] # id
  BY DEF DataInv, OverlayTouched
<1>2. \A e \in Vals \X {id} : e[2] = id
  OBVIOUS
<1> QED BY <1>1, <1>2 DEF View, IndexView, Of

\* What a request comes to see is exact.
LEMMA TouchedExact ==
  ASSUME TypeInv, DataInv, NEW c \in Clients, NEW id \in Ids, Works(c, id), id \notin raced' \cup torn
  PROVE  Of(IndexView(c), id) = Keys(id, View(c, id))
<1>1. id \notin raced /\ \A d \in Clients \ {c} : id \notin txn[d].touched
  BY DEF Works
<1>2. CASE id \in txn[c].touched
  BY <1>1, <1>2 DEF DataInv, ViewExact
<1>3. CASE id \notin txn[c].touched
  <2>1. View(c, id) = objs[id] /\ Of(IndexView(c), id) = Of(idx, id)
    BY <1>3, Untouched
  <2>2. Of(idx, id) = Keys(id, objs[id])
    BY <1>1, <1>3 DEF DataInv, TablesExact
  <2> QED BY <2>1, <2>2
<1> QED BY <1>2, <1>3

\* A request that reads or writes: the parts that do not depend on which.
LEMMA WorksShared ==
  ASSUME TypeInv, DataInv, NEW c \in Clients, NEW id \in Ids, Works(c, id)
  PROVE  TouchedByOne' /\ FailuresKnown' /\ StoredIsSeen' /\ LeftUnlessWritten' /\ TablesExact' /\ DiskFollows'
<1> USE OfOthers
<1>0. /\ UNCHANGED <<engine, objs, idx, disk, torn, left>> /\ raced \subseteq raced'
      /\ pc[c] \notin Committings /\ pc'[c] \notin Committings /\ Others(c)
      /\ txn'[c].touched = txn[c].touched \cup {id}
  BY DEF Works, store
<1>1. TouchedByOne'
  <2>1. id \in raced' \/ \A d \in Clients \ {c} : id \notin txn[d].touched
    BY DEF Works
  <2> QED BY <1>0, <2>1 DEF DataInv, TouchedByOne
<1>2. StoredIsSeen'
  <2> SUFFICES ASSUME NEW d \in Clients, NEW i \in txn'[d].touched, i \notin raced'
               PROVE  /\ Stored(d, "objs")' => objs'[i] = View(d, i)'
                      /\ Stored(d, "idx")' => Of(idx, i)' = Of(IndexView(d), i)'
    BY DEF StoredIsSeen
  <2>1. CASE d = c
    BY <1>0, <2>1 DEF Stored, Committings
  <2>2. CASE d # c
    <3>1. View(d, i)' = View(d, i) /\ Of(IndexView(d), i)' = Of(IndexView(d), i) /\ Of(idx, i)' = Of(idx, i)
      BY <1>0, <2>2 DEF View, IndexView, Of
    <3>2. \A table : Stored(d, table)' => Stored(d, table)
      BY <1>0, <2>2 DEF Stored, Uses
    <3> QED BY <1>0, <2>2, <3>1, <3>2 DEF DataInv, StoredIsSeen
  <2> QED BY <2>1, <2>2
<1>f. FailuresKnown'
  <2> SUFFICES ASSUME NEW d \in Clients
               PROVE  /\ pc'[d] \notin Committings => txn'[d].failed = {}
                      /\ \A table \in txn'[d].failed : ~Uses(txn'[d], table)
                      /\ txn'[d].failed # {} => txn'[d].touched \subseteq torn'
    BY DEF FailuresKnown, Uses
  <2>1. CASE d # c
    BY <1>0, <2>1 DEF DataInv, FailuresKnown
  <2>2. CASE d = c
    <3>1. txn'[c].failed = txn[c].failed
      BY DEF Works, SameOverlay, WritesOver, Wrote
    <3>2. txn'[c].failed = {}
      BY <1>0, <3>1 DEF DataInv, FailuresKnown
    <3> QED BY <2>2, <3>2
  <2> QED BY <2>1, <2>2
<1>3. LeftUnlessWritten'
  <2> SUFFICES ASSUME NEW i \in Ids \ raced',
                      \A d \in Clients : Stored(d, "objs")' => txn'[d].written[i] = Clean
               PROVE  objs[i] = left[i]
    BY <1>0 DEF LeftUnlessWritten
  <2>1. \A d \in Clients : Stored(d, "objs") => txn[d].written[i] = Clean
    <3> TAKE d \in Clients
    <3>1. CASE d = c
      BY <1>0, <3>1 DEF Stored, Committings
    <3>2. CASE d # c
      <4>1. txn'[d] = txn[d] /\ pc'[d] = pc[d]
        BY <1>0, <3>2
      <4>2. Stored(d, "objs") => Stored(d, "objs")'
        BY <4>1 DEF Stored, Uses
      <4> QED BY <4>1, <4>2
    <3> QED BY <3>1, <3>2
  <2> QED BY <1>0, <2>1 DEF DataInv, LeftUnlessWritten
<1>4. TablesExact'
  BY <1>0 DEF DataInv, TablesExact, Committings
<1>5. DiskFollows'
  BY <1>0 DEF DataInv, DiskFollows
<1> QED BY <1>1, <1>2, <1>3, <1>4, <1>5, <1>f

\* A request that only reads.
LEMMA ReadsKeep ==
  ASSUME TypeInv, DataInv, NEW c \in Clients, NEW id \in Ids, Works(c, id), SameOverlay(txn[c], txn'[c])
  PROVE  DataInv'
<1> USE OfOthers
<1>0. /\ UNCHANGED <<engine, objs, idx, disk, torn, left>> /\ raced \subseteq raced'
      /\ pc[c] \notin Committings /\ pc'[c] \notin Committings /\ Others(c)
      /\ txn'[c].touched = txn[c].touched \cup {id}
  BY DEF Works, store
<1>1. OverlayTouched'
  <2> SUFFICES ASSUME NEW d \in Clients
               PROVE  /\ \A i \in Ids : txn'[d].written[i] # Clean => i \in txn'[d].touched
                      /\ \A e \in txn'[d].put \cup txn'[d].gone : e[2] \in txn'[d].touched
                      /\ pc'[d] = "store" => Op(d)'.id \in txn'[d].touched
    BY DEF OverlayTouched, Op
  <2>1. CASE d = c
    BY <1>0, <2>1 DEF Works, DataInv, OverlayTouched, SameOverlay
  <2>2. CASE d # c
    BY <1>0, <2>2 DEF DataInv, OverlayTouched
  <2> QED BY <2>1, <2>2
<1>2. TablesUsed'
  <2> SUFFICES ASSUME NEW d \in Clients, pc'[d] \notin Committings
               PROVE  /\ (\E i \in Ids : txn'[d].written[i] # Clean) => Uses(txn'[d], "objs")
                      /\ txn'[d].put \cup txn'[d].gone # {} => Uses(txn'[d], "idx")
    BY DEF TablesUsed, Uses
  <2>1. CASE d = c
    BY <1>0, <2>1 DEF DataInv, TablesUsed, SameOverlay
  <2>2. CASE d # c
    BY <1>0, <2>2 DEF DataInv, TablesUsed
  <2> QED BY <2>1, <2>2
<1>3. ReadIsCurrent'
  <2> SUFFICES ASSUME NEW d \in Clients, pc'[d] = "store", Op(d)'.id \notin raced'
               PROVE  work'[d].prev = View(d, Op(d).id)'
    BY DEF ReadIsCurrent
  <2>1. CASE d = c
    <3>1. Op(c)'.id = id /\ work'[c].prev = View(c, id)
      BY <2>1 DEF Works
    <3>2. View(c, id)' = View(c, id)
      BY <1>0 DEF View, SameOverlay
    <3>3. View(c, Op(c).id)' = View(c, id)'
      BY <3>1 DEF View
    <3> QED BY <2>1, <3>1, <3>2, <3>3
  <2>2. CASE d # c
    BY <1>0, <2>2 DEF DataInv, ReadIsCurrent, View
  <2> QED BY <2>1, <2>2
<1>4. ViewExact'
  <2> SUFFICES ASSUME NEW d \in Clients, NEW i \in txn'[d].touched, i \notin raced' \cup torn
               PROVE  Of(IndexView(d), i)' = Keys(i, View(d, i))'
    BY <1>0 DEF ViewExact
  <2>1. CASE d = c
    <3>1. View(c, i)' = View(c, i) /\ IndexView(c)' = IndexView(c)
      BY <1>0 DEF View, IndexView, SameOverlay
    <3>2. Of(IndexView(c), i) = Keys(i, View(c, i))
      BY <1>0, <2>1, TouchedExact DEF DataInv, ViewExact
    <3> QED BY <2>1, <3>1, <3>2 DEF Of, Keys
  <2>2. CASE d # c
    <3>1. View(d, i)' = View(d, i) /\ IndexView(d)' = IndexView(d)
      BY <1>0, <2>2 DEF View, IndexView
    <3>2. Of(IndexView(d), i) = Keys(i, View(d, i))
      BY <1>0, <2>2 DEF DataInv, ViewExact
    <3> QED BY <3>1, <3>2 DEF Of, Keys
  <2> QED BY <2>1, <2>2
<1>5. RevsDrawn' /\ WrittenIsNewer'
  <2>1. nextRev' >= nextRev
    BY DataTypes DEF Works
  <2>2. RevsDrawn'
    <3> SUFFICES ASSUME NEW i \in Ids, NEW d \in Clients
                 PROVE  objs[i].rev < nextRev' /\ disk.objs[i].rev < nextRev'
                   /\ txn'[d].written[i].rev < nextRev'
      BY <1>0 DEF RevsDrawn
    <3>1. objs[i].rev < nextRev /\ disk.objs[i].rev < nextRev /\ txn[d].written[i].rev < nextRev
      BY DEF DataInv, RevsDrawn
    <3>2. objs[i].rev \in Nat /\ disk.objs[i].rev \in Nat /\ txn[d].written[i].rev \in Nat /\ nextRev \in Nat
      BY DataTypes
    <3>3. nextRev' \in Nat /\ txn'[d].written = txn[d].written
      BY <1>0, <3>2 DEF Works, SameOverlay
    <3> QED BY <2>1, <3>1, <3>2, <3>3
  <2>3. WrittenIsNewer'
    <3> SUFFICES ASSUME NEW d \in Clients, NEW i \in txn'[d].touched, i \notin raced'
                 PROVE  txn'[d].written[i] \in {Clean, NoObj, objs'[i]} \/ txn'[d].written[i].rev > objs'[i].rev
      BY DEF WrittenIsNewer
    <3>1. CASE d = c /\ i \notin txn[c].touched
      <4>1. i = id
        BY <1>0, <3>1
      <4>2. txn[c].written[i] = Clean
        BY <3>1, <4>1 DEF DataInv, OverlayTouched
      <4> QED BY  <3>1, <4>2 DEF SameOverlay
    <3>2. CASE i \in txn[d].touched
      BY <1>0, <3>2 DEF DataInv, WrittenIsNewer, SameOverlay
    <3> QED BY <1>0, <3>1, <3>2
  <2> QED BY <2>2, <2>3
<1> QED BY <1>1, <1>2, <1>3, <1>4, <1>5, WorksShared DEF DataInv

\* A request that writes an object.
LEMMA WritesKeep ==
  ASSUME TypeInv, DataInv, NEW c \in Clients, NEW id \in Ids, Works(c, id),
         NEW old \in ObjType, NEW new \in ObjType, WritesOver(c, id, old, new)
  PROVE  DataInv'
<1> USE OfOthers
<1>0. /\ UNCHANGED <<engine, objs, idx, disk, torn, left>> /\ raced \subseteq raced'
      /\ pc[c] \notin Committings /\ pc'[c] \notin Committings /\ Others(c) /\ pc'[c] # "store"
      /\ txn'[c].touched = txn[c].touched \cup {id}
  BY DEF Works, WritesOver, store
<1>w. txn'[c].written[id] = new /\ \A i \in Ids \ {id} : txn'[c].written[i] = txn[c].written[i]
  BY DataTypes DEF WritesOver, Wrote
<1>1. OverlayTouched'
  <2> SUFFICES ASSUME NEW d \in Clients
               PROVE  /\ \A i \in Ids : txn'[d].written[i] # Clean => i \in txn'[d].touched
                      /\ \A e \in txn'[d].put \cup txn'[d].gone : e[2] \in txn'[d].touched
                      /\ pc'[d] = "store" => Op(d)'.id \in txn'[d].touched
    BY DEF OverlayTouched, Op
  <2>1. CASE d = c
    <3>1. \A i \in Ids : txn'[c].written[i] # Clean => i \in txn'[c].touched
      BY <1>0, <1>w DEF DataInv, OverlayTouched
    <3>2. \A e \in txn'[c].put \cup txn'[c].gone : e \in txn[c].put \cup txn[c].gone \cup Keys(id, old) \cup Keys(id, new)
      BY DEF WritesOver, Wrote
    <3>3. \A e \in Keys(id, old) \cup Keys(id, new) : e[2] = id
      BY KeysAreOwn
    <3>4. \A e \in txn'[c].put \cup txn'[c].gone : e[2] \in txn'[c].touched
      BY <1>0, <3>2, <3>3 DEF DataInv, OverlayTouched
    <3> QED BY <1>0, <2>1, <3>1, <3>4
  <2>2. CASE d # c
    BY <1>0, <2>2 DEF DataInv, OverlayTouched
  <2> QED BY <2>1, <2>2
<1>2. TablesUsed'
  <2> SUFFICES ASSUME NEW d \in Clients, pc'[d] \notin Committings
               PROVE  /\ (\E i \in Ids : txn'[d].written[i] # Clean) => Uses(txn'[d], "objs")
                      /\ txn'[d].put \cup txn'[d].gone # {} => Uses(txn'[d], "idx")
    BY DEF TablesUsed, Uses
  <2>1. CASE d = c
    BY <2>1 DEF WritesOver, Wrote
  <2>2. CASE d # c
    BY <1>0, <2>2 DEF DataInv, TablesUsed
  <2> QED BY <2>1, <2>2
<1>3. ReadIsCurrent'
  <2> SUFFICES ASSUME NEW d \in Clients, pc'[d] = "store", Op(d)'.id \notin raced'
               PROVE  work'[d].prev = View(d, Op(d).id)'
    BY DEF ReadIsCurrent
  <2> QED BY <1>0 DEF DataInv, ReadIsCurrent, View
<1>4. ViewExact'
  <2> SUFFICES ASSUME NEW d \in Clients, NEW i \in txn'[d].touched, i \notin raced' \cup torn
               PROVE  Of(IndexView(d), i)' = Keys(i, View(d, i))'
    BY <1>0 DEF ViewExact
  <2>1. CASE d = c /\ i = id
    <3>1. View(c, id)' = new
      BY <1>w, DataTypes DEF View
    <3>2. Of(IndexView(c), id) = Keys(id, old)
      BY <2>1, TouchedExact DEF WritesOver
    <3>3. Of(IndexView(c)', id) = Keys(id, new)
      BY <1>0, <3>2, WrittenEntries DEF WritesOver
    <3> QED BY <2>1, <3>1, <3>3 DEF Of, Keys
  <2>2. CASE d = c /\ i # id
    <3>1. i \in Ids /\ i \in txn[c].touched /\ i \notin raced \cup torn
      BY <1>0, <2>2, DataTypes
    <3>2. View(c, i)' = View(c, i)
      BY <1>0, <1>w, <2>2, <3>1 DEF View
    <3>3. Of(IndexView(c)', i) = Of(IndexView(c), i)
      BY <1>0, <2>2, <3>1, WrittenEntries DEF WritesOver
    <3>4. Of(IndexView(c), i) = Keys(i, View(c, i))
      BY <3>1 DEF DataInv, ViewExact
    <3> QED BY <2>2, <3>2, <3>3, <3>4 DEF Of, Keys
  <2>3. CASE d # c
    <3>1. View(d, i)' = View(d, i) /\ IndexView(d)' = IndexView(d)
      BY <1>0, <2>3 DEF View, IndexView
    <3>2. Of(IndexView(d), i) = Keys(i, View(d, i))
      BY <1>0, <2>3 DEF DataInv, ViewExact
    <3> QED BY <3>1, <3>2 DEF Of, Keys
  <2> QED BY <2>1, <2>2, <2>3
<1>5. new = NoObj \/ (new.rev = nextRev /\ nextRev' = nextRev + 1)
  BY DEF WritesOver
<1>6. nextRev' >= nextRev /\ new.rev < nextRev' /\ nextRev' \in Nat
  BY <1>5, DataTypes DEF Works
<1>7. RevsDrawn'
  <2> SUFFICES ASSUME NEW i \in Ids, NEW d \in Clients
               PROVE  objs[i].rev < nextRev' /\ disk.objs[i].rev < nextRev' /\ txn'[d].written[i].rev < nextRev'
    BY <1>0 DEF RevsDrawn
  <2>1. objs[i].rev < nextRev /\ disk.objs[i].rev < nextRev /\ txn[d].written[i].rev < nextRev
    BY DEF DataInv, RevsDrawn
  <2>2. objs[i].rev \in Nat /\ disk.objs[i].rev \in Nat /\ txn[d].written[i].rev \in Nat /\ nextRev \in Nat
    BY DataTypes
  <2>3. CASE d = c /\ i = id
    BY <1>6, <1>w, <2>1, <2>2, <2>3
  <2>4. CASE d # c \/ i # id
    <3>1. txn'[d].written[i] = txn[d].written[i]
      BY <1>0, <1>w, <2>4
    <3> QED BY <1>6, <2>1, <2>2, <3>1
  <2> QED BY <2>3, <2>4
<1>8. WrittenIsNewer'
  <2> SUFFICES ASSUME NEW d \in Clients, NEW i \in txn'[d].touched, i \notin raced'
               PROVE  txn'[d].written[i] \in {Clean, NoObj, objs'[i]} \/ txn'[d].written[i].rev > objs'[i].rev
    BY DEF WrittenIsNewer
  <2>1. CASE d = c /\ i = id
    <3>1. objs[id].rev < nextRev /\ objs[id].rev \in Nat /\ nextRev \in Nat
      BY DataTypes DEF DataInv, RevsDrawn
    <3> QED BY <1>0, <1>5, <1>w, <2>1, <3>1
  <2>2. CASE d # c \/ i # id
    <3>1. i \in txn[d].touched /\ i \in Ids /\ i \notin raced
      BY <1>0, <2>2, DataTypes
    <3>2. txn'[d].written[i] = txn[d].written[i]
      BY <1>0, <1>w, <2>2, <3>1
    <3> QED BY <1>0, <3>1, <3>2 DEF DataInv, WrittenIsNewer
  <2> QED BY <2>1, <2>2
<1> QED BY <1>1, <1>2, <1>3, <1>4, <1>7, <1>8, WorksShared DEF DataInv

\* Requests that read or write keep what the requests share.
LEMMA WorksKeeps ==
  ASSUME TypeInv, DataInv, NEW c \in Clients, NEW id \in Ids, Works(c, id)
  PROVE  DataInv'
<1>1. CASE SameOverlay(txn[c], txn'[c])
  BY <1>1, ReadsKeep
<1>2. CASE \E old, new \in ObjType : WritesOver(c, id, old, new)
  <2>1. PICK old \in ObjType, new \in ObjType : WritesOver(c, id, old, new)
    BY <1>2
  <2> QED BY <2>1, WritesKeep
<1> QED BY <1>1, <1>2 DEF Works

\* A commit leaves alone what its transaction has not touched, and it sees what it saw.
LEMMA CommitReaches ==
  ASSUME TypeInv, DataInv, NEW c \in Clients, Commits(c)
  PROVE  /\ \A id \in Ids \ txn[c].touched : objs'[id] = objs[id] /\ Of(idx', id) = Of(idx, id)
         /\ \A id \in Ids : txn[c].written[id] = Clean => objs'[id] = objs[id]
         /\ \A id \in Ids : View(c, id)' = View(c, id)
         /\ IndexView(c)' = IndexView(c)
         /\ \A d \in Clients \ {c} : \A id \in txn[d].touched \ raced :
              /\ id \notin txn[c].touched
              /\ View(d, id)' = View(d, id) /\ Of(IndexView(d), id)' = Of(IndexView(d), id)
<1>1. \A id \in Ids : objs'[id] \in {objs[id], View(c, id)}
  BY DataTypes DEF Commits, WrittenObjs
<1>2. idx' \in {idx, IndexView(c)}
  BY DEF Commits
<1>3. \A id \in Ids : txn[c].written[id] = Clean => objs'[id] = objs[id]
  BY <1>1 DEF View
<1>4. \A id \in Ids \ txn[c].touched : objs'[id] = objs[id] /\ Of(idx', id) = Of(idx, id)
  BY <1>1, <1>2, Untouched
<1>5. \A id \in Ids : View(c, id)' = View(c, id)
  BY <1>1 DEF Commits, View
<1>6. IndexView(c)' = IndexView(c)
  <2>1. IndexView(c)' = (idx' \ txn[c].gone) \cup txn[c].put
    BY DEF Commits, IndexView
  <2>2. CASE idx' = idx
    BY <2>1, <2>2 DEF IndexView
  <2>3. CASE idx' = (idx \ txn[c].gone) \cup txn[c].put
    BY <2>1, <2>3 DEF IndexView
  <2> QED BY <1>2, <2>2, <2>3 DEF IndexView
<1>7. ASSUME NEW d \in Clients \ {c}, NEW id \in txn[d].touched \ raced
      PROVE  /\ id \notin txn[c].touched
             /\ View(d, id)' = View(d, id) /\ Of(IndexView(d), id)' = Of(IndexView(d), id)
  <2>1. id \notin txn[c].touched /\ id \in Ids
    BY DataTypes DEF DataInv, TouchedByOne
  <2>2. txn'[d] = txn[d] /\ objs'[id] = objs[id] /\ Of(idx', id) = Of(idx, id)
    BY <1>4, <2>1, OfOthers DEF Commits
  <2>3. View(d, id)' = View(d, id)
    BY <2>2 DEF View
  <2>4. Of(IndexView(d), id)' = Of(IndexView(d), id)
    BY <2>2 DEF IndexView, Of
  <2> QED BY <2>1, <2>3, <2>4
<1> QED BY <1>3, <1>4, <1>5, <1>6, <1>7

\* A commit keeps what the requests share.
LEMMA CommitsKeeps ==
  ASSUME TypeInv, DataInv, NEW c \in Clients, Commits(c)
  PROVE  DataInv'
<1> USE OfOthers
<1>0. /\ UNCHANGED <<engine, nextRev, raced, left>> /\ torn \subseteq torn'
      /\ pc[c] \in {"commit", "writing"} /\ pc'[c] \in Committings /\ pc[c] # "store" /\ pc'[c] # "store"
         /\ Others(c)
      /\ txn'[c].written = txn[c].written /\ txn'[c].put = txn[c].put /\ txn'[c].gone = txn[c].gone
      /\ txn'[c].touched = txn[c].touched
  BY DEF Commits, Committings
<1>1. OverlayTouched'
  <2> SUFFICES ASSUME NEW d \in Clients
               PROVE  /\ \A i \in Ids : txn'[d].written[i] # Clean => i \in txn'[d].touched
                      /\ \A e \in txn'[d].put \cup txn'[d].gone : e[2] \in txn'[d].touched
                      /\ pc'[d] = "store" => Op(d)'.id \in txn'[d].touched
    BY DEF OverlayTouched, Op
  <2>1. CASE d = c
    BY <1>0, <2>1 DEF DataInv, OverlayTouched
  <2>2. CASE d # c
    BY <1>0, <2>2 DEF DataInv, OverlayTouched
  <2> QED BY <2>1, <2>2
<1>2. TablesUsed'
  <2> SUFFICES ASSUME NEW d \in Clients, pc'[d] \notin Committings
               PROVE  /\ (\E i \in Ids : txn'[d].written[i] # Clean) => Uses(txn'[d], "objs")
                      /\ txn'[d].put \cup txn'[d].gone # {} => Uses(txn'[d], "idx")
    BY DEF TablesUsed, Uses
  <2> QED BY <1>0 DEF DataInv, TablesUsed
<1>3. TouchedByOne'
  BY <1>0 DEF DataInv, TouchedByOne
<1>4. ReadIsCurrent'
  <2> SUFFICES ASSUME NEW d \in Clients, pc'[d] = "store", Op(d)'.id \notin raced'
               PROVE  work'[d].prev = View(d, Op(d).id)'
    BY DEF ReadIsCurrent
  <2>1. d # c
    BY <1>0
  <2>2. Op(d)' = Op(d) /\ pc[d] = "store" /\ Op(d).id \in txn[d].touched \ raced
    BY <1>0, <2>1 DEF DataInv, OverlayTouched
  <2>3. View(d, Op(d).id)' = View(d, Op(d).id)
    <3>1. PICK i \in txn[d].touched \ raced : i = Op(d).id
      BY <2>2
    <3>2. View(d, i)' = View(d, i)
      BY <2>1, CommitReaches
    <3> QED BY <2>2, <3>1, <3>2 DEF View
  <2> QED BY <1>0, <2>1, <2>2, <2>3 DEF DataInv, ReadIsCurrent
<1>5. ViewExact'
  <2> SUFFICES ASSUME NEW d \in Clients, NEW i \in txn[d].touched, i \notin raced \cup torn'
               PROVE  Of(IndexView(d), i)' = Keys(i, View(d, i))'
    BY <1>0 DEF ViewExact
  <2>1. i \in Ids
    BY DataTypes
  <2>2. View(d, i)' = View(d, i) /\ Of(IndexView(d), i)' = Of(IndexView(d), i)
    BY <2>1, CommitReaches DEF Of
  <2>3. Of(IndexView(d), i) = Keys(i, View(d, i))
    BY <1>0 DEF DataInv, ViewExact
  <2> QED BY <2>2, <2>3 DEF Keys
<1>f. FailuresKnown'
  <2> SUFFICES ASSUME NEW d \in Clients
               PROVE  /\ pc'[d] \notin Committings => txn'[d].failed = {}
                      /\ \A table \in txn'[d].failed : ~Uses(txn'[d], table)
                      /\ txn'[d].failed # {} => txn'[d].touched \subseteq torn'
    BY DEF FailuresKnown, Uses
  <2>1. CASE d # c
    <3>1. txn'[d] = txn[d] /\ pc'[d] = pc[d]
      BY <1>0, <2>1
    <3> QED BY <1>0, <3>1 DEF DataInv, FailuresKnown
  <2>2. CASE d = c
    BY <1>0, <2>2 DEF Commits
  <2> QED BY <2>1, <2>2
<1>6. StoredIsSeen'
  <2> SUFFICES ASSUME NEW d \in Clients, NEW i \in txn[d].touched \ raced
               PROVE  /\ Stored(d, "objs")' => objs'[i] = View(d, i)'
                      /\ Stored(d, "idx")' => Of(idx, i)' = Of(IndexView(d), i)'
    BY <1>0 DEF StoredIsSeen
  <2>1. i \in Ids
    BY DataTypes
  <2>2. CASE d = c
    <3>1. View(c, i)' = View(c, i) /\ IndexView(c)' = IndexView(c)
      BY <2>1, CommitReaches
    <3>2. Stored(c, "objs")' => objs'[i] = View(c, i)
      <4>1. CASE objs' = WrittenObjs(c)
        BY <2>1, <4>1 DEF WrittenObjs
      <4>2. CASE objs' = objs /\ WrittenObjs(c) = objs
        BY <2>1, <4>2 DEF WrittenObjs
      <4>3. CASE objs' = objs /\ Stored(c, "objs")
        BY <2>2, <4>3 DEF DataInv, StoredIsSeen
      <4> QED BY <4>1, <4>2, <4>3 DEF Commits
    <3>3. Stored(c, "idx")' => Of(idx', i) = Of(IndexView(c), i)
      <4>1. CASE idx' = IndexView(c)
        BY <4>1
      <4>2. CASE idx' = idx /\ Stored(c, "idx")
        BY <2>2, <4>2 DEF DataInv, StoredIsSeen
      <4> QED BY <4>1, <4>2 DEF Commits
    <3> QED BY <2>2, <3>1, <3>2, <3>3 DEF Of
  <2>3. CASE d # c
    <3>1. \A table : Stored(d, table)' => Stored(d, table)
      BY <1>0, <2>3 DEF Stored, Uses
    <3>2. objs'[i] = objs[i] /\ Of(idx', i) = Of(idx, i) /\ View(d, i)' = View(d, i)
            /\ Of(IndexView(d), i)' = Of(IndexView(d), i)
      BY <2>1, <2>3, CommitReaches
    <3> QED BY <2>3, <3>1, <3>2 DEF DataInv, StoredIsSeen, Of
  <2> QED BY <2>2, <2>3
<1>7. LeftUnlessWritten'
  <2> SUFFICES ASSUME NEW i \in Ids \ raced, \A d \in Clients : Stored(d, "objs")' => txn'[d].written[i] = Clean
               PROVE  objs'[i] = left[i]
    BY <1>0 DEF LeftUnlessWritten
  <2>1. objs'[i] = objs[i]
    BY <1>0, CommitReaches DEF Commits
  <2>2. \A d \in Clients : Stored(d, "objs") => txn[d].written[i] = Clean
    <3> SUFFICES ASSUME NEW d \in Clients, Stored(d, "objs") PROVE txn[d].written[i] = Clean
      OBVIOUS
    <3>1. CASE d = c
      BY <1>0, <3>1 DEF Commits
    <3>2. CASE d # c
      <4>1. txn'[d] = txn[d] /\ pc'[d] = pc[d]
        BY <1>0, <3>2
      <4>2. Stored(d, "objs")'
        BY <4>1 DEF Stored, Uses
      <4> QED BY <4>1, <4>2
    <3> QED BY <3>1, <3>2
  <2> QED BY <2>1, <2>2 DEF DataInv, LeftUnlessWritten
<1>8. DiskFollows'
  BY <1>0 DEF Commits, DiskFollows
<1>9. TablesExact'
  <2> SUFFICES ASSUME NEW i \in Ids, i \notin raced \cup torn',
        \A d \in Clients : pc'[d] = "writing" => i \notin txn'[d].touched
               PROVE  Of(idx', i) = Keys(i, objs'[i]) /\ Of(disk.idx, i)' = Keys(i, disk'.objs[i])
    BY <1>0 DEF TablesExact, Of, Keys
  <2>1. Of(idx', i) = Keys(i, objs'[i])
    <3>1. CASE i \notin txn[c].touched
      <4>1. \A d \in Clients : pc[d] = "writing" => i \notin txn[d].touched
        BY <1>0, <3>1
      <4>2. Of(idx, i) = Keys(i, objs[i])
        BY <1>0, <4>1 DEF DataInv, TablesExact
      <4> QED BY <3>1, <4>2, CommitReaches
    <3>2. CASE i \in txn[c].touched
      <4>1. pc'[c] = "written"
        BY <1>0, <3>2 DEF Committings
      <4>f. txn'[c].failed = {}
        BY <1>0, <3>2 DEF Commits
      <4>2. objs'[i] = View(c, i)' /\ Of(idx', i) = Of(IndexView(c), i)'
        BY <1>0, <1>6, <3>2, <4>1, <4>f DEF StoredIsSeen, Stored, Of
      <4>3. Of(IndexView(c), i)' = Keys(i, View(c, i))'
        BY <1>0, <1>5, <3>2 DEF ViewExact
      <4> QED BY <4>2, <4>3 DEF Keys
    <3> QED BY <3>1, <3>2
  <2>2. CASE engine # "sandwich"
    BY <1>0, <2>1, <2>2 DEF Commits, Of, Keys
  <2>3. CASE engine = "sandwich"
    <3>1. \A d \in Clients : pc[d] # "writing"
      BY <2>3 DEF TypeInv, PhasesAgree, PhaseOf
    <3>2. Of(disk.idx, i) = Keys(i, disk.objs[i]) /\ disk' = disk
      BY <1>0, <2>3, <3>1 DEF Commits, DataInv, TablesExact
    <3> QED BY <2>1, <3>2 DEF Of, Keys
  <2> QED BY <2>1, <2>2, <2>3
<1>10. RevsDrawn'
  <2> SUFFICES ASSUME NEW i \in Ids
               PROVE  /\ objs'[i].rev < nextRev /\ disk'.objs[i].rev < nextRev
                      /\ \A d \in Clients : txn'[d].written[i].rev < nextRev
    BY <1>0 DEF RevsDrawn
  <2>1. objs'[i].rev < nextRev
    BY DataTypes DEF Commits, WrittenObjs, View, DataInv, RevsDrawn
  <2>2. disk'.objs[i].rev < nextRev
    BY <2>1 DEF Commits, DataInv, RevsDrawn
  <2>3. \A d \in Clients : txn'[d].written[i].rev < nextRev
    BY <1>0 DEF DataInv, RevsDrawn
  <2> QED BY <2>1, <2>2, <2>3
<1>11. WrittenIsNewer'
  <2> SUFFICES ASSUME NEW d \in Clients, NEW i \in txn[d].touched \ raced
               PROVE  txn'[d].written[i] \in {Clean, NoObj, objs'[i]} \/ txn'[d].written[i].rev > objs'[i].rev
    BY <1>0 DEF WrittenIsNewer
  <2>1. i \in Ids /\ txn'[d].written[i] = txn[d].written[i]
    BY <1>0, DataTypes
  <2>2. txn[d].written[i] \in {Clean, NoObj, objs[i]} \/ txn[d].written[i].rev > objs[i].rev
    BY DEF DataInv, WrittenIsNewer
  <2>3. CASE objs'[i] = objs[i]
    BY <2>1, <2>2, <2>3
  <2>4. CASE d = c /\ objs'[i] = View(c, i)
    BY <2>1, <2>2, <2>4 DEF View
  <2>5. d # c => objs'[i] = objs[i]
    BY <2>1, CommitReaches
  <2>6. objs'[i] \in {objs[i], View(c, i)}
    BY <2>1, DataTypes DEF Commits, WrittenObjs
  <2> QED BY <2>3, <2>4, <2>5, <2>6
<1> QED BY <1>1, <1>2, <1>3, <1>4, <1>5, <1>6, <1>7, <1>8, <1>9, <1>10, <1>11, <1>f DEF DataInv

\* A step of one request, as the data parts see it.
LEMMA PassesWhen ==
  ASSUME TypeInv, NEW c \in Clients, NEW p, NEW m, NEW w, NEW t,
         UNCHANGED <<engine, store, nextRev, history>>,
         pc[c] \notin Committings, p \notin {"store"} \cup Committings,
         pc' = [pc EXCEPT ![c] = p], msg' = [msg EXCEPT ![c] = m], work' = [work EXCEPT ![c] = w],
         txn' = [txn EXCEPT ![c] = t],
         t = NoTxn \/ (SameOverlay(txn[c], t) /\ t.touched = txn[c].touched)
  PROVE  Passes(c)
<1>1. pc'[c] = p /\ txn'[c] = t /\ Others(c)
  BY DEF TypeInv, TypeOK, RequestTypes, Others
<1>2 left' = [i \in Ids |-> IF pc[c] = "written" /\ Kept(c, i) THEN txn[c].written[i] ELSE left[i]]
  BY DataTypes DEF history, Committings
<1> QED BY <1>1, <1>2 DEF Passes, Committings, history

\* A request that keeps its transaction.
LEMMA SameIsSame ==
  ASSUME NEW t
  PROVE  SameOverlay(t, t)
  BY DEF SameOverlay

\* A request that gives up.
LEMMA FailPasses ==
  ASSUME TypeInv, NEW c \in Clients, Fail(c), pc[c] \notin Committings
  PROVE  Passes(c)
<1>1. /\ UNCHANGED <<engine, store, nextRev, history>> /\ pc' = [pc EXCEPT ![c] = "idle"]
      /\ msg' = [msg EXCEPT ![c] = NoMsg] /\ work' = [work EXCEPT ![c] = NoWork]
         /\ txn' = [txn EXCEPT ![c] = NoTxn]
  BY DEF Fail, Leave
<1>2. "idle" \notin {"store"} \cup Committings
  BY DEF Committings
<1> QED BY <1>1, <1>2, PassesWhen

\* A request whose operation is done, without a write.
LEMMA DonePasses ==
  ASSUME TypeInv, NEW c \in Clients, Done(c), UNCHANGED <<engine, txn, store, nextRev, history>>,
         pc[c] \notin Committings
  PROVE  Passes(c)
<1>1. PICK m : msg' = [msg EXCEPT ![c] = m]
  BY DEF Done
<1>2. pc' = [pc EXCEPT ![c] = "call"] /\ work' = [work EXCEPT ![c] = NoWork]
        /\ txn' = [txn EXCEPT ![c] = txn[c]]
  BY PartTypes DEF Done
<1>3. "call" \notin {"store"} \cup Committings
  BY DEF Committings
<1> QED BY <1>1, <1>2, <1>3, SameIsSame, PassesWhen

\* Every step that neither reads an object nor commits.
LEMMA StepsPass ==
  ASSUME TypeInv, NEW c \in Clients,
         \/ Receive(c) \/ BeginOp(c) \/ EndBatch(c) \/ OperationFails(c) \/ OpenCursor(c) \/ CloseCursor(c)
         \/ Rebegin(c) \/ ChangeKinds(c) \/ BeginReload(c) \/ EndReload(c) \/ NothingWritten(c) \/ Finish(c)
         \/ Deadlock(c)
  PROVE  Passes(c)
<1> USE SameIsSame
<1>0. /\ msg = [msg EXCEPT ![c] = msg[c]] /\ work = [work EXCEPT ![c] = work[c]]
         /\ txn = [txn EXCEPT ![c] = txn[c]]
  BY PartTypes
<1>1. CASE Receive(c)
  <2>1. PICK m : msg' = [msg EXCEPT ![c] = m]
    BY <1>1 DEF Receive
  <2>2. /\ pc[c] = "idle" /\ pc' = [pc EXCEPT ![c] = "call"] /\ work' = [work EXCEPT ![c] = work[c]]
        /\ txn' = [txn EXCEPT ![c] = txn[c]] /\ UNCHANGED <<engine, store, nextRev, history>>
    BY <1>0, <1>1 DEF Receive
  <2>3. "idle" \notin Committings /\ "call" \notin {"store"} \cup Committings
    BY DEF Committings
  <2> QED BY <2>1, <2>2, <2>3, PassesWhen
<1>2. CASE BeginOp(c)
  <2>1. PICK p \in {"kind", "query", "fetch"} : pc' = [pc EXCEPT ![c] = p]
    BY <1>2 DEF BeginOp
  <2>2. /\ pc[c] = "call" /\ msg' = [msg EXCEPT ![c] = msg[c]] /\ work' = [work EXCEPT ![c] = work[c]]
        /\ txn' = [txn EXCEPT ![c] = txn[c]] /\ UNCHANGED <<engine, store, nextRev, history>>
    BY <1>0, <1>2 DEF BeginOp
  <2>3. "call" \notin Committings /\ p \notin {"store"} \cup Committings
    BY DEF Committings
  <2> QED BY <2>1, <2>2, <2>3, PassesWhen
<1>3. CASE EndBatch(c)
  <2>1. /\ pc[c] = "call" /\ pc' = [pc EXCEPT ![c] = "commit"] /\ msg' = [msg EXCEPT ![c] = msg[c]]
        /\ work' = [work EXCEPT ![c] = work[c]] /\ txn' = [txn EXCEPT ![c] = txn[c]]
        /\ UNCHANGED <<engine, store, nextRev, history>>
    BY <1>0, <1>3 DEF EndBatch
  <2>2. "call" \notin Committings /\ "commit" \notin {"store"} \cup Committings
    BY DEF Committings
  <2> QED BY <2>1, <2>2, PassesWhen
<1>4. CASE OperationFails(c) \/ EndReload(c) \/ NothingWritten(c)
  BY <1>4, FailPasses DEF OperationFails, EndReload, NothingWritten, Committings
<1>5. CASE OpenCursor(c)
  <2>1. PICK w : work' = [work EXCEPT ![c] = w]
    BY <1>5 DEF OpenCursor
  <2> DEFINE t == Use(txn[c], "idx")
  <2>2. txn' = [txn EXCEPT ![c] = t] /\ pc[c] = "query" /\ pc' = [pc EXCEPT ![c] = "next"]
        /\ msg' = [msg EXCEPT ![c] = msg[c]] /\ UNCHANGED <<engine, store, nextRev, history>>
    BY <1>0, <1>5 DEF OpenCursor
  <2>3. SameOverlay(txn[c], t) /\ t.touched = txn[c].touched
    <3>1. txn[c] \in TxnType
      BY PartTypes
    <3> QED BY <3>1, UseEffect DEF SameOverlay
  <2>4. "query" \notin Committings /\ "next" \notin {"store"} \cup Committings
    BY DEF Committings
  <2> HIDE DEF t
  <2> QED BY <2>1, <2>2, <2>3, <2>4, PassesWhen
<1>6. CASE CloseCursor(c)
  <2>1. CASE Done(c)
    BY <1>6, <2>1, DonePasses DEF CloseCursor, Committings
  <2>2. CASE ~Done(c)
    <3>1. PICK p \in {"commit", "query", "kind"} : pc' = [pc EXCEPT ![c] = p]
      BY <1>6, <2>2 DEF CloseCursor
    <3>2. PICK w : work' = [work EXCEPT ![c] = w]
      <4>1. CASE UNCHANGED work
        BY <1>0, <4>1
      <4> QED BY <1>6, <2>2, <4>1 DEF CloseCursor
    <3>3. /\ pc[c] = "next" /\ msg' = [msg EXCEPT ![c] = msg[c]] /\ txn' = [txn EXCEPT ![c] = txn[c]]
          /\ UNCHANGED <<engine, store, nextRev, history>>
      BY <1>0, <1>6, <2>2 DEF CloseCursor
    <3>4. "next" \notin Committings /\ p \notin {"store"} \cup Committings
      BY DEF Committings
    <3> QED BY <3>1, <3>2, <3>3, <3>4, PassesWhen
  <2> QED BY <2>1, <2>2
<1>7. CASE Rebegin(c)
  <2>1. /\ pc[c] = "rebegin" /\ pc' = [pc EXCEPT ![c] = "query"] /\ msg' = [msg EXCEPT ![c] = msg[c]]
        /\ work' = [work EXCEPT ![c] = NoWork] /\ txn' = [txn EXCEPT ![c] = txn[c]]
        /\ UNCHANGED <<engine, store, nextRev, history>>
    BY <1>0, <1>7 DEF Rebegin
  <2>2. "rebegin" \notin Committings /\ "query" \notin {"store"} \cup Committings
    BY DEF Committings
  <2> QED BY <2>1, <2>2, PassesWhen
<1>8. CASE ChangeKinds(c)
  <2>1. CASE Done(c) /\ UNCHANGED txn
    BY <1>8, <2>1, DonePasses DEF ChangeKinds, Committings
  <2>2. CASE Leave(c) /\ pc' = [pc EXCEPT ![c] = "reload"] /\ UNCHANGED <<msg, work>>
    <3>1. /\ pc[c] = "kind" /\ msg' = [msg EXCEPT ![c] = msg[c]] /\ work' = [work EXCEPT ![c] = work[c]]
          /\ txn' = [txn EXCEPT ![c] = NoTxn] /\ UNCHANGED <<engine, store, nextRev, history>>
      BY <1>0, <1>8, <2>2 DEF ChangeKinds, Leave
    <3>2. "kind" \notin Committings /\ "reload" \notin {"store"} \cup Committings
      BY DEF Committings
    <3> QED BY <2>2, <3>1, <3>2, PassesWhen
  <2> QED BY <1>8, <2>1, <2>2 DEF ChangeKinds
<1>9. CASE BeginReload(c)
  <2>1. /\ pc[c] = "reload" /\ pc' = [pc EXCEPT ![c] = "reloading"] /\ msg' = [msg EXCEPT ![c] = msg[c]]
        /\ work' = [work EXCEPT ![c] = work[c]] /\ txn' = [txn EXCEPT ![c] = txn[c]]
        /\ UNCHANGED <<engine, store, nextRev, history>>
    BY <1>0, <1>9 DEF BeginReload
  <2>2. "reload" \notin Committings /\ "reloading" \notin {"store"} \cup Committings
    BY DEF Committings
  <2> QED BY <2>1, <2>2, PassesWhen
<1>10. CASE Finish(c)
  <2>1. txn' = [txn EXCEPT ![c] = NoTxn] /\ pc[c] = "written"
          /\ UNCHANGED <<engine, store, nextRev, raced, torn>>
    BY <1>10 DEF Finish, Leave
  <2>2. PICK p \in {"rebegin", "idle"} : pc' = [pc EXCEPT ![c] = p]
    BY <1>10 DEF Finish
  <2>3. \A d \in Clients \ {c} : work'[d] = work[d] /\ msg'[d] = msg[d]
    BY <1>10 DEF Finish, TypeInv, TypeOK, RequestTypes
  <2>4. txn'[c] = NoTxn /\ pc'[c] = p /\ Others(c)
    BY <2>1, <2>2, <2>3 DEF TypeInv, TypeOK, RequestTypes, Others
  <2>5 left' = [i \in Ids |-> IF pc[c] = "written" /\ Kept(c, i) THEN txn[c].written[i] ELSE left[i]]
    BY <1>10, <2>1, FinishLeaves DEF Leaves, Kept
  <2> QED BY <2>1, <2>4, <2>5 DEF Passes, Committings
<1>11. CASE Deadlock(c)
  <2>1. pc[c] \notin Committings
    BY <1>11 DEF Deadlock, Waits, Wants, Committings
  <2>2. CASE Fail(c)
    BY <2>1, <2>2, FailPasses
  <2>3. CASE ~Fail(c)
    <3>1. PICK m : msg' = [msg EXCEPT ![c] = m]
      BY <1>11, <2>3 DEF Deadlock
    <3>2. /\ pc' = [pc EXCEPT ![c] = "call"] /\ work' = [work EXCEPT ![c] = NoWork]
             /\ txn' = [txn EXCEPT ![c] = NoTxn]
          /\ UNCHANGED <<engine, store, nextRev, history>>
      BY <1>11, <2>3 DEF Deadlock
    <3>3. "call" \notin {"store"} \cup Committings
      BY DEF Committings
    <3> QED BY <2>1, <3>1, <3>2, <3>3, PassesWhen
  <2> QED BY <2>2, <2>3
<1> QED BY <1>1, <1>2, <1>3, <1>4, <1>5, <1>6, <1>7, <1>8, <1>9, <1>10, <1>11

\* get for update.
LEMMA FetchWorks ==
  ASSUME TypeInv, NEW c \in Clients, Fetch(c)
  PROVE  Op(c).id \in Ids /\ Works(c, Op(c).id)
<1> DEFINE id == Op(c).id
<1> DEFINE u == [txn[c] EXCEPT !.touched = @ \cup {id}]
<1> DEFINE t == Use(u, "objs")
<1>1. id \in Ids
  BY OpType DEF Fetch, TypeInv, PhasesAgree, PhaseOf
<1>2. txn' = [txn EXCEPT ![c] = t] /\ work' = [work EXCEPT ![c].prev = View(c, id)]
        /\ pc' = [pc EXCEPT ![c] = "store"]
      /\ pc[c] = "fetch" /\ UNCHANGED <<engine, msg, store, nextRev, torn, left>> /\ Race(c, id)
  BY DEF Fetch
<1>3. u \in TxnType /\ u.written = txn[c].written /\ u.put = txn[c].put /\ u.gone = txn[c].gone
      /\ u.tables = txn[c].tables /\ u.touched = txn[c].touched \cup {id} /\ u.failed = txn[c].failed
  BY <1>1, PartTypes DEF TxnType
<1> HIDE DEF u
<1>4. SameOverlay(txn[c], t) /\ t.touched = txn[c].touched \cup {id}
  <2>1. \A table : Uses(txn[c], table) => Uses(u, table)
    BY <1>3 DEF Uses
  <2> QED BY <1>3, <2>1, UseEffect DEF SameOverlay
<1> HIDE DEF t
<1>5. txn'[c] = t /\ pc'[c] = "store" /\ Others(c)
  BY <1>2 DEF TypeInv, TypeOK, RequestTypes, Others
<1>6. work'[c].prev = View(c, id) /\ Op(c)' = Op(c)
  <2>1. work[c] \in WorkType
    BY PartTypes
  <2> QED BY <1>2, <2>1 DEF WorkType, TypeInv, TypeOK, RequestTypes, Op
<1>7. nextRev' \in {nextRev, nextRev + 1}
  BY <1>2
<1>8. raced \subseteq raced' /\ (id \in raced' \/ \A d \in Clients \ {c} : id \notin txn[d].touched)
  BY <1>2 DEF Race
<1> HIDE DEF id
<1> QED BY <1>1, <1>2, <1>4, <1>5, <1>6, <1>7, <1>8 DEF Works, Committings, id

\* putImpl and putObj, or delObj: what is written replaces what was read.
LEMMA StoreWorks ==
  ASSUME TypeInv, DataInv, NEW c \in Clients, Store(c)
  PROVE  Passes(c) \/ (Op(c).id \in Ids /\ Works(c, Op(c).id))
<1>1. pc[c] = "store" /\ pc[c] \notin Committings
  BY DEF Store, Committings
<1>2. CASE Fail(c)
  BY <1>1, <1>2, FailPasses
<1>3. CASE Done(c) /\ UNCHANGED <<engine, txn, store, nextRev, bounds, history>>
  BY <1>1, <1>3, DonePasses
<1>4. CASE /\ ~Idle(c) /\ Done(c)
           /\ txn' = [txn EXCEPT ![c] = Write(@, Op(c).id, work[c].prev, NewObj(c))]
           /\ DrawRev(NewObj(c) # NoObj)
           /\ UNCHANGED <<engine, store, bounds, history>>
  <2> DEFINE id == Op(c).id
  <2> DEFINE old == work[c].prev
  <2> DEFINE new == NewObj(c)
  <2> DEFINE t == Write(txn[c], id, old, new)
  <2>1. id \in Ids
    BY <1>1, OpType DEF TypeInv, PhasesAgree, PhaseOf
  <2>2. old \in ObjType /\ new \in ObjType /\ (new = NoObj \/ new.rev = nextRev)
    BY <1>1, <1>4, PartTypes, NewObjType DEF WorkType
  <2>3. txn' = [txn EXCEPT ![c] = t]
    BY <1>4
  <2>4. id \in txn[c].touched /\ (id \notin raced => old = View(c, id))
    BY <1>1 DEF DataInv, OverlayTouched, ReadIsCurrent
  <2>5. nextRev' = IF new # NoObj THEN nextRev + 1 ELSE nextRev
    BY <1>4 DEF DrawRev
  <2>6. pc' = [pc EXCEPT ![c] = "call"] /\ msg' = [msg EXCEPT ![c].at = @ + 1]
          /\ work' = [work EXCEPT ![c] = NoWork]
    BY <1>4 DEF Done
  <2> HIDE DEF id, old, new
  <2>7. t.touched = txn[c].touched /\ Wrote(txn[c], t, id, old, new)
    <3>1. txn[c] \in TxnType
      BY PartTypes
    <3> QED BY <2>1, <2>2, <3>1, WriteEffect DEF Wrote
  <2> HIDE DEF t
  <2>8. txn'[c] = t /\ pc'[c] = "call" /\ Others(c)
    BY <2>3, <2>6 DEF TypeInv, TypeOK, RequestTypes, Others
  <2>9. UNCHANGED <<engine, store, torn, left, raced>>
    BY <1>4 DEF history
  <2>10. WritesOver(c, id, old, new)
    BY <2>2, <2>4, <2>5, <2>7, <2>8, <2>9 DEF WritesOver
  <2>11. id \in raced \/ \A d \in Clients \ {c} : id \notin txn[d].touched
    BY <2>4 DEF DataInv, TouchedByOne
  <2>12. txn'[c].touched = txn[c].touched \cup {id}
    BY <2>4, <2>7, <2>8
  <2>13. Works(c, id)
    BY <1>1, <2>2, <2>5, <2>8, <2>9, <2>10, <2>11, <2>12 DEF Works, Committings
  <2> QED BY <2>1, <2>13 DEF id
<1> QED BY <1>2, <1>3, <1>4 DEF Store

\* delImpl for the next object of a query.
LEMMA DeleteNextWorks ==
  ASSUME TypeInv, NEW c \in Clients, DeleteNext(c)
  PROVE  \E id \in Ids : Works(c, id)
<1>1. PICK id \in Ids, prev \in ObjType, read \in TxnType, idle \in BOOLEAN : \E new :
           /\ DeletesNext(c, id, prev, new, read, idle)
           /\ read.touched = txn[c].touched \cup {id} /\ read.written = txn[c].written
           /\ read.put = txn[c].put /\ read.gone = txn[c].gone /\ read.failed = txn[c].failed
           /\ Uses(read, "objs") /\ \A table : Uses(txn[c], table) => Uses(read, table)
           /\ ~idle => new \in ObjType /\ (new = NoObj \/ new.rev = nextRev)
  BY DeleteNextCases
<1>2. PICK new :
           /\ DeletesNext(c, id, prev, new, read, idle)
           /\ ~idle => new \in ObjType /\ (new = NoObj \/ new.rev = nextRev)
  BY <1>1
<1>3. SameOverlay(txn[c], read) /\ read.touched = txn[c].touched \cup {id}
  BY <1>1 DEF SameOverlay
<1>4. pc[c] = "next" /\ pc' = pc /\ msg' = msg /\ UNCHANGED <<engine, store, torn, left>>
  BY DEF DeleteNext
<1>5. raced \subseteq raced' /\ (id \in raced' \/ \A d \in Clients \ {c} : id \notin txn[d].touched)
  BY <1>2 DEF DeletesNext, Race
<1>6. prev = View(c, id)
  BY <1>2 DEF DeletesNext
<1>7. \A d \in Clients \ {c} : work'[d] = work[d]
  BY <1>2 DEF DeletesNext, TypeInv, TypeOK, RequestTypes
<1>8. "next" \notin Committings
  BY DEF Committings
<1>9. CASE idle
  <2>1. txn' = [txn EXCEPT ![c] = read] /\ nextRev' = nextRev
    BY <1>2, <1>9 DEF DeletesNext, DrawRev
  <2>2. txn'[c] = read /\ Others(c)
    BY <1>4, <1>7, <2>1 DEF TypeInv, TypeOK, RequestTypes, Others
  <2> QED BY <1>3, <1>4, <1>5, <1>8, <2>1, <2>2 DEF Works
<1>10. CASE ~idle
  <2> DEFINE t == Write(read, id, prev, new)
  <2>1. txn' = [txn EXCEPT ![c] = t] /\ nextRev' = IF new # NoObj THEN nextRev + 1 ELSE nextRev
    BY <1>2, <1>10 DEF DeletesNext, DrawRev
  <2>2. new \in ObjType /\ (new = NoObj \/ new.rev = nextRev)
    BY <1>2, <1>10
  <2>3. Wrote(read, t, id, prev, new) /\ t.touched = read.touched
    BY <2>2, WriteEffect DEF Wrote
  <2>4. Wrote(txn[c], t, id, prev, new)
    BY <1>1, <2>3 DEF Wrote
  <2> HIDE DEF t
  <2>5. txn'[c] = t /\ Others(c)
    BY <1>4, <1>7, <2>1 DEF TypeInv, TypeOK, RequestTypes, Others
  <2>6. WritesOver(c, id, prev, new)
    BY <1>4, <1>6, <2>1, <2>2, <2>4, <2>5 DEF WritesOver
  <2> QED BY <1>3, <1>4, <1>5, <1>8, <2>1, <2>2, <2>3, <2>5, <2>6 DEF Works
<1> QED BY <1>9, <1>10

\* With nothing pending a request sees what is committed.
LEMMA NothingPending ==
  ASSUME TypeInv, NEW c \in Clients
  PROVE  /\ (\A i \in Ids : txn[c].written[i] = Clean) => WrittenObjs(c) = objs
         /\ txn[c].put \cup txn[c].gone = {} => IndexView(c) = idx
  BY DataTypes DEF WrittenObjs, View, IndexView

\* sandwich and Berkeley write both tables.
LEMMA WholeCommits ==
  ASSUME TypeInv, DataInv, NEW c \in Clients, CommitWhole(c)
  PROVE  Commits(c)
<1>1. pc'[c] = "written" /\ Others(c)
  BY DEF CommitWhole, TypeInv, TypeOK, RequestTypes, Others
<1>2. disk' = IF engine = "sandwich" THEN disk ELSE [objs |-> objs', idx |-> idx']
  BY DEF CommitWhole, Synced
<1>3. pc[c] = "commit" /\ txn' = txn /\ UNCHANGED <<engine, nextRev, raced, torn, left>>
  BY DEF CommitWhole, history
<1>4. txn[c].failed = {}
  BY <1>3 DEF DataInv, FailuresKnown, Committings
<1>5. Stored(c, "objs")'
  BY <1>1, <1>3, <1>4 DEF Stored
<1>6. objs' = WrittenObjs(c) /\ idx' = IndexView(c)
  BY DEF CommitWhole
<1> QED BY <1>1, <1>2, <1>3, <1>4, <1>5, <1>6 DEF Commits, Committings

\* MojDbLevelEnvTxn::commitImpl writes one table, fails to write it, or has none.
LEMMA TableCommits ==
  ASSUME TypeInv, DataInv, NEW c \in Clients, CommitTable(c)
  PROVE  Commits(c)
<1>1. /\ pc[c] \in {"commit", "writing"} /\ engine = "leveldb"
         /\ UNCHANGED <<engine, msg, work, nextRev, raced, left>>
      /\ disk' = [objs |-> objs', idx |-> idx']
  BY DEF CommitTable, Synced
<1>2. PICK p \in {"written", "writing"} : pc' = [pc EXCEPT ![c] = p] /\ (p = "written" => txn'[c].tables = <<>>)
  BY DEF CommitTable
<1>3. pc'[c] = p
  BY <1>2 DEF TypeInv, TypeOK, RequestTypes
<1>4. ASSUME NEW table \in {"objs", "idx"}, ~Uses(txn[c], table), table \notin txn[c].failed
      PROVE  Stored(c, table) \/ (table = "objs" /\ WrittenObjs(c) = objs) \/ (table = "idx" /\ IndexView(c) = idx)
  <2>1. CASE pc[c] = "writing"
    BY <1>4, <2>1 DEF Stored
  <2>2. CASE pc[c] = "commit"
    BY <1>4, <2>2, NothingPending DEF DataInv, TablesUsed, Committings
  <2> QED BY <1>1, <2>1, <2>2
<1>a. /\ \A table \in txn[c].failed : ~Uses(txn[c], table)
      /\ txn[c].failed # {} => txn[c].touched \subseteq torn
  BY DEF DataInv, FailuresKnown
<1>5. CASE txn[c].tables = <<>> /\ UNCHANGED <<objs, idx, txn, failures, torn>>
  <2>1. \A table : ~Uses(txn[c], table)
    BY <1>5 DEF Uses
  <2>2. Others(c)
    BY <1>1, <1>2, <1>5 DEF TypeInv, TypeOK, RequestTypes, Others
  <2>3. Stored(c, "objs") => Stored(c, "objs")'
    BY <1>3, <1>5 DEF Stored, Uses
  <2>4. ASSUME NEW table \in {"objs", "idx"}, Stored(c, table)' PROVE table \notin txn[c].failed
    BY <1>5, <2>4 DEF Stored
  <2> QED BY <1>1, <1>3, <1>4, <1>5, <1>a, <2>1, <2>2, <2>3, <2>4 DEF Commits, Committings
<1>6. CASE txn[c].tables # <<>>
  <2> DEFINE hd == Head(txn[c].tables)
  <2>1. txn[c] \in TxnType
    BY PartTypes
  <2>2. PICK f \in SUBSET Tables :
            /\ txn' = [txn EXCEPT ![c].tables = Tail(@), ![c].failed = f]
            /\ \/ f = txn[c].failed /\ torn' = torn
                  /\ objs' = (IF hd = "objs" THEN WrittenObjs(c) ELSE objs)
                  /\ idx' = (IF hd = "idx" THEN IndexView(c) ELSE idx)
               \/ f = txn[c].failed \cup {hd} /\ torn' = torn \cup txn[c].touched /\ objs' = objs /\ idx' = idx
    <3>1. CASE /\ txn' = [txn EXCEPT ![c].tables = Tail(@)] /\ torn' = torn
               /\ objs' = (IF hd = "objs" THEN WrittenObjs(c) ELSE objs)
               /\ idx' = (IF hd = "idx" THEN IndexView(c) ELSE idx)
      <4>1. txn' = [txn EXCEPT ![c].tables = Tail(@), ![c].failed = txn[c].failed] /\ txn[c].failed \subseteq Tables
        BY <2>1, <3>1 DEF TypeInv, TypeOK, RequestTypes, TxnType
      <4> QED BY <3>1, <4>1
    <3>2. CASE /\ txn' = [txn EXCEPT ![c].tables = Tail(@), ![c].failed = @ \cup {hd}]
               /\ torn' = torn \cup txn[c].touched /\ objs' = objs /\ idx' = idx
      <4>1. txn[c].failed \cup {hd} \subseteq Tables
        BY <1>6, <2>1, TablesType DEF Tables, TxnType
      <4>2. txn' = [txn EXCEPT ![c].tables = Tail(@), ![c].failed = txn[c].failed \cup {hd}]
        BY <3>2
      <4> QED BY <3>2, <4>1, <4>2
    <3> QED BY <1>6, <3>1, <3>2 DEF CommitTable
  <2> DEFINE t == [txn[c] EXCEPT !.tables = Tail(@), !.failed = f]
  <2>3. txn' = [txn EXCEPT ![c] = t]
    BY <2>2
  <2>4. /\ t.written = txn[c].written /\ t.put = txn[c].put /\ t.gone = txn[c].gone
        /\ t.touched = txn[c].touched /\ t.failed = f /\ t.tables = Tail(txn[c].tables)
    BY <2>1 DEF TxnType
  <2>5. hd \in {"objs", "idx"} /\ Uses(txn[c], hd) /\ ~Uses(t, hd)
    BY <1>6, <2>1, <2>4, TablesType DEF Uses
  <2>6. \A table : Uses(txn[c], table) => hd = table \/ Uses(t, table)
    <3>1. \A table : Uses(t, table) <=> \E i \in DOMAIN Tail(txn[c].tables) : Tail(txn[c].tables)[i] = table
      BY <2>4 DEF Uses
    <3> HIDE DEF t
    <3> QED BY <1>6, <2>1, <3>1, TablesType
  <2>b. \A table : Uses(t, table) => Uses(txn[c], table)
    <3>1. \A table : Uses(t, table) <=> \E i \in DOMAIN Tail(txn[c].tables) : Tail(txn[c].tables)[i] = table
      BY <2>4 DEF Uses
    <3> HIDE DEF t
    <3> QED BY <1>6, <2>1, <3>1, TablesType
  <2> HIDE DEF t, hd
  <2>7. txn'[c] = t /\ Others(c)
    BY <1>1, <1>2, <2>3 DEF TypeInv, TypeOK, RequestTypes, Others
  <2>8. hd \notin txn[c].failed
    BY <1>a, <2>5
  <2>9. ASSUME NEW table \in {"objs", "idx"}, Stored(c, table)'
        PROVE  table \notin f /\ ~Uses(t, table)
    <3>1. table \notin f
      BY <2>4, <2>7, <2>9 DEF Stored
    <3>2. CASE pc'[c] = "written"
      <4>1. txn'[c].tables = <<>>
        BY <1>2, <1>3, <3>2
      <4> QED BY <2>7, <3>1, <4>1 DEF Uses
    <3>3. CASE pc'[c] # "written"
      BY <2>7, <2>9, <3>1, <3>3 DEF Stored, Uses
    <3> QED BY <3>2, <3>3
  <2>10. ASSUME NEW table \in {"objs", "idx"}, table \notin f, ~Uses(t, table)
         PROVE  Stored(c, table)'
    BY <1>2, <1>3, <2>4, <2>7, <2>10 DEF Stored, Uses
  <2>11. \/ (objs' = WrittenObjs(c) /\ Stored(c, "objs")')
         \/ (objs' = objs /\ (Stored(c, "objs")' => Stored(c, "objs") \/ WrittenObjs(c) = objs))
    <3>1. CASE hd = "objs" /\ f = txn[c].failed /\ objs' = WrittenObjs(c)
      <4>1. "objs" \notin f /\ ~Uses(t, "objs")
        BY <2>5, <2>8, <3>1
      <4>2. Stored(c, "objs")'
        BY <2>10, <4>1
      <4> QED BY <3>1, <4>2
    <3>2. CASE objs' = objs /\ (hd # "objs" \/ hd \in f)
      <4>1. Stored(c, "objs")' => "objs" \notin txn[c].failed /\ ~Uses(txn[c], "objs")
        BY <2>2, <2>6, <2>9, <3>2
      <4> QED BY <1>4, <3>2, <4>1
    <3> QED BY <2>2, <3>1, <3>2
  <2>12. idx' = IndexView(c) \/ (idx' = idx /\ (Stored(c, "idx")' => Stored(c, "idx") \/ IndexView(c) = idx))
    <3>1. CASE idx' = idx /\ (hd # "idx" \/ hd \in f)
      <4>1. Stored(c, "idx")' => "idx" \notin txn[c].failed /\ ~Uses(txn[c], "idx")
        BY <2>2, <2>6, <2>9, <3>1
      <4> QED BY <1>4, <3>1, <4>1
    <3> QED BY <2>2, <3>1
  <2>13. Stored(c, "objs") => Stored(c, "objs")'
    <3> SUFFICES ASSUME Stored(c, "objs") PROVE Stored(c, "objs")'
      OBVIOUS
    <3>1. "objs" \notin txn[c].failed /\ ~Uses(txn[c], "objs")
      BY <1>1 DEF Stored
    <3>2. "objs" \notin f
      BY <2>2, <2>5, <3>1
    <3> QED BY <2>b, <2>10, <3>1, <3>2
  <2>14. (\A table \in f : ~Uses(t, table)) /\ (f # {} => txn[c].touched \subseteq torn')
    BY <1>a, <2>2, <2>5, <2>b
  <2>15. torn \subseteq torn' /\ torn' \subseteq torn \cup txn[c].touched
    BY <2>2
  <2> QED BY <1>1, <1>3, <2>4, <2>7, <2>11, <2>12, <2>13, <2>14, <2>15 DEF Commits, Committings
<1> QED BY <1>5, <1>6 DEF CommitTable

\* Every step of a request passes, works on an object or commits.
LEMMA StepEffect ==
  ASSUME TypeInv, DataInv, NEW c \in Clients, Step(c)
  PROVE  Passes(c) \/ (\E id \in Ids : Works(c, id)) \/ Commits(c)
<1>1. CASE Fetch(c) \/ Store(c) \/ DeleteNext(c)
  BY <1>1, FetchWorks, StoreWorks, DeleteNextWorks
<1>2. CASE CommitWhole(c) \/ CommitTable(c)
  BY <1>2, WholeCommits, TableCommits
<1> QED BY <1>1, <1>2, StepsPass DEF Step

\* After a crash the requests are gone and the tables are what was on disk.
LEMMA CrashKeepsData ==
  ASSUME TypeInv, DataInv, Crash
  PROVE  DataInv'
<1>1. /\ objs' = disk.objs /\ idx' = disk.idx /\ disk' = disk /\ engine' = engine /\ nextRev' = nextRev
         /\ raced' = raced
      /\ \A c \in Clients : pc'[c] = "idle" /\ txn'[c] = NoTxn
  BY DEF Crash
<1>2. "idle" \notin Committings /\ "idle" # "store" /\ "idle" # "writing"
  BY DEF Committings
<1>3. OverlayTouched' /\ TouchedByOne' /\ ViewExact' /\ FailuresKnown' /\ StoredIsSeen' /\ WrittenIsNewer'
  BY <1>1, <1>2, NothingIn DEF OverlayTouched, TouchedByOne, ViewExact, FailuresKnown, StoredIsSeen, WrittenIsNewer
<1>4. TablesUsed'
  BY <1>1, NothingIn DEF TablesUsed
<1>5. ReadIsCurrent'
  BY <1>1, <1>2 DEF ReadIsCurrent
<1>6. LeftUnlessWritten'
  <2> SUFFICES ASSUME NEW i \in Ids \ raced
               PROVE  disk.objs[i] = left'[i]
    BY <1>1 DEF LeftUnlessWritten
  <2>1. left'[i] = IF engine = "sandwich" \/ i \in Committing THEN disk.objs[i] ELSE left[i]
    BY DEF Crash
  <2>2. CASE engine # "sandwich" /\ i \notin Committing
    <3>1. \A c \in Clients : pc[c] \in Committings => i \notin txn[c].touched
      BY <2>2 DEF Committing, Committings
    <3>2. \A c \in Clients : Stored(c, "objs") => txn[c].written[i] = Clean
      BY <3>1 DEF DataInv, OverlayTouched, Stored, Committings
    <3>3. objs[i] = left[i]
      BY <3>2 DEF DataInv, LeftUnlessWritten
    <3> QED BY <2>1, <2>2, <3>3 DEF DataInv, DiskFollows
  <2> QED BY <2>1, <2>2
<1>7. TablesExact'
  <2> SUFFICES ASSUME NEW i \in Ids, i \notin raced \cup torn'
               PROVE  Of(disk.idx, i) = Keys(i, disk.objs[i])
    BY <1>1 DEF TablesExact, Of, Keys
  <2>1. i \notin torn /\ \A c \in Clients : pc[c] = "writing" => i \notin txn[c].touched
    BY DEF Crash
  <2> QED BY <2>1 DEF DataInv, TablesExact
<1>8. DiskFollows'
  BY <1>1, DataTypes DEF DiskFollows
<1>9. RevsDrawn'
  BY <1>1, NothingIn, DataTypes DEF DataInv, RevsDrawn
<1> QED BY <1>3, <1>4, <1>5, <1>6, <1>7, <1>8, <1>9 DEF DataInv

\* The log of the sandwich engine reaches the disk.
LEMMA FlushKeepsData ==
  ASSUME TypeInv, DataInv, Flush
  PROVE  DataInv'
<1>1. /\ disk' = [objs |-> objs, idx |-> idx] /\ engine = "sandwich"
      /\ UNCHANGED <<engine, pc, msg, work, txn, objs, idx, nextRev, raced, torn, left>>
  BY DEF Flush, history
<1>2. OverlayTouched' /\ TablesUsed' /\ TouchedByOne' /\ ReadIsCurrent'
  BY <1>1 DEF DataInv, OverlayTouched, TablesUsed, TouchedByOne, ReadIsCurrent, View, Op, Uses
<1>3. ViewExact' /\ FailuresKnown' /\ StoredIsSeen' /\ LeftUnlessWritten' /\ WrittenIsNewer'
  BY <1>1 DEF DataInv, ViewExact, FailuresKnown, StoredIsSeen, LeftUnlessWritten, WrittenIsNewer, View, IndexView, Of,
     Keys, Stored, Uses
<1>4. TablesExact'
  BY <1>1 DEF DataInv, TablesExact, Of, Keys
<1>5. DiskFollows'
  BY <1>1 DEF DiskFollows
<1>6. RevsDrawn'
  BY <1>1 DEF DataInv, RevsDrawn
<1> QED BY <1>2, <1>3, <1>4, <1>5, <1>6 DEF DataInv

\* What requests share, as long as they do not race, is an invariant.
THEOREM DataInvariance == Spec => []DataInv
<1>1. Init => DataInv
  <2> SUFFICES ASSUME Init PROVE DataInv
    OBVIOUS
  <2>1. /\ \A c \in Clients : pc[c] = "idle" /\ txn[c] = NoTxn
        /\ \A i \in Ids : objs[i] = NoObj /\ left[i] = NoObj /\ disk.objs[i] = NoObj
        /\ idx = {} /\ disk = [objs |-> objs, idx |-> idx] /\ nextRev = 1
    BY DEF Init
  <2>2. "idle" \notin Committings /\ "idle" # "store"
    BY DEF Committings
  <2>3. NoObj.rev = 0 /\ Clean.rev = 0 /\ \A i \in Ids : Keys(i, NoObj) = {}
    BY DEF NoObj, Clean, Keys
  <2>4. OverlayTouched /\ TablesUsed /\ TouchedByOne /\ ReadIsCurrent
    BY <2>1, <2>2, NothingIn DEF OverlayTouched, TablesUsed, TouchedByOne, ReadIsCurrent
  <2>5. ViewExact /\ FailuresKnown /\ StoredIsSeen /\ LeftUnlessWritten /\ WrittenIsNewer /\ DiskFollows
    BY <2>1, <2>2, NothingIn DEF ViewExact, FailuresKnown, StoredIsSeen, Stored, LeftUnlessWritten, WrittenIsNewer, DiskFollows
  <2>6. TablesExact
    BY <2>1, <2>3 DEF TablesExact, Of
  <2>7. RevsDrawn
    BY <2>1, <2>3, NothingIn DEF RevsDrawn
  <2> QED BY <2>4, <2>5, <2>6, <2>7 DEF DataInv
<1>2. TypeInv /\ DataInv /\ [Next]_vars => DataInv'
  <2> SUFFICES ASSUME TypeInv, DataInv, [Next]_vars PROVE DataInv'
    OBVIOUS
  <2>1. ASSUME NEW c \in Clients, Step(c) PROVE DataInv'
    BY <2>1, StepEffect, PassesKeeps, WorksKeeps, CommitsKeeps
  <2>2. CASE Flush
    BY <2>2, FlushKeepsData
  <2>3. CASE Crash
    BY <2>3, CrashKeepsData
  <2>4. CASE UNCHANGED vars
    <3>1. UNCHANGED <<engine, pc, msg, work, txn, objs, idx, disk, nextRev, raced, torn, left>>
      BY <2>4 DEF vars, store, history
    <3>2. OverlayTouched' /\ TablesUsed' /\ TouchedByOne' /\ ReadIsCurrent'
      BY <3>1 DEF DataInv, OverlayTouched, TablesUsed, TouchedByOne, ReadIsCurrent, View, Op, Uses
    <3>3. ViewExact' /\ FailuresKnown' /\ StoredIsSeen' /\ LeftUnlessWritten' /\ WrittenIsNewer'
      BY <3>1 DEF DataInv, ViewExact, FailuresKnown, StoredIsSeen, LeftUnlessWritten, WrittenIsNewer, View, IndexView, Of,
         Keys, Stored, Uses
    <3>4. TablesExact' /\ DiskFollows' /\ RevsDrawn'
      BY <3>1 DEF DataInv, TablesExact, Of, Keys, DiskFollows, RevsDrawn
    <3> QED BY <3>2, <3>3, <3>4 DEF DataInv
  <2> QED BY <2>1, <2>2, <2>3, <2>4 DEF Next, Over
<1> QED BY <1>1, <1>2, TypesInvariance, PTL DEF Spec

\* What was reported to a client is stored, of what failed only what a commit that returned
\* an error has written, and the index has the entries of what is stored, in memory and
\* after a crash (MojDbReq, MojDb::putObj and delObj, MojDbStorageTxn::commit).
THEOREM Reported == Spec => []ReportedIsStored
<1>1. TypeInv /\ DataInv => ReportedIsStored
  <2> SUFFICES ASSUME TypeInv, DataInv PROVE ReportedIsStored
    OBVIOUS
  <2>1. ASSUME NEW id \in Ids, ~InCommit(id)
        PROVE  \A c \in Clients : pc[c] \in Committings => id \notin txn[c].touched
    BY <2>1 DEF InCommit, Committing, Committings
  <2>2. LeftIsStored
    <3> SUFFICES ASSUME NEW id \in Ids \ raced, ~InCommit(id) PROVE objs[id] = left[id]
      BY DEF LeftIsStored
    <3>1. \A c \in Clients : Stored(c, "objs") => txn[c].written[id] = Clean
      BY <2>1 DEF DataInv, OverlayTouched, Stored, Committings
    <3> QED BY <3>1 DEF DataInv, LeftUnlessWritten
  <2>3. IndexExact
    <3> SUFFICES ASSUME NEW id \in Ids \ (raced \cup torn), ~InCommit(id)
                 PROVE  /\ idx \cap (Vals \X {id}) = Keys(id, objs[id])
                        /\ disk.idx \cap (Vals \X {id}) = Keys(id, disk.objs[id])
      BY DEF IndexExact
    <3>1. \A c \in Clients : pc[c] = "writing" => id \notin txn[c].touched
      BY <2>1 DEF Committings
    <3> QED BY <3>1 DEF DataInv, TablesExact, Of
  <2> QED BY <2>2, <2>3 DEF ReportedIsStored, TypeInv
<1> QED BY <1>1, TypesInvariance, DataInvariance, PTL

\* Without a race the revision of an object only grows, except that a crash goes back to
\* an earlier state (MojDb::putObj, MojDb::nextId).
THEOREM RevisionsGrow == Spec => [][RevsGrow]_vars
<1>1. TypeInv /\ DataInv /\ [Next]_vars => [RevsGrow]_vars
  <2> SUFFICES ASSUME TypeInv, DataInv, [Next]_vars, crashes' = crashes, NEW id \in Ids, id \notin raced'
               PROVE  objs'[id] \in {objs[id], NoObj} \/ objs'[id].rev > objs[id].rev
    BY DEF RevsGrow
  <2>1. ASSUME NEW c \in Clients, Step(c)
        PROVE  objs'[id] \in {objs[id], NoObj} \/ objs'[id].rev > objs[id].rev
    <3>1. CASE Passes(c) \/ \E i \in Ids : Works(c, i)
      BY <3>1 DEF Passes, Works, store
    <3>2. CASE Commits(c)
      <4>1. CASE id \in txn[c].touched
        <5>1. txn[c].written[id] \in {Clean, NoObj, objs[id]} \/ txn[c].written[id].rev > objs[id].rev
          BY <3>2, <4>1 DEF Commits, DataInv, WrittenIsNewer
        <5>2. objs'[id] \in {objs[id], View(c, id)}
          BY <3>2, DataTypes DEF Commits, WrittenObjs
        <5> QED BY <5>1, <5>2 DEF View
      <4>2. CASE id \notin txn[c].touched
        BY <3>2, <4>2, CommitReaches
      <4> QED BY <4>1, <4>2
    <3> QED BY <2>1, <3>1, <3>2, StepEffect
  <2>2. CASE Flush \/ UNCHANGED vars
    BY <2>2 DEF Flush, vars, store
  <2>3. ~Crash
    BY DEF Crash, TypeInv, TypeOK, StoreTypes
  <2> QED BY <2>1, <2>2, <2>3 DEF Next, Over
<1> QED BY <1>1, TypesInvariance, DataInvariance, PTL DEF Spec
-----------------------------------------------------------------------------
(* An update replaces what its sender has seen. *)

\* The object is the one the sender has seen, or it is gone, or it was deleted when the
\* message came and still is.
AsSeen(c, id) == objs[id] = NoObj \/ objs[id].rev = msg[c].seen[id] \/ (objs[id].del /\ msg[c].seen[id] = 0)

\* An operation on the object has been carried out.
Named(c, id) == \E j \in DOMAIN msg[c].program : j < msg[c].at /\ msg[c].program[j].id = id

\* The transaction of a message that names its objects has touched those it has come to;
\* once a put that names a revision was carried out first, the object is as seen.
SeenPart(c, id) ==
  NamesObjects(c) /\ pc[c] \notin AtRest =>
    /\ id \in txn[c].touched =>
         Named(c, id) \/ (pc[c] = "store" /\ Op(c).id = id /\ txn[c].written[id] = Clean)
    /\ Named(c, id) => id \in txn[c].touched
    /\ pc[c] \notin Committings /\ id \notin raced =>
         \A i \in FirstOn(c, id) :
           i < msg[c].at /\ msg[c].program[i].do = "put" /\ msg[c].program[i].rev = "seen" => AsSeen(c, id)

SeenIsReplaced == \A c \in Clients, id \in Ids : SeenPart(c, id)

\* The program of a request and its place in it.
LEMMA ProgramTypes ==
  ASSUME TypeInv, NEW c \in Clients
  PROVE  /\ DOMAIN msg[c].program = 1..Len(msg[c].program) /\ Len(msg[c].program) \in Nat
         /\ msg[c].at \in Nat \ {0} /\ (HasOp(c) => msg[c].at \in DOMAIN msg[c].program)
         /\ msg[c].seen \in [Ids -> Nat]
<1>1. msg[c] \in MsgType
  BY PartTypes
<1>2. msg[c].program \in Programs \cup {<<>>} /\ <<>> \in Seq(Operations)
  BY <1>1 DEF MsgType
<1>3. msg[c].program \in Seq(Operations)
  BY <1>2, TxnAssumption
<1> QED BY <1>1, <1>3 DEF MsgType, HasOp

\* A message that names its objects never deletes by a query nor changes kinds.
LEMMA ById ==
  ASSUME TypeInv, NEW c \in Clients, NamesObjects(c)
  PROVE  ~work[c].more /\ pc[c] \notin {"query", "next", "rebegin", "kind", "reload", "reloading"}
<1>1. HasOp(c) => Op(c).do \notin Schema \cup {"delQuery"}
  BY ProgramTypes DEF NamesObjects, Op
<1> QED BY <1>1 DEF TypeInv, PhasesAgree, PhaseOf, QueryOps, Schema

\* The others see what they saw.
LEMMA OthersSeen ==
  ASSUME TypeInv, DataInv, NEW c \in Clients, NEW d \in Clients \ {c}, NEW id \in Ids, SeenPart(d, id),
         Passes(c) \/ (\E i \in Ids : Works(c, i)) \/ Commits(c)
  PROVE  SeenPart(d, id)'
<1>1. msg'[d] = msg[d] /\ txn'[d] = txn[d] /\ pc'[d] = pc[d] /\ raced \subseteq raced'
  BY DEF Passes, Works, Commits, Others
<1>2. id \in txn[d].touched \ raced => objs'[id] = objs[id]
  <2>1. CASE Passes(c) \/ \E i \in Ids : Works(c, i)
    BY <2>1 DEF Passes, Works, store
  <2>2. CASE Commits(c)
    BY <2>2, CommitReaches
  <2> QED BY <2>1, <2>2
<1>3. NamesObjects(d)' = NamesObjects(d) /\ Named(d, id)' = Named(d, id) /\ FirstOn(d, id)' = FirstOn(d, id)
        /\ Op(d)' = Op(d)
  BY <1>1 DEF NamesObjects, Named, FirstOn, Op
<1> SUFFICES ASSUME NamesObjects(d), pc[d] \notin AtRest
             PROVE  SeenPart(d, id)'
  BY <1>1, <1>3 DEF SeenPart
<1>4. id \in txn[d].touched =>
        Named(d, id) \/ (pc[d] = "store" /\ Op(d).id = id /\ txn[d].written[id] = Clean)
  BY DEF SeenPart
<1>5. Named(d, id) => id \in txn[d].touched
  BY DEF SeenPart
<1>6. ASSUME pc[d] \notin Committings, id \notin raced', NEW i \in FirstOn(d, id), i < msg[d].at,
             msg[d].program[i].do = "put", msg[d].program[i].rev = "seen"
      PROVE  AsSeen(d, id)'
  <2>1. AsSeen(d, id)
    BY <1>1, <1>6 DEF SeenPart
  <2>2. Named(d, id)
    BY <1>6 DEF Named, FirstOn
  <2>3. objs'[id] = objs[id]
    BY <1>1, <1>2, <1>5, <1>6, <2>2
  <2> QED BY <1>1, <2>1, <2>3 DEF AsSeen
<1>7. \A i \in FirstOn(d, id)' : i \in FirstOn(d, id)
  BY <1>3
<1> QED BY <1>1, <1>3, <1>4, <1>5, <1>6, <1>7 DEF SeenPart

\* A request that begins an operation or ends its batch, reads, or commits, sees what it saw.
LEMMA GoesOnSeen ==
  ASSUME TypeInv, DataInv, NEW c \in Clients, NEW id \in Ids, SeenPart(c, id),
         msg'[c] = msg[c], pc[c] \notin AtRest \cup {"store"}, raced \subseteq raced',
         pc'[c] \in Committings \/ objs' = objs, pc[c] \in Committings => pc'[c] \in Committings \cup AtRest,
         \/ txn'[c].touched = txn[c].touched /\ txn'[c].written = txn[c].written
         \/ /\ txn'[c].touched = txn[c].touched \cup {Op(c).id} /\ txn'[c].written = txn[c].written
            /\ pc'[c] = "store"
  PROVE  SeenPart(c, id)'
<1>1. NamesObjects(c)' = NamesObjects(c) /\ Named(c, id)' = Named(c, id) /\ FirstOn(c, id)' = FirstOn(c, id)
        /\ Op(c)' = Op(c)
  BY DEF NamesObjects, Named, FirstOn, Op
<1> SUFFICES ASSUME NamesObjects(c), pc'[c] \notin AtRest
             PROVE  SeenPart(c, id)'
  BY <1>1 DEF SeenPart
<1>2. id \in txn[c].touched => Named(c, id)
  BY DEF SeenPart
<1>3. id \in txn'[c].touched =>
        Named(c, id) \/ (pc'[c] = "store" /\ Op(c).id = id /\ txn'[c].written[id] = Clean)
  <2>1. txn[c].written[id] # Clean => id \in txn[c].touched
    BY DEF DataInv, OverlayTouched
  <2> QED BY <1>2, <2>1
<1>4. Named(c, id) => id \in txn'[c].touched
  BY DEF SeenPart
<1>5. ASSUME pc'[c] \notin Committings, id \notin raced', NEW i \in FirstOn(c, id), i < msg[c].at,
             msg[c].program[i].do = "put", msg[c].program[i].rev = "seen"
      PROVE  AsSeen(c, id)'
  <2>1. AsSeen(c, id)
    BY <1>5 DEF SeenPart
  <2> QED BY <1>5, <2>1 DEF AsSeen
<1>6. \A i \in FirstOn(c, id)' : i \in FirstOn(c, id)
  BY <1>1
<1> QED BY <1>1, <1>3, <1>4, <1>5, <1>6 DEF SeenPart

\* A request that starts with its message.
LEMMA StartsSeen ==
  ASSUME TypeInv', NEW c \in Clients, NEW id \in Ids, msg'[c].at = 1, pc'[c] # "store", txn'[c].touched = {}
  PROVE  SeenPart(c, id)'
<1>1. msg'[c] \in MsgType
  BY DEF TypeInv, TypeOK, RequestTypes
<1>2. msg'[c].program \in Programs \cup {<<>>} /\ <<>> \in Seq(Operations)
  BY <1>1 DEF MsgType
<1>3. msg'[c].program \in Seq(Operations)
  BY <1>2, TxnAssumption
<1>4. \A j \in DOMAIN msg'[c].program : ~(j < msg'[c].at)
  BY <1>3
<1>5. ~Named(c, id)' /\ \A i \in FirstOn(c, id)' : ~(i < msg'[c].at)
  BY <1>4 DEF Named, FirstOn
<1> QED BY <1>5 DEF SeenPart

\* putImpl refuses a revision that is not the one it finds.
LEMMA NotRejected ==
  ASSUME TypeInv, DataInv, NEW c \in Clients, pc[c] = "store", ~Rejected(c), Op(c).do = "put",
         Op(c).rev = "seen",
         Op(c).id \in Ids \ raced, txn[c].written[Op(c).id] = Clean
  PROVE  AsSeen(c, Op(c).id)
<1>1. work[c].prev = objs[Op(c).id]
  BY DEF DataInv, ReadIsCurrent, View
<1> QED BY <1>1 DEF Rejected, NamedRev, AsSeen

\* An operation on an object is done.
LEMMA StoreSeen ==
  ASSUME TypeInv, DataInv, NEW c \in Clients, NEW id \in Ids, SeenPart(c, id), pc[c] = "store", ~Rejected(c),
         Done(c),
         UNCHANGED <<objs, raced>>, txn'[c].touched = txn[c].touched
  PROVE  SeenPart(c, id)'
<1>1. msg'[c].program = msg[c].program /\ msg'[c].at = msg[c].at + 1 /\ msg'[c].seen = msg[c].seen
        /\ pc'[c] = "call"
  <2>1. msg[c] \in MsgType /\ msg \in [Clients -> MsgType] /\ pc \in [Clients -> PCs]
    BY PartTypes DEF TypeInv, TypeOK, RequestTypes, PCs
  <2> QED BY <2>1 DEF Done, MsgType
<1>2. HasOp(c) /\ msg[c].at \in DOMAIN msg[c].program /\ Op(c) = msg[c].program[msg[c].at]
  BY ProgramTypes DEF TypeInv, PhasesAgree, PhaseOf, Op
<1>3. DOMAIN msg[c].program \subseteq Nat /\ msg[c].at \in Nat
  BY ProgramTypes
<1>4. NamesObjects(c)' = NamesObjects(c) /\ FirstOn(c, id)' = FirstOn(c, id)
  BY <1>1 DEF NamesObjects, FirstOn
<1>5. Named(c, id)' <=> Named(c, id) \/ Op(c).id = id
  BY <1>1, <1>2, <1>3 DEF Named
<1>6. pc[c] \notin AtRest \cup Committings
  BY DEF AtRest, Committings
<1> SUFFICES ASSUME NamesObjects(c)
             PROVE  SeenPart(c, id)'
  BY <1>4 DEF SeenPart
<1>7. Op(c).id \in txn[c].touched
  BY DEF DataInv, OverlayTouched
<1>8. id \in txn[c].touched => Named(c, id)'
  BY <1>5, <1>6 DEF SeenPart
<1>9. Named(c, id)' => id \in txn[c].touched
  BY <1>5, <1>6, <1>7 DEF SeenPart
<1>10. ASSUME id \notin raced, NEW i \in FirstOn(c, id), i < msg[c].at + 1,
              msg[c].program[i].do = "put", msg[c].program[i].rev = "seen"
       PROVE  AsSeen(c, id)
  <2>1. i \in Nat
    BY <1>3 DEF FirstOn
  <2>2. CASE i < msg[c].at
    BY <1>6, <1>10, <2>2 DEF SeenPart
  <2>3. CASE i = msg[c].at
    <3>1. Op(c).id = id /\ Op(c).do = "put" /\ Op(c).rev = "seen"
      BY <1>2, <1>10, <2>3 DEF FirstOn
    <3>2. ~Named(c, id)
      BY <1>3, <2>3, ProgramTypes DEF Named, FirstOn
    <3>3. txn[c].written[id] = Clean
      BY <1>6, <1>7, <3>1, <3>2 DEF SeenPart
    <3> QED BY <1>10, <3>1, <3>3, NotRejected
  <2> QED BY <1>3, <1>10, <2>1, <2>2, <2>3
<1>11. AsSeen(c, id)' <=> AsSeen(c, id)
  BY <1>1 DEF AsSeen
<1> QED BY <1>1, <1>4, <1>8, <1>9, <1>10, <1>11 DEF SeenPart

\* A request that ends its message or waits for the lock, one that starts with its message,
\* and one whose message does not name its objects, have nothing to show.
LEMMA EndsSeen ==
  ASSUME TypeInv, TypeInv', NEW c \in Clients, NEW id \in Ids,
         \/ Fail(c) \/ Finish(c) \/ Receive(c) \/ (Deadlock(c) /\ ~Fail(c))
         \/ (ChangeKinds(c) /\ ~Done(c))
  PROVE  SeenPart(c, id)'
<1>1. pc \in [Clients -> PCs] /\ msg \in [Clients -> MsgType] /\ txn \in [Clients -> TxnType]
        /\ msg[c] \in MsgType
  BY PartTypes DEF TypeInv, TypeOK, RequestTypes, PCs
<1>2. CASE Fail(c) \/ Finish(c) \/ (ChangeKinds(c) /\ ~Done(c))
  <2>1. pc'[c] \in AtRest
    BY <1>1, <1>2 DEF Fail, Finish, ChangeKinds, AtRest
  <2> QED BY <2>1 DEF SeenPart
<1>3. CASE Receive(c)
  <2>1. msg'[c].at = 1 /\ pc'[c] = "call" /\ txn'[c] = txn[c]
    BY <1>1, <1>3 DEF Receive
  <2>2. m_txn[c] = "none"
    BY <1>3 DEF Receive, TypeInv, PhasesAgree, PhaseOf, AtRest
  <2>3. txn[c] = NoTxn
    BY <2>2, PartTypes
  <2>4. txn'[c].touched = {}
    BY <2>1, <2>3 DEF NoTxn
  <2> QED BY <2>1, <2>4, StartsSeen
<1>4. CASE Deadlock(c) /\ ~Fail(c)
  <2>1. /\ msg' = [msg EXCEPT ![c].at = 1, ![c].retries = @ + 1] /\ pc' = [pc EXCEPT ![c] = "call"]
        /\ txn' = [txn EXCEPT ![c] = NoTxn]
    BY <1>4 DEF Deadlock
  <2>2. msg'[c].at = 1 /\ pc'[c] = "call" /\ txn'[c].touched = {}
    BY <1>1, <2>1 DEF MsgType, NoTxn
  <2> QED BY <2>2, StartsSeen
<1> QED BY <1>2, <1>3, <1>4

\* Deletions by a query and changes of kinds are not in a message that names its objects.
LEMMA OtherwiseSeen ==
  ASSUME TypeInv, NEW c \in Clients, NEW id \in Ids,
         \/ OpenCursor(c) \/ DeleteNext(c) \/ CloseCursor(c) \/ Rebegin(c)
         \/ (ChangeKinds(c) /\ Done(c)) \/ BeginReload(c)
  PROVE  SeenPart(c, id)'
<1>1. pc[c] \in {"query", "next", "rebegin", "kind", "reload"} /\ (msg' = msg \/ Done(c))
  <2>1. CASE OpenCursor(c)
    BY <2>1 DEF OpenCursor
  <2>2. CASE DeleteNext(c)
    <3>1. pc[c] = "next" /\ UNCHANGED <<engine, lockVars, reqVars, pc, msg, store, bounds, torn, left>>
      BY <2>2, Zenon DEF DeleteNext
    <3> QED BY <3>1
  <2>3. CASE CloseCursor(c)
    BY <2>3 DEF CloseCursor
  <2>4. CASE Rebegin(c) \/ (ChangeKinds(c) /\ Done(c)) \/ BeginReload(c)
    BY <2>4 DEF Rebegin, ChangeKinds, BeginReload
  <2> QED BY <2>1, <2>2, <2>3, <2>4
<1>2. ~NamesObjects(c)
  BY <1>1, ById
<1>3. msg'[c].program = msg[c].program
  <2>1. msg \in [Clients -> MsgType] /\ msg[c] \in MsgType
    BY PartTypes DEF TypeInv, TypeOK, RequestTypes
  <2>2. msg' = msg \/ msg' = [msg EXCEPT ![c].at = @ + 1]
    BY <1>1 DEF Done
  <2> QED BY <2>1, <2>2 DEF MsgType
<1>4. ~NamesObjects(c)'
  BY <1>2, <1>3 DEF NamesObjects
<1> QED BY <1>4 DEF SeenPart

\* The steps of an operation on an object that do not end it.
LEMMA ReadSeen ==
  ASSUME TypeInv, DataInv, NEW c \in Clients, NEW id \in Ids, SeenPart(c, id),
         BeginOp(c) \/ EndBatch(c) \/ Fetch(c)
  PROVE  SeenPart(c, id)'
<1>1. pc \in [Clients -> PCs] /\ txn \in [Clients -> TxnType] /\ txn[c] \in TxnType
  BY PartTypes DEF TypeInv, TypeOK, RequestTypes, PCs
<1>2. msg'[c] = msg[c] /\ objs' = objs
  BY DEF BeginOp, EndBatch, Fetch, store
<1>3. raced \subseteq raced' /\ pc[c] \notin AtRest \cup Committings \cup {"store"}
  BY DEF BeginOp, EndBatch, Fetch, history, Race, AtRest, Committings
<1>4. CASE BeginOp(c) \/ EndBatch(c)
  <2>1. txn'[c] = txn[c]
    BY <1>4 DEF BeginOp, EndBatch
  <2> QED BY <1>2, <1>3, <2>1, GoesOnSeen
<1>5. CASE Fetch(c)
  <2> DEFINE u == [txn[c] EXCEPT !.touched = @ \cup {Op(c).id}]
  <2>1. txn'[c] = Use(u, "objs") /\ pc'[c] = "store"
    BY <1>1, <1>5 DEF Fetch
  <2>2. Op(c).id \in Ids
    BY <1>5, FetchWorks
  <2>3. u \in TxnType /\ u.written = txn[c].written /\ u.touched = txn[c].touched \cup {Op(c).id}
    BY <1>1, <2>2 DEF TxnType
  <2> HIDE DEF u
  <2>4. txn'[c].touched = txn[c].touched \cup {Op(c).id} /\ txn'[c].written = txn[c].written
    BY <2>1, <2>3, UseEffect
  <2> QED BY <1>2, <1>3, <2>1, <2>4, GoesOnSeen
<1> QED BY <1>4, <1>5

\* The end of an operation on an object.
LEMMA WriteSeen ==
  ASSUME TypeInv, DataInv, TypeInv', NEW c \in Clients, NEW id \in Ids, SeenPart(c, id), Store(c)
  PROVE  SeenPart(c, id)'
<1>1. pc[c] = "store" /\ txn \in [Clients -> TxnType] /\ txn[c] \in TxnType
  BY PartTypes DEF Store, TypeInv, TypeOK, RequestTypes
<1>2. CASE Fail(c)
  BY <1>2, EndsSeen
<1>3. CASE ~Rejected(c) /\ Done(c) /\ UNCHANGED <<engine, txn, store, nextRev, bounds, history>>
  BY <1>1, <1>3, StoreSeen DEF store, history
<1>4. CASE /\ ~Rejected(c) /\ ~Idle(c) /\ Done(c)
           /\ txn' = [txn EXCEPT ![c] = Write(@, Op(c).id, work[c].prev, NewObj(c))]
           /\ UNCHANGED <<engine, store, bounds, history>>
  <2> DEFINE o == Op(c).id
  <2> DEFINE old == work[c].prev
  <2> DEFINE new == NewObj(c)
  <2>1. o \in Ids
    BY <1>1, OpType DEF TypeInv, PhasesAgree, PhaseOf
  <2>2. old \in ObjType /\ new \in ObjType
    BY <1>1, <1>4, PartTypes, NewObjType DEF WorkType
  <2>3. txn'[c] = Write(txn[c], o, old, new)
    BY <1>1, <1>4
  <2> HIDE DEF o, old, new
  <2>4. Write(txn[c], o, old, new).touched = txn[c].touched
    <3>1. txn[c] \in TxnType
      BY <1>1
    <3> QED BY <2>1, <2>2, <3>1, WriteEffect
  <2> QED BY <1>1, <1>4, <2>3, <2>4, StoreSeen DEF store, history
<1> QED BY <1>2, <1>3, <1>4 DEF Store

\* A commit that goes on.
LEMMA CommitSeen ==
  ASSUME TypeInv, DataInv, NEW c \in Clients, NEW id \in Ids, SeenPart(c, id), CommitWhole(c) \/ CommitTable(c)
  PROVE  SeenPart(c, id)'
<1>1. Commits(c)
  BY WholeCommits, TableCommits
<1>2. msg' = msg
  BY DEF CommitWhole, CommitTable
<1>3. pc[c] \notin AtRest \cup {"store"} /\ pc'[c] \in Committings /\ raced' = raced
  BY <1>1 DEF Commits, AtRest
<1>4. txn'[c].touched = txn[c].touched /\ txn'[c].written = txn[c].written
  BY <1>1 DEF Commits
<1> QED BY <1>2, <1>3, <1>4, GoesOnSeen
\* Every step of a request keeps what it has seen itself.
LEMMA OwnSeen ==
  ASSUME TypeInv, DataInv, TypeInv', NEW c \in Clients, NEW id \in Ids, SeenPart(c, id), Step(c)
  PROVE  SeenPart(c, id)'
<1>1. CASE Fail(c) \/ Finish(c) \/ Receive(c) \/ Deadlock(c)
  BY <1>1, EndsSeen
<1>2. CASE OperationFails(c) \/ EndReload(c) \/ NothingWritten(c)
  BY <1>2, EndsSeen DEF OperationFails, EndReload, NothingWritten
<1>3. CASE BeginOp(c) \/ EndBatch(c) \/ Fetch(c)
  BY <1>3, ReadSeen
<1>4. CASE Store(c)
  BY <1>4, WriteSeen
<1>5. CASE OpenCursor(c) \/ DeleteNext(c) \/ CloseCursor(c) \/ Rebegin(c) \/ ChangeKinds(c) \/ BeginReload(c)
  BY <1>5, OtherwiseSeen, EndsSeen
<1>6. CASE CommitWhole(c) \/ CommitTable(c)
  BY <1>6, CommitSeen
<1> QED BY <1>1, <1>2, <1>3, <1>4, <1>5, <1>6 DEF Step

\* A put that names a revision finds the object as its sender has seen it, until its commit
\* has written it, whatever the others do (MojDb::putImpl, MojDbReq).
THEOREM SeenInvariance == Spec => []SeenIsReplaced
<1>1. Init => SeenIsReplaced
  BY DEF Init, SeenIsReplaced, SeenPart, AtRest
<1>2. TypeInv /\ TypeInv' /\ DataInv /\ SeenIsReplaced /\ [Next]_vars => SeenIsReplaced'
  <2> SUFFICES ASSUME TypeInv, TypeInv', DataInv, SeenIsReplaced, [Next]_vars, NEW c \in Clients, NEW id \in Ids
               PROVE  SeenPart(c, id)'
    BY DEF SeenIsReplaced
  <2>1. SeenPart(c, id)
    BY DEF SeenIsReplaced
  <2>2. ASSUME NEW d \in Clients, Step(d)
        PROVE  SeenPart(c, id)'
    <3>1. CASE c = d
      BY <2>1, <2>2, <3>1, OwnSeen
    <3>2. CASE c # d
      BY <2>1, <2>2, <3>2, StepEffect, OthersSeen
    <3> QED BY <3>1, <3>2
  <2>3. CASE Crash
    <3>1. pc'[c] = "idle"
      BY <2>3 DEF Crash
    <3> QED BY <3>1 DEF SeenPart, AtRest
  <2>4. CASE Flush \/ UNCHANGED vars
    <3>1. UNCHANGED <<pc, msg, txn, objs, raced>>
      BY <2>4 DEF Flush, vars, store, history
    <3> QED BY <2>1, <3>1 DEF SeenPart, NamesObjects, Named, FirstOn, Op, AsSeen
  <2> QED BY <2>2, <2>3, <2>4 DEF Next, Over
<1> QED BY <1>1, <1>2, TypesInvariance, DataInvariance, PTL DEF Spec

\* An update does not replace a revision that its sender has not seen, nor does the revision
\* of an object go back (MojDb::putImpl, MojDb::nextId).
THEOREM Guarded == Spec => UpdatesGuarded
<1>1. TypeInv /\ DataInv /\ SeenIsReplaced /\ [Next]_vars => [NoLostUpdate]_vars
  <2> SUFFICES ASSUME TypeInv, DataInv, SeenIsReplaced, [Next]_vars, NEW c \in Clients, NEW id \in Ids,
                      pc[c] = "commit", pc'[c] \in {"writing", "written"}, id \notin raced,
                      objs'[id] # objs[id],
                      objs[id] # NoObj, NamesObjects(c),
                      NEW i \in FirstOn(c, id), msg[c].program[i].do = "put", msg[c].program[i].rev = "seen"
               PROVE  objs[id].rev = msg[c].seen[id] \/ (objs[id].del /\ msg[c].seen[id] = 0)
    BY DEF NoLostUpdate
  <2>1. i < msg[c].at
    <3>1. ~HasOp(c)
      BY ById DEF TypeInv, PhasesAgree, PhaseOf
    <3> QED BY <3>1, ProgramTypes DEF HasOp, FirstOn
  <2>2. SeenPart(c, id) /\ pc[c] \notin AtRest \cup Committings
    BY DEF SeenIsReplaced, AtRest, Committings
  <2>3. AsSeen(c, id)
    BY <2>1, <2>2 DEF SeenPart
  <2> QED BY <2>3 DEF AsSeen
<1> QED BY <1>1, RevisionsGrow, SeenInvariance, TypesInvariance, DataInvariance, PTL DEF Spec, UpdatesGuarded

-----------------------------------------------------------------------------
(* The kinds above a kind (MojDbKind::extends, updateIndexes): Above is the *)
(* least set that has the kinds and, with each of its kinds, its supers.    *)

NatLess == {ss \in Nat \X Nat : ss[1] < ss[2]}

\* A set of naturals that is not empty has a least member.
LEMMA LeastNat ==
  ASSUME NEW T, T \subseteq Nat, T # {}
  PROVE  \E x \in T : \A y \in T : x <= y
<1>1. IsWellFoundedOn(NatLess, Nat)
  BY NatLessThanWellFounded, Zenon DEF OpToRel, NatLess
<1>2. PICK x \in T : \A y \in T : <<y, x>> \notin NatLess
  BY <1>1, WFMin, Zenon
<1>3. \A a, b \in Nat : a < b => <<a, b>> \in NatLess
  BY DEF NatLess
<1>4. ASSUME NEW y \in T PROVE x <= y
  <2>1. x \in Nat /\ y \in Nat
    BY <1>4
  <2>2. ~ y < x
    BY <2>1, <1>2, <1>3, Zenon
  <2> QED BY <2>1, <2>2
<1> QED BY <1>4

\* The kinds within n links of ks, for all n to m.
LevelsTo(f, sup, ks, m) ==
  f = [n \in 0..m |-> IF n = 0 THEN ks ELSE f[n - 1] \cup UNION {sup[k] : k \in f[n - 1]}]

Closed(sup, S) == \A x \in S : sup[x] \subseteq S

\* The levels are a function on a prefix of the naturals: by the least m that has none.
LEMMA LevelsExist ==
  ASSUME NEW sup, NEW ks, NEW m \in Nat
  PROVE  \E f : LevelsTo(f, sup, ks, m)
<1> DEFINE T == {n \in Nat : ~\E f : LevelsTo(f, sup, ks, n)}
<1> SUFFICES ASSUME T # {} PROVE FALSE
  OBVIOUS
<1>1. PICK n \in T : \A i \in T : n <= i
  BY LeastNat
<1>2. n # 0
  <2> DEFINE f == [i \in 0..0 |-> ks]
  <2>1. LevelsTo(f, sup, ks, 0)
    BY DEF LevelsTo
  <2> QED BY <2>1
<1>3. n - 1 \in Nat /\ n - 1 \notin T
  BY <1>1, <1>2
<1>4. PICK g : LevelsTo(g, sup, ks, n - 1)
  BY <1>3
<1> DEFINE f == [i \in 0..n |-> IF i = n THEN g[n - 1] \cup UNION {sup[k] : k \in g[n - 1]} ELSE g[i]]
<1>5. LevelsTo(f, sup, ks, n)
  <2>1. ASSUME NEW i \in 0..n
        PROVE  f[i] = IF i = 0 THEN ks ELSE f[i - 1] \cup UNION {sup[k] : k \in f[i - 1]}
    <3>1. CASE i = n
      <4>1. f[i] = g[n - 1] \cup UNION {sup[k] : k \in g[n - 1]}
        BY <3>1
      <4>2. f[i - 1] = g[n - 1]
        BY <3>1, <1>2, <1>3
      <4> QED BY <4>1, <4>2, <3>1, <1>2
    <3>2. CASE i # n
      <4>1. i \in 0..(n - 1) /\ (i # 0 => i - 1 \in 0..n /\ i - 1 # n)
        BY <3>2, <1>3
      <4>2. g[i] = IF i = 0 THEN ks ELSE g[i - 1] \cup UNION {sup[k] : k \in g[i - 1]}
        BY <4>1, <1>4 DEF LevelsTo
      <4>3. f[i] = g[i] /\ (i # 0 => f[i - 1] = g[i - 1])
        BY <3>2, <4>1
      <4> QED BY <4>2, <4>3
    <3> QED BY <3>1, <3>2
  <2>2. f = [i \in 0..n |-> f[i]]
    OBVIOUS
  <2> HIDE DEF f
  <2> QED BY <2>1, <2>2 DEF LevelsTo
<1> QED BY <1>1, <1>5

\* The kinds and the root kind are finitely many.
LEMMA KindsCounted == IsFiniteSet(AllKinds) /\ Cardinality(AllKinds) \in Nat
BY KindAssumption, FS_AddElement, FS_CardinalityType DEF AllKinds

\* Above is the last of the levels.
LEMMA AboveIsLevel ==
  ASSUME NEW sup, NEW ks
  PROVE  \E f : LevelsTo(f, sup, ks, Cardinality(AllKinds)) /\ Above(sup, ks) = f[Cardinality(AllKinds)]
<1> DEFINE N == Cardinality(AllKinds)
           level == CHOOSE f : f = [n \in 0..N |-> IF n = 0 THEN ks ELSE f[n - 1] \cup UNION {sup[k] : k \in f[n - 1]}]
<1>1. Above(sup, ks) = level[N]
  BY DEF Above
<1>2. \E f : f = [n \in 0..N |-> IF n = 0 THEN ks ELSE f[n - 1] \cup UNION {sup[k] : k \in f[n - 1]}]
  <2>1. \E f : LevelsTo(f, sup, ks, N)
    BY LevelsExist, KindsCounted
  <2> QED BY <2>1 DEF LevelsTo
<1>3. level = [n \in 0..N |-> IF n = 0 THEN ks ELSE level[n - 1] \cup UNION {sup[k] : k \in level[n - 1]}]
  BY <1>2
<1> QED BY <1>1, <1>3 DEF LevelsTo

\* What is closed and has the kinds has all above them.
LEMMA AboveLeast ==
  ASSUME NEW sup, NEW ks, NEW S, ks \subseteq S, Closed(sup, S)
  PROVE  Above(sup, ks) \subseteq S
<1> DEFINE N == Cardinality(AllKinds)
<1>1. PICK f : LevelsTo(f, sup, ks, N) /\ Above(sup, ks) = f[N]
  BY AboveIsLevel
<1>2. N \in Nat
  BY KindsCounted
<1> DEFINE T == {n \in 0..N : ~(f[n] \subseteq S)}
<1> HIDE DEF N
<1>3. T = {}
  <2> SUFFICES ASSUME T # {} PROVE FALSE
    OBVIOUS
  <2>0. T \subseteq Nat
    BY <1>2
  <2>1. PICK n \in T : \A i \in T : n <= i
    BY LeastNat, <2>0
  <2>2. f[n] = IF n = 0 THEN ks ELSE f[n - 1] \cup UNION {sup[k] : k \in f[n - 1]}
    BY <1>1, <2>1 DEF LevelsTo
  <2>3. n # 0
    BY <2>1, <2>2
  <2>4. n - 1 \in 0..N /\ f[n - 1] \subseteq S
    BY <2>1, <2>3, <1>2
  <2> QED BY <2>1, <2>2, <2>3, <2>4 DEF Closed
<1> QED BY <1>1, <1>2, <1>3

\* It has the kinds and the supers of all its kinds.
LEMMA AboveClosed ==
  ASSUME NEW sup \in Links, NEW ks, ks \subseteq AllKinds
  PROVE  ks \subseteq Above(sup, ks) /\ Above(sup, ks) \subseteq AllKinds /\ Closed(sup, Above(sup, ks))
<1> DEFINE N == Cardinality(AllKinds)
<1>1. PICK f : LevelsTo(f, sup, ks, N) /\ Above(sup, ks) = f[N]
  BY AboveIsLevel
<1>2. N \in Nat /\ IsFiniteSet(AllKinds)
  BY KindsCounted
<1>3. N = Cardinality(AllKinds)
  OBVIOUS
<1> HIDE DEF N
<1>4. ASSUME NEW n \in 0..N
      PROVE  f[n] = IF n = 0 THEN ks ELSE f[n - 1] \cup UNION {sup[k] : k \in f[n - 1]}
  BY <1>1 DEF LevelsTo
<1>5. ASSUME NEW n \in 0..N PROVE f[n] \subseteq AllKinds /\ ks \subseteq f[n]
  <2> DEFINE T == {i \in 0..N : ~(f[i] \subseteq AllKinds /\ ks \subseteq f[i])}
  <2> SUFFICES ASSUME T # {} PROVE FALSE
    OBVIOUS
  <2>0. T \subseteq Nat
    BY <1>2
  <2>1. PICK i \in T : \A j \in T : i <= j
    BY LeastNat, <2>0
  <2>2. i # 0
    BY <2>1, <1>4, <1>2
  <2>3. i - 1 \in 0..N /\ f[i - 1] \subseteq AllKinds /\ ks \subseteq f[i - 1]
    BY <2>1, <2>2, <1>2
  <2>4. f[i] = f[i - 1] \cup UNION {sup[k] : k \in f[i - 1]}
    BY <1>4, <2>1, <2>2
  <2>5. \A k \in f[i - 1] : sup[k] \subseteq AllKinds
    BY <2>3 DEF Links
  <2> QED BY <2>1, <2>3, <2>4, <2>5
<1>6. CASE \E n \in 0..(N - 1) : f[n + 1] = f[n]
  <2>1. PICK n \in 0..(N - 1) : f[n + 1] = f[n]
    BY <1>6
  <2>2. n \in 0..N /\ n + 1 \in 0..N /\ n + 1 # 0 /\ (n + 1) - 1 = n
    BY <2>1, <1>2
  <2>3. Closed(sup, f[n])
    <3>1. f[n + 1] = f[n] \cup UNION {sup[k] : k \in f[n]}
      BY <2>2, <1>4
    <3> QED BY <3>1, <2>1 DEF Closed
  <2>4. ks \subseteq f[n]
    BY <1>5, <2>2
  <2>5. Above(sup, ks) \subseteq f[n]
    BY <2>3, <2>4, AboveLeast
  <2>6. \A m \in 0..N : m >= n => f[n] \subseteq f[m]
    <3> DEFINE T == {m \in 0..N : m >= n /\ ~(f[n] \subseteq f[m])}
    <3> SUFFICES ASSUME T # {} PROVE FALSE
      OBVIOUS
    <3>0. T \subseteq Nat
      BY <1>2
    <3>1. PICK m \in T : \A j \in T : m <= j
      BY LeastNat, <3>0
    <3>2. m # n /\ m \in 0..N /\ m >= n
      BY <3>1
    <3>3. m # 0 /\ m - 1 \in 0..N /\ m - 1 >= n
      BY <3>2, <2>2, <1>2
    <3>4. f[n] \subseteq f[m - 1]
      BY <3>1, <3>3, <3>2
    <3>5. f[m - 1] \subseteq f[m]
      BY <1>4, <3>2, <3>3
    <3> QED BY <3>1, <3>4, <3>5
  <2>7. Above(sup, ks) = f[n]
    <3>1. N \in 0..N /\ N >= n
      BY <2>2, <1>2
    <3> QED BY <3>1, <2>5, <2>6, <1>1
  <2> QED BY <2>7, <2>3, <2>4, <1>5, <2>2
<1>7. CASE \A n \in 0..(N - 1) : f[n + 1] # f[n]
  <2>1. \A n \in 0..N : IsFiniteSet(f[n]) /\ Cardinality(f[n]) \in Nat /\ Cardinality(f[n]) >= n
    <3> DEFINE T == {n \in 0..N : ~(IsFiniteSet(f[n]) /\ Cardinality(f[n]) \in Nat /\ Cardinality(f[n]) >= n)}
    <3> SUFFICES ASSUME T # {} PROVE FALSE
      OBVIOUS
    <3>0. T \subseteq Nat
      BY <1>2
    <3>1. PICK n \in T : \A j \in T : n <= j
      BY LeastNat, <3>0
    <3>2. n \in 0..N
      BY <3>1
    <3>3. IsFiniteSet(f[n]) /\ Cardinality(f[n]) \in Nat
      BY <1>2, <1>5, <3>2, FS_Subset, FS_CardinalityType
    <3>4. n # 0
      BY <3>1, <3>3
    <3>5. n - 1 \in 0..(N - 1) /\ n - 1 \in 0..N /\ n - 1 \notin T
      BY <3>1, <3>2, <3>4, <1>2
    <3>6. IsFiniteSet(f[n - 1]) /\ Cardinality(f[n - 1]) \in Nat /\ Cardinality(f[n - 1]) >= n - 1
      BY <3>5
    <3>7. f[n - 1] \subseteq f[n] /\ f[n] # f[n - 1]
      <4>1. (n - 1) + 1 = n
        BY <3>2
      <4> QED BY <4>1, <1>7, <3>5, <3>4, <3>2, <1>4
    <3>8. Cardinality(f[n - 1]) <= Cardinality(f[n]) /\ Cardinality(f[n - 1]) # Cardinality(f[n])
      BY <3>3, <3>7, FS_Subset
    <3>9. Cardinality(f[n]) >= n
      BY <3>2, <3>3, <3>6, <3>8
    <3> QED BY <3>1, <3>3, <3>9
  <2>2. f[N] \subseteq AllKinds /\ ks \subseteq f[N] /\ Cardinality(f[N]) >= N /\ Cardinality(f[N]) \in Nat
    BY <2>1, <1>5, <1>2
  <2>3. Cardinality(f[N]) <= N
    BY <2>2, <1>2, <1>3, FS_Subset
  <2>4. f[N] = AllKinds
    BY <2>2, <2>3, <1>2, <1>3, FS_Subset
  <2>5. Closed(sup, AllKinds)
    BY DEF Closed, Links
  <2> QED BY <2>4, <2>5, <2>2, <1>1
<1> QED BY <1>6, <1>7

\* A kind is not above what has all its supers, is closed and has not the kind.
Outside(sup, x, U) == sup[x] \subseteq U /\ Closed(sup, U) /\ x \notin U
NoCycle(sup) == \A x \in AllKinds : x \notin Above(sup, sup[x])

\* A kind is not above itself iff some set keeps it out.
LEMMA OutsideDecides ==
  ASSUME NEW sup \in Links
  PROVE  /\ \A x \in AllKinds : \A U : Outside(sup, x, U) => x \notin Above(sup, sup[x])
         /\ \A x \in AllKinds : x \notin Above(sup, sup[x]) => Outside(sup, x, Above(sup, sup[x]))
<1>1. \A x \in AllKinds : sup[x] \subseteq AllKinds
  BY DEF Links
<1>2. ASSUME NEW x \in AllKinds, NEW U, Outside(sup, x, U) PROVE x \notin Above(sup, sup[x])
  BY <1>2, AboveLeast DEF Outside
<1>3. ASSUME NEW x \in AllKinds, x \notin Above(sup, sup[x]) PROVE Outside(sup, x, Above(sup, sup[x]))
  BY <1>1, <1>3, AboveClosed DEF Outside
<1> QED BY <1>2, <1>3

-----------------------------------------------------------------------------
(* The links between kinds.                                                *)

\* Links as the operations pass them on, and the same facts about them.
LinkRecord == [supers : Links, subs : Links]
Mirrored(l, reg) ==
  \A k, s \in AllKinds : /\ s \in l.supers[k] <=> k \in l.subs[s]
                         /\ s \in l.supers[k] => k \in reg /\ s \in reg

LinksInv == /\ Root \in m_kinds /\ m_kinds \subseteq AllKinds
            /\ OldLinks \in LinkRecord
            /\ Mirrored(OldLinks, m_kinds)

\* clearSupers keeps the links symmetric and takes the kind out of all of them.
LEMMA ClearKeeps ==
  ASSUME NEW l \in LinkRecord, NEW reg, Mirrored(l, reg), NEW k \in AllKinds
  PROVE  /\ ClearSupers(l, k) \in LinkRecord
         /\ Mirrored(ClearSupers(l, k), reg)
         /\ Mirrored(ClearSupers(l, k), reg \ {k})
PROOF
<1> DEFINE c == ClearSupers(l, k)
<1>1. c \in LinkRecord
  BY DEF ClearSupers, LinkRecord, Links
<1>2. ASSUME NEW a \in AllKinds, NEW s \in AllKinds
      PROVE  /\ s \in c.supers[a] <=> a # k /\ s # k /\ s \in l.supers[a]
             /\ a \in c.subs[s] <=> a # k /\ s # k /\ a \in l.subs[s]
  BY DEF ClearSupers, LinkRecord, Links
<1> HIDE DEF c
<1>3. Mirrored(c, reg) /\ Mirrored(c, reg \ {k})
  BY <1>2 DEF Mirrored
<1> QED BY <1>1, <1>3 DEF c

\* addSuper keeps the links symmetric when both kinds are in memory.
LEMMA AddKeeps ==
  ASSUME NEW l \in LinkRecord, NEW reg, Mirrored(l, reg),
         NEW pairs, pairs \subseteq reg \X reg, reg \subseteq AllKinds
  PROVE  AddSupers(l, pairs) \in LinkRecord /\ Mirrored(AddSupers(l, pairs), reg)
PROOF
<1> DEFINE n == AddSupers(l, pairs)
           gains(a) == \E p \in pairs : p[1] = a
<1>1. n \in LinkRecord
  BY DEF AddSupers, LinkRecord, Links, AllKinds
<1>2. ASSUME NEW a \in AllKinds, NEW s \in AllKinds
      PROVE  /\ s \in n.supers[a] <=> (s \in l.supers[a] /\ (s = Root => ~gains(a))) \/ <<a, s>> \in pairs
             /\ a \in n.subs[s] <=> (a \in l.subs[s] /\ (s = Root => ~gains(a))) \/ <<a, s>> \in pairs
  BY DEF AddSupers, LinkRecord, Links
<1>3. ASSUME NEW a \in AllKinds, NEW s \in AllKinds, <<a, s>> \in pairs
      PROVE  a \in reg /\ s \in reg
  BY <1>3
<1> HIDE DEF n, gains
<1>4. Mirrored(n, reg)
  BY <1>2, <1>3 DEF Mirrored
<1> QED BY <1>1, <1>4 DEF n

\* More kinds in memory do not disturb the links.
LEMMA MoreKinds ==
  ASSUME NEW l, NEW reg, NEW more, reg \subseteq more, Mirrored(l, reg)
  PROVE  Mirrored(l, more)
BY DEF Mirrored

\* updateSupers of a kind, whether or not it was in memory before.
LEMMA RelinkKeeps ==
  ASSUME LinksInv, NEW k \in Kinds, NEW def
  PROVE  /\ Relink(OldLinks, k, def) \in LinkRecord
         /\ Mirrored(Relink(OldLinks, k, def), m_kinds \cup {k})
PROOF
<1> DEFINE reg == m_kinds \cup {k}
           cl == ClearSupers(OldLinks, k)
           upPairs == {<<k, s>> : s \in def.extends \cap m_kinds}
           up == AddSupers(cl, upPairs)
           gainers == {c \in m_kinds \ {k} : k \in m_superIds[c] /\ c \notin Above(up.supers, {k})}
           downPairs == {<<c, k>> : c \in gainers}
           down == AddSupers(up, downPairs)
           rootPair == {<<k, Root>>}
<1>1. k \in AllKinds /\ reg \subseteq AllKinds /\ OldLinks \in LinkRecord /\ Mirrored(OldLinks, reg)
  BY MoreKinds DEF LinksInv, AllKinds
<1>2. cl \in LinkRecord /\ Mirrored(cl, reg)
  BY <1>1, ClearKeeps
<1>3. upPairs \subseteq reg \X reg
  OBVIOUS
<1>4. downPairs \subseteq reg \X reg
  <2>1. gainers \subseteq m_kinds
    OBVIOUS
  <2> HIDE DEF gainers
  <2> QED BY <2>1
<1>5. rootPair \subseteq reg \X reg
  BY DEF LinksInv
<1>6. Relink(OldLinks, k, def) = IF down.supers[k] = {} THEN AddSupers(down, rootPair) ELSE down
  BY DEF Relink
<1> HIDE DEF reg, cl, upPairs, downPairs, rootPair
<1>7. up \in LinkRecord /\ Mirrored(up, reg)
  BY <1>1, <1>2, <1>3, AddKeeps
<1> HIDE DEF up, gainers
<1>8. down \in LinkRecord /\ Mirrored(down, reg)
  BY <1>1, <1>7, <1>4, AddKeeps
<1> HIDE DEF down
<1>9. AddSupers(down, rootPair) \in LinkRecord /\ Mirrored(AddSupers(down, rootPair), reg)
  BY <1>1, <1>8, <1>5, AddKeeps
<1> QED BY <1>6, <1>8, <1>9 DEF reg

\* configure() of a kind.
LEMMA ConfigureKeeps ==
  ASSUME LinksInv, NEW k \in Kinds, NEW def, ConfigureMemory(k, def)
  PROVE  LinksInv'
PROOF
<1> DEFINE l == Relink(OldLinks, k, def)
<1>1. l \in LinkRecord /\ Mirrored(l, m_kinds \cup {k})
  BY RelinkKeeps
<1>2. m_kinds' = m_kinds \cup {k} /\ m_supers' = l.supers /\ m_subs' = l.subs
  BY DEF ConfigureMemory, SetLinks
<1> HIDE DEF l
<1>3. OldLinks' = l
  BY <1>1, <1>2 DEF OldLinks, LinkRecord
<1>4. Root \in m_kinds' /\ m_kinds' \subseteq AllKinds
  BY <1>2 DEF LinksInv, AllKinds
<1> QED BY <1>1, <1>2, <1>3, <1>4 DEF LinksInv

\* A kind that leaves memory.
LEMMA UnregisterKeeps ==
  ASSUME LinksInv, NEW k \in Kinds, Unregister(k, OldLinks)
  PROVE  LinksInv'
PROOF
<1> DEFINE l == ClearSupers(OldLinks, k)
<1>1. l \in LinkRecord /\ Mirrored(l, m_kinds \ {k})
  BY ClearKeeps DEF LinksInv, AllKinds
<1>2. m_kinds' = m_kinds \ {k} /\ m_supers' = l.supers /\ m_subs' = l.subs
  BY DEF Unregister, SetLinks
<1> HIDE DEF l
<1>3. OldLinks' = l
  BY <1>1, <1>2 DEF OldLinks, LinkRecord
<1>4. Root \in m_kinds' /\ m_kinds' \subseteq AllKinds
  BY <1>2, KindAssumption DEF LinksInv
<1> QED BY <1>1, <1>2, <1>3, <1>4 DEF LinksInv

\* A step that leaves memory alone.
LEMMA SameKeeps ==
  ASSUME LinksInv, UNCHANGED <<m_kinds, m_supers, m_subs>>
  PROVE  LinksInv'
BY DEF LinksInv, OldLinks, Mirrored

\* The destruction of a new kind whose links were made.
LEMMA BrokenNewKindKeeps ==
  ASSUME LinksInv, NEW k \in Kinds, NEW def, k \notin m_kinds,
         SetLinks(ClearSupers(Relink(OldLinks, k, def), k)), UNCHANGED m_kinds
  PROVE  LinksInv'
PROOF
<1> DEFINE r == Relink(OldLinks, k, def)
           l == ClearSupers(r, k)
<1>1. r \in LinkRecord /\ Mirrored(r, m_kinds \cup {k})
  BY RelinkKeeps
<1>2. m_supers' = l.supers /\ m_subs' = l.subs
  BY DEF SetLinks
<1> HIDE DEF r
<1>3. l \in LinkRecord /\ Mirrored(l, (m_kinds \cup {k}) \ {k})
  BY <1>1, ClearKeeps DEF AllKinds
<1>4. (m_kinds \cup {k}) \ {k} = m_kinds
  OBVIOUS
<1> HIDE DEF l
<1>5. OldLinks' = l
  BY <1>2, <1>3 DEF OldLinks, LinkRecord
<1> QED BY <1>3, <1>4, <1>5 DEF LinksInv

\* LinksMirror is inductive together with the types of the links.
THEOREM LinksInvariance == KindSpec => []LinksInv
PROOF
<1>1. KindInit => LinksInv
  BY DEF KindInit, LinksInv, OldLinks, LinkRecord, Links, Mirrored, AllKinds
<1>2. LinksInv /\ [KindNext]_kindVars => LinksInv'
  <2> SUFFICES ASSUME LinksInv, [KindNext]_kindVars PROVE LinksInv'
    OBVIOUS
  <2>1. ASSUME NEW k \in Kinds, NEW def \in Defs(k), PutKind(k, def) PROVE LinksInv'
    BY <2>1, ConfigureKeeps DEF PutKind
  <2>2. ASSUME NEW k \in Kinds, NEW def \in Defs(k), PutKindFails(k, def) PROVE LinksInv'
    BY <2>2, ConfigureKeeps, SameKeeps DEF PutKindFails, memory
  <2>3. ASSUME NEW k \in Kinds, NEW def \in Defs(k), PutNewKindFails(k, def) PROVE LinksInv'
    <3>1. k \notin m_kinds
      BY <2>3 DEF PutNewKindFails
    <3> QED BY <2>3, <3>1, ConfigureKeeps, SameKeeps, BrokenNewKindKeeps DEF PutNewKindFails, memory
  <2>4. ASSUME NEW k \in Kinds, NEW def \in Defs(k), BatchCommitFails(k, def) PROVE LinksInv'
    BY <2>4, ConfigureKeeps DEF BatchCommitFails
  <2>5. ASSUME NEW k \in Kinds, Reload(k) PROVE LinksInv'
    BY <2>5, ConfigureKeeps, UnregisterKeeps DEF Reload, Recreate
  <2>6. ASSUME NEW k \in Kinds, LoadKind(k) PROVE LinksInv'
    BY <2>6, ConfigureKeeps DEF LoadKind, Recreate
  <2>7. ASSUME NEW k \in Kinds, PurgeKindObj(k) PROVE LinksInv'
    BY <2>7, SameKeeps DEF PurgeKindObj, memory
  <2>8. ASSUME NEW k \in Kinds, DelKind(k) PROVE LinksInv'
    BY <2>8, UnregisterKeeps DEF DelKind, Drop
  <2>9. ASSUME NEW k \in Kinds, DelKindFails(k) PROVE LinksInv'
    BY <2>9, UnregisterKeeps, SameKeeps DEF DelKindFails, memory
  <2>10. ASSUME NEW k \in Kinds, DelKindBatch(k) PROVE LinksInv'
    BY <2>10, SameKeeps DEF DelKindBatch, memory
  <2>11. ASSUME NEW k \in Kinds, DelKindRest(k) PROVE LinksInv'
    BY <2>11, UnregisterKeeps DEF DelKindRest, Drop
  <2>12. ASSUME NEW k \in Kinds, NEW o \in Objs, Put(o, k) PROVE LinksInv'
    BY <2>12, SameKeeps DEF Put, memory
  <2>13. ASSUME NEW o \in Objs, Del(o) \/ Purge(o) PROVE LinksInv'
    BY <2>13, SameKeeps DEF Del, Purge, memory
  <2>14. CASE Reopen
    BY <2>14 DEF Reopen, LinksInv, OldLinks, LinkRecord, Links, Mirrored, AllKinds
  <2>15. CASE UNCHANGED kindVars
    BY <2>15, SameKeeps DEF kindVars, memory
  <2> QED BY <2>1, <2>2, <2>3, <2>4, <2>5, <2>6, <2>7, <2>8, <2>9, <2>10, <2>11, <2>12, <2>13, <2>14, <2>15
         DEF KindNext
<1> QED BY <1>1, <1>2, PTL DEF KindSpec

\* The two lists of every link agree, and a kind that has left memory is in none.
THEOREM Mirroring == KindSpec => []LinksMirror
PROOF
<1>1. LinksInv => LinksMirror
  BY DEF LinksInv, LinksMirror, Mirrored, OldLinks
<1> QED BY <1>1, LinksInvariance, PTL

-----------------------------------------------------------------------------
(* What kinds, definitions, objects and entries are.                       *)

KindDefs == [extends : SUBSET Kinds, extra : SUBSET {"extra"}, deleted : BOOLEAN]
Extends(k) == {s \in Kinds : <<k, s>> \in MayExtend}
EntryMaps == [AllKinds -> [IndexNames -> SUBSET Objs]]

KindShape ==
  /\ m_superIds \in [AllKinds -> SUBSET Kinds] /\ m_superIds[Root] = {}
  /\ m_indexes \in [AllKinds -> SUBSET IndexNames]
  /\ \A k \in AllKinds : k \in m_kinds <=> "_id" \in m_indexes[k]
  /\ kindObj \in [Kinds -> {NoKind} \cup KindDefs]
  /\ indexIds \in [AllKinds -> SUBSET IndexNames]
  /\ object \in [Objs -> {NoKind} \cup [kind : Kinds, deleted : BOOLEAN]]
  /\ entries \in EntryMaps
  /\ loading \subseteq OnDisk /\ reloading \subseteq Kinds /\ deleting \subseteq Kinds
  /\ disturbed \in BOOLEAN /\ damaged \in BOOLEAN
  /\ \A k \in Kinds : m_superIds[k] \subseteq Extends(k)
  /\ \A k \in Kinds : kindObj[k] # NoKind => kindObj[k].extends \subseteq Extends(k)

\* The part that is in memory, and the part that is stored.
MemoryShape ==
  /\ m_superIds \in [AllKinds -> SUBSET Kinds] /\ m_superIds[Root] = {}
  /\ m_indexes \in [AllKinds -> SUBSET IndexNames]
  /\ \A k \in AllKinds : k \in m_kinds <=> "_id" \in m_indexes[k]
  /\ \A k \in Kinds : m_superIds[k] \subseteq Extends(k)
StoreShape ==
  /\ kindObj \in [Kinds -> {NoKind} \cup KindDefs]
  /\ indexIds \in [AllKinds -> SUBSET IndexNames]
  /\ object \in [Objs -> {NoKind} \cup [kind : Kinds, deleted : BOOLEAN]]
  /\ entries \in EntryMaps
  /\ \A k \in Kinds : kindObj[k] # NoKind => kindObj[k].extends \subseteq Extends(k)
PendingShape ==
  /\ loading \subseteq OnDisk /\ reloading \subseteq Kinds /\ deleting \subseteq Kinds
  /\ disturbed \in BOOLEAN /\ damaged \in BOOLEAN

\* The shape of kinds is that of memory, of what is stored and of what waits.
LEMMA ShapeParts ==
  /\ KindShape => MemoryShape /\ StoreShape /\ PendingShape
  /\ MemoryShape' /\ StoreShape' /\ PendingShape' => KindShape'
BY DEF KindShape, MemoryShape, StoreShape, PendingShape

\* A definition that a client puts, or that is stored.
Defines(def, k) ==
  /\ def.extends \subseteq Extends(k) /\ def.extends \subseteq Kinds
  /\ def.extra \subseteq {"extra"}

\* A definition that may be put is stored as it is, and is a definition.
LEMMA PutDefines ==
  ASSUME NEW k \in Kinds, NEW def \in Defs(k)
  PROVE  Defines(def, k) /\ Definition(def) \in KindDefs /\ Definition(def).extends = def.extends
           /\ Definition(def).extra = def.extra /\ ~Definition(def).deleted /\ Definition(def) # NoKind
<1>1. def.extends \subseteq Extends(k) /\ def.extra \subseteq {"extra"}
  BY DEF Defs, Extends
<1>2. def.extends \subseteq Kinds
  BY <1>1 DEF Extends
<1>3. Definition(def) \in KindDefs
  BY <1>1, <1>2 DEF Definition, KindDefs
<1>4. Definition(def) # NoKind
  BY <1>3, KindAssumption DEF KindDefs
<1> QED BY <1>1, <1>2, <1>3, <1>4 DEF Definition, Defines

\* So is a definition that is stored.
LEMMA StoredDefines ==
  ASSUME StoreShape, NEW k \in Kinds, kindObj[k] # NoKind
  PROVE  Defines(kindObj[k], k) /\ kindObj[k] \in KindDefs
BY DEF StoreShape, Defines, KindDefs

\* Memory once a kind is configured, with its indexes.
LEMMA ConfigureShape ==
  ASSUME MemoryShape, m_kinds \subseteq AllKinds, NEW k \in Kinds, NEW def, Defines(def, k), ConfigureMemory(k, def),
         m_indexes' = [m_indexes EXCEPT ![k] = {"_id"} \cup def.extra]
  PROVE  MemoryShape'
BY KindAssumption DEF MemoryShape, Defines, ConfigureMemory, IndexNames, AllKinds, Extends

\* A kind that leaves memory leaves its shape.
LEMMA UnregisterShape ==
  ASSUME MemoryShape, NEW k \in Kinds, NEW l, Unregister(k, l)
  PROVE  MemoryShape'
BY KindAssumption DEF MemoryShape, Unregister, IndexNames, AllKinds, Extends

\* Memory that does not change keeps its shape.
LEMMA SameShape ==
  ASSUME MemoryShape, UNCHANGED memory
  PROVE  MemoryShape'
BY DEF MemoryShape, memory

\* And so does storage that does not change.
LEMMA SameStore ==
  ASSUME StoreShape, UNCHANGED storage
  PROVE  StoreShape'
BY DEF StoreShape, storage

\* What the operators on entries and objects return.
LEMMA EntriesTyped ==
  ASSUME entries \in EntryMaps
  PROVE  /\ \A k \in AllKinds, e \in EntryMaps : \A def, w : Reindex(e, k, def, w) \in EntryMaps
         /\ \A os : Purged(os) \in EntryMaps
         /\ \A e \in EntryMaps, o \in Objs : \A ks, d : Insert(e, ks, o, d) \in EntryMaps
         /\ \A e \in EntryMaps : \A ks, o : Delete(e, ks, o) \in EntryMaps
         /\ \A k \in AllKinds : Listed(k) \subseteq Objs
<1>1. \A k \in AllKinds : Listed(k) \subseteq Objs
  BY DEF EntryMaps, Listed, IndexNames
<1>2. \A os : Purged(os) \in EntryMaps
  BY DEF EntryMaps, Purged
<1>3. \A e \in EntryMaps, o \in Objs : \A ks, d : Insert(e, ks, o, d) \in EntryMaps
  BY DEF EntryMaps, Insert
<1>4. \A e \in EntryMaps : \A ks, o : Delete(e, ks, o) \in EntryMaps
  BY DEF EntryMaps, Delete
<1>5. ASSUME NEW k \in AllKinds, NEW def, NEW w, NEW e \in EntryMaps PROVE Reindex(e, k, def, w) \in EntryMaps
  <2>1. \A i \in IndexNames : {o \in Listed(k) : Included(i, object[o].deleted)} \subseteq Objs
    BY <1>1
  <2> QED BY <2>1 DEF Reindex, EntryMaps
<1> QED BY <1>1, <1>2, <1>3, <1>4, <1>5

\* The store after the commit of a kind whose definition is stored already.
LEMMA RecreateShape ==
  ASSUME KindShape, m_kinds \subseteq AllKinds, NEW k \in Kinds, kindObj[k] # NoKind, Recreate(k),
         UNCHANGED <<kindObj, object>>
  PROVE  MemoryShape' /\ StoreShape'
<1>1. MemoryShape /\ StoreShape /\ Defines(kindObj[k], k)
  BY ShapeParts, StoredDefines
<1>2. MemoryShape'
  BY <1>1, ConfigureShape DEF Recreate
<1>3. {"_id"} \cup kindObj[k].extra \subseteq IndexNames
  BY <1>1 DEF Defines, IndexNames
<1>4. indexIds' \in [AllKinds -> SUBSET IndexNames]
  BY <1>1, <1>3 DEF Recreate, StoreShape
<1>5. entries' \in EntryMaps
  <2>1. Listed(k) \subseteq Objs /\ k \in AllKinds
    BY <1>1, EntriesTyped DEF StoreShape, AllKinds
  <2>2. PICK c : entries' = [entries EXCEPT ![k] = [i \in IndexNames |->
                          IF i \in c THEN {o \in Listed(k) : ~object[o].deleted} ELSE @[i]]]
    BY DEF Recreate
  <2>3. entries \in EntryMaps
    BY <1>1 DEF StoreShape
  <2> QED BY <2>1, <2>2, <2>3 DEF EntryMaps
<1> QED BY <1>1, <1>2, <1>4, <1>5 DEF StoreShape

\* putKind keeps the shapes.
LEMMA PutKindShape ==
  ASSUME KindShape, m_kinds \subseteq AllKinds, NEW k \in Kinds, NEW def \in Defs(k), PutKind(k, def)
  PROVE  KindShape'
<1>1. MemoryShape /\ StoreShape /\ PendingShape /\ Defines(def, k) /\ k \in AllKinds
  BY ShapeParts, PutDefines DEF AllKinds
<1>2. MemoryShape'
  BY <1>1, ConfigureShape DEF PutKind, ConfigureIndexes
<1>3. PendingShape'
  BY <1>1 DEF PutKind, PendingShape, Disturbs, Quiet, Bounded, Settled, Cyclic, pending
<1>4. {"_id"} \cup def.extra \subseteq IndexNames
  BY <1>1 DEF Defines, IndexNames
<1>5. indexIds' \in [AllKinds -> SUBSET IndexNames]
  BY <1>1, <1>4 DEF PutKind, ConfigureIndexes, StoreShape
<1>6. entries' \in EntryMaps
  <2> DEFINE wanted == {"_id"} \cup def.extra
             dropped == m_indexes[k] \ wanted
             e0 == [entries EXCEPT ![k] = [i \in IndexNames |-> IF i \in dropped THEN {} ELSE @[i]]]
             e == Reindex(e0, k, def, wanted)
             build(i) == {o \in e[k]["_id"] : object[o] # NoKind /\ ~object[o].deleted}
  <2>1. entries \in EntryMaps
    BY <1>1 DEF StoreShape
  <2>2. e0 \in EntryMaps
    BY <2>1, <1>1 DEF EntryMaps
  <2>3. e \in EntryMaps
    BY <2>1, <2>2, <1>1, EntriesTyped
  <2>4. \E c : entries' = [e EXCEPT ![k] = [i \in IndexNames |-> IF i \in c THEN build(i) ELSE @[i]]]
    BY DEF PutKind, ConfigureIndexes
  <2>5. \A i : build(i) \subseteq e[k]["_id"]
    OBVIOUS
  <2> HIDE DEF e, e0, build
  <2> QED BY <2>3, <2>4, <2>5, <1>1 DEF EntryMaps, IndexNames
<1>7. kindObj' = [kindObj EXCEPT ![k] = Definition(def)] /\ object' = object
  BY DEF PutKind
<1>8. StoreShape'
  BY <1>1, <1>5, <1>6, <1>7, PutDefines DEF StoreShape, Defines
<1> QED BY <1>2, <1>3, <1>8, ShapeParts

\* So does dropping the indexes of a kind with its objects purged.
LEMMA DropShape ==
  ASSUME KindShape, NEW k \in Kinds, NEW os, Forget(os), Drop(k, Purged(os)),
         kindObj' = kindObj \/ (kindObj[k] # NoKind /\ DeleteKindObj(k))
  PROVE  MemoryShape' /\ StoreShape'
<1>1. MemoryShape /\ StoreShape /\ PendingShape /\ k \in AllKinds
  BY ShapeParts DEF AllKinds
<1>2. MemoryShape'
  BY <1>1, UnregisterShape DEF Drop
<1>3. object' \in [Objs -> {NoKind} \cup [kind : Kinds, deleted : BOOLEAN]]
  BY <1>1 DEF Forget, StoreShape
<1>4. indexIds' \in [AllKinds -> SUBSET IndexNames]
  BY <1>1 DEF Drop, StoreShape
<1>5. entries' \in EntryMaps
  <2>1. Purged(os) \in EntryMaps
    BY <1>1, EntriesTyped DEF StoreShape
  <2> QED BY <2>1, <1>1 DEF Drop, EntryMaps
<1>6. /\ kindObj' \in [Kinds -> {NoKind} \cup KindDefs]
      /\ \A c \in Kinds : kindObj'[c] # NoKind => kindObj'[c].extends \subseteq Extends(c)
  <2>1. CASE kindObj[k] # NoKind /\ DeleteKindObj(k)
    <3> DEFINE d == [kindObj[k] EXCEPT !.deleted = TRUE]
    <3>1. kindObj[k] \in KindDefs
      BY <1>1, <2>1, StoredDefines
    <3>2. d \in KindDefs /\ d.extends = kindObj[k].extends
      BY <3>1 DEF KindDefs
    <3>3. kindObj' = [kindObj EXCEPT ![k] = d]
      BY <2>1 DEF DeleteKindObj
    <3> HIDE DEF d
    <3> QED BY <1>1, <2>1, <3>2, <3>3 DEF StoreShape
  <2> QED BY <1>1, <2>1 DEF StoreShape
<1> QED BY <1>2, <1>3, <1>4, <1>5, <1>6 DEF StoreShape

\* A kind that is put, configured or not, whose commit fails.
LEMMA AbortShape ==
  ASSUME KindShape, m_kinds \subseteq AllKinds, NEW k \in Kinds, NEW def, Defines(def, k),
         UNCHANGED storage,
         \/ UNCHANGED memory
         \/ /\ m_indexes' = [m_indexes EXCEPT ![k] = {"_id"} \cup def.extra] /\ k \in m_kinds
            /\ UNCHANGED <<m_kinds, m_superIds>>
         \/ /\ m_indexes' = [m_indexes EXCEPT ![k] = {"_id"} \cup def.extra]
            /\ ConfigureMemory(k, def)
         \/ UNCHANGED <<m_kinds, m_superIds, m_indexes>>
  PROVE  MemoryShape' /\ StoreShape'
<1>1. MemoryShape /\ StoreShape
  BY ShapeParts
<1>2. CASE m_indexes' = [m_indexes EXCEPT ![k] = {"_id"} \cup def.extra] /\ k \in m_kinds
           /\ UNCHANGED <<m_kinds, m_superIds>>
  BY <1>1, <1>2, SameStore, KindAssumption DEF MemoryShape, Defines, IndexNames, AllKinds
<1>3. CASE UNCHANGED <<m_kinds, m_superIds, m_indexes>>
  BY <1>1, <1>3, SameStore DEF MemoryShape
<1> QED BY <1>1, <1>2, <1>3, SameStore, SameShape, ConfigureShape DEF memory

\* Operations on an object.
LEMMA ObjectShape ==
  ASSUME KindShape, UNCHANGED memory, UNCHANGED <<kindObj, indexIds>>, UNCHANGED pending, Disturbs(FALSE),
         object' \in [Objs -> {NoKind} \cup [kind : Kinds, deleted : BOOLEAN]], entries' \in EntryMaps
  PROVE  KindShape'
BY DEF KindShape, memory, pending, Disturbs, Quiet, OnDisk

\* Every operation keeps the shapes.
LEMMA KindShapeStep ==
  ASSUME LinksInv, KindShape, [KindNext]_kindVars
  PROVE  KindShape'
<1>1. MemoryShape /\ StoreShape /\ PendingShape /\ m_kinds \subseteq AllKinds
  BY ShapeParts DEF LinksInv
<1> DEFINE calm == disturbed' \in BOOLEAN /\ damaged' \in BOOLEAN
<1>2. \A w \in BOOLEAN : Disturbs(w) => calm
  BY <1>1 DEF Disturbs, PendingShape, Quiet
<1>3. ASSUME NEW k \in Kinds, NEW def \in Defs(k), PutKind(k, def) PROVE KindShape'
  BY <1>1, <1>3, PutKindShape
<1>4. ASSUME NEW k \in Kinds, NEW def \in Defs(k), PutKindFails(k, def) PROVE KindShape'
  <2>1. MemoryShape' /\ StoreShape'
    BY <1>1, <1>4, AbortShape, PutDefines DEF PutKindFails
  <2>2. PendingShape'
    BY <1>1, <1>4, <1>2 DEF PutKindFails, PendingShape, OnDisk, storage, Bounded, Settled, Quiet
  <2> QED BY <2>1, <2>2, ShapeParts
<1>5. ASSUME NEW k \in Kinds, NEW def \in Defs(k), PutNewKindFails(k, def) PROVE KindShape'
  <2>1. MemoryShape' /\ StoreShape'
    BY <1>1, <1>5, AbortShape, PutDefines DEF PutNewKindFails
  <2>2. PendingShape'
    BY <1>1, <1>5, <1>2 DEF PutNewKindFails, PendingShape, OnDisk, storage, Bounded, Settled, Quiet
  <2> QED BY <2>1, <2>2, ShapeParts
<1>6. ASSUME NEW k \in Kinds, NEW def \in Defs(k), BatchCommitFails(k, def) PROVE KindShape'
  <2>1. MemoryShape' /\ StoreShape'
    BY <1>1, <1>6, AbortShape, PutDefines DEF BatchCommitFails
  <2>2. PendingShape'
    BY <1>1, <1>6, <1>2 DEF BatchCommitFails, PendingShape, OnDisk, storage, Bounded, Settled, Quiet, pending
  <2> QED BY <2>1, <2>2, ShapeParts
<1>7. ASSUME NEW k \in Kinds, Reload(k) PROVE KindShape'
  <2>1. CASE kindObj[k] # NoKind
    <3>1. MemoryShape' /\ StoreShape'
      BY <1>1, <1>7, <2>1, RecreateShape DEF Reload
    <3>2. PendingShape'
      <4>1. kindObj[k].deleted \in BOOLEAN
        BY <1>1, <2>1 DEF StoreShape, KindDefs
      <4> QED BY <4>1, <1>1, <1>7, <2>1 DEF Reload, Reloads, PendingShape, OnDisk
    <3> QED BY <3>1, <3>2, ShapeParts
  <2>2. CASE kindObj[k] = NoKind
    <3>1. MemoryShape'
      BY <1>1, <1>7, <2>2, UnregisterShape DEF Reload
    <3>2. StoreShape' /\ PendingShape'
      BY <1>1, <1>7, <2>2 DEF Reload, StoreShape, PendingShape, OnDisk
    <3> QED BY <3>1, <3>2, ShapeParts
  <2> QED BY <2>1, <2>2
<1>8. ASSUME NEW k \in Kinds, LoadKind(k) PROVE KindShape'
  <2>0. kindObj[k] # NoKind
    BY <1>1, <1>8 DEF LoadKind, PendingShape, OnDisk
  <2>1. MemoryShape' /\ StoreShape'
    BY <1>1, <1>8, <2>0, RecreateShape DEF LoadKind
  <2>2. PendingShape'
    BY <1>1, <1>8 DEF LoadKind, PendingShape, OnDisk
  <2> QED BY <2>1, <2>2, ShapeParts
<1>9. ASSUME NEW k \in Kinds, PurgeKindObj(k) PROVE KindShape'
  BY <1>9, <1>1, <1>2 DEF PurgeKindObj, KindShape, memory, pending, Bounded, Settled, Quiet
<1>10. ASSUME NEW k \in Kinds, DelKind(k) PROVE KindShape'
  <2>1. kindObj[k] # NoKind
    BY <1>10 DEF DelKind, Deletable, OnDisk
  <2>2. MemoryShape' /\ StoreShape'
    BY <1>10, <2>1, DropShape DEF DelKind
  <2>3. PendingShape'
    BY <1>1, <1>10, <1>2 DEF DelKind, Deletable, PendingShape, Bounded, Settled, Quiet, pending
  <2> QED BY <2>2, <2>3, ShapeParts
<1>11. ASSUME NEW k \in Kinds, DelKindFails(k) PROVE KindShape'
  <2>1. MemoryShape'
    BY <1>1, <1>11, SameShape, UnregisterShape DEF DelKindFails
  <2>2. StoreShape' /\ PendingShape'
    BY <1>1, <1>11, <1>2, SameStore DEF DelKindFails, Deletable, OnDisk, storage, PendingShape, Bounded, Settled, Quiet
  <2> QED BY <2>1, <2>2, ShapeParts
<1>12. ASSUME NEW k \in Kinds, DelKindBatch(k) PROVE KindShape'
  <2>1. kindObj[k] # NoKind
    BY <1>12 DEF DelKindBatch, Deletable, OnDisk
  <2>2. MemoryShape'
    BY <1>1, <1>12, SameShape DEF DelKindBatch
  <2>3. PICK os : Forget(os) /\ entries' = Purged(os)
    BY <1>12 DEF DelKindBatch
  <2>4. entries' \in EntryMaps
    BY <1>1, <2>3, EntriesTyped DEF StoreShape
  <2>5. object' \in [Objs -> {NoKind} \cup [kind : Kinds, deleted : BOOLEAN]]
    BY <1>1, <2>3 DEF Forget, StoreShape
  <2>6. /\ kindObj' \in [Kinds -> {NoKind} \cup KindDefs]
        /\ \A c \in Kinds : kindObj'[c] # NoKind => kindObj'[c].extends \subseteq Extends(c)
    <3>1. kindObj[k] \in KindDefs /\ kindObj' = [kindObj EXCEPT ![k] = [@ EXCEPT !.deleted = TRUE]]
      BY <1>1, <1>12, <2>1 DEF DelKindBatch, DeleteKindObj, StoreShape
    <3>2. /\ [kindObj[k] EXCEPT !.deleted = TRUE] \in KindDefs
          /\ [kindObj[k] EXCEPT !.deleted = TRUE].extends = kindObj[k].extends
      BY <3>1 DEF KindDefs
    <3> QED BY <1>1, <2>1, <3>1, <3>2 DEF StoreShape
  <2>7. StoreShape'
    BY <1>1, <1>12, <2>4, <2>5, <2>6 DEF DelKindBatch, StoreShape
  <2>8. PendingShape'
    BY <1>1, <1>12, <1>2 DEF DelKindBatch, Deletable, PendingShape, Bounded, Settled, Quiet
  <2> QED BY <2>2, <2>7, <2>8, ShapeParts
<1>13. ASSUME NEW k \in Kinds, DelKindRest(k) PROVE KindShape'
  <2>1. MemoryShape' /\ StoreShape'
    BY <1>13, DropShape DEF DelKindRest
  <2>2. PendingShape'
    BY <1>1, <1>13 DEF DelKindRest, PendingShape, OnDisk
  <2> QED BY <2>1, <2>2, ShapeParts
<1>14. ASSUME NEW k \in Kinds, NEW o \in Objs, Put(o, k) PROVE KindShape'
  <2>1. entries' \in EntryMaps
    <3>1. PICK old, new : entries' = Insert(Delete(entries, old, o), new, o, FALSE)
      BY <1>14 DEF Put
    <3> QED BY <3>1, <1>1, EntriesTyped DEF StoreShape
  <2>2. object' \in [Objs -> {NoKind} \cup [kind : Kinds, deleted : BOOLEAN]]
    BY <1>1, <1>14 DEF Put, StoreShape
  <2> QED BY <2>1, <2>2, <1>14, ObjectShape DEF Put
<1>15. ASSUME NEW o \in Objs, Del(o) PROVE KindShape'
  <2>1. entries' \in EntryMaps
    <3>1. PICK ks : entries' = Insert(Delete(entries, ks, o), ks, o, TRUE)
      BY <1>15 DEF Del
    <3> QED BY <3>1, <1>1, EntriesTyped DEF StoreShape
  <2>2. object' \in [Objs -> {NoKind} \cup [kind : Kinds, deleted : BOOLEAN]]
    BY <1>1, <1>15 DEF Del, StoreShape
  <2> QED BY <2>1, <2>2, <1>15, ObjectShape DEF Del
<1>16. ASSUME NEW o \in Objs, Purge(o) PROVE KindShape'
  <2>1. entries' \in EntryMaps
    BY <1>16, <1>1, EntriesTyped DEF Purge, StoreShape
  <2>2. object' \in [Objs -> {NoKind} \cup [kind : Kinds, deleted : BOOLEAN]]
    BY <1>1, <1>16 DEF Purge, Forget, StoreShape
  <2> QED BY <2>1, <2>2, <1>16, ObjectShape DEF Purge
<1>17. CASE Reopen
  <2>1. MemoryShape'
    BY <1>17, KindAssumption DEF Reopen, MemoryShape, AllKinds, IndexNames
  <2>2. StoreShape' /\ PendingShape'
    BY <1>1, <1>17, SameStore DEF Reopen, PendingShape, OnDisk, Cyclic, storage
  <2> QED BY <2>1, <2>2, ShapeParts
<1>18. CASE UNCHANGED kindVars
  BY <1>1, <1>18, SameShape, SameStore, ShapeParts DEF kindVars, PendingShape, pending, OnDisk, storage
<1> QED BY <1>3, <1>4, <1>5, <1>6, <1>7, <1>8, <1>9, <1>10, <1>11, <1>12, <1>13, <1>14, <1>15, <1>16, <1>17, <1>18
       DEF KindNext

-----------------------------------------------------------------------------
(* No kind is above itself: configure() takes a kind out of all links, adds *)
(* those to its supers, then those from the kinds that name it, unless they *)
(* are above it (MojDbKind::updateSupers, addSuper).                        *)

UpSupers(sup, k, ext) == [a \in AllKinds |-> IF a = k THEN ext ELSE sup[a] \ {k}]
GainSupers(up, k, gain) == [a \in AllKinds |-> IF a \in gain THEN (up[a] \ {Root}) \cup {k} ELSE up[a]]
RootSupers(dn, k) == [a \in AllKinds |-> IF a = k /\ dn[k] = {} THEN {Root} ELSE dn[a]]
Gainers(up, k) == {c \in m_kinds \ {k} : k \in m_superIds[c] /\ c \notin Above(up, {k})}
Relinked(k, def) ==
  LET up == UpSupers(m_supers, k, def.extends \cap m_kinds)
  IN  RootSupers(GainSupers(up, k, Gainers(up, k)), k)

\* What updateSupers makes of the lists of supers, in the terms of one kind at a time.
LEMMA RelinkSupers ==
  ASSUME LinksInv, NEW k \in Kinds, NEW def, Defines(def, k)
  PROVE  Relink(OldLinks, k, def).supers = Relinked(k, def)
<1> DEFINE ext == def.extends \cap m_kinds
           cl == ClearSupers(OldLinks, k)
           up == AddSupers(cl, {<<k, u>> : u \in ext})
           gain == Gainers(up.supers, k)
           down == AddSupers(up, {<<c, k>> : c \in gain})
           last == AddSupers(down, {<<k, Root>>})
<1>1. Relink(OldLinks, k, def) = IF down.supers[k] = {} THEN last ELSE down
  BY DEF Relink, Gainers
<1>2. k \in AllKinds /\ Root \in AllKinds /\ k # Root /\ ext \subseteq AllKinds /\ Root \notin ext
  BY KindAssumption DEF AllKinds, Defines
<1>3. gain \subseteq AllKinds /\ k \notin gain
  BY DEF Gainers, LinksInv
<1>4. m_supers \in Links
  BY DEF LinksInv, OldLinks, LinkRecord
<1>5. cl.supers = [a \in AllKinds |-> IF a = k THEN {} ELSE m_supers[a] \ {k}]
  BY DEF ClearSupers, OldLinks
<1>6. up.supers = UpSupers(m_supers, k, ext)
  <2>1. up.supers = [a \in AllKinds |->
                       {s \in cl.supers[a] : s = Root => \A p \in {<<k, u>> : u \in ext} : p[1] # a}
                       \cup {s \in AllKinds : <<a, s>> \in {<<k, u>> : u \in ext}}]
    BY DEF AddSupers
  <2>2. ASSUME NEW a \in AllKinds
        PROVE  {s \in cl.supers[a] : s = Root => \A p \in {<<k, u>> : u \in ext} : p[1] # a}
                 \cup {s \in AllKinds : <<a, s>> \in {<<k, u>> : u \in ext}}
               = IF a = k THEN ext ELSE m_supers[a] \ {k}
    <3>1. {s \in AllKinds : <<a, s>> \in {<<k, u>> : u \in ext}} = IF a = k THEN ext ELSE {}
      BY <1>2
    <3>2. {s \in cl.supers[a] : s = Root => \A p \in {<<k, u>> : u \in ext} : p[1] # a}
            = IF a = k THEN {} ELSE m_supers[a] \ {k}
      BY <1>5
    <3> QED BY <3>1, <3>2
  <2> QED BY <2>1, <2>2 DEF UpSupers
<1> HIDE DEF cl, up, ext
<1>7. down.supers = GainSupers(up.supers, k, gain)
  <2>1. down.supers = [a \in AllKinds |->
                       {s \in up.supers[a] : s = Root => \A p \in {<<c, k>> : c \in gain} : p[1] # a}
                       \cup {s \in AllKinds : <<a, s>> \in {<<c, k>> : c \in gain}}]
    BY DEF AddSupers
  <2>2. ASSUME NEW a \in AllKinds
        PROVE  {s \in up.supers[a] : s = Root => \A p \in {<<c, k>> : c \in gain} : p[1] # a}
                 \cup {s \in AllKinds : <<a, s>> \in {<<c, k>> : c \in gain}}
               = IF a \in gain THEN (up.supers[a] \ {Root}) \cup {k} ELSE up.supers[a]
    <3> HIDE DEF gain
    <3>1. {s \in AllKinds : <<a, s>> \in {<<c, k>> : c \in gain}} = IF a \in gain THEN {k} ELSE {}
      BY <1>2
    <3>2. {s \in up.supers[a] : s = Root => \A p \in {<<c, k>> : c \in gain} : p[1] # a}
            = IF a \in gain THEN up.supers[a] \ {Root} ELSE up.supers[a]
      <4>1. (\A p \in {<<c, k>> : c \in gain} : p[1] # a) <=> a \notin gain
        <5>1. CASE a \in gain
          <6>1. <<a, k>> \in {<<c, k>> : c \in gain} /\ <<a, k>>[1] = a
            BY <5>1
          <6> QED BY <6>1, <5>1
        <5>2. ASSUME NEW p \in {<<c, k>> : c \in gain}, p[1] = a PROVE a \in gain
          <6>1. PICK c \in gain : p = <<c, k>>
            BY <5>2
          <6> QED BY <6>1, <5>2
        <5> QED BY <5>1, <5>2
      <4> QED BY <4>1
    <3> QED BY <3>1, <3>2
  <2> HIDE DEF gain, down
  <2> QED BY <2>1, <2>2 DEF GainSupers
<1>8. down.supers[k] = {} => last.supers = [a \in AllKinds |-> IF a = k THEN {Root} ELSE down.supers[a]]
  <2> HIDE DEF down, gain
  <2> SUFFICES ASSUME down.supers[k] = {}
               PROVE  last.supers = [a \in AllKinds |-> IF a = k THEN {Root} ELSE down.supers[a]]
    OBVIOUS
  <2>1. last.supers = [a \in AllKinds |->
                       {s \in down.supers[a] : s = Root => \A p \in {<<k, Root>>} : p[1] # a}
                       \cup {s \in AllKinds : <<a, s>> \in {<<k, Root>>}}]
    BY DEF AddSupers
  <2>2. ASSUME NEW a \in AllKinds
        PROVE  {s \in down.supers[a] : s = Root => \A p \in {<<k, Root>>} : p[1] # a}
                 \cup {s \in AllKinds : <<a, s>> \in {<<k, Root>>}}
               = IF a = k THEN {Root} ELSE down.supers[a]
    BY <1>2
  <2> QED BY <2>1, <2>2
<1>9. down.supers = [a \in AllKinds |-> down.supers[a]]
  <2> HIDE DEF gain
  <2> QED BY <1>7 DEF GainSupers
<1>10. Relink(OldLinks, k, def).supers = RootSupers(down.supers, k)
  <2> HIDE DEF down, last
  <2> QED BY <1>1, <1>8, <1>9 DEF RootSupers
<1> QED BY <1>10, <1>7, <1>6 DEF Relinked, ext

\* Each of the three steps leaves no cycle.
LEMMA UpAcyclic ==
  ASSUME NEW sup \in Links, NoCycle(sup), NEW k \in AllKinds, NEW ext, ext \subseteq AllKinds, k \notin ext
  PROVE  UpSupers(sup, k, ext) \in Links /\ NoCycle(UpSupers(sup, k, ext))
<1> DEFINE up == UpSupers(sup, k, ext)
<1>1. up \in Links
  BY DEF UpSupers, Links
<1>2. \A a \in AllKinds : up[a] = IF a = k THEN ext ELSE sup[a] \ {k}
  BY DEF UpSupers
<1> HIDE DEF up
<1>3. ASSUME NEW x \in AllKinds PROVE x \notin Above(up, up[x])
  <2>1. CASE x = k
    <3>1. Outside(up, x, AllKinds \ {k})
      BY <1>1, <1>2, <2>1 DEF Outside, Closed, Links
    <3> QED BY <3>1, <1>1, OutsideDecides
  <2>2. CASE x # k
    <3>1. PICK U : Outside(sup, x, U) /\ U \subseteq AllKinds
      BY OutsideDecides, AboveClosed DEF NoCycle, Links
    <3>2. Outside(up, x, U \ {k})
      BY <1>2, <2>2, <3>1 DEF Outside, Closed
    <3> QED BY <3>2, <1>1, OutsideDecides
  <2> QED BY <2>1, <2>2
<1> QED BY <1>1, <1>3 DEF NoCycle, up

\* Kinds that are not above k and get it as a super close no cycle.
LEMMA GainAcyclic ==
  ASSUME NEW up \in Links, NoCycle(up), NEW k \in AllKinds, NEW gain, gain \cap Above(up, {k}) = {}
  PROVE  GainSupers(up, k, gain) \in Links /\ NoCycle(GainSupers(up, k, gain))
<1> DEFINE dn == GainSupers(up, k, gain)
           R == Above(up, {k})
<1>1. dn \in Links
  BY DEF GainSupers, Links
<1>2. \A a \in AllKinds : dn[a] \subseteq up[a] \cup {k} /\ (a \notin gain => dn[a] = up[a])
  BY DEF GainSupers
<1>3. k \in R /\ R \subseteq AllKinds /\ Closed(up, R)
  BY AboveClosed
<1> HIDE DEF dn, R
<1>4. ASSUME NEW x \in AllKinds PROVE x \notin Above(dn, dn[x])
  <2> DEFINE U == Above(up, up[x])
  <2>1. Outside(up, x, U) /\ U \subseteq AllKinds
    BY OutsideDecides, AboveClosed DEF NoCycle, Links
  <2>2. CASE x \in R
    <3>1. up[x] \subseteq R
      BY <1>3, <2>2 DEF Closed
    <3>2. U \subseteq R
      BY <3>1, <1>3, AboveLeast
    <3>3. Outside(dn, x, U)
      <4> HIDE DEF U
      <4> QED BY <1>2, <2>1, <2>2, <3>2 DEF Outside, Closed, R
    <3> QED BY <3>3, <1>1, OutsideDecides
  <2>3. CASE x \notin R
    <3>1. Outside(dn, x, U \cup R)
      <4> HIDE DEF U
      <4>1. Closed(dn, U \cup R)
        BY <1>2, <1>3, <2>1 DEF Outside, Closed
      <4>2. dn[x] \subseteq U \cup R /\ x \notin U \cup R
        BY <1>2, <1>3, <2>1, <2>3 DEF Outside
      <4> QED BY <4>1, <4>2 DEF Outside
    <3> QED BY <3>1, <1>1, OutsideDecides
  <2> QED BY <2>2, <2>3
<1> QED BY <1>1, <1>4 DEF NoCycle, dn

\* Nor does a link to the root kind, which has no super.
LEMMA RootAcyclic ==
  ASSUME NEW dn \in Links, NoCycle(dn), NEW k \in Kinds, dn[Root] = {}
  PROVE  /\ RootSupers(dn, k) \in Links /\ NoCycle(RootSupers(dn, k))
         /\ RootSupers(dn, k)[Root] = {}
<1> DEFINE sup == RootSupers(dn, k)
<1>1. Root \in AllKinds /\ k \in AllKinds /\ k # Root
  BY KindAssumption DEF AllKinds
<1>2. sup \in Links
  BY <1>1 DEF RootSupers, Links
<1>3. \A a \in AllKinds : sup[a] = IF a = k /\ dn[k] = {} THEN {Root} ELSE dn[a]
  BY DEF RootSupers
<1> HIDE DEF sup
<1>4. ASSUME NEW x \in AllKinds PROVE x \notin Above(sup, sup[x])
  <2>1. PICK U : Outside(dn, x, U) /\ U \subseteq AllKinds
    BY OutsideDecides, AboveClosed DEF NoCycle, Links
  <2>2. CASE x = Root
    <3>1. Outside(sup, x, {})
      BY <1>1, <1>3, <2>2 DEF Outside, Closed
    <3> QED BY <3>1, <1>2, OutsideDecides
  <2>3. CASE x # Root
    <3>1. Outside(sup, x, U \cup {Root})
      BY <1>1, <1>3, <2>1, <2>3 DEF Outside, Closed
    <3> QED BY <3>1, <1>2, OutsideDecides
  <2> QED BY <2>2, <2>3
<1> QED BY <1>1, <1>2, <1>3, <1>4 DEF NoCycle, sup

\* Fewer links make no cycle.
LEMMA FewerAcyclic ==
  ASSUME NEW sup \in Links, NoCycle(sup), NEW less \in Links, \A a \in AllKinds : less[a] \subseteq sup[a]
  PROVE  NoCycle(less)
<1>1. ASSUME NEW x \in AllKinds PROVE x \notin Above(less, less[x])
  <2>1. PICK U : Outside(sup, x, U) /\ U \subseteq AllKinds
    BY OutsideDecides, AboveClosed DEF NoCycle, Links
  <2>2. Outside(less, x, U)
    BY <2>1 DEF Outside, Closed
  <2> QED BY <2>2, OutsideDecides
<1> QED BY <1>1 DEF NoCycle

AcyclicInv == LinksInv /\ KindShape /\ NoCycle(m_supers) /\ m_supers[Root] = {}

\* So updateSupers closes no cycle, whatever the definition names.
LEMMA RelinkAcyclic ==
  ASSUME AcyclicInv, NEW k \in Kinds, NEW def, Defines(def, k)
  PROVE  /\ Relink(OldLinks, k, def).supers \in Links
         /\ NoCycle(Relink(OldLinks, k, def).supers)
         /\ Relink(OldLinks, k, def).supers[Root] = {}
<1> DEFINE ext == def.extends \cap m_kinds
           up == UpSupers(m_supers, k, ext)
           gain == Gainers(up, k)
           dn == GainSupers(up, k, gain)
<1>1. m_supers \in Links /\ NoCycle(m_supers) /\ m_supers[Root] = {} /\ m_superIds[Root] = {}
  BY DEF AcyclicInv, LinksInv, OldLinks, LinkRecord, KindShape
<1>2. k \in AllKinds /\ Root \in AllKinds /\ k # Root /\ ext \subseteq AllKinds /\ k \notin ext
  BY KindAssumption DEF AllKinds, Defines, Extends
<1>3. up \in Links /\ NoCycle(up)
  BY <1>1, <1>2, UpAcyclic
<1>4. up[Root] = {}
  BY <1>1, <1>2 DEF UpSupers
<1> HIDE DEF up
<1>5. gain \cap Above(up, {k}) = {} /\ Root \notin gain
  BY <1>1 DEF Gainers
<1> HIDE DEF gain
<1>6. dn \in Links /\ NoCycle(dn)
  BY <1>2, <1>3, <1>5, GainAcyclic
<1>7. dn[Root] = {}
  BY <1>2, <1>4, <1>5 DEF GainSupers
<1> HIDE DEF dn
<1>8. /\ RootSupers(dn, k) \in Links /\ NoCycle(RootSupers(dn, k))
      /\ RootSupers(dn, k)[Root] = {}
  BY <1>6, <1>7, RootAcyclic
<1>9. Relink(OldLinks, k, def).supers = RootSupers(dn, k)
  BY RelinkSupers DEF AcyclicInv, Relinked, dn, gain, up
<1> QED BY <1>8, <1>9

\* Nor does clearSupers, which only takes links away.
LEMMA ClearAcyclic ==
  ASSUME NEW l, l.supers \in Links, NoCycle(l.supers), l.supers[Root] = {}, NEW k
  PROVE  NoCycle(ClearSupers(l, k).supers) /\ ClearSupers(l, k).supers[Root] = {}
<1> DEFINE c == ClearSupers(l, k).supers
<1>1. c = [a \in AllKinds |-> IF a = k THEN {} ELSE l.supers[a] \ {k}]
  BY DEF ClearSupers
<1> HIDE DEF c
<1>2. c \in Links /\ (\A a \in AllKinds : c[a] \subseteq l.supers[a]) /\ Root \in AllKinds
  BY <1>1 DEF Links, AllKinds
<1>3. NoCycle(c)
  BY <1>2, FewerAcyclic
<1> QED BY <1>2, <1>3 DEF c

TopOnly(sup) == NoCycle(sup) /\ sup[Root] = {}

\* No operation closes a cycle.
LEMMA AcyclicStep ==
  ASSUME AcyclicInv, [KindNext]_kindVars
  PROVE  TopOnly(m_supers')
<1>1. LinksInv /\ KindShape /\ TopOnly(m_supers) /\ m_supers \in Links /\ OldLinks.supers = m_supers
  BY DEF AcyclicInv, TopOnly, LinksInv, OldLinks, LinkRecord
<1>2. ASSUME NEW k \in Kinds, NEW def, Defines(def, k), ConfigureMemory(k, def) PROVE TopOnly(m_supers')
  BY <1>2, RelinkAcyclic DEF TopOnly, ConfigureMemory, SetLinks
<1>3. ASSUME NEW k \in Kinds, Unregister(k, OldLinks) PROVE TopOnly(m_supers')
  BY <1>1, <1>3, ClearAcyclic DEF TopOnly, Unregister, SetLinks
<1>4. ASSUME UNCHANGED m_supers PROVE TopOnly(m_supers')
  BY <1>1, <1>4
<1>5. ASSUME NEW k \in Kinds, NEW def, Defines(def, k), SetLinks(ClearSupers(Relink(OldLinks, k, def), k))
      PROVE  TopOnly(m_supers')
  BY <1>5, RelinkAcyclic, ClearAcyclic DEF TopOnly, SetLinks
<1>6. \A k \in Kinds : \A def \in Defs(k) : Defines(def, k)
  BY PutDefines
<1>7. \A k \in Kinds : kindObj[k] # NoKind => Defines(kindObj[k], k)
  BY <1>1, ShapeParts, StoredDefines
<1>8. ASSUME NEW k \in Kinds, NEW def \in Defs(k),
             PutKind(k, def) \/ PutKindFails(k, def) \/ PutNewKindFails(k, def) \/ BatchCommitFails(k, def)
      PROVE  TopOnly(m_supers')
  <2>1. \/ UNCHANGED m_supers \/ ConfigureMemory(k, def) \/ SetLinks(ClearSupers(Relink(OldLinks, k, def), k))
    BY <1>8 DEF PutKind, PutKindFails, PutNewKindFails, BatchCommitFails, memory
  <2> QED BY <1>2, <1>4, <1>5, <1>6, <2>1
<1>9. ASSUME NEW k \in Kinds, Reload(k) \/ LoadKind(k) PROVE TopOnly(m_supers')
  <2>1. LoadKind(k) => kindObj[k] # NoKind
    BY <1>1 DEF LoadKind, KindShape, OnDisk
  <2>2. (kindObj[k] # NoKind /\ ConfigureMemory(k, kindObj[k])) \/ Unregister(k, OldLinks)
    BY <1>9, <2>1 DEF Reload, LoadKind, Recreate
  <2> QED BY <1>2, <1>3, <1>7, <2>2
<1>10. ASSUME NEW k \in Kinds,
              PurgeKindObj(k) \/ DelKind(k) \/ DelKindFails(k) \/ DelKindBatch(k) \/ DelKindRest(k)
       PROVE  TopOnly(m_supers')
  <2>1. UNCHANGED m_supers \/ Unregister(k, OldLinks)
    BY <1>10 DEF PurgeKindObj, DelKind, DelKindFails, DelKindBatch, DelKindRest, Drop, memory
  <2> QED BY <1>3, <1>4, <2>1
<1>11. ASSUME \/ \E k \in Kinds, o \in Objs : Put(o, k)
              \/ \E o \in Objs : Del(o) \/ Purge(o)
              \/ UNCHANGED kindVars
       PROVE  TopOnly(m_supers')
  BY <1>11, <1>4 DEF Put, Del, Purge, kindVars, memory
<1>12. CASE Reopen
  <2>1. m_supers' = [k \in AllKinds |-> {}]
    BY <1>12 DEF Reopen
  <2>2. m_supers' \in Links /\ Root \in AllKinds
    BY <2>1 DEF Links, AllKinds
  <2>3. \A x \in AllKinds : Outside(m_supers', x, {})
    BY <2>1 DEF Outside, Closed
  <2> QED BY <2>1, <2>2, <2>3, OutsideDecides DEF TopOnly, NoCycle
<1> QED BY <1>8, <1>9, <1>10, <1>11, <1>12 DEF KindNext

\* No kind extends itself, whatever definitions are put, deleted, fail or are loaded, in
\* whatever order: the recursive walks up the links end (MojDbKind::extends, addSuper).
THEOREM AcyclicInvariance == KindSpec => []AcyclicInv
<1>1. KindInit => AcyclicInv
  <2> SUFFICES ASSUME KindInit PROVE AcyclicInv
    OBVIOUS
  <2>1. LinksInv
    BY DEF KindInit, LinksInv, OldLinks, LinkRecord, Links, Mirrored, AllKinds
  <2>2. MemoryShape
    BY KindAssumption DEF KindInit, MemoryShape, IndexNames, AllKinds
  <2>3. StoreShape
    BY DEF KindInit, StoreShape, EntryMaps, NoEntries, IndexNames, AllKinds
  <2>4. PendingShape
    BY DEF KindInit, PendingShape
  <2>5. KindShape
    BY <2>2, <2>3, <2>4 DEF KindShape, MemoryShape, StoreShape, PendingShape
  <2>6. m_supers = [k \in AllKinds |-> {}] /\ m_supers \in Links /\ Root \in AllKinds
    BY DEF KindInit, Links, AllKinds
  <2>7. \A x \in AllKinds : Outside(m_supers, x, {})
    BY <2>6 DEF Outside, Closed
  <2> QED BY <2>1, <2>5, <2>6, <2>7, OutsideDecides DEF AcyclicInv, NoCycle
<1>2. AcyclicInv /\ LinksInv' /\ [KindNext]_kindVars => AcyclicInv'
  BY KindShapeStep, AcyclicStep DEF AcyclicInv, TopOnly
<1> QED BY <1>1, <1>2, LinksInvariance, PTL DEF KindSpec

\* So extends(), preUpdate() and updateIndexes(), which recurse over the supers, return.
THEOREM NeverCyclic == KindSpec => []Acyclic
<1>1. AcyclicInv => Acyclic
  BY DEF AcyclicInv, LinksInv, NoCycle, Acyclic
<1> QED BY <1>1, AcyclicInvariance, PTL

-----------------------------------------------------------------------------
(* Memory follows the definitions in storage.  While a kind waits to be     *)
(* loaded or reloaded the others are linked among themselves as their       *)
(* definitions say, and what they may have lost is the link to that kind.   *)

DiskOf(ko) == {k \in Kinds : ko[k] # NoKind /\ ~ko[k].deleted}
SupersOf(ko) ==
  [k \in AllKinds |-> IF k \notin DiskOf(ko) THEN {}
                      ELSE IF ko[k].extends \cap DiskOf(ko) = {} THEN {Root}
                      ELSE ko[k].extends \cap DiskOf(ko)]
StoredDefs == {ko \in [Kinds -> {NoKind} \cup KindDefs] :
                 \A k \in Kinds : ko[k] # NoKind => ko[k].extends \subseteq Extends(k)}

MatchesStore(k) ==
  /\ k \in m_kinds <=> k \in OnDisk
  /\ k \in OnDisk => m_superIds[k] = kindObj[k].extends
  /\ m_indexes[k] = Declared(k)

\* The supers of x but for what R, kinds to be reloaded, have to do with them.
LinkedBut(x, R) ==
  LET near == (m_superIds[x] \cap m_kinds) \ R
  IN  /\ m_supers[x] \ ({Root} \cup R) = near
      /\ m_supers[x] \cap R \subseteq m_superIds[x]
      /\ Root \in m_supers[x] => near = {}
      /\ near = {} /\ m_superIds[x] \cap R = {} => Root \in m_supers[x]

InMemory == m_kinds \cap Kinds

Follows ==
  /\ ~Cyclic
  /\ deleting = {} /\ (loading # {} => reloading = {})
  /\ \A a, b \in reloading : a = b
  /\ \A k \in Kinds \ (loading \cup reloading) : MatchesStore(k)
  /\ loading \cap m_kinds = {}
  /\ \A r \in reloading \ OnDisk, c \in m_kinds \ reloading : r \notin m_superIds[c]
  /\ \A x \in InMemory \ reloading : LinkedBut(x, reloading)
FollowInv == ~disturbed => Follows

\* What is declared depends on the stored definitions alone.
LEMMA DiskSame ==
  /\ OnDisk = DiskOf(kindObj) /\ DeclaredSupers = SupersOf(kindObj)
  /\ OnDisk' = DiskOf(kindObj') /\ DeclaredSupers' = SupersOf(kindObj')
BY DEF OnDisk, DiskOf, DeclaredSupers, SupersOf

\* The declared supers are links, and the root kind has none.
LEMMA SupersAreLinks ==
  ASSUME NEW ko \in StoredDefs
  PROVE  SupersOf(ko) \in Links /\ SupersOf(ko)[Root] = {} /\ DiskOf(ko) \subseteq Kinds
BY KindAssumption DEF SupersOf, DiskOf, Links, AllKinds

\* What is stored are definitions.
LEMMA StoreDefs ==
  /\ StoreShape => kindObj \in StoredDefs
  /\ StoreShape' => kindObj' \in StoredDefs
BY DEF StoreShape, StoredDefs

\* No cycle is declared iff no kind is above itself in the declared hierarchy.
LEMMA CyclicOf ==
  ASSUME NEW ko \in StoredDefs
  PROVE  (\E k \in DiskOf(ko) : k \in Above(SupersOf(ko), SupersOf(ko)[k])) <=> ~NoCycle(SupersOf(ko))
<1>1. SupersOf(ko) \in Links /\ DiskOf(ko) \subseteq AllKinds
  BY SupersAreLinks DEF AllKinds
<1>2. ASSUME NEW k \in AllKinds, k \notin DiskOf(ko) PROVE k \notin Above(SupersOf(ko), SupersOf(ko)[k])
  <2>1. SupersOf(ko)[k] = {}
    BY <1>2 DEF SupersOf
  <2>2. Outside(SupersOf(ko), k, {})
    BY <2>1 DEF Outside, Closed
  <2> QED BY <2>2, <1>1, OutsideDecides
<1> QED BY <1>1, <1>2 DEF NoCycle

\* The same of the definitions that are stored.
LEMMA CyclicSame ==
  /\ StoreShape => (Cyclic <=> ~NoCycle(SupersOf(kindObj)))
  /\ StoreShape' => (Cyclic' <=> ~NoCycle(SupersOf(kindObj')))
<1>1. Cyclic <=> \E k \in DiskOf(kindObj) : k \in Above(SupersOf(kindObj), SupersOf(kindObj)[k])
  BY DiskSame DEF Cyclic
<1>2. Cyclic' <=> \E k \in DiskOf(kindObj') : k \in Above(SupersOf(kindObj'), SupersOf(kindObj')[k])
  <2>1. Cyclic' <=> \E k \in OnDisk' : k \in Above(DeclaredSupers', DeclaredSupers'[k])
    BY DEF Cyclic
  <2> QED BY <2>1, DiskSame
<1> QED BY <1>1, <1>2, StoreDefs, CyclicOf

\* A kind linked as declared is so whatever is left out.
LEMMA LinkedButMore ==
  ASSUME NEW x, NEW k, k # Root, LinkedBut(x, {})
  PROVE  LinkedBut(x, {k})
BY DEF LinkedBut

\* A kind that names k is not above it if the links are among those of a graph without cycles.
LEMMA NoneAbove ==
  ASSUME AcyclicInv, NEW k \in Kinds, NEW ext, ext \subseteq Kinds, k \notin ext,
         \A x \in InMemory \ {k} : LinkedBut(x, {k}),
         NEW G \in Links, NoCycle(G), ext \subseteq G[k],
         \A x \in InMemory \ {k} : m_superIds[x] \cap (m_kinds \cup {k}) \subseteq G[x]
  PROVE  Gainers(UpSupers(m_supers, k, ext), k) = {c \in m_kinds \ {k} : k \in m_superIds[c]}
<1> DEFINE up == UpSupers(m_supers, k, ext)
           A == Above(G, {k})
<1>1. m_supers \in Links /\ m_supers[Root] = {} /\ m_superIds[Root] = {} /\ m_kinds \subseteq AllKinds
  BY DEF AcyclicInv, KindShape, LinksInv, OldLinks, LinkRecord
<1>2. \A a \in AllKinds : up[a] = IF a = k THEN ext ELSE m_supers[a] \ {k}
  BY DEF UpSupers
<1>3. k \in A /\ A \subseteq AllKinds /\ Closed(G, A) /\ k \in AllKinds /\ k # Root /\ Root \in AllKinds
  BY AboveClosed, KindAssumption DEF AllKinds
<1> HIDE DEF up, A
<1>4. \A x \in AllKinds : x \notin m_kinds => m_supers[x] = {}
  <2>1. \A x, s \in AllKinds : s \in m_supers[x] => x \in m_kinds
    BY DEF AcyclicInv, LinksInv, Mirrored, OldLinks
  <2> QED BY <2>1, <1>1 DEF Links
<1>5. ASSUME NEW x \in A \cup {Root} PROVE up[x] \subseteq A \cup {Root}
  <2>1. CASE x = Root
    BY <2>1, <1>1, <1>2, <1>3
  <2>2. CASE x = k
    BY <2>2, <1>2, <1>3 DEF Closed
  <2>3. CASE x \notin m_kinds /\ x # k
    BY <2>3, <1>2, <1>3, <1>4
  <2>4. CASE x \in InMemory \ {k}
    <3>1. x \in A /\ x \in AllKinds
      BY <2>4, <1>3, KindAssumption DEF InMemory, AllKinds
    <3>2. m_supers[x] \ {Root, k} \subseteq m_superIds[x] \cap (m_kinds \cup {k})
      BY <2>4 DEF LinkedBut
    <3>3. m_supers[x] \ {Root, k} \subseteq A
      BY <3>1, <3>2, <2>4, <1>3 DEF Closed
    <3> QED BY <3>1, <3>3, <2>4, <1>2
  <2> QED BY <2>1, <2>2, <2>3, <2>4, <1>1, <1>3 DEF InMemory, AllKinds
<1>6. Above(up, {k}) \subseteq A \cup {Root}
  <2>1. Closed(up, A \cup {Root}) /\ {k} \subseteq A \cup {Root}
    BY <1>5, <1>3 DEF Closed
  <2> QED BY <2>1, AboveLeast
<1>7. ASSUME NEW c \in m_kinds \ {k}, k \in m_superIds[c] PROVE c \notin Above(up, {k})
  <2> SUFFICES ASSUME c \in Above(up, {k}) PROVE FALSE
    OBVIOUS
  <2>1. c # Root /\ c \in InMemory \ {k}
    BY <1>1, <1>7 DEF InMemory, AllKinds
  <2>2. c \in A /\ k \in G[c]
    BY <2>1, <1>6, <1>7
  <2> DEFINE B == Above(G, G[k])
  <2>3. Outside(G, k, B)
    BY <1>3, OutsideDecides DEF NoCycle
  <2> HIDE DEF B
  <2>4. A \subseteq {k} \cup B
    <3>1. Closed(G, {k} \cup B)
      BY <2>3 DEF Outside, Closed
    <3> QED BY <3>1, AboveLeast DEF A
  <2>5. c \in B
    BY <2>1, <2>2, <2>4
  <2> QED BY <2>2, <2>3, <2>5 DEF Outside, Closed
<1> QED BY <1>7 DEF Gainers, up

\* What becomes of the supers of another kind when k is configured or gives up.
OthersKeep(sup, x, k) ==
  LET near == (m_superIds[x] \cap m_kinds) \ {k}
  IN  /\ sup[x] \ {Root, k} = near
      /\ k \in sup[x] => k \in m_superIds[x]
      /\ Root \in sup[x] => near = {} /\ k \notin sup[x]
      /\ near = {} /\ k \notin m_superIds[x] => Root \in sup[x]

\* What configure() leaves of the links of the other kinds, and of all kinds where nothing
\* keeps a kind that names k from being linked to it.
LEMMA ConfigureLinks ==
  ASSUME AcyclicInv, NEW k \in Kinds, NEW def, Defines(def, k),
         \A x \in InMemory \ {k} : LinkedBut(x, {k}),
         NEW sup, sup = Relink(OldLinks, k, def).supers
  PROVE  /\ \A x \in InMemory \ {k} : OthersKeep(sup, x, k)
         /\ Gainers(UpSupers(m_supers, k, def.extends \cap m_kinds), k) = {c \in m_kinds \ {k} : k \in m_superIds[c]} =>
              /\ \A x \in InMemory \ {k} : k \in m_superIds[x] => k \in sup[x]
              /\ sup[k] = IF def.extends \cap m_kinds = {} THEN {Root} ELSE def.extends \cap m_kinds
<1> DEFINE ext == def.extends \cap m_kinds
           up == UpSupers(m_supers, k, ext)
           gain == Gainers(up, k)
           dn == GainSupers(up, k, gain)
<1>1. m_supers \in Links /\ k \in AllKinds /\ k # Root /\ k \notin gain
  BY KindAssumption DEF AcyclicInv, LinksInv, OldLinks, LinkRecord, AllKinds, Gainers
<1>2. sup = RootSupers(dn, k)
  BY RelinkSupers DEF AcyclicInv, Relinked
<1>3. \A a \in AllKinds : /\ up[a] = IF a = k THEN ext ELSE m_supers[a] \ {k}
                          /\ dn[a] = IF a \in gain THEN (up[a] \ {Root}) \cup {k} ELSE up[a]
                          /\ sup[a] = IF a = k /\ dn[k] = {} THEN {Root} ELSE dn[a]
  BY <1>2 DEF UpSupers, GainSupers, RootSupers
<1>4. \A c \in gain : k \in m_superIds[c]
  BY DEF Gainers
<1> HIDE DEF gain, up, dn
<1>5. ASSUME NEW x \in InMemory \ {k} PROVE OthersKeep(sup, x, k)
  <2>1. x \in AllKinds /\ LinkedBut(x, {k})
    BY DEF InMemory, AllKinds
  <2>2. sup[x] = IF x \in gain THEN (m_supers[x] \ {k, Root}) \cup {k} ELSE m_supers[x] \ {k}
    BY <2>1, <1>3
  <2> QED BY <2>1, <2>2, <1>1, <1>4 DEF LinkedBut, OthersKeep
<1>6. ASSUME gain = {c \in m_kinds \ {k} : k \in m_superIds[c]}
      PROVE  /\ \A x \in InMemory \ {k} : k \in m_superIds[x] => k \in sup[x]
             /\ sup[k] = IF ext = {} THEN {Root} ELSE ext
  BY <1>6, <1>1, <1>3 DEF InMemory, AllKinds
<1> QED BY <1>5, <1>6 DEF gain, up

\* One step at a time.  A kind that is configured with nothing to be loaded or reloaded after it.
LEMMA ConfigureFollows ==
  ASSUME AcyclicInv, NEW k \in Kinds, NEW def, Defines(def, k), ConfigureMemory(k, def),
         m_indexes' = [m_indexes EXCEPT ![k] = {"_id"} \cup def.extra],
         \A x \in InMemory \ {k} : LinkedBut(x, {k}),
         StoreShape', kindObj' \in StoredDefs, ~Cyclic',
         kindObj'[k] # NoKind, ~kindObj'[k].deleted, kindObj'[k].extends = def.extends, kindObj'[k].extra = def.extra,
         \A x \in Kinds \ {k} : kindObj'[x] = kindObj[x],
         \A x \in Kinds \ (loading' \cup {k}) : MatchesStore(x),
         loading' \cap m_kinds = {}, loading' \subseteq OnDisk, k \notin loading'
  PROVE  /\ \A x \in Kinds \ loading' : MatchesStore(x)'
         /\ \A x \in InMemory' : LinkedBut(x, {})'
         /\ loading' \cap m_kinds' = {}
<1> DEFINE ext == def.extends \cap m_kinds
           G == SupersOf(kindObj')
<1>1. /\ m_kinds' = m_kinds \cup {k}
      /\ m_superIds' = [m_superIds EXCEPT ![k] = def.extends]
      /\ m_supers' = Relink(OldLinks, k, def).supers
  BY DEF ConfigureMemory, SetLinks
<1>2. G \in Links /\ NoCycle(G)
  BY SupersAreLinks, CyclicSame
<1>3. /\ m_superIds \in [AllKinds -> SUBSET Kinds] /\ m_indexes \in [AllKinds -> SUBSET IndexNames]
      /\ k \in AllKinds /\ k # Root /\ Root \notin Kinds /\ Kinds \subseteq AllKinds
      /\ def.extends \subseteq Kinds /\ k \notin def.extends
  BY KindAssumption DEF AcyclicInv, KindShape, AllKinds, Defines, Extends
<1>4. DiskOf(kindObj') = OnDisk' /\ OnDisk' = OnDisk \cup {k}
  BY DiskSame DEF OnDisk
<1>5. InMemory \subseteq OnDisk'
  <2>1. ASSUME NEW x \in InMemory, x # k PROVE x \in OnDisk
    BY <2>1 DEF InMemory, MatchesStore
  <2> QED BY <1>4, <2>1
<1>6. ASSUME NEW x \in InMemory \ {k} PROVE m_superIds[x] = kindObj'[x].extends /\ x \in OnDisk'
  BY <1>5, <1>4 DEF InMemory, MatchesStore
<1>7. \A x \in OnDisk' : kindObj'[x].extends \cap OnDisk' \subseteq G[x]
  BY <1>4, <1>3 DEF SupersOf, OnDisk
<1>8. \A x \in InMemory \ {k} : m_superIds[x] \cap (m_kinds \cup {k}) \subseteq G[x]
  <2>1. ASSUME NEW x \in InMemory \ {k} PROVE m_superIds[x] \cap (m_kinds \cup {k}) \subseteq OnDisk'
    BY <1>3, <1>4, <1>5 DEF InMemory
  <2> QED BY <2>1, <1>6, <1>7
<1>9. ext \subseteq G[k] /\ ext \subseteq Kinds /\ k \notin ext
  BY <1>3, <1>4, <1>5, <1>7 DEF InMemory
<1>10. Gainers(UpSupers(m_supers, k, ext), k) = {c \in m_kinds \ {k} : k \in m_superIds[c]}
  <2> HIDE DEF ext, G
  <2> QED BY <1>2, <1>8, <1>9, NoneAbove
<1>11. ASSUME NEW x \in InMemory'  PROVE LinkedBut(x, {})'
  <2>1. CASE x = k
    BY <2>1, <1>1, <1>3, <1>10, ConfigureLinks DEF LinkedBut
  <2>2. CASE x # k
    <3>1. x \in InMemory \ {k} /\ m_superIds'[x] = m_superIds[x] /\ x \in AllKinds
      BY <2>2, <1>1, <1>3 DEF InMemory
    <3> DEFINE near == (m_superIds[x] \cap m_kinds) \ {k}
               now == m_superIds[x] \cap (m_kinds \cup {k})
               sup == m_supers'[x]
    <3>2. /\ sup \ {Root, k} = near
          /\ k \in sup <=> k \in m_superIds[x]
          /\ Root \in sup => near = {}
          /\ near = {} /\ k \notin m_superIds[x] => Root \in sup
          /\ Root \in sup => k \notin sup
      <4>1. OthersKeep(m_supers', x, k)
        BY <3>1, <1>1, ConfigureLinks
      <4>2. k \in m_superIds[x] => k \in sup
        BY <3>1, <1>1, <1>10, ConfigureLinks
      <4> QED BY <4>1, <4>2 DEF OthersKeep
    <3>3. now = near \cup (IF k \in m_superIds[x] THEN {k} ELSE {}) /\ Root \notin now
      BY <3>1, <1>3, <3>2 DEF InMemory
    <3>4. sup \ {Root} = now
      BY <3>2, <3>3, <1>3
    <3>5. (Root \in sup => now = {}) /\ (now = {} => Root \in sup)
      BY <3>2, <3>3
    <3> HIDE DEF near, now, sup
    <3> QED BY <3>1, <3>4, <3>5, <1>1 DEF LinkedBut, now, sup
  <2> QED BY <2>1, <2>2
<1>12. ASSUME NEW x \in Kinds \ loading' PROVE MatchesStore(x)'
  <2>1. CASE x = k
    <3>1. k \in m_kinds' /\ k \in OnDisk' /\ m_superIds'[k] = kindObj'[k].extends
      BY <1>1, <1>3, <1>4
    <3>2. m_indexes'[k] = {"_id"} \cup kindObj'[k].extra
      BY <1>3
    <3> QED BY <2>1, <3>1, <3>2 DEF MatchesStore, Declared
  <2>2. CASE x # k
    <3>1. MatchesStore(x) /\ kindObj'[x] = kindObj[x] /\ (x \in m_kinds' <=> x \in m_kinds)
      BY <2>2, <1>1
    <3>2. (x \in OnDisk' <=> x \in OnDisk) /\ m_superIds'[x] = m_superIds[x] /\ m_indexes'[x] = m_indexes[x]
      BY <2>2, <1>1, <1>3, <1>4
    <3> QED BY <3>1, <3>2 DEF MatchesStore, Declared
  <2> QED BY <2>1, <2>2
<1> QED BY <1>1, <1>11, <1>12

\* putKind: memory follows the definition it has stored.
LEMMA PutKindFollows ==
  ASSUME AcyclicInv, KindShape', FollowInv, NEW k \in Kinds, NEW def \in Defs(k), PutKind(k, def), ~disturbed'
  PROVE  Follows'
<1>1. ~disturbed /\ Quiet /\ ~Cyclic' /\ UNCHANGED pending
  BY DEF PutKind, Disturbs, Cyclic
<1>2. Follows /\ loading = {} /\ reloading = {} /\ loading' = {} /\ reloading' = {} /\ deleting' = {}
  BY <1>1 DEF FollowInv, Quiet, pending
<1>3. StoreShape' /\ kindObj' \in StoredDefs /\ StoreShape /\ k # Root
  BY StoreDefs, KindAssumption DEF AcyclicInv, KindShape, StoreShape
<1>4. Defines(def, k) /\ Definition(def) # NoKind /\ ~Definition(def).deleted
        /\ Definition(def).extends = def.extends /\ Definition(def).extra = def.extra
  BY PutDefines
<1>5. kindObj' = [kindObj EXCEPT ![k] = Definition(def)] /\ ConfigureMemory(k, def)
      /\ m_indexes' = [m_indexes EXCEPT ![k] = {"_id"} \cup def.extra]
  BY DEF PutKind, ConfigureIndexes
<1>6. kindObj'[k] = Definition(def) /\ \A x \in Kinds \ {k} : kindObj'[x] = kindObj[x]
  BY <1>3, <1>5 DEF StoreShape
<1>7. \A x \in InMemory \ {k} : LinkedBut(x, {k})
  BY <1>2, <1>3, LinkedButMore DEF Follows
<1>8. \A x \in Kinds \ (loading' \cup {k}) : MatchesStore(x)
  BY <1>2 DEF Follows
<1>9. /\ \A x \in Kinds \ loading' : MatchesStore(x)'
      /\ \A x \in InMemory' : LinkedBut(x, {})'
  BY <1>1, <1>2, <1>3, <1>4, <1>5, <1>6, <1>7, <1>8, ConfigureFollows
<1> QED BY <1>1, <1>2, <1>9 DEF Follows

\* A kind that is created anew from its stored definition.
LEMMA RecreateFollows ==
  ASSUME AcyclicInv, KindShape', FollowInv, NEW k \in Kinds, Reload(k) \/ LoadKind(k), ~disturbed',
         kindObj[k] # NoKind
  PROVE  Follows'
<1>0. ~disturbed
  BY DEF Reload, Reloads, LoadKind, AcyclicInv, KindShape
<1>2. Follows
  BY <1>0 DEF FollowInv
<1>1. /\ ~disturbed /\ Recreate(k) /\ UNCHANGED <<kindObj, deleting>>
      /\ loading' \subseteq loading /\ reloading' \subseteq reloading /\ k \notin loading' /\ k \notin reloading'
      /\ k \in loading \/ k \in reloading
      /\ loading \ {k} = loading' /\ reloading \ {k} = reloading'
  <2>1. CASE Reload(k)
    BY <1>0, <1>2, <2>1 DEF Reload, Follows
  <2>2. CASE LoadKind(k)
    BY <1>0, <1>2, <2>2 DEF LoadKind, Follows
  <2> QED BY <2>1, <2>2
<1>3. k \in OnDisk /\ ~kindObj[k].deleted
  BY <1>1 DEF Reload, Reloads, LoadKind, AcyclicInv, KindShape, OnDisk
<1>4. StoreShape /\ StoreShape' /\ kindObj' \in StoredDefs /\ kindObj' = kindObj /\ k # Root /\ loading \subseteq OnDisk
  BY <1>1, StoreDefs, KindAssumption DEF AcyclicInv, KindShape, StoreShape
<1>5. Defines(kindObj[k], k)
  BY <1>4, StoredDefines
<1>6. ~Cyclic'
  BY <1>2, <1>4, CyclicSame DEF Follows
<1>7. (reloading = {k} /\ loading = {}) \/ reloading = {}
  BY <1>1, <1>2 DEF Follows
<1>8. reloading' = {} /\ \A x \in InMemory \ {k} : LinkedBut(x, {k})
  BY <1>1, <1>2, <1>4, <1>7, LinkedButMore DEF Follows
<1>9. \A x \in Kinds \ (loading' \cup {k}) : MatchesStore(x)
  BY <1>1, <1>2, <1>7 DEF Follows
<1>10. /\ \A x \in Kinds \ loading' : MatchesStore(x)'
       /\ \A x \in InMemory' : LinkedBut(x, {})'
       /\ loading' \cap m_kinds' = {}
  <2>1. ConfigureMemory(k, kindObj[k]) /\ m_indexes' = [m_indexes EXCEPT ![k] = {"_id"} \cup kindObj[k].extra]
    BY <1>1 DEF Recreate
  <2>2. loading' \cap m_kinds = {} /\ loading' \subseteq OnDisk
    BY <1>1, <1>2, <1>4 DEF Follows
  <2> QED BY <1>1, <1>3, <1>4, <1>5, <1>6, <1>8, <1>9, <2>1, <2>2, ConfigureFollows
<1> QED BY <1>1, <1>2, <1>6, <1>8, <1>10 DEF Follows

\* An operation on a kind k that was aborted with the links of the others as they were.
LEMMA AbortFollows ==
  ASSUME AcyclicInv, KindShape', FollowInv, NEW k \in Kinds, ~disturbed, ~disturbed', Quiet,
         UNCHANGED storage, UNCHANGED <<loading, deleting>>, reloading' = reloading \cup {k},
         k \in OnDisk \/ \A c \in m_kinds : k \notin m_superIds[c],
         m_kinds' \ {k} = m_kinds \ {k},
         \A x \in AllKinds \ {k} : m_superIds'[x] = m_superIds[x] /\ m_indexes'[x] = m_indexes[x],
         \/ UNCHANGED m_supers
         \/ \A x \in InMemory \ {k} : OthersKeep(m_supers', x, k)
  PROVE  Follows'
<1>1. Follows /\ reloading = {} /\ loading = {} /\ reloading' = {k} /\ loading' = {} /\ deleting' = {}
  BY DEF FollowInv, Quiet
<1>2. kindObj' = kindObj /\ OnDisk' = OnDisk /\ k # Root
  BY KindAssumption DEF storage, OnDisk
<1>3. ~Cyclic'
  BY <1>1, <1>2, CyclicSame DEF Follows, AcyclicInv, KindShape, StoreShape
<1>4. ASSUME NEW x \in Kinds \ {k} PROVE MatchesStore(x)'
  <2>1. MatchesStore(x) /\ x \in AllKinds
    BY <1>1 DEF Follows, AllKinds
  <2>2. x \in m_kinds' <=> x \in m_kinds
    OBVIOUS
  <2> QED BY <2>1, <2>2, <1>2 DEF MatchesStore, Declared
<1>5. ASSUME NEW x \in InMemory' \ {k} PROVE LinkedBut(x, {k})'
  <2>1. x \in InMemory \ {k} /\ x \in AllKinds /\ m_superIds'[x] = m_superIds[x]
    BY DEF InMemory, AllKinds
  <2>2. (m_superIds'[x] \cap m_kinds') \ {k} = (m_superIds[x] \cap m_kinds) \ {k}
    BY <2>1
  <2>3. LinkedBut(x, {k})
    BY <1>1, <1>2, <2>1, LinkedButMore DEF Follows
  <2>4. CASE UNCHANGED m_supers
    BY <2>1, <2>2, <2>3, <2>4 DEF LinkedBut
  <2>5. CASE ~UNCHANGED m_supers
    <3> DEFINE near == (m_superIds[x] \cap m_kinds) \ {k}
    <3>1. /\ m_supers'[x] \ {Root, k} = near
          /\ k \in m_supers'[x] => k \in m_superIds[x]
          /\ Root \in m_supers'[x] => near = {}
          /\ near = {} /\ k \notin m_superIds[x] => Root \in m_supers'[x]
      BY <2>1, <2>5 DEF OthersKeep
    <3> QED BY <2>1, <2>2, <3>1 DEF LinkedBut
  <2> QED BY <2>4, <2>5
<1>6. \A r \in {k} \ OnDisk', c \in m_kinds' \ {k} : r \notin m_superIds'[c]
  <2>1. ASSUME NEW c \in m_kinds' \ {k} PROVE c \in m_kinds /\ c \in AllKinds \ {k} /\ m_superIds'[c] = m_superIds[c]
    BY DEF AcyclicInv, LinksInv
  <2> QED BY <2>1, <1>2
<1> QED BY <1>1, <1>3, <1>4, <1>5, <1>6 DEF Follows

\* putKind that fails, until its reload: the other kinds are linked as declared without this one.
LEMMA PutKindFailsFollows ==
  ASSUME AcyclicInv, KindShape', FollowInv, NEW k \in Kinds, NEW def \in Defs(k), ~disturbed',
         PutKindFails(k, def) \/ PutNewKindFails(k, def)
  PROVE  Follows'
<1>1. ~disturbed /\ Quiet /\ UNCHANGED storage /\ UNCHANGED <<loading, deleting>> /\ reloading' = reloading \cup {k}
  BY DEF PutKindFails, PutNewKindFails, Disturbs
<1>2. Follows /\ MatchesStore(k) /\ Defines(def, k)
  BY <1>1, PutDefines DEF FollowInv, Follows, Quiet
<1>3. k \in OnDisk \/ \A c \in m_kinds : k \notin m_superIds[c]
  BY <1>2 DEF PutKindFails, PutNewKindFails, Disturbs, MatchesStore
<1>4. \A x \in InMemory \ {k} : LinkedBut(x, {k})
  BY <1>1, <1>2, LinkedButMore, KindAssumption DEF Follows, Quiet
<1>5. \/ /\ m_kinds' \ {k} = m_kinds \ {k}
         /\ \A x \in AllKinds \ {k} : m_superIds'[x] = m_superIds[x] /\ m_indexes'[x] = m_indexes[x]
         /\ UNCHANGED m_supers
      \/ /\ m_indexes' = [m_indexes EXCEPT ![k] = {"_id"} \cup def.extra] /\ ConfigureMemory(k, def)
      \/ SetLinks(ClearSupers(Relink(OldLinks, k, def), k)) /\ UNCHANGED <<m_kinds, m_superIds, m_indexes>>
  <2>1. m_indexes \in [AllKinds -> SUBSET IndexNames]
    BY DEF AcyclicInv, KindShape
  <2> QED BY <2>1 DEF PutKindFails, PutNewKindFails, memory
<1> DEFINE sup == Relink(OldLinks, k, def).supers
<1>6. \A x \in InMemory \ {k} : OthersKeep(sup, x, k)
  BY <1>2, <1>4, ConfigureLinks
<1>7. CASE /\ m_kinds' \ {k} = m_kinds \ {k}
           /\ \A x \in AllKinds \ {k} : m_superIds'[x] = m_superIds[x] /\ m_indexes'[x] = m_indexes[x]
           /\ UNCHANGED m_supers
  BY <1>1, <1>3, <1>7, AbortFollows
<1>8. CASE m_indexes' = [m_indexes EXCEPT ![k] = {"_id"} \cup def.extra] /\ ConfigureMemory(k, def)
  <2>1. m_supers' = sup /\ m_kinds' = m_kinds \cup {k} /\ m_superIds' = [m_superIds EXCEPT ![k] = def.extends]
    BY <1>8 DEF ConfigureMemory, SetLinks
  <2>2. m_superIds \in [AllKinds -> SUBSET Kinds] /\ m_indexes \in [AllKinds -> SUBSET IndexNames]
    BY DEF AcyclicInv, KindShape
  <2>3. m_kinds' \ {k} = m_kinds \ {k}
    BY <2>1
  <2>4. \A x \in AllKinds \ {k} : m_superIds'[x] = m_superIds[x] /\ m_indexes'[x] = m_indexes[x]
    BY <2>1, <2>2, <1>8
  <2> HIDE DEF sup
  <2> QED BY <2>1, <2>3, <2>4, <1>1, <1>3, <1>6, AbortFollows
<1>9. CASE SetLinks(ClearSupers(Relink(OldLinks, k, def), k)) /\ UNCHANGED <<m_kinds, m_superIds, m_indexes>>
  <2>1. m_supers' = [a \in AllKinds |-> IF a = k THEN {} ELSE sup[a] \ {k}]
    BY <1>9 DEF SetLinks, ClearSupers
  <2> HIDE DEF sup
  <2>2. k # Root
    BY KindAssumption
  <2>3. ASSUME NEW x \in InMemory \ {k} PROVE OthersKeep(m_supers', x, k)
    <3>1. m_supers'[x] = sup[x] \ {k}
      BY <2>1 DEF InMemory, AllKinds
    <3> QED BY <3>1, <2>2, <1>6 DEF OthersKeep
  <2> QED BY <2>3, <1>1, <1>3, <1>9, AbortFollows
<1> QED BY <1>5, <1>7, <1>8, <1>9

\* A kind that leaves memory.
LEMMA NoSubs ==
  ASSUME AcyclicInv, Follows, NEW k \in Kinds, reloading = {}, m_subs[k] = {}
  PROVE  /\ \A c \in m_kinds : k \notin m_superIds[c] \/ k \notin m_kinds
         /\ \A a \in AllKinds : m_supers[a] \ {k} = m_supers[a]
<1>1. \A a \in AllKinds : k \notin m_supers[a]
  BY DEF AcyclicInv, LinksInv, Mirrored, OldLinks, AllKinds
<1>2. ASSUME NEW c \in m_kinds, k \in m_superIds[c], k \in m_kinds PROVE FALSE
  <2>1. c \in InMemory /\ c \in AllKinds
    BY <1>2 DEF AcyclicInv, LinksInv, KindShape, InMemory, AllKinds
  <2>2. k \in m_supers[c]
    BY <2>1, <1>2 DEF Follows, LinkedBut
  <2> QED BY <2>1, <2>2, <1>1
<1> QED BY <1>1, <1>2

\* What a kind that leaves memory changes there.
LEMMA UnregisterIs ==
  ASSUME AcyclicInv, NEW k \in Kinds, Unregister(k, OldLinks)
  PROVE  /\ m_kinds' = m_kinds \ {k} /\ k \in AllKinds /\ k # Root
         /\ \A x \in AllKinds : /\ m_superIds'[x] = IF x = k THEN {} ELSE m_superIds[x]
                                /\ m_indexes'[x] = IF x = k THEN {} ELSE m_indexes[x]
                                /\ m_supers'[x] = IF x = k THEN {} ELSE m_supers[x] \ {k}
BY KindAssumption DEF AcyclicInv, KindShape, Unregister, SetLinks, ClearSupers, OldLinks, AllKinds

\* delKind that fails, until its reload.
LEMMA DelKindFailsFollows ==
  ASSUME AcyclicInv, KindShape', FollowInv, NEW k \in Kinds, DelKindFails(k), ~disturbed'
  PROVE  Follows'
<1>1. ~disturbed /\ Quiet /\ UNCHANGED storage /\ UNCHANGED <<loading, deleting>> /\ reloading' = reloading \cup {k}
        /\ k \in OnDisk /\ m_subs[k] = {}
  BY DEF DelKindFails, Deletable, Disturbs
<1>2. Follows /\ reloading = {}
  BY <1>1 DEF FollowInv, Quiet
<1>3. CASE UNCHANGED memory
  BY <1>1, <1>3, AbortFollows DEF memory
<1>4. CASE Unregister(k, OldLinks)
  <2>1. ASSUME NEW x \in InMemory \ {k} PROVE OthersKeep(m_supers', x, k)
    <3>1. LinkedBut(x, {k}) /\ k # Root
      BY <1>2, LinkedButMore, KindAssumption DEF Follows
    <3>2. m_supers'[x] = m_supers[x] \ {k}
      BY <1>4, UnregisterIs DEF InMemory, AllKinds
    <3> QED BY <3>1, <3>2 DEF LinkedBut, OthersKeep
  <2>2. m_kinds' \ {k} = m_kinds \ {k}
    BY <1>4, UnregisterIs
  <2>3. \A x \in AllKinds \ {k} : m_superIds'[x] = m_superIds[x] /\ m_indexes'[x] = m_indexes[x]
    BY <1>4, UnregisterIs
  <2> QED BY <2>1, <2>2, <2>3, <1>1, AbortFollows
<1> QED BY <1>3, <1>4 DEF DelKindFails

\* A kind that leaves memory because it is not stored, while no other names it.
LEMMA UnregisterFollows ==
  ASSUME AcyclicInv, KindShape', Follows, NEW k \in Kinds, Unregister(k, OldLinks), ~Cyclic',
         \A c \in m_kinds \ {k} : k \notin m_superIds[c],
         reloading \subseteq {k}, reloading' = {}, loading = {}, loading' = {}, deleting' = deleting,
         k \notin OnDisk', \A x \in Kinds \ {k} : kindObj'[x] = kindObj[x]
  PROVE  Follows'
<1>1. /\ m_kinds' = m_kinds \ {k} /\ k \in AllKinds /\ k # Root
      /\ \A x \in AllKinds : /\ m_superIds'[x] = IF x = k THEN {} ELSE m_superIds[x]
                             /\ m_indexes'[x] = IF x = k THEN {} ELSE m_indexes[x]
                             /\ m_supers'[x] = IF x = k THEN {} ELSE m_supers[x] \ {k}
  BY UnregisterIs
<1>2. \A x \in Kinds \ {k} : x \in OnDisk' <=> x \in OnDisk
  BY DEF OnDisk
<1>3. ASSUME NEW x \in Kinds PROVE MatchesStore(x)'
  <2>1. CASE x = k
    BY <2>1, <1>1 DEF MatchesStore, Declared
  <2>2. CASE x # k
    <3>1. MatchesStore(x) /\ x \in AllKinds
      BY <2>2 DEF Follows, AllKinds
    <3> QED BY <3>1, <2>2, <1>1, <1>2 DEF MatchesStore, Declared
  <2> QED BY <2>1, <2>2
<1>4. ASSUME NEW x \in InMemory' PROVE LinkedBut(x, {})'
  <2>1. x \in InMemory \ {k} /\ x \in AllKinds /\ x \in m_kinds \ {k}
    BY <1>1 DEF InMemory, AllKinds
  <2>2. LinkedBut(x, {k})
    <3>1. LinkedBut(x, reloading)
      BY <2>1 DEF Follows
    <3>2. reloading = {} \/ reloading = {k}
      OBVIOUS
    <3> QED BY <3>1, <3>2, <1>1, LinkedButMore
  <2>3. m_supers'[x] = m_supers[x] \ {k} /\ m_superIds'[x] \cap m_kinds' = (m_superIds[x] \cap m_kinds) \ {k}
    BY <2>1, <1>1
  <2>4. k \notin m_superIds[x]
    BY <2>1
  <2> QED BY <2>2, <2>3, <2>4, <1>1 DEF LinkedBut
<1> QED BY <1>3, <1>4 DEF Follows

\* delKind: a kind without sub-kinds leaves memory as it leaves the definitions.
LEMMA DelKindFollows ==
  ASSUME AcyclicInv, KindShape', FollowInv, NEW k \in Kinds, DelKind(k), ~disturbed'
  PROVE  Follows'
<1>1. /\ ~disturbed /\ Quiet /\ UNCHANGED pending /\ k \in OnDisk /\ k \in m_kinds /\ m_subs[k] = {}
      /\ Unregister(k, OldLinks) /\ DeleteKindObj(k)
  BY DEF DelKind, Deletable, Disturbs, Drop
<1>2. Follows /\ loading = {} /\ reloading = {} /\ loading' = {} /\ reloading' = {} /\ deleting' = deleting
  BY <1>1 DEF FollowInv, Quiet, pending
<1>3. \A c \in m_kinds : k \notin m_superIds[c]
  BY <1>1, <1>2, NoSubs
<1>4. StoreShape /\ StoreShape' /\ kindObj \in StoredDefs /\ kindObj' \in StoredDefs
  BY StoreDefs DEF AcyclicInv, KindShape, StoreShape
<1>5. kindObj[k] \in KindDefs /\ kindObj[k] # NoKind
  BY <1>1, <1>4 DEF OnDisk, StoreShape
<1>6. kindObj'[k].deleted /\ \A x \in Kinds \ {k} : kindObj'[x] = kindObj[x]
  BY <1>1, <1>4, <1>5 DEF DeleteKindObj, StoreShape, KindDefs
<1>7. DiskOf(kindObj') = DiskOf(kindObj) \ {k} /\ DiskOf(kindObj) = OnDisk
  BY <1>6, DiskSame DEF DiskOf
<1>8. \A a \in AllKinds : SupersOf(kindObj')[a] \subseteq SupersOf(kindObj)[a]
  <2>1. ASSUME NEW a \in DiskOf(kindObj) \ {k} PROVE kindObj'[a] = kindObj[a] /\ k \notin kindObj[a].extends
    <3>1. a \in OnDisk /\ a \in Kinds /\ MatchesStore(a)
      BY <1>2, <1>7 DEF Follows, OnDisk
    <3> QED BY <3>1, <1>3, <1>6 DEF MatchesStore
  <2>2. ASSUME NEW a \in AllKinds PROVE SupersOf(kindObj')[a] \subseteq SupersOf(kindObj)[a]
    <3>1. CASE a \notin DiskOf(kindObj')
      BY <3>1 DEF SupersOf
    <3>2. CASE a \in DiskOf(kindObj')
      <4>1. kindObj'[a].extends \cap DiskOf(kindObj') = kindObj[a].extends \cap DiskOf(kindObj)
        BY <3>2, <2>1, <1>7
      <4> QED BY <4>1, <3>2, <1>7 DEF SupersOf
    <3> QED BY <3>1, <3>2
  <2> QED BY <2>2
<1>9. ~Cyclic'
  <2>1. NoCycle(SupersOf(kindObj))
    BY <1>2, <1>4, CyclicSame DEF Follows
  <2>2. NoCycle(SupersOf(kindObj'))
    BY <2>1, <1>4, <1>8, SupersAreLinks, FewerAcyclic
  <2> QED BY <2>2, <1>4, CyclicSame
<1>10. k \notin OnDisk'
  BY <1>7, DiskSame
<1> QED BY <1>1, <1>2, <1>3, <1>6, <1>9, <1>10, UnregisterFollows

\* The reload of a kind that is not stored.
LEMMA ReloadNoneFollows ==
  ASSUME AcyclicInv, KindShape', FollowInv, NEW k \in Kinds, Reload(k), kindObj[k] = NoKind, ~disturbed'
  PROVE  Follows'
<1>1. /\ ~disturbed /\ k \in reloading /\ Unregister(k, OldLinks) /\ reloading' = reloading \ {k}
      /\ UNCHANGED <<kindObj, loading, deleting>>
  BY DEF Reload
<1>2. Follows /\ reloading = {k} /\ loading = {}
  BY <1>1 DEF FollowInv, Follows
<1>3. ~Cyclic' /\ k \notin OnDisk' /\ k \notin OnDisk
  BY <1>1, <1>2, CyclicSame DEF Follows, AcyclicInv, KindShape, StoreShape, OnDisk
<1>4. \A c \in m_kinds \ {k} : k \notin m_superIds[c]
  BY <1>2, <1>3 DEF Follows
<1>5. reloading' = {} /\ loading' = {} /\ deleting' = deleting /\ kindObj' = kindObj
  BY <1>1, <1>2
<1> QED BY <1>1, <1>2, <1>3, <1>4, <1>5, UnregisterFollows

\* Steps that leave memory alone.
LEMMA SameFollows ==
  ASSUME KindShape, KindShape', Follows, UNCHANGED memory, UNCHANGED pending,
         kindObj' = kindObj \/ \E k \in Kinds : kindObj' = [kindObj EXCEPT ![k] = NoKind] /\ kindObj[k].deleted
  PROVE  Follows'
<1>1. StoreShape /\ StoreShape' /\ kindObj \in StoredDefs /\ kindObj' \in StoredDefs
  BY StoreDefs DEF KindShape, StoreShape
<1>2. OnDisk' = OnDisk /\ \A x \in OnDisk : kindObj'[x] = kindObj[x]
  BY <1>1 DEF OnDisk, StoreShape
<1>3. SupersOf(kindObj') = SupersOf(kindObj)
  BY <1>2, DiskSame DEF SupersOf
<1>4. ~Cyclic'
  BY <1>1, <1>3, CyclicSame DEF Follows
<1>5. \A x \in Kinds \ (loading \cup reloading) : MatchesStore(x)'
  BY <1>2 DEF Follows, MatchesStore, Declared, memory
<1>6. \A x \in InMemory \ reloading : LinkedBut(x, reloading)'
  BY DEF Follows, LinkedBut, memory, pending
<1> QED BY <1>2, <1>4, <1>5, <1>6 DEF Follows, memory, pending, InMemory

\* Every operation keeps memory at what the definitions say.
LEMMA FollowStep ==
  ASSUME AcyclicInv, AcyclicInv', FollowInv, [KindNext]_kindVars
  PROVE  FollowInv'
<1> SUFFICES ASSUME ~disturbed' PROVE Follows'
  BY DEF FollowInv
<1>1. KindShape /\ KindShape'
  BY DEF AcyclicInv
<1>2. ASSUME NEW k \in Kinds, NEW def \in Defs(k),
             PutKind(k, def) \/ PutKindFails(k, def) \/ PutNewKindFails(k, def) \/ BatchCommitFails(k, def)
      PROVE  Follows'
  <2>1. ~BatchCommitFails(k, def)
    BY DEF BatchCommitFails, Disturbs
  <2> QED BY <2>1, <1>1, <1>2, PutKindFollows, PutKindFailsFollows
<1>3. ASSUME NEW k \in Kinds, Reload(k) \/ LoadKind(k) PROVE Follows'
  <2>1. LoadKind(k) => kindObj[k] # NoKind
    BY <1>1 DEF LoadKind, KindShape, OnDisk
  <2> QED BY <2>1, <1>1, <1>3, RecreateFollows, ReloadNoneFollows
<1>4. ASSUME NEW k \in Kinds, PurgeKindObj(k) PROVE Follows'
  BY <1>1, <1>4, SameFollows DEF PurgeKindObj, Disturbs, FollowInv
<1>5. ASSUME NEW k \in Kinds, DelKind(k) \/ DelKindFails(k) PROVE Follows'
  BY <1>1, <1>5, DelKindFollows, DelKindFailsFollows
<1>6. ASSUME NEW k \in Kinds, DelKindBatch(k) \/ DelKindRest(k) PROVE Follows'
  BY <1>6 DEF DelKindBatch, DelKindRest, Disturbs, FollowInv, Follows
<1>7. ASSUME \/ \E k \in Kinds, o \in Objs : Put(o, k)
             \/ \E o \in Objs : Del(o) \/ Purge(o)
      PROVE  Follows'
  <2>1. UNCHANGED memory /\ UNCHANGED pending /\ kindObj' = kindObj /\ Disturbs(FALSE)
    BY <1>7 DEF Put, Del, Purge
  <2>2. Follows
    BY <2>1 DEF FollowInv, Disturbs
  <2> QED BY <2>1, <2>2, <1>1, SameFollows
<1>8. CASE Reopen
  <2>1. ~Cyclic /\ kindObj' = kindObj /\ OnDisk' = OnDisk /\ loading' = OnDisk /\ reloading' = {} /\ deleting' = {}
    BY <1>8 DEF Reopen, storage, OnDisk
  <2>2. ~Cyclic'
    BY <2>1, <1>1, CyclicSame DEF KindShape, StoreShape
  <2>3. m_kinds' = {Root} /\ InMemory' = {} /\ \A k \in Kinds : m_indexes'[k] = {} /\ k # Root
    BY <1>8, KindAssumption DEF Reopen, InMemory, AllKinds
  <2>4. \A k \in Kinds \ loading' : MatchesStore(k)'
    BY <2>1, <2>3 DEF MatchesStore, Declared
  <2>5. loading' \cap m_kinds' = {}
    BY <2>1, <2>3 DEF OnDisk
  <2> QED BY <2>1, <2>2, <2>3, <2>4, <2>5 DEF Follows
<1>9. CASE UNCHANGED kindVars
  <2>1. UNCHANGED memory /\ UNCHANGED pending /\ kindObj' = kindObj /\ ~disturbed
    BY <1>9 DEF kindVars, storage
  <2> QED BY <2>1, <1>1, SameFollows DEF FollowInv
<1> QED BY <1>2, <1>3, <1>4, <1>5, <1>6, <1>7, <1>8, <1>9 DEF KindNext

-----------------------------------------------------------------------------
(* What is stored of a kind's indexes follows the definitions as well.      *)

Tidy(k) == /\ indexIds[k] = Declared(k)
           /\ \A i \in IndexNames \ indexIds[k] : entries[k][i] = {}
StoreInv == ~damaged => ~disturbed /\ \A k \in Kinds : Tidy(k)

\* The indexes of a kind are declared by its definition.
LEMMA DeclaredSame ==
  ASSUME NEW k \in Kinds, kindObj'[k] = kindObj[k]
  PROVE  Declared(k)' = Declared(k)
<1>1. k \in OnDisk' <=> k \in OnDisk
  BY DEF OnDisk
<1> QED BY <1>1 DEF Declared

\* Entries change only in an index with an id, or in one that is wanted of the kind put.
LEMMA ReindexOnly ==
  ASSUME NEW k, NEW def, NEW w, NEW e, NEW a \in AllKinds, NEW i \in IndexNames,
         IF a = k THEN i \notin w ELSE i \notin indexIds[a]
  PROVE  Reindex(e, k, def, w)[a][i] = e[a][i]
BY DEF Reindex

\* Nothing strays into the indexes of a kind whose definition stays and that gains no entry.
LEMMA LessTidy ==
  ASSUME NEW k \in Kinds, Tidy(k), kindObj'[k] = kindObj[k], indexIds'[k] = indexIds[k],
         \A i \in IndexNames \ indexIds[k] : entries'[k][i] \subseteq entries[k][i]
  PROVE  Tidy(k)'
<1>1. Declared(k)' = Declared(k)
  BY DeclaredSame
<1> QED BY <1>1 DEF Tidy

\* A purge adds no entry.
LEMMA PurgedLess ==
  ASSUME NEW os, NEW a \in AllKinds, NEW i \in IndexNames
  PROVE  Purged(os)[a][i] \subseteq entries[a][i]
BY DEF Purged

\* update() adds no entry to an index that has no id in storage.
LEMMA InsertOnly ==
  ASSUME NEW ks, NEW us, NEW o, NEW d, NEW a \in AllKinds, NEW i \in IndexNames \ indexIds[a]
  PROVE  Insert(Delete(entries, ks, o), us, o, d)[a][i] \subseteq entries[a][i]
BY DEF Insert, Delete

\* putKind clears the indexes it drops, and gives an id to those it creates.
LEMMA PutKindTidy ==
  ASSUME KindShape, Follows, Quiet, \A c \in Kinds : Tidy(c),
         NEW k \in Kinds, NEW def \in Defs(k), PutKind(k, def), NEW x \in Kinds
  PROVE  Tidy(x)'
<1> DEFINE wanted == {"_id"} \cup def.extra
           dropped == m_indexes[k] \ wanted
           e0 == [entries EXCEPT ![k] = [i \in IndexNames |-> IF i \in dropped THEN {} ELSE @[i]]]
           e == Reindex(e0, k, def, wanted)
           created == wanted \ (m_indexes[k] \cup indexIds[k])
           build == {o \in e[k]["_id"] : object[o] # NoKind /\ ~object[o].deleted}
<1>1. StoreShape /\ k \in AllKinds /\ x \in AllKinds
  BY ShapeParts DEF AllKinds
<1>2. m_indexes[k] = Declared(k) /\ m_indexes[k] = indexIds[k]
  BY DEF Follows, MatchesStore, Tidy, Quiet
<1>3. kindObj' = [kindObj EXCEPT ![k] = Definition(def)] /\ indexIds' = [indexIds EXCEPT ![k] = (@ \ dropped) \cup wanted]
        /\ entries' = [e EXCEPT ![k] = [i \in IndexNames |-> IF i \in created \ {"_id"} THEN build ELSE @[i]]]
  BY DEF PutKind, ConfigureIndexes
<1>4. e0 \in EntryMaps /\ e \in EntryMaps
  <2>1. entries \in EntryMaps
    BY <1>1 DEF StoreShape
  <2>2. e0 \in EntryMaps
    BY <2>1, <1>1 DEF EntryMaps
  <2> QED BY <2>1, <2>2, <1>1, EntriesTyped
<1>5. \A a \in AllKinds, i \in IndexNames :
        e0[a][i] = IF a = k /\ i \in dropped THEN {} ELSE entries[a][i]
  BY <1>1 DEF StoreShape, EntryMaps
<1>6. \A a \in AllKinds, i \in IndexNames :
        entries'[a][i] = IF a = k /\ i \in created \ {"_id"} THEN build ELSE e[a][i]
  <2> HIDE DEF e, created, build
  <2> QED BY <1>1, <1>3, <1>4 DEF EntryMaps
<1>7. CASE x = k
  <2>1. indexIds'[k] = wanted
    BY <1>1, <1>2, <1>3 DEF StoreShape
  <2>2. Declared(k)' = wanted
    <3>1. kindObj'[k] = Definition(def)
      BY <1>1, <1>3 DEF StoreShape
    <3>2. k \in OnDisk'
      BY <3>1, PutDefines DEF OnDisk
    <3> QED BY <3>1, <3>2, PutDefines DEF Declared
  <2>3. ASSUME NEW i \in IndexNames \ wanted PROVE entries'[k][i] = {}
    <3>1. entries'[k][i] = e[k][i]
      BY <1>1, <1>6
    <3>2. e[k][i] = e0[k][i]
      <4> HIDE DEF e0, wanted
      <4> QED BY <1>1, <2>3, ReindexOnly
    <3>3. i \in dropped \/ entries[k][i] = {}
      BY <1>2 DEF Tidy
    <3>4. e0[k][i] = IF i \in dropped THEN {} ELSE entries[k][i]
      BY <1>1, <1>5
    <3> HIDE DEF e, e0, dropped
    <3> QED BY <3>1, <3>2, <3>3, <3>4
  <2> QED BY <1>7, <2>1, <2>2, <2>3 DEF Tidy
<1>8. CASE x # k
  <2>1. kindObj'[x] = kindObj[x] /\ indexIds'[x] = indexIds[x]
    BY <1>1, <1>3, <1>8 DEF StoreShape
  <2>2. ASSUME NEW i \in IndexNames \ indexIds[x] PROVE entries'[x][i] = entries[x][i]
    <3>1. e[x][i] = e0[x][i]
      <4> HIDE DEF e0, wanted
      <4> QED BY <1>1, <1>8, <2>2, ReindexOnly
    <3> HIDE DEF e, e0, created, build
    <3> QED BY <3>1, <1>1, <1>5, <1>6, <1>8
  <2>3. Tidy(x)
    OBVIOUS
  <2> HIDE DEF e, e0, created, build
  <2> QED BY <2>1, <2>2, <2>3, LessTidy
<1> QED BY <1>7, <1>8

\* A kind loaded again has its indexes in storage: nothing is created.
LEMMA RecreateTidy ==
  ASSUME KindShape, NEW k \in Kinds, k \in OnDisk, Recreate(k), Tidy(k)
  PROVE  indexIds' = indexIds /\ entries' = entries
<1>1. indexIds[k] = {"_id"} \cup kindObj[k].extra
  BY DEF Tidy, Declared
<1>2. StoreShape /\ k \in AllKinds
  BY ShapeParts DEF AllKinds
<1>3. indexIds' = [indexIds EXCEPT ![k] = @ \cup ({"_id"} \cup kindObj[k].extra)]
  BY DEF Recreate
<1>4. entries' = [entries EXCEPT ![k] = [i \in IndexNames |-> @[i]]]
  BY <1>1 DEF Recreate
<1> QED BY <1>1, <1>2, <1>3, <1>4 DEF StoreShape, EntryMaps

\* delKind clears every index of the kind.
LEMMA DelKindTidy ==
  ASSUME KindShape, Follows, Quiet, \A c \in Kinds : Tidy(c),
         NEW k \in Kinds, DelKind(k), NEW x \in Kinds
  PROVE  Tidy(x)'
<1>1. StoreShape /\ k \in AllKinds /\ x \in AllKinds /\ kindObj[k] # NoKind
  BY ShapeParts DEF AllKinds, DelKind, Deletable, OnDisk
<1>2. m_indexes[k] = indexIds[k]
  BY DEF Follows, MatchesStore, Tidy, Quiet
<1> DEFINE pu == Purged(Listed(k))
<1>3. /\ indexIds' = [indexIds EXCEPT ![k] = @ \ m_indexes[k]]
      /\ entries' = [pu EXCEPT ![k] = [i \in IndexNames |-> IF i \in m_indexes[k] THEN {} ELSE @[i]]]
      /\ kindObj' = [kindObj EXCEPT ![k].deleted = TRUE]
  BY DEF DelKind, Drop, DeleteKindObj
<1>4. pu \in EntryMaps /\ \A a \in AllKinds, i \in IndexNames : pu[a][i] \subseteq entries[a][i]
  BY <1>1, EntriesTyped, PurgedLess DEF StoreShape
<1> HIDE DEF pu
<1>5. CASE x = k
  <2>1. kindObj[k] \in KindDefs
    BY <1>1 DEF StoreShape
  <2>2. kindObj'[k].deleted
    BY <2>1, <1>1, <1>3 DEF StoreShape, KindDefs
  <2>3. Declared(k)' = {}
    BY <2>2 DEF Declared, OnDisk
  <2>4. indexIds'[k] = {}
    BY <1>1, <1>2, <1>3 DEF StoreShape
  <2>5. ASSUME NEW i \in IndexNames PROVE entries'[k][i] = {}
    <3>1. entries'[k][i] = IF i \in m_indexes[k] THEN {} ELSE pu[k][i]
      BY <1>1, <1>3, <1>4 DEF EntryMaps
    <3>2. i \notin indexIds[k] => entries[k][i] = {}
      BY DEF Tidy
    <3> QED BY <3>1, <3>2, <1>1, <1>2, <1>4
  <2> QED BY <1>5, <2>3, <2>4, <2>5 DEF Tidy
<1>6. CASE x # k
  <2>1. kindObj'[x] = kindObj[x] /\ indexIds'[x] = indexIds[x]
    BY <1>1, <1>3, <1>6 DEF StoreShape
  <2>2. \A i \in IndexNames : entries'[x][i] \subseteq entries[x][i]
    BY <1>1, <1>3, <1>4, <1>6 DEF EntryMaps
  <2> QED BY <2>1, <2>2, LessTidy
<1> QED BY <1>5, <1>6

\* Every operation keeps storage free of what belongs to no index.
LEMMA StoreStep ==
  ASSUME KindShape, FollowInv, FollowInv', StoreInv, [KindNext]_kindVars
  PROVE  StoreInv'
<1> SUFFICES ASSUME ~damaged' PROVE ~disturbed' /\ \A x \in Kinds : Tidy(x)'
  BY DEF StoreInv
<1>1. CASE UNCHANGED kindVars
  <2>1. ~damaged /\ ~disturbed' /\ kindObj' = kindObj /\ indexIds' = indexIds /\ entries' = entries
    BY <1>1 DEF kindVars, storage, StoreInv
  <2> QED BY <2>1, LessTidy DEF StoreInv
<1>2. CASE KindNext
  <2> USE <1>2
  <2>1. ~damaged
    BY DEF KindNext, PutKind, PutKindFails, PutNewKindFails, BatchCommitFails, Reload, Reloads, LoadKind, PurgeKindObj,
           DelKind, DelKindFails, DelKindBatch, DelKindRest, Put, Del, Purge, Reopen, Disturbs
  <2>2. ~disturbed /\ Follows /\ \A x \in Kinds : Tidy(x)
    BY <2>1 DEF StoreInv, FollowInv
  <2>3. \A w : Disturbs(w) => ~disturbed' /\ Quiet /\ ~w
    BY DEF Disturbs
  <2>4. StoreShape
    BY ShapeParts
  <2>5. ASSUME kindObj' = kindObj, indexIds' = indexIds,
               \A x \in Kinds : \A i \in IndexNames \ indexIds[x] : entries'[x][i] \subseteq entries[x][i]
        PROVE  \A x \in Kinds : Tidy(x)'
    BY <2>5, <2>2, LessTidy
  <2>6. ASSUME NEW k \in Kinds, NEW def \in Defs(k),
               PutKind(k, def) \/ PutKindFails(k, def) \/ PutNewKindFails(k, def) \/ BatchCommitFails(k, def)
        PROVE  ~disturbed' /\ \A x \in Kinds : Tidy(x)'
    <3>1. CASE PutKind(k, def)
      <4>1. ~disturbed' /\ Quiet
        BY <3>1, <2>3 DEF PutKind
      <4> QED BY <3>1, <4>1, <2>2, PutKindTidy
    <3>2. CASE ~PutKind(k, def)
      <4>1. ~disturbed' /\ UNCHANGED storage
        BY <2>6, <3>2, <2>3 DEF PutKindFails, PutNewKindFails, BatchCommitFails
      <4> QED BY <4>1, <2>5 DEF storage
    <3> QED BY <3>1, <3>2
  <2>7. ASSUME NEW k \in Kinds, Reload(k) \/ LoadKind(k)
        PROVE  ~disturbed' /\ \A x \in Kinds : Tidy(x)'
    <3>1. ~disturbed' /\ kindObj' = kindObj
      <4>1. CASE Reload(k)
        BY <4>1, <2>2 DEF Reload, Reloads
      <4>2. CASE LoadKind(k)
        BY <4>2, <2>2 DEF LoadKind
      <4> QED BY <4>1, <4>2, <2>7
    <3>2. indexIds' = indexIds /\ entries' = entries
      <4>1. CASE Reload(k) /\ kindObj[k] = NoKind
        BY <4>1 DEF Reload
      <4>2. CASE ~(Reload(k) /\ kindObj[k] = NoKind)
        <5>1. Recreate(k) /\ k \in OnDisk
          <6>1. CASE Reload(k)
            BY <6>1, <4>2, <2>2 DEF Reload, Reloads, OnDisk
          <6>2. CASE LoadKind(k)
            BY <6>2 DEF LoadKind, KindShape
          <6> QED BY <6>1, <6>2, <2>7
        <5> QED BY <5>1, <2>2, RecreateTidy
      <4> QED BY <4>1, <4>2
    <3> QED BY <3>1, <3>2, <2>5
  <2>8. ASSUME NEW k \in Kinds, PurgeKindObj(k)
        PROVE  ~disturbed' /\ \A x \in Kinds : Tidy(x)'
    <3>1. ~disturbed' /\ kindObj' = [kindObj EXCEPT ![k] = NoKind] /\ kindObj[k].deleted
            /\ UNCHANGED <<indexIds, entries>>
      BY <2>8, <2>3 DEF PurgeKindObj
    <3>2. OnDisk' = OnDisk /\ \A x \in OnDisk : kindObj'[x] = kindObj[x]
      BY <3>1, <2>4 DEF OnDisk, StoreShape
    <3> QED BY <3>1, <3>2, <2>2 DEF Tidy, Declared
  <2>9. ASSUME NEW k \in Kinds, DelKind(k) \/ DelKindFails(k) \/ DelKindBatch(k) \/ DelKindRest(k)
        PROVE  ~disturbed' /\ \A x \in Kinds : Tidy(x)'
    <3>1. CASE DelKind(k)
      <4>1. ~disturbed' /\ Quiet
        BY <3>1, <2>3 DEF DelKind
      <4> QED BY <3>1, <4>1, <2>2, DelKindTidy
    <3>2. CASE ~DelKind(k)
      <4>1. DelKindFails(k)
        BY <2>9, <3>2, <2>2, <2>3 DEF DelKindBatch, DelKindRest, Follows
      <4>2. ~disturbed' /\ UNCHANGED storage
        BY <4>1, <2>3 DEF DelKindFails
      <4> QED BY <4>2, <2>5 DEF storage
    <3> QED BY <3>1, <3>2
  <2>10. ASSUME \/ \E k \in Kinds, o \in Objs : Put(o, k)
                \/ \E o \in Objs : Del(o) \/ Purge(o)
         PROVE  ~disturbed' /\ \A x \in Kinds : Tidy(x)'
    <3>1. ~disturbed' /\ kindObj' = kindObj /\ indexIds' = indexIds
      BY <2>10, <2>3 DEF Put, Del, Purge
    <3>2. \/ \E ks, us, o, d : entries' = Insert(Delete(entries, ks, o), us, o, d)
          \/ \E os : entries' = Purged(os)
      BY <2>10 DEF Put, Del, Purge
    <3>3. \A x \in Kinds : x \in AllKinds
      BY DEF AllKinds
    <3>4. \A x \in Kinds : \A i \in IndexNames \ indexIds[x] : entries'[x][i] \subseteq entries[x][i]
      BY <3>2, <3>3, PurgedLess, InsertOnly
    <3> QED BY <3>1, <3>4, <2>5
  <2>11. CASE Reopen
    <3>1. ~disturbed' /\ UNCHANGED storage
      BY <2>11, <2>2 DEF Reopen, Follows
    <3> QED BY <3>1, <2>5 DEF storage
  <2> QED BY <2>6, <2>7, <2>8, <2>9, <2>10, <2>11 DEF KindNext
<1> QED BY <1>1, <1>2

\* The root kind has its index of ids and no other.
RootInv == m_indexes[Root] = {"_id"} /\ indexIds[Root] = {"_id"}

\* The root kind keeps its index.
LEMMA RootStep ==
  ASSUME KindShape, RootInv, [KindNext]_kindVars
  PROVE  RootInv'
<1>1. /\ m_indexes \in [AllKinds -> SUBSET IndexNames] /\ indexIds \in [AllKinds -> SUBSET IndexNames]
      /\ Root \in AllKinds /\ \A k \in Kinds : k # Root
  BY KindAssumption DEF KindShape, AllKinds
<1>2. ASSUME NEW k \in Kinds, NEW v, m_indexes' = [m_indexes EXCEPT ![k] = v] PROVE m_indexes'[Root] = m_indexes[Root]
  BY <1>1, <1>2
<1>3. ASSUME NEW k \in Kinds, NEW v, indexIds' = [indexIds EXCEPT ![k] = v] PROVE indexIds'[Root] = indexIds[Root]
  BY <1>1, <1>3
<1>4. ASSUME NEW k \in Kinds, NEW def \in Defs(k),
             PutKind(k, def) \/ PutKindFails(k, def) \/ PutNewKindFails(k, def) \/ BatchCommitFails(k, def)
      PROVE  RootInv'
  BY <1>2, <1>3, <1>4 DEF PutKind, PutKindFails, PutNewKindFails, BatchCommitFails, ConfigureIndexes,
                         memory, storage, RootInv
<1>5. ASSUME NEW k \in Kinds, Reload(k) \/ LoadKind(k) PROVE RootInv'
  BY <1>2, <1>3, <1>5 DEF Reload, LoadKind, Recreate, Unregister, RootInv
<1>6. ASSUME NEW k \in Kinds, DelKind(k) \/ DelKindFails(k) \/ DelKindBatch(k) \/ DelKindRest(k) PROVE RootInv'
  BY <1>2, <1>3, <1>6 DEF DelKind, DelKindFails, DelKindBatch, DelKindRest, Drop, Unregister, memory, storage, RootInv
<1>7. ASSUME \/ \E k \in Kinds : PurgeKindObj(k) \/ \E o \in Objs : Put(o, k)
             \/ \E o \in Objs : Del(o) \/ Purge(o)
      PROVE  RootInv'
  BY <1>7 DEF PurgeKindObj, Put, Del, Purge, memory, RootInv
<1>8. CASE Reopen
  BY <1>1, <1>8 DEF Reopen, RootInv, storage
<1>9. CASE UNCHANGED kindVars
  BY <1>9 DEF kindVars, memory, storage, RootInv
<1> QED BY <1>4, <1>5, <1>6, <1>7, <1>8, <1>9 DEF KindNext

KindsInv == AcyclicInv /\ FollowInv /\ StoreInv /\ RootInv

\* When nothing waits to be loaded, memory is what the definitions say.
LEMMA QuietFollows ==
  ASSUME AcyclicInv, Follows, Quiet
  PROVE  /\ m_kinds = OnDisk \cup {Root}
         /\ m_supers = DeclaredSupers
         /\ \A k \in OnDisk : m_superIds[k] = kindObj[k].extends
         /\ \A k \in Kinds : m_indexes[k] = Declared(k)
<1>1. \A k \in Kinds : MatchesStore(k)
  BY DEF Follows, Quiet
<1>2. m_kinds = OnDisk \cup {Root}
  BY <1>1 DEF MatchesStore, AcyclicInv, LinksInv, AllKinds, OnDisk
<1>3. ASSUME NEW k \in OnDisk PROVE m_supers[k] = DeclaredSupers[k]
  <2>1. k \in Kinds /\ k \in AllKinds /\ k \in InMemory /\ m_superIds[k] = kindObj[k].extends
    BY <1>1, <1>2 DEF OnDisk, InMemory, AllKinds, MatchesStore
  <2>2. m_superIds[k] \subseteq Kinds /\ Root \notin Kinds
    BY <2>1, KindAssumption DEF AcyclicInv, KindShape
  <2>3. m_superIds[k] \cap m_kinds = kindObj[k].extends \cap OnDisk
    BY <1>2, <2>1, <2>2
  <2>4. LinkedBut(k, {})
    BY <2>1 DEF Follows, Quiet
  <2>5. DeclaredSupers[k] = IF kindObj[k].extends \cap OnDisk = {} THEN {Root} ELSE kindObj[k].extends \cap OnDisk
    BY <2>1 DEF DeclaredSupers
  <2>6. m_supers[k] \ {Root} = kindObj[k].extends \cap OnDisk /\ (Root \in m_supers[k] <=> kindObj[k].extends \cap OnDisk = {})
    BY <2>2, <2>3, <2>4 DEF LinkedBut
  <2> QED BY <2>5, <2>6
<1>4. ASSUME NEW k \in AllKinds, k \notin OnDisk PROVE m_supers[k] = DeclaredSupers[k]
  <2>1. DeclaredSupers[k] = {}
    BY <1>4 DEF DeclaredSupers
  <2>2. m_supers \in Links /\ m_supers[Root] = {} /\ \A s \in AllKinds : s \in m_supers[k] => k \in m_kinds
    BY DEF AcyclicInv, LinksInv, OldLinks, LinkRecord, Mirrored
  <2> QED BY <2>1, <2>2, <1>2, <1>4 DEF Links
<1>5. m_supers = DeclaredSupers
  <2>1. m_supers \in Links
    BY DEF AcyclicInv, LinksInv, OldLinks, LinkRecord
  <2>2. DeclaredSupers = [k \in AllKinds |-> DeclaredSupers[k]]
    BY DEF DeclaredSupers
  <2> HIDE DEF DeclaredSupers
  <2> QED BY <2>1, <2>2, <1>3, <1>4 DEF Links
<1> QED BY <1>1, <1>2, <1>5 DEF MatchesStore, OnDisk

\* The inductive invariant of kinds: links, shapes, no cycle, memory as the definitions say but for
\* what waits, storage without remains (MojDbKindEngine, MojDbKind, MojDb::putKind, delKind, reloadKind).
THEOREM KindsInvariance == KindSpec => []KindsInv
<1>1. KindInit => FollowInv /\ StoreInv /\ RootInv
  <2> SUFFICES ASSUME KindInit PROVE FollowInv /\ StoreInv /\ RootInv
    OBVIOUS
  <2>1. kindObj = [k \in Kinds |-> NoKind] /\ OnDisk = {} /\ m_kinds = {Root} /\ \A k \in Kinds : k # Root /\ k \in AllKinds
    BY KindAssumption DEF KindInit, OnDisk, AllKinds
  <2>2. ~Cyclic /\ InMemory = {}
    BY <2>1 DEF Cyclic, InMemory
  <2>3. \A k \in Kinds : MatchesStore(k) /\ Tidy(k)
    BY <2>1 DEF KindInit, MatchesStore, Declared, Tidy, NoEntries
  <2> QED BY <2>1, <2>2, <2>3 DEF KindInit, FollowInv, Follows, StoreInv, RootInv, AllKinds
<1>2. AcyclicInv /\ AcyclicInv' /\ FollowInv /\ StoreInv /\ RootInv /\ [KindNext]_kindVars => FollowInv' /\ StoreInv' /\ RootInv'
  BY FollowStep, StoreStep, RootStep DEF AcyclicInv
<1> QED BY <1>1, <1>2, AcyclicInvariance, PTL DEF KindSpec, KindsInv

\* Whatever is put, deleted, fails and is reloaded in whatever order, for any kinds: no kind extends
\* itself, and memory and indexes are what the stored definitions say (MojDbKind::updateSupers,
\* configureIndexes, MojDb::reloadKind).
THEOREM KindsAlwaysFollow == KindSpec => []KindsFollowDefinitions
<1>1. ASSUME KindsInv PROVE KindsFollowDefinitions
  <2>1. AcyclicInv /\ KindShape /\ LinksInv
    BY <1>1 DEF KindsInv, AcyclicInv
  <2>2. KindTypeOK
    <3>1. \A k \in AllKinds : k \in m_kinds <=> "_id" \in m_indexes[k]
      BY <2>1 DEF KindShape
    <3>2. loading \subseteq Kinds
      BY <2>1 DEF KindShape, OnDisk
    <3>3. entries \in [AllKinds -> [IndexNames -> SUBSET Objs]]
      BY <2>1 DEF KindShape, EntryMaps
    <3> QED BY <2>1, <3>1, <3>2, <3>3 DEF KindTypeOK, KindShape, LinksInv, OldLinks, LinkRecord, KindDefs
  <2>3. LinksMirror
    BY <2>1 DEF LinksInv, LinksMirror, Mirrored, OldLinks
  <2>4. Acyclic
    BY <2>1 DEF AcyclicInv, LinksInv, Acyclic, NoCycle
  <2>5. LinksFollowDefs
    BY <1>1, QuietFollows DEF KindsInv, FollowInv, LinksFollowDefs
  <2>6. NoOrphans
    BY <1>1 DEF KindsInv, StoreInv, Tidy, NoOrphans
  <2> QED BY <2>2, <2>3, <2>4, <2>5, <2>6 DEF KindsFollowDefinitions
<1> QED BY <1>1, KindsInvariance, PTL

-----------------------------------------------------------------------------
(* Which kinds list an object (StaysExact).  First how what is above a kind *)
(* changes when the supers of one kind change.                              *)

\* What is above kinds is above one of them.
LEMMA AboveOne ==
  ASSUME NEW sup \in Links, NEW ks, ks \subseteq AllKinds
  PROVE  \A x : x \in Above(sup, ks) <=> \E s \in ks : x \in Above(sup, {s})
<1> DEFINE U == UNION {Above(sup, {s}) : s \in ks}
<1>1. \A s \in ks : s \in Above(sup, {s}) /\ Above(sup, {s}) \subseteq AllKinds /\ Closed(sup, Above(sup, {s}))
  BY AboveClosed
<1>2. Above(sup, ks) \subseteq U
  <2>1. Closed(sup, U)
    BY <1>1 DEF Closed
  <2>2. ks \subseteq U
    BY <1>1
  <2> HIDE DEF U
  <2> QED BY <2>1, <2>2, AboveLeast
<1>3. ASSUME NEW s \in ks PROVE Above(sup, {s}) \subseteq Above(sup, ks)
  BY AboveClosed, AboveLeast
<1> QED BY <1>2, <1>3

\* What is above a kind is the kind and what is above its supers.
LEMMA AboveSupers ==
  ASSUME NEW sup \in Links, NEW c \in AllKinds
  PROVE  Above(sup, {c}) = {c} \cup Above(sup, sup[c])
<1>1. sup[c] \subseteq AllKinds
  BY DEF Links
<1>2. Above(sup, {c}) \subseteq {c} \cup Above(sup, sup[c])
  <2>1. Closed(sup, {c} \cup Above(sup, sup[c]))
    BY <1>1, AboveClosed DEF Closed
  <2> QED BY <2>1, AboveLeast
<1>3. Above(sup, sup[c]) \subseteq Above(sup, {c})
  <2>1. c \in Above(sup, {c}) /\ Closed(sup, Above(sup, {c}))
    BY AboveClosed
  <2>2. sup[c] \subseteq Above(sup, {c})
    BY <2>1 DEF Closed
  <2> QED BY <2>1, <2>2, AboveLeast
<1> QED BY <1>2, <1>3, AboveClosed

\* Links that agree on what is above some kinds have the same kinds above them.
LEMMA AboveAgrees ==
  ASSUME NEW sup \in Links, NEW sup2 \in Links, NEW ks, ks \subseteq AllKinds,
         \A x \in Above(sup, ks) : sup2[x] = sup[x]
  PROVE  Above(sup2, ks) = Above(sup, ks)
<1>1. ks \subseteq Above(sup, ks) /\ Closed(sup, Above(sup, ks)) /\ ks \subseteq Above(sup2, ks) /\ Closed(sup2, Above(sup2, ks))
  BY AboveClosed
<1>2. Above(sup2, ks) \subseteq Above(sup, ks)
  <2>1. Closed(sup2, Above(sup, ks))
    BY <1>1 DEF Closed
  <2> QED BY <1>1, <2>1, AboveLeast
<1>3. Above(sup, ks) \subseteq Above(sup2, ks)
  <2>1. Closed(sup, Above(sup2, ks))
    BY <1>1, <1>2 DEF Closed
  <2> QED BY <1>1, <2>1, AboveLeast
<1> QED BY <1>2, <1>3

\* Other supers of k.
Elsewhere(sup, sup2, k) == \A x \in AllKinds \ {k} : sup2[x] = sup[x]

\* The supers of k matter only to the kinds below k.
LEMMA BelowSame ==
  ASSUME NEW sup \in Links, NEW sup2 \in Links, NEW k \in AllKinds, Elsewhere(sup, sup2, k), NEW c \in AllKinds
  PROVE  /\ k \in Above(sup, {c}) <=> k \in Above(sup2, {c})
         /\ k \notin Above(sup, {c}) => Above(sup2, {c}) = Above(sup, {c})
<1>1. Above(sup, {c}) \subseteq AllKinds /\ Above(sup2, {c}) \subseteq AllKinds
  BY AboveClosed
<1>2. k \notin Above(sup, {c}) => Above(sup2, {c}) = Above(sup, {c})
  BY <1>1, AboveAgrees DEF Elsewhere
<1>3. k \notin Above(sup2, {c}) => Above(sup, {c}) = Above(sup2, {c})
  BY <1>1, AboveAgrees DEF Elsewhere
<1> QED BY <1>2, <1>3

\* What is above a kind below k: what does not go through k, and what is above k.
LEMMA AboveThrough ==
  ASSUME NEW sup \in Links, NEW sup2 \in Links, NEW k \in AllKinds, Elsewhere(sup, sup2, k), NEW c \in AllKinds,
         k \in Above(sup, {c}), NEW a, a \in Above(sup, {c}), a \notin Above(sup, {k})
  PROVE  a \in Above(sup2, {c})
<1> DEFINE S == Above(sup, {k}) \cup Above(sup2, {c})
<1>1. /\ c \in Above(sup2, {c}) /\ Closed(sup2, Above(sup2, {c})) /\ Above(sup2, {c}) \subseteq AllKinds
      /\ k \in Above(sup, {k}) /\ Closed(sup, Above(sup, {k}))
  BY AboveClosed
<1>2. Closed(sup, S)
  BY <1>1 DEF Closed, Elsewhere
<1>3. Above(sup, {c}) \subseteq S
  BY <1>1, <1>2, AboveLeast
<1> QED BY <1>3

\* If what is above k changes in nothing that concerns a, neither does what is above the others.
LEMMA AboveChanges ==
  ASSUME NEW sup \in Links, NEW sup2 \in Links, NEW k \in AllKinds, Elsewhere(sup, sup2, k), NEW c \in AllKinds,
         NEW a, a \in Above(sup, {k}) <=> a \in Above(sup2, {k})
  PROVE  a \in Above(sup, {c}) <=> a \in Above(sup2, {c})
<1>1. Elsewhere(sup2, sup, k)
  BY DEF Elsewhere
<1>2. CASE k \notin Above(sup, {c})
  BY <1>2, BelowSame
<1>3. CASE k \in Above(sup, {c})
  <2>1. k \in Above(sup2, {c})
    BY <1>3, BelowSame
  <2>2. Above(sup, {k}) \subseteq Above(sup, {c}) /\ Above(sup2, {k}) \subseteq Above(sup2, {c})
    BY <1>3, <2>1, AboveClosed, AboveLeast
  <2>3. a \notin Above(sup, {k}) => (a \in Above(sup, {c}) => a \in Above(sup2, {c}))
    BY <1>3, AboveThrough
  <2>4. a \notin Above(sup2, {k}) => (a \in Above(sup2, {c}) => a \in Above(sup, {c}))
    BY <1>1, <2>1, AboveThrough
  <2> QED BY <2>2, <2>3, <2>4
<1> QED BY <1>2, <1>3

\* Links on a set of kinds that lead to kinds of the set or to the root kind, with no kind above
\* itself, lead to the root kind.
LEMMA RootAbove ==
  ASSUME NEW sup \in Links, NoCycle(sup), NEW reg \in SUBSET Kinds,
         \A x \in reg : sup[x] # {} /\ sup[x] \subseteq reg \cup {Root},
         NEW c \in reg
  PROVE  Root \in Above(sup, {c})
<1> SUFFICES ASSUME Root \notin Above(sup, {c}) PROVE FALSE
  OBVIOUS
<1> DEFINE A == Above(sup, {c})
           size(x) == Cardinality(Above(sup, {x}))
           T == {size(x) : x \in A}
<1>1. c \in AllKinds /\ reg \subseteq AllKinds
  BY DEF AllKinds
<1>2. c \in A /\ A \subseteq AllKinds /\ Closed(sup, A)
  BY <1>1, AboveClosed
<1>3. A \subseteq reg
  <2>1. Closed(sup, A \cap reg) /\ {c} \subseteq A \cap reg
    BY <1>2 DEF Closed
  <2>2. A \subseteq A \cap reg
    BY <2>1, AboveLeast
  <2> QED BY <2>2
<1>4. ASSUME NEW x \in AllKinds
      PROVE  /\ IsFiniteSet(Above(sup, {x})) /\ size(x) \in Nat
             /\ x \in Above(sup, {x}) /\ Above(sup, {x}) \subseteq AllKinds
  BY AboveClosed, KindsCounted, FS_Subset, FS_CardinalityType
<1>5. T \subseteq Nat /\ T # {}
  BY <1>2, <1>4
<1>6. PICK t \in T : \A u \in T : t <= u
  BY <1>5, LeastNat
<1>7. PICK x \in A : t = size(x)
  BY <1>6
<1>8. PICK y \in sup[x] : y \in A
  BY <1>2, <1>3, <1>7 DEF Closed
<1>9. x \in AllKinds /\ y \in AllKinds /\ sup[x] \subseteq AllKinds
  BY <1>2, <1>7, <1>8 DEF Links
<1>10. Above(sup, {y}) \subseteq Above(sup, sup[x])
  BY <1>8, <1>9, AboveOne
<1>11. x \notin Above(sup, {y}) /\ Above(sup, {y}) \subseteq Above(sup, {x})
  BY <1>9, <1>10, AboveSupers DEF NoCycle
<1>12. size(y) <= size(x) /\ size(y) # size(x)
  <2>1. IsFiniteSet(Above(sup, {x})) /\ x \in Above(sup, {x}) /\ size(x) \in Nat /\ size(y) \in Nat
    BY <1>4, <1>9
  <2>2. size(y) <= size(x) /\ (size(y) = size(x) => Above(sup, {y}) = Above(sup, {x}))
    BY <2>1, <1>11, FS_Subset
  <2> QED BY <2>1, <2>2, <1>11
<1>13. size(y) \in T
  BY <1>8
<1>14. size(x) \in Nat /\ size(y) \in Nat
  BY <1>4, <1>9
<1>15. size(x) <= size(y)
  BY <1>6, <1>7, <1>13
<1> HIDE DEF size
<1> QED BY <1>12, <1>14, <1>15

\* An index lists what Exact asks of it, in the terms of one state.
BelowIn(sup, ob, a) == {o \in Objs : ob[o] # NoKind /\ a \in Above(sup, {ob[o].kind})}
ExactIn(sup, ob, ids, es, a) ==
  \A i \in IndexNames : es[a][i] = {o \in BelowIn(sup, ob, a) : i \in ids[a] /\ Included(i, ob[o].deleted)}

\* Exact in the terms of one state.
LEMMA ExactSame ==
  ASSUME NEW a
  PROVE  /\ Exact(a) <=> ExactIn(DeclaredSupers, object, indexIds, entries, a)
         /\ Exact(a)' <=> ExactIn(DeclaredSupers', object', indexIds', entries', a)
<1>1. Exact(a) <=> ExactIn(DeclaredSupers, object, indexIds, entries, a)
  BY DEF Exact, ExactIn, BelowIn
<1>2. Exact(a)' <=> ExactIn(DeclaredSupers', object', indexIds', entries', a)
  BY DEF Exact, ExactIn, BelowIn, Included
<1> QED BY <1>1, <1>2

\* What memory and storage are when an operation begins that the guarantees cover.
Ready == KindShape /\ AcyclicInv /\ Follows /\ Quiet /\ RootInv /\ (\A k \in Kinds : Tidy(k)) /\ AllExact

\* A stored kind has supers, all stored or the root kind; another has none.
LEMMA DeclaredShape ==
  ASSUME NEW ko \in StoredDefs
  PROVE  /\ \A x \in DiskOf(ko) : SupersOf(ko)[x] # {} /\ SupersOf(ko)[x] \subseteq DiskOf(ko) \cup {Root}
         /\ \A x \in AllKinds \ DiskOf(ko) : SupersOf(ko)[x] = {}
BY DEF SupersOf, DiskOf, AllKinds

\* What is known where Exact is promised: memory is what is stored.
LEMMA ReadyFacts ==
  ASSUME Ready
  PROVE  /\ DeclaredSupers \in Links /\ NoCycle(DeclaredSupers) /\ m_supers = DeclaredSupers
         /\ DeclaredSupers[Root] = {} /\ m_kinds = OnDisk \cup {Root} /\ OnDisk \subseteq Kinds
         /\ \A a \in AllKinds : m_indexes[a] = indexIds[a]
         /\ \A x \in OnDisk : DeclaredSupers[x] # {} /\ DeclaredSupers[x] \subseteq OnDisk \cup {Root}
         /\ \A x \in AllKinds \ OnDisk : DeclaredSupers[x] = {}
         /\ \A a \in AllKinds : ExactIn(DeclaredSupers, object, indexIds, entries, a)
<1>1. m_supers = DeclaredSupers /\ m_kinds = OnDisk \cup {Root}
  BY QuietFollows DEF Ready
<1>2. StoreShape /\ kindObj \in StoredDefs
  BY ShapeParts, StoreDefs DEF Ready
<1>3. DeclaredSupers \in Links /\ DeclaredSupers[Root] = {} /\ OnDisk \subseteq Kinds
  BY <1>2, DiskSame, SupersAreLinks
<1>4. NoCycle(DeclaredSupers)
  BY <1>1 DEF Ready, AcyclicInv
<1>5. \A a \in AllKinds : m_indexes[a] = indexIds[a]
  BY DEF Ready, RootInv, AllKinds, Follows, MatchesStore, Quiet, Tidy
<1>6. /\ \A x \in OnDisk : DeclaredSupers[x] # {} /\ DeclaredSupers[x] \subseteq OnDisk \cup {Root}
      /\ \A x \in AllKinds \ OnDisk : DeclaredSupers[x] = {}
  BY <1>2, DiskSame, DeclaredShape
<1>7. \A a \in AllKinds : ExactIn(DeclaredSupers, object, indexIds, entries, a)
  BY ExactSame DEF Ready, AllExact
<1> QED BY <1>1, <1>3, <1>4, <1>5, <1>6, <1>7

\* Indexes stay exact where neither objects, entries nor the hierarchy change.
LEMMA SameExact ==
  ASSUME AllExact, UNCHANGED <<object, indexIds, entries>>, OnDisk' = OnDisk, DeclaredSupers' = DeclaredSupers
  PROVE  (\A a \in AllKinds : Exact(a)') /\ (NoStrays => NoStrays')
<1>1. \A a \in AllKinds : Exact(a)'
  BY ExactSame DEF AllExact
<1> QED BY <1>1 DEF NoStrays

\* An object is an entry of no index but those it is deleted from.
LEMMA EntryOf ==
  ASSUME Ready, NEW a \in AllKinds, NEW i \in IndexNames, NEW o \in entries[a][i]
  PROVE  o \in Objs /\ object[o] # NoKind /\ a \in Above(m_supers, {object[o].kind}) /\ i \in m_indexes[a] /\ i \in indexIds[a]
BY ReadyFacts DEF ExactIn, BelowIn

\* From exact indexes a purge takes its objects out of every index.
LEMMA PurgedOut ==
  ASSUME Ready, NEW os, NEW a \in AllKinds, NEW i \in IndexNames
  PROVE  Purged(os)[a][i] = entries[a][i] \ os
BY EntryOf DEF Purged

\* The kinds that list an object before it is changed.
ListersOf(o) == IF object[o] = NoKind THEN {} ELSE Above(m_supers, {object[o].kind})

\* And an update takes its object out of every index it was in.
LEMMA DeletedOut ==
  ASSUME Ready, NEW o, NEW a \in AllKinds, NEW i \in IndexNames
  PROVE  Delete(entries, ListersOf(o), o)[a][i] = entries[a][i] \ {o}
<1> DEFINE ks == ListersOf(o)
<1>1. Delete(entries, ks, o)[a][i] = IF a \in ks /\ i \in m_indexes[a] THEN entries[a][i] \ {o} ELSE entries[a][i]
  BY DEF Delete
<1>2. o \in entries[a][i] => a \in ks /\ i \in m_indexes[a]
  BY EntryOf DEF ListersOf
<1> QED BY <1>1, <1>2

\* The indexes that an object enters when it is v.
Enters(v, a, i) == v # NoKind /\ a \in Above(DeclaredSupers, {v.kind}) /\ i \in indexIds[a] /\ Included(i, v.deleted)

\* An object that is put, marked deleted or purged.
LEMMA MovedExact ==
  ASSUME Ready, object \in [Objs -> {NoKind} \cup [kind : Kinds, deleted : BOOLEAN]],
         NEW o \in Objs, NEW v, object' = [object EXCEPT ![o] = v],
         indexIds' = indexIds, kindObj' = kindObj,
         \A a \in AllKinds, i \in IndexNames :
           entries'[a][i] = (entries[a][i] \ {o}) \cup (IF Enters(v, a, i) THEN {o} ELSE {})
  PROVE  \A a \in AllKinds : Exact(a)'
<1> DEFINE D == DeclaredSupers
<1>1. DeclaredSupers' = D
  BY DiskSame
<1>2. object'[o] = v /\ \A x \in Objs \ {o} : object'[x] = object[x]
  OBVIOUS
<1>3. ASSUME NEW a \in AllKinds, NEW i \in IndexNames
      PROVE  entries'[a][i] = {x \in BelowIn(D, object', a) : i \in indexIds'[a] /\ Included(i, object'[x].deleted)}
  <2>1. entries[a][i] = {x \in BelowIn(D, object, a) : i \in indexIds[a] /\ Included(i, object[x].deleted)}
    BY ReadyFacts DEF ExactIn
  <2> DEFINE new == {x \in BelowIn(D, object', a) : i \in indexIds'[a] /\ Included(i, object'[x].deleted)}
  <2> HIDE DEF D
  <2> DEFINE adds == Enters(v, a, i)
  <2>2. \A x \in Objs : x \in entries[a][i] <=>
          object[x] # NoKind /\ a \in Above(D, {object[x].kind}) /\ i \in indexIds[a] /\ Included(i, object[x].deleted)
    BY <2>1 DEF BelowIn
  <2>3. \A x \in Objs : x \in new <=>
          object'[x] # NoKind /\ a \in Above(D, {object'[x].kind}) /\ i \in indexIds[a] /\ Included(i, object'[x].deleted)
    BY DEF BelowIn
  <2>4. new \subseteq Objs /\ entries[a][i] \subseteq Objs
    BY <2>1 DEF BelowIn
  <2>5. entries'[a][i] = (entries[a][i] \ {o}) \cup (IF adds THEN {o} ELSE {})
    OBVIOUS
  <2>6. o \in new <=> adds
    BY <2>3, <1>2 DEF Enters, D
  <2>7. \A x \in Objs \ {o} : x \in new <=> x \in entries[a][i]
    BY <2>2, <2>3, <1>2
  <2> HIDE DEF new, adds
  <2>8. entries'[a][i] = new
    BY <2>4, <2>5, <2>6, <2>7
  <2> QED BY <2>8 DEF new
<1>4. \A a \in AllKinds : ExactIn(DeclaredSupers', object', indexIds', entries', a)
  BY <1>1, <1>3 DEF ExactIn
<1> QED BY <1>4, ExactSame

\* Objects put, moved to another kind, deleted or purged leave indexes exact (MojDbKind::update).
LEMMA ObjectExact ==
  ASSUME Ready,
         \/ \E k \in Kinds, o \in Objs : Put(o, k)
         \/ \E o \in Objs : Del(o) \/ Purge(o)
  PROVE  (\A a \in AllKinds : Exact(a)') /\ (NoStrays => NoStrays')
<1>1. object \in [Objs -> {NoKind} \cup [kind : Kinds, deleted : BOOLEAN]] /\ m_supers = DeclaredSupers
        /\ m_kinds = OnDisk \cup {Root} /\ Root \notin Kinds /\ \A a \in AllKinds : m_indexes[a] = indexIds[a]
  BY ReadyFacts, KindAssumption DEF Ready, KindShape
<1>2. indexIds' = indexIds /\ kindObj' = kindObj /\ OnDisk' = OnDisk
  BY DEF Put, Del, Purge, OnDisk
<1>3. ASSUME NEW k \in Kinds, NEW o \in Objs, Put(o, k) PROVE (\A a \in AllKinds : Exact(a)') /\ (NoStrays => NoStrays')
  <2> DEFINE v == [kind |-> k, deleted |-> FALSE]
  <2>1. object' = [object EXCEPT ![o] = v] /\ entries' = Insert(Delete(entries, ListersOf(o), o), Above(m_supers, {k}), o, FALSE)
          /\ k \in m_kinds
    BY <1>3 DEF Put, ListersOf
  <2>2. v # NoKind /\ v.kind = k /\ v.deleted = FALSE
    <3>1. v \in [kind : Kinds, deleted : BOOLEAN]
      OBVIOUS
    <3> QED BY <3>1, KindAssumption
  <2>3. ASSUME NEW a \in AllKinds, NEW i \in IndexNames
        PROVE  entries'[a][i] = (entries[a][i] \ {o}) \cup (IF Enters(v, a, i) THEN {o} ELSE {})
    <3>1. Delete(entries, ListersOf(o), o)[a][i] = entries[a][i] \ {o}
      BY DeletedOut
    <3> QED BY <3>1, <2>1, <2>2, <1>1 DEF Insert, Enters
  <2> HIDE DEF v
  <2>4. \A a \in AllKinds : Exact(a)'
    <3> QED BY <2>1, <2>3, <1>1, <1>2, MovedExact
  <2>5. NoStrays => NoStrays'
    BY <2>1, <2>2, <1>1, <1>2 DEF NoStrays
  <2> QED BY <2>4, <2>5
<1>4. ASSUME NEW o \in Objs, Del(o) PROVE (\A a \in AllKinds : Exact(a)') /\ (NoStrays => NoStrays')
  <2> DEFINE v == [object[o] EXCEPT !.deleted = TRUE]
  <2>1. object' = [object EXCEPT ![o] = v] /\ object[o] # NoKind /\ entries' = Insert(Delete(entries, ListersOf(o), o), ListersOf(o), o, TRUE)
    BY <1>4 DEF Del, ListersOf
  <2>2. object[o] \in [kind : Kinds, deleted : BOOLEAN]
    BY <1>1, <2>1
  <2>3. v # NoKind /\ v.kind = object[o].kind /\ v.deleted = TRUE
    BY <2>2, KindAssumption
  <2>4. ASSUME NEW a \in AllKinds, NEW i \in IndexNames
        PROVE  entries'[a][i] = (entries[a][i] \ {o}) \cup (IF Enters(v, a, i) THEN {o} ELSE {})
    <3>1. Delete(entries, ListersOf(o), o)[a][i] = entries[a][i] \ {o}
      BY DeletedOut
    <3>2. ListersOf(o) = Above(DeclaredSupers, {v.kind})
      BY <1>1, <2>1, <2>3 DEF ListersOf
    <3> HIDE DEF v
    <3> QED BY <3>1, <3>2, <2>1, <2>3, <1>1 DEF Insert, Enters
  <2> HIDE DEF v
  <2>5. \A a \in AllKinds : Exact(a)'
    <3> QED BY <2>1, <2>4, <1>1, <1>2, MovedExact
  <2>6. NoStrays => NoStrays'
    BY <2>1, <2>3, <1>1, <1>2 DEF NoStrays
  <2> QED BY <2>5, <2>6
<1>5. ASSUME NEW o \in Objs, Purge(o) PROVE (\A a \in AllKinds : Exact(a)') /\ (NoStrays => NoStrays')
  <2>1. object' = [object EXCEPT ![o] = NoKind] /\ entries' = Purged({o})
    BY <1>1, <1>5 DEF Purge, Forget
  <2>2. \A a \in AllKinds, i \in IndexNames :
          entries'[a][i] = (entries[a][i] \ {o}) \cup (IF Enters(NoKind, a, i) THEN {o} ELSE {})
    BY <2>1, PurgedOut DEF Enters
  <2>3. \A a \in AllKinds : Exact(a)'
    BY <2>1, <2>2, <1>1, <1>2, MovedExact
  <2>4. NoStrays => NoStrays'
    BY <2>1, <1>1, <1>2 DEF NoStrays
  <2> QED BY <2>3, <2>4
<1> QED BY <1>3, <1>4, <1>5

\* A kind that is deleted takes its objects with it, and no other kind changes.
LEMMA DelKindExact ==
  ASSUME Ready, KindShape', NEW k \in Kinds, DelKind(k)
  PROVE  (\A a \in AllKinds : Exact(a)') /\ (NoStrays => NoStrays')
<1> DEFINE D == DeclaredSupers
           D2 == DeclaredSupers'
           B == BelowIn(DeclaredSupers, object, k)
<1>1. /\ D \in Links /\ m_supers = D /\ OnDisk \subseteq Kinds /\ \A a \in AllKinds : m_indexes[a] = indexIds[a]
      /\ \A a \in AllKinds : ExactIn(D, object, indexIds, entries, a)
  BY ReadyFacts
<1>2. /\ k \in OnDisk /\ k \in m_kinds /\ m_subs[k] = {} /\ k \in AllKinds /\ Forget(Listed(k)) /\ DeleteKindObj(k)
      /\ indexIds' = [indexIds EXCEPT ![k] = @ \ m_indexes[k]]
      /\ entries' = [Purged(Listed(k)) EXCEPT ![k] = [i \in IndexNames |-> IF i \in m_indexes[k] THEN {} ELSE @[i]]]
  BY DEF DelKind, Deletable, Drop, AllKinds
<1>3. kindObj \in StoredDefs /\ kindObj' \in StoredDefs /\ StoreShape
  BY ShapeParts, StoreDefs DEF Ready, KindShape, StoreShape
<1>4. D2 \in Links
  BY <1>3, DiskSame, SupersAreLinks
<1>5. OnDisk' = OnDisk \ {k} /\ \A x \in Kinds \ {k} : kindObj'[x] = kindObj[x]
  <2>1. kindObj[k] \in KindDefs /\ kindObj[k] # NoKind
    BY <1>2, <1>3 DEF OnDisk, StoreShape
  <2>2. kindObj'[k].deleted /\ \A x \in Kinds \ {k} : kindObj'[x] = kindObj[x]
    BY <1>2, <1>3, <2>1 DEF DeleteKindObj, StoreShape, KindDefs
  <2> QED BY <2>2 DEF OnDisk
<1>6. Elsewhere(D, D2, k)
  <2>1. \A c \in m_kinds : k \notin m_superIds[c]
    BY <1>2, NoSubs DEF Ready, Quiet
  <2>2. ASSUME NEW x \in AllKinds \ {k} PROVE D2[x] = D[x]
    <3>1. CASE x \notin OnDisk
      BY <3>1, <1>5, <2>2 DEF DeclaredSupers
    <3>2. CASE x \in OnDisk
      <4>1. x \in m_kinds /\ m_superIds[x] = kindObj[x].extends /\ kindObj'[x] = kindObj[x]
        BY <3>2, <1>1, <1>5, <2>2 DEF Ready, Follows, Quiet, MatchesStore
      <4>2. kindObj'[x].extends \cap OnDisk' = kindObj[x].extends \cap OnDisk
        BY <4>1, <2>1, <1>5
      <4>3. D[x] = (IF kindObj[x].extends \cap OnDisk = {} THEN {Root} ELSE kindObj[x].extends \cap OnDisk)
        BY <3>2 DEF DeclaredSupers
      <4>4. D2[x] = (IF kindObj'[x].extends \cap OnDisk' = {} THEN {Root} ELSE kindObj'[x].extends \cap OnDisk')
        BY <3>2, <1>5, <2>2 DEF DeclaredSupers
      <4> QED BY <4>2, <4>3, <4>4
    <3> QED BY <3>1, <3>2
  <2> HIDE DEF D, D2
  <2> QED BY <2>2 DEF Elsewhere
<1>7. Listed(k) = B
  <2>1. "_id" \in indexIds[k]
    BY <1>2 DEF Ready, Tidy, Declared
  <2>2. entries[k]["_id"] = {o \in B : "_id" \in indexIds[k] /\ Included("_id", object[o].deleted)}
    BY <1>1, <1>2 DEF ExactIn, IndexNames
  <2> QED BY <2>1, <2>2 DEF Listed, Included, BelowIn
<1>8. ASSUME NEW a \in AllKinds, NEW i \in IndexNames
      PROVE  entries'[a][i] = IF a = k /\ i \in m_indexes[k] THEN {} ELSE entries[a][i] \ B
  <2>1. Purged(Listed(k)) \in EntryMaps /\ Purged(Listed(k))[a][i] = entries[a][i] \ B
    BY <1>3, <1>7, EntriesTyped, PurgedOut DEF StoreShape
  <2> HIDE DEF B
  <2> QED BY <2>1, <1>2 DEF EntryMaps
<1>9. \A o \in Objs : object'[o] = IF o \in B THEN NoKind ELSE object[o]
  BY <1>2, <1>7 DEF Forget
<1>10. ASSUME NEW o \in Objs \ B, object[o] # NoKind
       PROVE  object[o].kind \in AllKinds /\ k \notin Above(D, {object[o].kind})
                /\ Above(D2, {object[o].kind}) = Above(D, {object[o].kind})
  <2>1. object[o].kind \in AllKinds
    BY <1>3, <1>10 DEF StoreShape, AllKinds
  <2>2. k \notin Above(D, {object[o].kind})
    BY <1>10 DEF BelowIn
  <2> HIDE DEF D, D2
  <2> QED BY <2>1, <2>2, <1>1, <1>2, <1>4, <1>6, BelowSame
<1>11. ASSUME NEW a \in AllKinds PROVE Exact(a)'
  <2>1. ASSUME NEW i \in IndexNames
        PROVE  entries'[a][i] = {o \in BelowIn(D2, object', a) : i \in indexIds'[a] /\ Included(i, object'[o].deleted)}
    <3>1. entries[a][i] = {o \in BelowIn(D, object, a) : i \in indexIds[a] /\ Included(i, object[o].deleted)}
      BY <1>1 DEF ExactIn
    <3>2. CASE a = k
      <4>1. i \notin indexIds'[k]
        BY <1>1, <1>2, <1>3 DEF StoreShape
      <4>2. i \notin m_indexes[k] => entries[k][i] = {}
        BY <1>1, <1>2, <3>1, <3>2
      <4> QED BY <3>2, <4>1, <4>2, <1>8
    <3>3. CASE a # k
      <4>1. entries'[a][i] = entries[a][i] \ B /\ indexIds'[a] = indexIds[a]
        BY <3>3, <1>2, <1>3, <1>8 DEF StoreShape
      <4> DEFINE new == BelowIn(D2, object', a)
                 was == BelowIn(D, object, a)
      <4>2. \A o \in Objs : o \in new <=> o \in was \ B
        <5> HIDE DEF D, D2, B
        <5> QED BY <1>9, <1>10 DEF BelowIn
      <4>3. new \subseteq Objs /\ was \subseteq Objs /\ \A o \in was \ B : object'[o] = object[o]
        BY <1>9 DEF BelowIn
      <4> HIDE DEF new, was, B
      <4>4. new = was \ B
        BY <4>2, <4>3
      <4>5. entries[a][i] \ B = {o \in new : i \in indexIds'[a] /\ Included(i, object'[o].deleted)}
        BY <4>1, <4>3, <4>4, <3>1 DEF was
      <4> QED BY <4>1, <4>5 DEF new
    <3> QED BY <3>2, <3>3
  <2>2. ExactIn(D2, object', indexIds', entries', a)
    BY <2>1 DEF ExactIn
  <2> QED BY <2>2, ExactSame
<1>12. NoStrays => NoStrays'
  <2>1. ASSUME NEW o \in Objs, object'[o] # NoKind PROVE object'[o] = object[o] /\ object[o].kind # k
    <3>1. o \notin B /\ object'[o] = object[o]
      BY <2>1, <1>9
    <3>2. k \in Above(D, {k})
      BY <1>1, <1>2, AboveClosed
    <3> QED BY <3>1, <3>2, <2>1, <1>10
  <2> QED BY <2>1, <1>5 DEF NoStrays
<1> QED BY <1>11, <1>12

\* A kind that is new, and the kinds that may have named it before.
LEMMA NewKindAbove ==
  ASSUME NEW D \in Links, NEW D2 \in Links, NEW k \in AllKinds, NEW a,
         D[k] = {}, D[Root] = {}, a # Root, a \notin Above(D2, {k}),
         \A x \in AllKinds \ {k} : D[x] \subseteq D2[x] \cup {Root} /\ D2[x] \subseteq D[x] \cup {k},
         NEW c \in AllKinds
  PROVE  a \in Above(D, {c}) <=> a \in Above(D2, {c})
<1>1. /\ c \in Above(D, {c}) /\ Closed(D, Above(D, {c})) /\ Above(D, {c}) \subseteq AllKinds
      /\ c \in Above(D2, {c}) /\ Closed(D2, Above(D2, {c})) /\ Above(D2, {c}) \subseteq AllKinds
      /\ k \in Above(D2, {k}) /\ Closed(D2, Above(D2, {k}))
  BY AboveClosed
<1>2. Above(D, {c}) \subseteq Above(D2, {c}) \cup {Root}
  <2>1. Closed(D, Above(D2, {c}) \cup {Root})
    BY <1>1 DEF Closed
  <2> QED BY <2>1, <1>1, AboveLeast
<1>3. Above(D2, {c}) \subseteq Above(D, {c}) \cup Above(D2, {k})
  <2> DEFINE up == Above(D, {c})
             over == Above(D2, {k})
  <2>1. c \in up /\ up \subseteq AllKinds /\ k \in over /\ (\A x \in up : D[x] \subseteq up) /\ (\A x \in over : D2[x] \subseteq over)
    BY <1>1 DEF Closed
  <2> HIDE DEF up, over
  <2>2. \A x \in up \cup over : D2[x] \subseteq up \cup over
    BY <2>1
  <2>3. Closed(D2, up \cup over) /\ {c} \subseteq up \cup over
    BY <2>1, <2>2 DEF Closed
  <2>4. Above(D2, {c}) \subseteq up \cup over
    BY <2>3, AboveLeast
  <2> QED BY <2>4 DEF up, over
<1> QED BY <1>2, <1>3

\* What putKind makes of the declared supers.
LEMMA PutDeclares ==
  ASSUME Ready, KindShape', NEW k \in Kinds, NEW def \in Defs(k), PutKind(k, def), ~Cyclic'
  PROVE  /\ OnDisk' = OnDisk \cup {k}
         /\ DeclaredSupers' \in Links /\ NoCycle(DeclaredSupers')
         /\ DeclaredSupers'[k] = (IF def.extends \cap OnDisk' = {} THEN {Root} ELSE def.extends \cap OnDisk')
         /\ \A x \in OnDisk' : Root \in Above(DeclaredSupers', {x})
         /\ k \in OnDisk => Elsewhere(DeclaredSupers, DeclaredSupers', k)
         /\ \A x \in AllKinds \ {k} : /\ DeclaredSupers[x] \subseteq DeclaredSupers'[x] \cup {Root}
                                      /\ DeclaredSupers'[x] \subseteq DeclaredSupers[x] \cup {k}
<1>1. kindObj \in StoredDefs /\ kindObj' \in StoredDefs /\ StoreShape /\ StoreShape'
  BY ShapeParts, StoreDefs DEF Ready, KindShape, StoreShape
<1>2. kindObj' = [kindObj EXCEPT ![k] = Definition(def)] /\ Definition(def) # NoKind /\ ~Definition(def).deleted
        /\ Definition(def).extends = def.extends
  BY PutDefines DEF PutKind
<1>3. kindObj'[k] = Definition(def) /\ \A x \in Kinds \ {k} : kindObj'[x] = kindObj[x]
  BY <1>1, <1>2 DEF StoreShape
<1>4. OnDisk' = OnDisk \cup {k} /\ k \in AllKinds /\ OnDisk \subseteq Kinds /\ Root \notin Kinds
  BY <1>2, <1>3, KindAssumption DEF OnDisk, AllKinds
<1>5. DeclaredSupers' \in Links /\ NoCycle(DeclaredSupers')
  BY <1>1, DiskSame, SupersAreLinks, CyclicSame
<1>6. DeclaredSupers'[k] = (IF def.extends \cap OnDisk' = {} THEN {Root} ELSE def.extends \cap OnDisk')
  BY <1>2, <1>3, <1>4 DEF DeclaredSupers
<1>7. \A x \in OnDisk' : Root \in Above(DeclaredSupers', {x})
  <2>1. \A x \in OnDisk' : DeclaredSupers'[x] # {} /\ DeclaredSupers'[x] \subseteq OnDisk' \cup {Root}
    BY <1>1, DiskSame, DeclaredShape
  <2>2. OnDisk' \in SUBSET Kinds
    BY <1>4
  <2> QED BY <2>1, <2>2, <1>5, RootAbove
<1>8. ASSUME NEW x \in AllKinds \ {k}
      PROVE  /\ k \in OnDisk => DeclaredSupers'[x] = DeclaredSupers[x]
             /\ DeclaredSupers[x] \subseteq DeclaredSupers'[x] \cup {Root}
             /\ DeclaredSupers'[x] \subseteq DeclaredSupers[x] \cup {k}
  <2>1. CASE x \notin OnDisk
    <3>1. DeclaredSupers[x] = {} /\ DeclaredSupers'[x] = {}
      BY <2>1, <1>4, <1>8 DEF DeclaredSupers
    <3> QED BY <3>1
  <2>2. CASE x \in OnDisk
    <3> DEFINE e == kindObj[x].extends
    <3>1. kindObj'[x] = kindObj[x]
      BY <2>2, <1>3, <1>4, <1>8
    <3>2. DeclaredSupers[x] = (IF e \cap OnDisk = {} THEN {Root} ELSE e \cap OnDisk)
      BY <2>2 DEF DeclaredSupers
    <3>3. DeclaredSupers'[x] = (IF e \cap OnDisk' = {} THEN {Root} ELSE e \cap OnDisk')
      BY <2>2, <3>1, <1>4, <1>8 DEF DeclaredSupers
    <3> HIDE DEF e
    <3>4. k \in OnDisk => OnDisk' = OnDisk
      BY <1>4
    <3>5. e \cap OnDisk \subseteq e \cap OnDisk' /\ e \cap OnDisk' \subseteq (e \cap OnDisk) \cup {k}
      BY <1>4
    <3> QED BY <3>2, <3>3, <3>4, <3>5
  <2> QED BY <2>1, <2>2
<1>9. k \in OnDisk => Elsewhere(DeclaredSupers, DeclaredSupers', k)
  BY <1>8 DEF Elsewhere
<1> QED BY <1>4, <1>5, <1>6, <1>7, <1>8, <1>9

\* A definition that is new leaves the entries of the other kinds alone.
LEMMA PutNewExact ==
  ASSUME Ready, KindShape', NEW k \in Kinds, NEW def \in Defs(k), PutKind(k, def), ~Cyclic', k \notin OnDisk,
         NEW a \in AllKinds, ~LateSuper(a)
  PROVE  Exact(a)'
<1> DEFINE D == DeclaredSupers
           D2 == DeclaredSupers'
<1>1. /\ D \in Links /\ D[Root] = {} /\ (\A x \in AllKinds \ OnDisk : D[x] = {})
      /\ ExactIn(D, object, indexIds, entries, a) /\ ExactIn(D, object, indexIds, entries, k)
      /\ m_indexes[k] = indexIds[k] /\ k \in AllKinds
  BY ReadyFacts DEF AllKinds
<1>2. /\ OnDisk' = OnDisk \cup {k} /\ D2 \in Links /\ Root \in Above(D2, {k})
      /\ \A x \in AllKinds \ {k} : D[x] \subseteq D2[x] \cup {Root} /\ D2[x] \subseteq D[x] \cup {k}
  <2>1. OnDisk' = OnDisk \cup {k} /\ \A x \in OnDisk' : Root \in Above(DeclaredSupers', {x})
    BY PutDeclares
  <2>2. DeclaredSupers' \in Links /\ \A x \in AllKinds \ {k} : /\ DeclaredSupers[x] \subseteq DeclaredSupers'[x] \cup {Root}
                                      /\ DeclaredSupers'[x] \subseteq DeclaredSupers[x] \cup {k}
    BY PutDeclares
  <2> QED BY <2>1, <2>2
<1>3. a \notin Above(D2, {k})
  BY <1>2 DEF LateSuper
<1>4. a # Root /\ a # k
  BY <1>1, <1>2, <1>3, AboveClosed
<1>5. StoreShape /\ object' = object
  BY ShapeParts DEF Ready, PutKind
<1>6. \A c \in AllKinds : a \in Above(D, {c}) <=> a \in Above(D2, {c})
  <2>1. D[k] = {}
    BY <1>1
  <2> HIDE DEF D, D2
  <2> QED BY <2>1, <1>1, <1>2, <1>3, <1>4, NewKindAbove
<1>7. BelowIn(D2, object', a) = BelowIn(D, object, a)
  <2>1. \A o \in Objs : object[o] # NoKind => object[o].kind \in AllKinds
    BY <1>5 DEF StoreShape, AllKinds
  <2> HIDE DEF D, D2
  <2> QED BY <2>1, <1>5, <1>6 DEF BelowIn
<1>8. indexIds'[a] = indexIds[a] /\ \A i \in IndexNames : entries'[a][i] = entries[a][i]
  <2> DEFINE wanted == {"_id"} \cup def.extra
             dropped == m_indexes[k] \ wanted
             e0 == [entries EXCEPT ![k] = [i \in IndexNames |-> IF i \in dropped THEN {} ELSE @[i]]]
             e == Reindex(e0, k, def, wanted)
             created == wanted \ (m_indexes[k] \cup indexIds[k])
             build == {o \in e[k]["_id"] : object[o] # NoKind /\ ~object[o].deleted}
  <2>1. /\ indexIds' = [indexIds EXCEPT ![k] = (@ \ dropped) \cup wanted]
        /\ entries' = [e EXCEPT ![k] = [i \in IndexNames |-> IF i \in created \ {"_id"} THEN build ELSE @[i]]]
    BY DEF PutKind, ConfigureIndexes
  <2>2. Listed(k) = {}
    <3>1. indexIds[k] = {}
      BY DEF Ready, Tidy, Declared
    <3>2. entries[k]["_id"] = {}
      BY <1>1, <3>1 DEF ExactIn, IndexNames
    <3> QED BY <3>2 DEF Listed
  <2>3. e0 \in EntryMaps /\ e \in EntryMaps /\ entries \in EntryMaps
    <3>1. entries \in EntryMaps
      BY <1>5 DEF StoreShape
    <3>2. e0 \in EntryMaps
      BY <3>1, <1>1 DEF EntryMaps
    <3> QED BY <3>1, <3>2, <1>1, EntriesTyped
  <2>4. \A i \in IndexNames : e[a][i] = e0[a][i]
    <3> HIDE DEF e0, wanted
    <3> QED BY <2>2 DEF Reindex
  <2>5. \A i \in IndexNames : e0[a][i] = entries[a][i]
    BY <1>4, <2>3 DEF EntryMaps
  <2>6. \A i \in IndexNames : entries'[a][i] = e[a][i]
    <3> HIDE DEF e, created, build
    <3> QED BY <1>4, <2>1, <2>3 DEF EntryMaps
  <2>7. indexIds'[a] = indexIds[a]
    <3> HIDE DEF e, dropped, wanted
    <3> QED BY <1>4, <1>5, <2>1 DEF StoreShape
  <2> QED BY <2>4, <2>5, <2>6, <2>7
<1>9. ExactIn(D2, object', indexIds', entries', a)
  <2> HIDE DEF D, D2
  <2> QED BY <1>1, <1>5, <1>7, <1>8 DEF ExactIn
<1> QED BY <1>9, ExactSame

\* A definition that replaces another: what is above the kind by its new supers, and no longer by
\* its old ones, is what updateSupers inserts its objects into and deletes them from.
LEMMA PutOldAbove ==
  ASSUME Ready, KindShape', NEW k \in Kinds, NEW def \in Defs(k), PutKind(k, def), ~Cyclic', k \in OnDisk
  PROVE  /\ Elsewhere(DeclaredSupers, DeclaredSupers', k)
         /\ k \notin Gained(k, def) /\ k \notin Lost(k, def)
         /\ Gained(k, def) \subseteq Above(DeclaredSupers', {k})
         /\ \A a \in AllKinds : a # k /\ a \notin Gained(k, def) \cup Lost(k, def) =>
              (a \in Above(DeclaredSupers, {k}) <=> a \in Above(DeclaredSupers', {k}))
         /\ \A a \in Lost(k, def) :
              LET removed == DeclaredSupers[k] \ DeclaredSupers'[k]
              IN  removed \ {Root} # {} /\ a \in Above(DeclaredSupers, removed)
<1> DEFINE D == DeclaredSupers
           D2 == DeclaredSupers'
           old == kindObj[k].extends
           add == (def.extends \ old) \cap OnDisk
           R == (old \ def.extends) \cap OnDisk
           removed == D[k] \ D2[k]
<1>1. D \in Links /\ NoCycle(D) /\ m_supers = D /\ D[Root] = {} /\ m_kinds = OnDisk \cup {Root} /\ OnDisk \subseteq Kinds
        /\ \A x \in OnDisk : D[x] # {} /\ D[x] \subseteq OnDisk \cup {Root}
  BY ReadyFacts
<1>2. OnDisk' = OnDisk /\ D2 \in Links /\ NoCycle(D2)
        /\ D2[k] = (IF def.extends \cap OnDisk = {} THEN {Root} ELSE def.extends \cap OnDisk)
        /\ Root \in Above(D2, {k}) /\ Elsewhere(D, D2, k)
  <2>1. OnDisk' = OnDisk \cup {k} /\ \A x \in OnDisk' : Root \in Above(DeclaredSupers', {x})
    BY PutDeclares
  <2>2. DeclaredSupers' \in Links /\ NoCycle(DeclaredSupers') /\ (k \in OnDisk => Elsewhere(DeclaredSupers, DeclaredSupers', k))
    BY PutDeclares
  <2>3. DeclaredSupers'[k] = (IF def.extends \cap OnDisk' = {} THEN {Root} ELSE def.extends \cap OnDisk')
    BY PutDeclares
  <2>4. OnDisk' = OnDisk
    BY <2>1
  <2> QED BY <2>1, <2>2, <2>3, <2>4
<1>3. D[k] = (IF old \cap OnDisk = {} THEN {Root} ELSE old \cap OnDisk) /\ m_superIds[k] = old
  <2>1. m_superIds[k] = old
    BY DEF Ready, Follows, Quiet, MatchesStore
  <2>2. D[k] = (IF old \cap OnDisk = {} THEN {Root} ELSE old \cap OnDisk)
    BY DEF DeclaredSupers, AllKinds
  <2> QED BY <2>1, <2>2
<1>4. old \subseteq Kinds /\ def.extends \subseteq Kinds /\ Root \notin Kinds /\ k \in AllKinds /\ Root \in AllKinds
  <2>1. m_superIds[k] \subseteq Kinds
    BY DEF Ready, KindShape, AllKinds
  <2> QED BY <2>1, <1>3, PutDefines, KindAssumption DEF Defines, AllKinds
<1>5. Root \in Above(D, {k})
  <2>1. OnDisk \in SUBSET Kinds
    BY <1>1
  <2> HIDE DEF D
  <2> QED BY <2>1, <1>1, RootAbove
<1>6. Gained(k, def) = Above(D, add) /\ Lost(k, def) = R \cup (Above(D, R) \ Above(D, add))
  <2>1. (def.extends \ m_superIds[k]) \cap m_kinds = add /\ (m_superIds[k] \ def.extends) \cap m_kinds = R
    BY <1>1, <1>3, <1>4
  <2>2. Gained(k, def) = Above(D, add)
    BY <2>1, <1>1 DEF Gained
  <2> HIDE DEF D, R, add
  <2> QED BY <2>1, <2>2, <1>1 DEF Lost
<1>7. add \subseteq D2[k] /\ R \subseteq D[k] \ D2[k] /\ Root \notin R /\ R \subseteq AllKinds /\ add \subseteq AllKinds
  BY <1>2, <1>3, <1>4 DEF AllKinds
<1>8. \A s \in D[k] : s # Root /\ s \notin D2[k] => s \in R
  BY <1>2, <1>3, <1>4
<1>9. \A s \in D2[k] : s # Root /\ s \notin D[k] => s \in add
  BY <1>2, <1>3, <1>4
<1>10. D[k] \subseteq AllKinds /\ D2[k] \subseteq AllKinds
  <2> HIDE DEF D, D2
  <2> QED BY <1>1, <1>2, <1>4 DEF Links
<1> HIDE DEF D, D2, old, add, R, removed
<1>11. ASSUME NEW s \in D[k] \cup D2[k]
       PROVE  s \in AllKinds /\ k \notin Above(D, {s}) /\ Above(D2, {s}) = Above(D, {s})
  <2>1. s \in AllKinds
    BY <1>10
  <2>2. k \notin Above(D, {s}) \/ k \notin Above(D2, {s})
    <3>1. k \notin Above(D, D[k]) /\ k \notin Above(D2, D2[k])
      BY <1>1, <1>2, <1>4 DEF NoCycle
    <3> QED BY <3>1, <1>1, <1>2, <1>10, AboveOne
  <2> QED BY <2>1, <2>2, <1>1, <1>2, <1>4, BelowSame
<1>12. \A x : x \in Above(D, R) => \E s \in R : x \in Above(D, {s})
  <2>1. D \in Links /\ R \subseteq AllKinds
    BY <1>1, <1>7
  <2> QED BY <2>1, AboveOne, Zenon
<1>13. \A x : x \in Above(D, add) => \E s \in add : x \in Above(D, {s})
  <2>1. D \in Links /\ add \subseteq AllKinds
    BY <1>1, <1>7
  <2> QED BY <2>1, AboveOne, Zenon
<1>14. /\ Above(D, {k}) = {k} \cup Above(D, D[k])
       /\ Above(D2, {k}) = {k} \cup Above(D2, D2[k])
  BY <1>1, <1>2, <1>4, AboveSupers
<1>15. R \subseteq Above(D, R) /\ R \subseteq D[k] /\ add \subseteq D2[k]
  BY <1>1, <1>7, AboveClosed
<1>16. k \notin Gained(k, def) /\ k \notin Lost(k, def)
  BY <1>6, <1>11, <1>12, <1>13, <1>15
<1>17. Gained(k, def) \subseteq Above(D2, {k})
  <2>1. ASSUME NEW x \in Above(D, add) PROVE x \in Above(D2, {k})
    <3>1. PICK s \in add : x \in Above(D, {s})
      BY <1>13
    <3>2. s \in D2[k] /\ x \in Above(D2, {s})
      BY <3>1, <1>11, <1>15
    <3> QED BY <3>2, <1>2, <1>10, <1>14, AboveOne
  <2> QED BY <2>1, <1>6
<1>18. Above(D, {Root}) = {Root}
  <2>1. Closed(D, {Root})
    BY <1>1 DEF Closed
  <2> QED BY <2>1, <1>1, <1>4, AboveLeast, AboveClosed
<1>19. ASSUME NEW a \in AllKinds, a # k, a \notin Gained(k, def), a \notin Lost(k, def)
       PROVE  a \in Above(D, {k}) <=> a \in Above(D2, {k})
  <2>1. CASE a = Root
    BY <2>1, <1>2, <1>5
  <2>2. ASSUME a # Root, a \in Above(D, {k}) PROVE a \in Above(D2, {k})
    <3>1. PICK s \in D[k] : a \in Above(D, {s})
      BY <2>2, <1>1, <1>10, <1>14, <1>19, AboveOne
    <3>2. s # Root
      BY <3>1, <2>2, <1>18
    <3>3. s \notin R
      <4>1. s \in R => a \in Above(D, R)
        BY <3>1, <1>1, <1>7, AboveOne
      <4> QED BY <4>1, <1>6, <1>19
    <3>4. s \in D2[k] /\ a \in Above(D2, {s})
      BY <3>1, <3>2, <3>3, <1>8, <1>11
    <3> QED BY <3>4, <1>2, <1>10, <1>14, AboveOne
  <2>3. ASSUME a # Root, a \in Above(D2, {k}) PROVE a \in Above(D, {k})
    <3>1. PICK s \in D2[k] : a \in Above(D2, {s})
      BY <2>3, <1>2, <1>10, <1>14, <1>19, AboveOne
    <3>2. a \in Above(D, {s})
      BY <3>1, <1>11
    <3>3. s # Root
      BY <3>2, <2>3, <1>18
    <3>4. s \notin add
      <4>1. s \in add => a \in Above(D, add)
        BY <3>2, <1>1, <1>7, AboveOne
      <4> QED BY <4>1, <1>6, <1>19
    <3>5. s \in D[k]
      BY <3>1, <3>3, <3>4, <1>9
    <3> QED BY <3>2, <3>5, <1>1, <1>10, <1>14, AboveOne
  <2> QED BY <2>1, <2>2, <2>3
<1>20. ASSUME NEW a \in Lost(k, def) PROVE removed \ {Root} # {} /\ a \in Above(D, removed)
  <2>1. a \in Above(D, R)
    BY <1>6, <1>15
  <2>2. PICK s \in R : a \in Above(D, {s})
    BY <2>1, <1>12
  <2>3. s \in removed /\ s # Root /\ removed \subseteq AllKinds
    BY <2>2, <1>7, <1>10 DEF removed
  <2> QED BY <2>2, <2>3, <1>1, AboveOne
<1>21. \A a \in Lost(k, def) :
         LET rem == DeclaredSupers[k] \ DeclaredSupers'[k]
         IN  rem \ {Root} # {} /\ a \in Above(DeclaredSupers, rem)
  BY <1>20 DEF removed, D, D2
<1> QED BY <1>2, <1>16, <1>17, <1>19, <1>21 DEF D, D2

\* What putKind makes of the entries of another kind.
LEMMA PutOldEntries ==
  ASSUME Ready, NEW k \in Kinds, NEW def \in Defs(k), PutKind(k, def), NEW a \in AllKinds, a # k
  PROVE  /\ indexIds'[a] = indexIds[a]
         /\ \A i \in IndexNames :
              entries'[a][i] = (IF a \in Gained(k, def) /\ i \in indexIds[a]
                                THEN entries[a][i] \cup {o \in Listed(k) : Included(i, object[o].deleted)} ELSE entries[a][i])
                               \ (IF a \in Lost(k, def) /\ i \in indexIds[a] THEN Listed(k) ELSE {})
<1> DEFINE wanted == {"_id"} \cup def.extra
           dropped == m_indexes[k] \ wanted
           e0 == [entries EXCEPT ![k] = [i \in IndexNames |-> IF i \in dropped THEN {} ELSE @[i]]]
           e == Reindex(e0, k, def, wanted)
           created == wanted \ (m_indexes[k] \cup indexIds[k])
           build == {o \in e[k]["_id"] : object[o] # NoKind /\ ~object[o].deleted}
<1>1. StoreShape /\ k \in AllKinds /\ m_indexes[a] = indexIds[a]
  BY ShapeParts, ReadyFacts DEF Ready, AllKinds
<1>2. /\ indexIds' = [indexIds EXCEPT ![k] = (@ \ dropped) \cup wanted]
      /\ entries' = [e EXCEPT ![k] = [i \in IndexNames |-> IF i \in created \ {"_id"} THEN build ELSE @[i]]]
  BY DEF PutKind, ConfigureIndexes
<1>3. e0 \in EntryMaps /\ e \in EntryMaps /\ entries \in EntryMaps
  <2>1. entries \in EntryMaps
    BY <1>1 DEF StoreShape
  <2>2. e0 \in EntryMaps
    BY <2>1, <1>1 DEF EntryMaps
  <2> QED BY <2>1, <2>2, <1>1, EntriesTyped
<1>4. \A i \in IndexNames : e0[a][i] = entries[a][i]
  BY <1>3 DEF EntryMaps
<1>5. \A i \in IndexNames : entries'[a][i] = e[a][i]
  <2> HIDE DEF e, created, build
  <2> QED BY <1>2, <1>3 DEF EntryMaps
<1>6. indexIds'[a] = indexIds[a]
  <2> HIDE DEF e, dropped, wanted
  <2> QED BY <1>1, <1>2 DEF StoreShape
<1>7. \A i \in IndexNames :
        e[a][i] = (IF a \in Gained(k, def) /\ i \in indexIds[a]
                   THEN e0[a][i] \cup {o \in Listed(k) : Included(i, object[o].deleted)} ELSE e0[a][i])
                  \ (IF a \in Lost(k, def) /\ i \in indexIds[a] THEN Listed(k) ELSE {})
  <2> HIDE DEF e0, wanted
  <2> QED BY <1>1 DEF Reindex
<1> HIDE DEF e, e0, created, build
<1> QED BY <1>4, <1>5, <1>6, <1>7

\* What a kind lists of itself and of the kinds below it.
LEMMA ListedBelow ==
  ASSUME Ready, NEW k \in OnDisk
  PROVE  /\ Listed(k) = BelowIn(DeclaredSupers, object, k)
         /\ "_id" \in indexIds[k] /\ entries[k]["_id"] = Listed(k)
         /\ \A o \in Listed(k) : object[o].kind \in OnDisk
<1> DEFINE D == DeclaredSupers
           B == BelowIn(DeclaredSupers, object, k)
<1>1. D \in Links /\ OnDisk \subseteq Kinds /\ (\A a \in AllKinds : ExactIn(D, object, indexIds, entries, a))
        /\ (\A x \in AllKinds \ OnDisk : D[x] = {}) /\ k \in AllKinds
  BY ReadyFacts DEF AllKinds
<1>2. "_id" \in indexIds[k]
  BY <1>1 DEF Ready, Tidy, Declared
<1>3. entries[k]["_id"] = B
  <2>1. entries[k]["_id"] = {o \in B : "_id" \in indexIds[k] /\ Included("_id", object[o].deleted)}
    BY <1>1 DEF ExactIn, IndexNames
  <2> QED BY <2>1, <1>2 DEF Included, BelowIn
<1>4. Listed(k) = B
  BY <1>3 DEF Listed, BelowIn
<1>5. ASSUME NEW o \in B PROVE object[o].kind \in OnDisk
  <2>1. object[o] # NoKind /\ o \in Objs /\ k \in Above(D, {object[o].kind})
    BY <1>5 DEF BelowIn
  <2>2. object[o].kind \in AllKinds
    BY <2>1 DEF Ready, KindShape, AllKinds
  <2>3. ASSUME object[o].kind \notin OnDisk PROVE FALSE
    <3>1. D[object[o].kind] = {}
      BY <1>1, <2>2, <2>3
    <3> HIDE DEF D
    <3>2. Closed(D, {object[o].kind})
      BY <3>1 DEF Closed
    <3>3. k = object[o].kind
      BY <3>2, <2>1, AboveLeast
    <3> QED BY <3>3, <2>3
  <2> QED BY <2>3
<1> QED BY <1>2, <1>3, <1>4, <1>5

\* A new definition for a stored kind: the indexes of the other kinds, but for those LosesAWay excuses.
LEMMA PutOldOther ==
  ASSUME Ready, KindShape', NEW k \in Kinds, NEW def \in Defs(k), PutKind(k, def), ~Cyclic', k \in OnDisk,
         NEW a \in AllKinds, a # k, ~LosesAWay(a)
  PROVE  Exact(a)'
<1> DEFINE D == DeclaredSupers
           D2 == DeclaredSupers'
           G == Gained(k, def)
           L == Lost(k, def)
           B == Listed(k)
<1>1. D \in Links /\ D2 \in Links /\ k \in AllKinds /\ Elsewhere(D, D2, k) /\ OnDisk' = OnDisk
  <2>1. OnDisk' = OnDisk \cup {k} /\ DeclaredSupers' \in Links
    BY PutDeclares
  <2> QED BY <2>1, ReadyFacts, PutOldAbove DEF AllKinds
<1>2. object' = object /\ \A o \in Objs : object[o] # NoKind => object[o].kind \in AllKinds
  BY DEF PutKind, Ready, KindShape, AllKinds
<1>3. B = BelowIn(D, object, k) /\ \A o \in B : object[o].kind \in OnDisk
  BY ListedBelow
<1>4. \A i \in IndexNames : entries[a][i] = {o \in BelowIn(D, object, a) : i \in indexIds[a] /\ Included(i, object[o].deleted)}
  BY ReadyFacts DEF ExactIn
<1>5. /\ indexIds'[a] = indexIds[a]
      /\ \A i \in IndexNames :
              entries'[a][i] = (IF a \in G /\ i \in indexIds[a]
                                THEN entries[a][i] \cup {o \in B : Included(i, object[o].deleted)} ELSE entries[a][i])
                               \ (IF a \in L /\ i \in indexIds[a] THEN B ELSE {})
  BY PutOldEntries
<1>6. G \subseteq Above(D2, {k})
  BY PutOldAbove
<1>7. a \notin G \cup L => (a \in Above(D, {k}) <=> a \in Above(D2, {k}))
  BY PutOldAbove
<1>8. a \in L => (D[k] \ D2[k]) \ {Root} # {} /\ a \in Above(D, D[k] \ D2[k])
  <2>1. \A x \in Lost(k, def) :
              LET removed == DeclaredSupers[k] \ DeclaredSupers'[k]
              IN  removed \ {Root} # {} /\ x \in Above(DeclaredSupers, removed)
    BY PutOldAbove
  <2> QED BY <2>1
<1>9. a \in L => \A c \in OnDisk : ~(k \in Above(D2, {c}) /\ a \in Above(D2, {c}))
  <2> SUFFICES ASSUME a \in L, NEW c \in OnDisk, k \in Above(D2, {c}), a \in Above(D2, {c}) PROVE FALSE
    OBVIOUS
  <2>1. k \in OnDisk \cap OnDisk'
    BY <1>1
  <2>2. LosesAWay(a)
    BY <2>1, <1>8 DEF LosesAWay
  <2> QED BY <2>2
<1> DEFINE was == BelowIn(D, object, a)
           new == BelowIn(D2, object', a)
<1>10. B \subseteq Objs /\ was \subseteq Objs /\ new \subseteq Objs
  BY <1>3 DEF BelowIn
<1>11. \A o \in Objs : /\ o \in was <=> object[o] # NoKind /\ a \in Above(D, {object[o].kind})
                       /\ o \in new <=> object[o] # NoKind /\ a \in Above(D2, {object[o].kind})
                       /\ o \in B <=> object[o] # NoKind /\ k \in Above(D, {object[o].kind})
  BY <1>2, <1>3 DEF BelowIn
<1> HIDE DEF D, D2, G, L, B, was, new
<1>12. \A o \in Objs \ B : o \in was <=> o \in new
  <2>1. ASSUME NEW o \in Objs \ B, object[o] # NoKind PROVE Above(D2, {object[o].kind}) = Above(D, {object[o].kind})
    BY <2>1, <1>1, <1>2, <1>11, BelowSame
  <2> QED BY <2>1, <1>11
<1>13. \A o \in B : object[o] # NoKind /\ o \in Objs /\ k \in Above(D2, {object[o].kind})
  <2>1. ASSUME NEW o \in B PROVE object[o] # NoKind /\ o \in Objs /\ k \in Above(D2, {object[o].kind})
    <3>1. object[o] # NoKind /\ o \in Objs /\ k \in Above(D, {object[o].kind}) /\ object[o].kind \in AllKinds
      BY <1>2, <1>10, <1>11
    <3> QED BY <3>1, <1>1, BelowSame
  <2> QED BY <2>1
<1>14. CASE a \in L
  <2>1. \A o \in B : o \notin new
    BY <1>3, <1>9, <1>10, <1>11, <1>13, <1>14
  <2>2. new = was \ B
    BY <2>1, <1>10, <1>12
  <2>3. \A i \in IndexNames : entries'[a][i] = {o \in new : i \in indexIds[a] /\ Included(i, object[o].deleted)}
    <3>1. ASSUME NEW i \in IndexNames, i \in indexIds[a]
          PROVE  entries'[a][i] = {o \in new : Included(i, object[o].deleted)}
      <4>1. entries[a][i] = {o \in was : Included(i, object[o].deleted)}
        BY <3>1, <1>4 DEF was, D
      <4>2. entries'[a][i] = entries[a][i] \ B
        BY <3>1, <1>5, <1>14
      <4> QED BY <4>1, <4>2, <2>2
    <3>2. ASSUME NEW i \in IndexNames, i \notin indexIds[a] PROVE entries'[a][i] = {}
      BY <3>2, <1>4, <1>5
    <3> QED BY <3>1, <3>2
  <2> QED BY <2>3, <1>2, <1>5, ExactSame DEF ExactIn, new, D2
<1>15. CASE a \in G /\ a \notin L
  <2>1. \A o \in B : o \in new
    <3>1. ASSUME NEW o \in B PROVE o \in new
      <4>1. object[o].kind \in AllKinds /\ object[o] # NoKind /\ o \in Objs /\ k \in Above(D2, {object[o].kind})
        BY <1>2, <1>13
      <4>2. {k} \subseteq Above(D2, {object[o].kind}) /\ Closed(D2, Above(D2, {object[o].kind}))
        BY <4>1, <1>1, AboveClosed
      <4>3. Above(D2, {k}) \subseteq Above(D2, {object[o].kind})
        BY <4>2, AboveLeast
      <4> QED BY <4>1, <4>3, <1>6, <1>11, <1>15
    <3> QED BY <3>1
  <2>2. new = was \cup B
    <3>1. was \ B \subseteq new /\ new \ B \subseteq was
      BY <1>10, <1>12
    <3>2. \A o \in Objs : o \in was /\ o \in B => o \in new
      BY <2>1
    <3> QED BY <3>1, <3>2, <2>1, <1>10
  <2>3. \A i \in IndexNames : entries'[a][i] = {o \in new : i \in indexIds[a] /\ Included(i, object[o].deleted)}
    <3>1. ASSUME NEW i \in IndexNames, i \in indexIds[a]
          PROVE  entries'[a][i] = {o \in new : Included(i, object[o].deleted)}
      <4>1. entries[a][i] = {o \in was : Included(i, object[o].deleted)}
        BY <3>1, <1>4 DEF was, D
      <4>2. entries'[a][i] = entries[a][i] \cup {o \in B : Included(i, object[o].deleted)}
        BY <3>1, <1>5, <1>15
      <4> QED BY <4>1, <4>2, <2>2
    <3>2. ASSUME NEW i \in IndexNames, i \notin indexIds[a] PROVE entries'[a][i] = {}
      BY <3>2, <1>4, <1>5
    <3> QED BY <3>1, <3>2
  <2> QED BY <2>3, <1>2, <1>5, ExactSame DEF ExactIn, new, D2
<1>16. CASE a \notin G /\ a \notin L
  <2>1. \A o \in Objs : o \in was <=> o \in new
    <3>1. ASSUME NEW o \in Objs, object[o] # NoKind
          PROVE  a \in Above(D, {object[o].kind}) <=> a \in Above(D2, {object[o].kind})
      BY <3>1, <1>1, <1>2, <1>7, <1>16, AboveChanges
    <3> QED BY <3>1, <1>11
  <2>2. new = was
    BY <2>1, <1>10
  <2>3. \A i \in IndexNames : entries'[a][i] = {o \in new : i \in indexIds[a] /\ Included(i, object[o].deleted)}
    BY <2>2, <1>4, <1>5, <1>16 DEF was, D
  <2> QED BY <2>3, <1>2, <1>5, ExactSame DEF ExactIn, new, D2
<1> QED BY <1>14, <1>15, <1>16

\* And those of the kind itself.
LEMMA PutOldSelf ==
  ASSUME Ready, KindShape', NEW k \in Kinds, NEW def \in Defs(k), PutKind(k, def), ~Cyclic', k \in OnDisk
  PROVE  Exact(k)'
<1> DEFINE D == DeclaredSupers
           D2 == DeclaredSupers'
           B == BelowIn(DeclaredSupers, object, k)
           wanted == {"_id"} \cup def.extra
           dropped == m_indexes[k] \ wanted
           e0 == [entries EXCEPT ![k] = [i \in IndexNames |-> IF i \in dropped THEN {} ELSE @[i]]]
           e == Reindex(e0, k, def, wanted)
           created == wanted \ (m_indexes[k] \cup indexIds[k])
           build == {o \in e[k]["_id"] : object[o] # NoKind /\ ~object[o].deleted}
<1>1. D \in Links /\ D2 \in Links /\ k \in AllKinds /\ Elsewhere(D, D2, k)
  <2>1. DeclaredSupers' \in Links
    BY PutDeclares
  <2> QED BY <2>1, ReadyFacts, PutOldAbove DEF AllKinds
<1>2. object' = object /\ (\A o \in Objs : object[o] # NoKind => object[o].kind \in AllKinds) /\ StoreShape
  BY ShapeParts DEF PutKind, Ready, KindShape, AllKinds
<1>3. BelowIn(D2, object', k) = B
  <2> HIDE DEF D, D2
  <2>1. ASSUME NEW o \in Objs, object[o] # NoKind
        PROVE  k \in Above(D, {object[o].kind}) <=> k \in Above(D2, {object[o].kind})
    BY <2>1, <1>1, <1>2, BelowSame
  <2> QED BY <2>1, <1>2 DEF BelowIn, D
<1>4. B \subseteq Objs /\ entries[k]["_id"] = B /\ \A o \in B : object[o] # NoKind
  BY ListedBelow DEF BelowIn
<1>5. m_indexes[k] = indexIds[k] /\ "_id" \in indexIds[k] /\ ExactIn(D, object, indexIds, entries, k)
  BY <1>1, ReadyFacts, ListedBelow
<1>6. \A i \in IndexNames : entries[k][i] = {o \in B : i \in indexIds[k] /\ Included(i, object[o].deleted)}
  BY <1>5 DEF ExactIn
<1>7. Tidy(k)'
  BY PutKindTidy DEF Ready
<1>8. indexIds'[k] = wanted
  BY <1>1, <1>2, <1>5 DEF StoreShape, PutKind, ConfigureIndexes
<1>9. entries' = [e EXCEPT ![k] = [i \in IndexNames |-> IF i \in created \ {"_id"} THEN build ELSE @[i]]]
  BY DEF PutKind, ConfigureIndexes
<1>10. e0 \in EntryMaps /\ e \in EntryMaps
  <2>1. entries \in EntryMaps
    BY <1>2 DEF StoreShape
  <2>2. e0 \in EntryMaps
    BY <2>1, <1>1 DEF EntryMaps
  <2> QED BY <2>1, <2>2, <1>1, EntriesTyped
<1>11. \A i \in IndexNames : e[k][i] = e0[k][i]
  <2>1. k \notin Gained(k, def) /\ k \notin Lost(k, def)
    BY PutOldAbove
  <2> HIDE DEF e0, wanted
  <2> QED BY <2>1, <1>1 DEF Reindex
<1>12. \A i \in IndexNames : e0[k][i] = IF i \in dropped THEN {} ELSE entries[k][i]
  BY <1>1, <1>2 DEF StoreShape, EntryMaps
<1>13. \A i \in IndexNames : entries'[k][i] = IF i \in created \ {"_id"} THEN build ELSE e[k][i]
  <2> HIDE DEF e, created, build
  <2> QED BY <1>1, <1>9, <1>10 DEF EntryMaps
<1>14. ASSUME NEW i \in IndexNames
       PROVE  entries'[k][i] = {o \in B : i \in indexIds'[k] /\ Included(i, object'[o].deleted)}
  <2>1. CASE i \notin wanted
    BY <2>1, <1>7, <1>8 DEF Tidy
  <2>2. CASE i \in wanted /\ i \in created \ {"_id"}
    <3>1. build = {o \in B : ~object[o].deleted}
      <4>1. e[k]["_id"] = B
        BY <1>4, <1>11, <1>12 DEF IndexNames
      <4> QED BY <4>1, <1>4
    <3>2. \A o : Included(i, object[o].deleted) <=> ~object[o].deleted
      BY <2>2 DEF Included
    <3> HIDE DEF B, build, created
    <3> QED BY <3>1, <3>2, <2>2, <1>2, <1>8, <1>13
  <2>3. CASE i \in wanted /\ i \notin created \ {"_id"}
    <3>1. i \in indexIds[k] /\ i \notin dropped
      BY <2>3, <1>5
    <3>2. entries'[k][i] = entries[k][i]
      BY <2>3, <3>1, <1>11, <1>12, <1>13
    <3> HIDE DEF B
    <3> QED BY <2>3, <3>1, <3>2, <1>2, <1>6, <1>8
  <2> QED BY <2>1, <2>2, <2>3
<1>15. ExactIn(D2, object', indexIds', entries', k)
  <2> HIDE DEF B, D2
  <2> QED BY <1>3, <1>14 DEF ExactIn
<1> QED BY <1>15, ExactSame

\* From exact indexes every operation leads to exact indexes, but for what StaysExact excuses.
LEMMA ExactStep ==
  ASSUME KindsInv, KindsInv', [KindNext]_kindVars
  PROVE  StaysExact
<1> SUFFICES ASSUME ~damaged', AllExact
             PROVE  /\ \A a \in AllKinds : Exact(a)' \/ LateSuper(a) \/ LosesAWay(a)
                    /\ NoStrays => NoStrays'
  BY DEF StaysExact
<1>1. KindShape /\ KindShape' /\ AcyclicInv /\ RootInv /\ StoreInv' /\ FollowInv'
  BY DEF KindsInv, AcyclicInv
<1>2. ~Cyclic'
  BY <1>1 DEF StoreInv, FollowInv, Follows
<1>3. CASE UNCHANGED kindVars
  <2>1. UNCHANGED <<object, indexIds, entries>> /\ kindObj' = kindObj
    BY <1>3 DEF kindVars, storage
  <2>2. OnDisk' = OnDisk /\ DeclaredSupers' = DeclaredSupers
    BY <2>1, DiskSame
  <2> QED BY <2>1, <2>2, SameExact
<1>4. CASE KindNext
  <2> USE <1>4
  <2>1. ~damaged
    BY DEF KindNext, PutKind, PutKindFails, PutNewKindFails, BatchCommitFails, Reload, Reloads, LoadKind, PurgeKindObj,
           DelKind, DelKindFails, DelKindBatch, DelKindRest, Put, Del, Purge, Reopen, Disturbs
  <2>2. ~disturbed /\ Follows /\ \A x \in Kinds : Tidy(x)
    BY <2>1 DEF KindsInv, StoreInv, FollowInv
  <2>3. \A w : Disturbs(w) => Quiet /\ ~w
    BY DEF Disturbs
  <2>4. Quiet => Ready
    BY <1>1, <2>2 DEF Ready
  <2>5. ASSUME UNCHANGED <<object, indexIds, entries>>, kindObj' = kindObj
        PROVE  (\A a \in AllKinds : Exact(a)') /\ (NoStrays => NoStrays')
    <3>1. OnDisk' = OnDisk /\ DeclaredSupers' = DeclaredSupers
      BY <2>5, DiskSame
    <3> QED BY <3>1, <2>5, SameExact
  <2>6. ASSUME NEW k \in Kinds, NEW def \in Defs(k), PutKind(k, def)
        PROVE  /\ \A a \in AllKinds : Exact(a)' \/ LateSuper(a) \/ LosesAWay(a)
               /\ NoStrays => NoStrays'
    <3>1. Ready
      BY <2>3, <2>4, <2>6 DEF PutKind
    <3>2. NoStrays => NoStrays'
      <4>1. OnDisk' = OnDisk \cup {k}
        BY <3>1, <1>1, <1>2, <2>6, PutDeclares
      <4> QED BY <4>1, <2>6 DEF NoStrays, PutKind
    <3>3. CASE k \notin OnDisk
      BY <3>1, <3>2, <3>3, <1>1, <1>2, <2>6, PutNewExact
    <3>4. CASE k \in OnDisk
      BY <3>1, <3>2, <3>4, <1>1, <1>2, <2>6, PutOldOther, PutOldSelf
    <3> QED BY <3>3, <3>4
  <2>7. ASSUME NEW k \in Kinds, NEW def \in Defs(k),
               PutKindFails(k, def) \/ PutNewKindFails(k, def) \/ BatchCommitFails(k, def)
        PROVE  (\A a \in AllKinds : Exact(a)') /\ (NoStrays => NoStrays')
    BY <2>5, <2>7 DEF PutKindFails, PutNewKindFails, BatchCommitFails, storage
  <2>8. ASSUME NEW k \in Kinds, Reload(k) \/ LoadKind(k)
        PROVE  (\A a \in AllKinds : Exact(a)') /\ (NoStrays => NoStrays')
    <3>1. object' = object /\ kindObj' = kindObj
      BY <2>8 DEF Reload, LoadKind
    <3>2. indexIds' = indexIds /\ entries' = entries
      <4>1. CASE Reload(k) /\ kindObj[k] = NoKind
        BY <4>1 DEF Reload
      <4>2. CASE ~(Reload(k) /\ kindObj[k] = NoKind)
        <5>1. Recreate(k) /\ k \in OnDisk
          <6>1. CASE Reload(k)
            BY <6>1, <4>2, <2>2 DEF Reload, Reloads, OnDisk
          <6>2. CASE LoadKind(k)
            BY <6>2, <1>1 DEF LoadKind, KindShape
          <6> QED BY <6>1, <6>2, <2>8
        <5> QED BY <5>1, <1>1, <2>2, RecreateTidy
      <4> QED BY <4>1, <4>2
    <3> QED BY <3>1, <3>2, <2>5
  <2>9. ASSUME NEW k \in Kinds, PurgeKindObj(k)
        PROVE  (\A a \in AllKinds : Exact(a)') /\ (NoStrays => NoStrays')
    <3>1. UNCHANGED <<object, indexIds, entries>> /\ kindObj' = [kindObj EXCEPT ![k] = NoKind] /\ kindObj[k].deleted
      BY <2>9 DEF PurgeKindObj
    <3>2. OnDisk' = OnDisk /\ \A x \in OnDisk : kindObj'[x] = kindObj[x]
      BY <3>1, <1>1 DEF OnDisk, KindShape
    <3>3. DeclaredSupers' = DeclaredSupers
      BY <3>2, DiskSame DEF SupersOf
    <3> QED BY <3>1, <3>2, <3>3, SameExact
  <2>10. ASSUME NEW k \in Kinds, DelKind(k) \/ DelKindFails(k) \/ DelKindBatch(k) \/ DelKindRest(k)
         PROVE  (\A a \in AllKinds : Exact(a)') /\ (NoStrays => NoStrays')
    <3>1. CASE DelKind(k)
      <4>1. Ready
        BY <3>1, <2>3, <2>4 DEF DelKind
      <4> QED BY <3>1, <4>1, <1>1, DelKindExact
    <3>2. CASE ~DelKind(k)
      <4>1. DelKindFails(k)
        BY <2>10, <3>2, <2>2, <2>3 DEF DelKindBatch, DelKindRest, Follows
      <4> QED BY <4>1, <2>5 DEF DelKindFails, storage
    <3> QED BY <3>1, <3>2
  <2>11. ASSUME \/ \E k \in Kinds, o \in Objs : Put(o, k)
                \/ \E o \in Objs : Del(o) \/ Purge(o)
         PROVE  (\A a \in AllKinds : Exact(a)') /\ (NoStrays => NoStrays')
    <3>1. Ready
      BY <2>3, <2>4, <2>11 DEF Put, Del, Purge
    <3> QED BY <3>1, <2>11, ObjectExact
  <2>12. CASE Reopen
    BY <2>5, <2>12 DEF Reopen, storage
  <2> QED BY <2>6, <2>7, <2>8, <2>9, <2>10, <2>11, <2>12 DEF KindNext
<1> QED BY <1>3, <1>4

\* For any kinds and objects, every operation leads from exact indexes to exact indexes, but for the
\* two cases that StaysExact excuses, and no object outlives its kind by it (MojDbKind::updateSupers and
\* update, MojDbIndex::update and build, MojDb::delKind).
THEOREM ExactForever == KindSpec => IndexesStayExact
<1>1. KindsInv /\ KindsInv' /\ [KindNext]_kindVars => [StaysExact]_kindVars
  BY ExactStep
<1> QED BY <1>1, KindsInvariance, PTL DEF KindSpec, IndexesStayExact

-----------------------------------------------------------------------------
(* The life of an index (MojDbIndexing), for any objects, values and       *)
(* definitions, whatever commits fail or are cut off.  The invariant says  *)
(* what the tables are worth at each point of a request and of its commit: *)
(* what a crash now would leave, what the request makes of them, and which *)
(* index in memory is the stored one.                                      *)

IxItems == Items \cup {NoItem}
IxEntries == Nat \X BOOLEAN \X (IxValues \cup {IxNull}) \X IxObjects
IxDefinitions == IxDefs \cup {"none"}
StoredTables == [objects : [objs : [IxObjects -> IxItems], def : IxDefinitions],
                 indexes : SUBSET IxEntries, indexIds : Nat]
Memories == [kind : {"open", "closed", "gone"}, def : IxDefinitions, ix : Nat, ready : BOOLEAN]
AllTables == {"objects", "indexes", "indexIds"}

\* The tables that a request has still to write: each once, the ids of indexes last, but
\* for a put, which has none to write, and a reload.
Unwritten(order) == {order[i] : i \in 1..Len(order)}
OrderOf(by, order) ==
  /\ order \in Seq(AllTables)
  /\ \A i, j \in 1..Len(order) : order[i] = order[j] => i = j
  /\ by = "put" => Unwritten(order) \subseteq {"objects", "indexes"}
  /\ by \notin {"put", "reload"} /\ order # <<>> => order[Len(order)] = "indexIds"

ChangeShape ==
  change = [pc |-> change.pc, view |-> change.view, order |-> change.order, written |-> change.written,
            by |-> change.by, objs |-> change.objs, created |-> change.created, dropped |-> change.dropped]
Ordered(S) == Unwritten(change.order) \cap S = {}

IxTypeOK ==
  /\ tables \in StoredTables
  /\ mem \in Memories
  /\ ChangeShape /\ change.pc \in {"idle", "called", "commit", "writing"}
  /\ change.written \subseteq All /\ change.objs \subseteq IxObjects
  /\ change.created \in BOOLEAN /\ change.dropped \in BOOLEAN
  /\ change.pc # "idle" =>
       /\ change.view \in StoredTables /\ OrderOf(change.by, change.order)
       /\ change.by \in {"put", "putKind", "batch", "reload", "load"}
       /\ Ordered(change.written)
  /\ nextIx \in Nat /\ nextIx > 0 /\ reloadDue \in BOOLEAN /\ parted \in BOOLEAN
  /\ tornObjs \subseteq IxObjects

\* An id is not drawn twice; a kind that is not open has no index.
IdsDrawn ==
  /\ mem.ix < nextIx /\ tables.indexIds < nextIx /\ \A e \in tables.indexes : e[1] < nextIx
  /\ change.pc # "idle" =>
       change.view.indexIds < nextIx /\ \A e \in change.view.indexes : e[1] < nextIx
  /\ mem.def # "none" => mem.ix # IdIndex /\ mem.kind = "open"

\* What the tables say of an object.
EntriesOf(es, ix, o) == {e \in es : e[1] = ix /\ e[4] = o}
AllEntriesOf(es, o) == {e \in es : e[4] = o}
IdsExact(t, o) == EntriesOf(t.indexes, IdIndex, o) = IdKeys(o, t.objects.objs[o])
NameExact(t, o) ==
  t.objects.def # "none" /\ t.indexIds # 0 =>
    EntriesOf(t.indexes, t.indexIds, o) = KeysOf(t.objects.def, t.indexIds, o, t.objects.objs[o])
ExactBut(t, lost) == \A o \in IxObjects \ lost : IdsExact(t, o) /\ NameExact(t, o)

\* What a crash now would leave torn or parted.
CutNow == change.pc = "writing" /\ IsCut
TornNow == IF CutNow THEN tornObjs \cup change.objs ELSE tornObjs
PartedNow ==
  parted \/ (CutNow /\ (change.dropped \/ (change.created /\ (HasFailed \/ change.by = "reload"))))
StoredExact == ~PartedNow => ExactBut(tables, TornNow)

\* What a request makes of the tables.
ViewDiffers ==
  change.pc # "idle" =>
    /\ change.pc # "writing" => change.written = {}
    /\ \A t \in change.written : tables[t] = change.view[t]
    /\ change.by = "put" =>
         /\ ~change.created /\ ~change.dropped
         /\ change.view.objects.def = tables.objects.def /\ change.view.indexIds = tables.indexIds
         /\ \A o \in IxObjects \ change.objs :
              /\ change.view.objects.objs[o] = tables.objects.objs[o]
              /\ AllEntriesOf(change.view.indexes, o) = AllEntriesOf(tables.indexes, o)
    /\ change.by # "put" =>
         /\ change.objs = {} /\ change.view.objects.objs = tables.objects.objs
         /\ \A o \in IxObjects : EntriesOf(change.view.indexes, IdIndex, o) = EntriesOf(tables.indexes, IdIndex, o)
         /\ mem.def = change.view.objects.def
         /\ ~change.created /\ ~change.dropped =>
              change.view.indexes = tables.indexes /\ change.view.indexIds = tables.indexIds
         /\ change.created =>
              /\ mem.def # "none" /\ ~mem.ready /\ mem.ix = change.view.indexIds
              /\ "indexIds" \notin change.written => tables.indexIds # mem.ix
              /\ ~change.dropped /\ "indexIds" \notin change.written => tables.indexIds = 0
         /\ change.dropped => change.created \/ mem.def = "none"
RequestExact ==
  change.pc # "idle" /\ ~parted =>
    IF change.created /\ change.pc = "called"
    THEN /\ \A o \in IxObjects \ tornObjs : IdsExact(change.view, o)
         /\ \A e \in change.view.indexes : e[1] # mem.ix
    ELSE ExactBut(change.view, tornObjs)

\* An index in memory is ready where it is the stored one.
ReadyAgrees == ~parted /\ mem.def # "none" /\ mem.ready => Agrees
UnreadyDiffers ==
  ~PartedNow /\ mem.def # "none" /\ ~mem.ready
    /\ ~(change.pc = "writing" /\ change.created /\ change.written = All) => mem.ix # tables.indexIds

IxIInv ==
  /\ IxTypeOK /\ IdsDrawn /\ StoredExact /\ ViewDiffers /\ RequestExact /\ ReadyAgrees /\ UnreadyDiffers

\* A table that is written leaves the order, and the others stay in it.
LEMMA OrderWritten ==
  ASSUME NEW by, NEW order, OrderOf(by, order), order # <<>>
  PROVE  /\ Head(order) \in AllTables /\ OrderOf(by, Tail(order))
         /\ Unwritten(order) = {Head(order)} \cup Unwritten(Tail(order))
         /\ Head(order) \notin Unwritten(Tail(order))
         /\ by \notin {"put", "reload"} => "indexIds" \in Unwritten(order)
         /\ by = "put" => Head(order) \in {"objects", "indexes"}
<1> DEFINE n == Len(order)
<1>1. order \in Seq(AllTables) /\ n \in Nat \ {0} /\ Head(order) = order[1] /\ order[1] \in AllTables
  BY DEF OrderOf
<1>2. Tail(order) \in Seq(AllTables) /\ Len(Tail(order)) = n - 1
  BY <1>1
<1>3. \A i \in 1..n - 1 : Tail(order)[i] = order[i + 1]
  BY <1>1, <1>2
<1> HIDE DEF n
<1>4. Unwritten(order) = {Head(order)} \cup Unwritten(Tail(order))
  <2>1. ASSUME NEW i \in 1..n PROVE order[i] \in {Head(order)} \cup Unwritten(Tail(order))
    <3>1. CASE i = 1
      BY <3>1, <1>1
    <3>2. CASE i # 1
      <4>1. i - 1 \in 1..n - 1 /\ (i - 1) + 1 = i
        BY <3>2, <1>1
      <4> QED BY <4>1, <1>2, <1>3 DEF Unwritten
    <3> QED BY <3>1, <3>2
  <2>2. ASSUME NEW i \in 1..n - 1 PROVE Tail(order)[i] \in Unwritten(order)
    <3>1. i + 1 \in 1..n
      BY <1>1
    <3>2. Tail(order)[i] = order[i + 1]
      BY <1>3
    <3> QED BY <3>1, <3>2 DEF Unwritten, n
  <2>3. Head(order) \in Unwritten(order)
    BY <1>1 DEF Unwritten, n
  <2> QED BY <2>1, <2>2, <2>3, <1>2 DEF Unwritten, n
<1>5. Head(order) \notin Unwritten(Tail(order))
  <2>1. ASSUME NEW i \in 1..n - 1 PROVE Tail(order)[i] # order[1]
    <3>1. i + 1 \in 1..n /\ 1 \in 1..n /\ i + 1 # 1
      BY <1>1
    <3> QED BY <3>1, <1>3 DEF OrderOf, n
  <2> QED BY <2>1, <1>1, <1>2 DEF Unwritten
<1>6. OrderOf(by, Tail(order))
  <2>1. ASSUME NEW i \in 1..n - 1, NEW j \in 1..n - 1, Tail(order)[i] = Tail(order)[j] PROVE i = j
    <3>1. i + 1 \in 1..n /\ j + 1 \in 1..n
      BY <1>1
    <3>2. order[i + 1] = order[j + 1]
      BY ONLY <1>3, <2>1
    <3>3. i + 1 = j + 1
      BY <3>1, <3>2 DEF OrderOf, n
    <3> QED BY <3>3, <1>1
  <2>2. by = "put" => Unwritten(Tail(order)) \subseteq {"objects", "indexes"}
    BY <1>4 DEF OrderOf
  <2>3. ASSUME by \notin {"put", "reload"}, Tail(order) # <<>> PROVE Tail(order)[n - 1] = "indexIds"
    <3>1. n - 1 \in 1..n - 1
      BY <2>3, <1>1, <1>2
    <3>2. PICK i \in 1..n - 1 : i = n - 1
      BY <3>1
    <3>3. Tail(order)[i] = order[i + 1]
      BY <1>3
    <3>4. i + 1 = n
      BY <3>2, <1>1
    <3> QED BY <3>2, <3>3, <3>4, <2>3 DEF OrderOf, n
  <2> QED BY <2>1, <2>2, <2>3, <1>2 DEF OrderOf
<1>7. by \notin {"put", "reload"} => "indexIds" \in Unwritten(order)
  BY <1>1 DEF OrderOf, Unwritten, n
<1>8. by = "put" => Head(order) \in {"objects", "indexes"}
  BY <1>4 DEF OrderOf
<1> QED BY <1>1, <1>4, <1>5, <1>6, <1>7, <1>8

\* The orders in which commits write.
LEMMA OrdersWritten ==
  /\ OrderOf("put", <<"objects", "indexes">>)
  /\ \A by \in {"putKind", "batch"} : OrderOf(by, <<"objects", "indexes", "indexIds">>)
  /\ OrderOf("reload", <<"objects", "indexIds", "indexes">>)
  /\ OrderOf("load", <<"indexes", "objects", "indexIds">>)
<1>1. OrderOf("put", <<"objects", "indexes">>)
  BY DEF OrderOf, AllTables, Unwritten
<1>2. \A by \in {"putKind", "batch"} : OrderOf(by, <<"objects", "indexes", "indexIds">>)
  BY DEF OrderOf, AllTables, Unwritten
<1>3. OrderOf("reload", <<"objects", "indexIds", "indexes">>)
  BY DEF OrderOf, AllTables, Unwritten
<1>4. OrderOf("load", <<"indexes", "objects", "indexIds">>)
  BY DEF OrderOf, AllTables, Unwritten
<1> QED BY <1>1, <1>2, <1>3, <1>4

\* What is stored of an object.
LEMMA ItemTyped ==
  ASSUME NEW x \in IxItems
  PROVE  x = [val |-> x.val, del |-> x.del] /\ x.val \in IxValues \cup {IxNull} /\ x.del \in BOOLEAN
<1>1. CASE x \in Items
  BY <1>1 DEF Items
<1>2. CASE x = NoItem
  BY <1>2 DEF NoItem
<1> QED BY <1>1, <1>2 DEF IxItems

\* The entries of an object in an index, and in that of ids.
LEMMA KeysTyped ==
  ASSUME NEW def, NEW ix \in Nat, NEW o \in IxObjects, NEW x \in IxItems
  PROVE  /\ KeysOf(def, ix, o, x) \subseteq IxEntries /\ IdKeys(o, x) \subseteq IxEntries
         /\ \A e \in KeysOf(def, ix, o, x) : e[1] = ix /\ e[4] = o
         /\ \A e \in IdKeys(o, x) : e[1] = IdIndex /\ e[4] = o
  BY ItemTyped DEF KeysOf, IdKeys, IxEntries, IdIndex

\* An update replaces the entries of an object in an index, and no others.
LEMMA UpdatedListing ==
  ASSUME NEW es, NEW ix, NEW o, NEW old, NEW new,
         \A e \in old \cup new : e[1] = ix /\ e[4] = o
  PROVE  /\ \A i, p : i # ix \/ p # o => EntriesOf(Updated(es, old, new), i, p) = EntriesOf(es, i, p)
         /\ \A p : p # o => AllEntriesOf(Updated(es, old, new), p) = AllEntriesOf(es, p)
         /\ EntriesOf(es, ix, o) = old => EntriesOf(Updated(es, old, new), ix, o) = new
<1>1. ASSUME NEW i, NEW p, i # ix \/ p # o PROVE EntriesOf(Updated(es, old, new), i, p) = EntriesOf(es, i, p)
  BY <1>1 DEF EntriesOf, Updated
<1>2. ASSUME NEW p, p # o PROVE AllEntriesOf(Updated(es, old, new), p) = AllEntriesOf(es, p)
  BY <1>2 DEF AllEntriesOf, Updated
<1>3. ASSUME EntriesOf(es, ix, o) = old PROVE EntriesOf(Updated(es, old, new), ix, o) = new
  BY <1>3 DEF EntriesOf, Updated
<1> QED BY <1>1, <1>2, <1>3

\* A drop removes the entries of one index.
LEMMA DroppedListing ==
  ASSUME NEW es, NEW ix
  PROVE  /\ \A i, p : i # ix => EntriesOf(Dropped(es, ix), i, p) = EntriesOf(es, i, p)
         /\ Dropped(es, ix) \subseteq es
  BY DEF EntriesOf, Dropped

\* Entries of an object in all indexes are those in each.
LEMMA AllListing ==
  ASSUME NEW es, NEW fs, NEW o, AllEntriesOf(es, o) = AllEntriesOf(fs, o)
  PROVE  \A ix : EntriesOf(es, ix, o) = EntriesOf(fs, ix, o)
<1> SUFFICES ASSUME NEW ix PROVE EntriesOf(es, ix, o) = EntriesOf(fs, ix, o)
  OBVIOUS
<1>1. ASSUME NEW gs PROVE EntriesOf(gs, ix, o) = {e \in AllEntriesOf(gs, o) : e[1] = ix}
  BY DEF EntriesOf, AllEntriesOf
<1> QED BY <1>1

\* Types of what an update, a drop and a build make.
LEMMA BuildListing ==
  ASSUME NEW es \in SUBSET IxEntries, NEW items \in [IxObjects -> IxItems], NEW def, NEW ix \in Nat \ {IdIndex}
  PROVE  /\ Build(es, items, def, ix) \in SUBSET IxEntries
         /\ \A e \in Build(es, items, def, ix) : e \in es \/ e[1] = ix
         /\ \A i, o : i # ix => EntriesOf(Build(es, items, def, ix), i, o) = EntriesOf(es, i, o)
         /\ \A o \in IxObjects : EntriesOf(es, IdIndex, o) = IdKeys(o, items[o]) /\ (\A e \in es : e[1] # ix) =>
              EntriesOf(Build(es, items, def, ix), ix, o) = KeysOf(def, ix, o, items[o])
<1> DEFINE found == Rows(es, items, IdIndex, FALSE, IxNull)
                    \cup (IF def = "all" THEN Rows(es, items, IdIndex, TRUE, IxNull) ELSE {})
           keys(o) == KeysOf(def, ix, o, items[o])
<1>1. found \subseteq IxObjects
  BY DEF Rows
<1>2. Build(es, items, def, ix) = es \cup UNION {keys(o) : o \in found}
  BY DEF Build
<1>3. \A o \in IxObjects : keys(o) \subseteq IxEntries /\ \A e \in keys(o) : e[1] = ix /\ e[4] = o
  BY KeysTyped
<1>4. ASSUME NEW o \in IxObjects, EntriesOf(es, IdIndex, o) = IdKeys(o, items[o]), o \notin found
      PROVE  keys(o) = {}
  <2> SUFFICES ASSUME IncludeObj(def, items[o]) PROVE FALSE
    BY DEF KeysOf
  <2>1. items[o] # NoItem /\ items[o].del \in BOOLEAN /\ (def = "all" \/ ~items[o].del)
    BY ItemTyped DEF IncludeObj
  <2>2. <<IdIndex, items[o].del, IxNull, o>> \in es
    BY <1>4, <2>1 DEF IdKeys, EntriesOf
  <2>3. o \in Rows(es, items, IdIndex, items[o].del, IxNull)
    BY <2>1, <2>2 DEF Rows, Ghost
  <2> QED BY <1>4, <2>1, <2>3
<1> HIDE DEF found, keys
<1>5. ASSUME NEW o \in IxObjects, EntriesOf(es, IdIndex, o) = IdKeys(o, items[o]), \A e \in es : e[1] # ix
      PROVE  EntriesOf(Build(es, items, def, ix), ix, o) = keys(o)
  BY <1>1, <1>2, <1>3, <1>4, <1>5 DEF EntriesOf
<1>6. ASSUME NEW i, NEW o, i # ix PROVE EntriesOf(Build(es, items, def, ix), i, o) = EntriesOf(es, i, o)
  BY <1>1, <1>2, <1>3, <1>6 DEF EntriesOf
<1>7. Build(es, items, def, ix) \in SUBSET IxEntries /\ \A e \in Build(es, items, def, ix) : e \in es \/ e[1] = ix
  BY <1>1, <1>2, <1>3
<1> QED BY <1>5, <1>6, <1>7 DEF keys

\* The parts of the tables.
LEMMA TablesShape ==
  ASSUME NEW t \in StoredTables
  PROVE  /\ t = [objects |-> t.objects, indexes |-> t.indexes, indexIds |-> t.indexIds]
         /\ t.objects = [objs |-> t.objects.objs, def |-> t.objects.def]
         /\ t.objects.objs \in [IxObjects -> IxItems] /\ t.objects.def \in IxDefinitions
         /\ t.indexes \in SUBSET IxEntries /\ t.indexIds \in Nat
  BY DEF StoredTables

\* Tables are made of their parts.
LEMMA TablesMade ==
  ASSUME NEW ob \in [IxObjects -> IxItems], NEW df \in IxDefinitions, NEW es \in SUBSET IxEntries, NEW id \in Nat
  PROVE  [objects |-> [objs |-> ob, def |-> df], indexes |-> es, indexIds |-> id] \in StoredTables
  BY DEF StoredTables

\* What configureIndexes makes of the tables.
LEMMA ConfiguredView ==
  ASSUME NEW m \in Memories, NEW def \in IxDefinitions, NEW view \in StoredTables, nextIx \in Nat
  PROVE  /\ IndexId(m, def, view) \in StoredTables
         /\ IndexId(m, def, view).objects = view.objects
         /\ IndexId(m, def, view).indexes = IF Drops(m, def) THEN Dropped(view.indexes, m.ix) ELSE view.indexes
         /\ IndexId(m, def, view).indexIds =
              IF Creates(m, def, view) THEN nextIx ELSE IF Drops(m, def) THEN 0 ELSE view.indexIds
         /\ Creates(m, def, view) <=> Adds(m, def) /\ (Drops(m, def) \/ view.indexIds = 0)
<1> DEFINE d == DropIndex(m, def, view)
<1>1. view = [objects |-> view.objects, indexes |-> view.indexes, indexIds |-> view.indexIds]
  BY TablesShape
<1>2. d = [objects |-> view.objects,
           indexes |-> IF Drops(m, def) THEN Dropped(view.indexes, m.ix) ELSE view.indexes,
           indexIds |-> IF Drops(m, def) THEN 0 ELSE view.indexIds]
  BY <1>1 DEF DropIndex
<1>3. IndexId(m, def, view) = [objects |-> view.objects,
           indexes |-> IF Drops(m, def) THEN Dropped(view.indexes, m.ix) ELSE view.indexes,
           indexIds |-> IF Creates(m, def, view) THEN nextIx ELSE IF Drops(m, def) THEN 0 ELSE view.indexIds]
  BY <1>2 DEF IndexId
<1>4. Creates(m, def, view) <=> Adds(m, def) /\ (Drops(m, def) \/ view.indexIds = 0)
  BY <1>2 DEF Creates
<1>5. IndexId(m, def, view) \in StoredTables
  <2> DEFINE es == IF Drops(m, def) THEN Dropped(view.indexes, m.ix) ELSE view.indexes
             id == IF Creates(m, def, view) THEN nextIx ELSE IF Drops(m, def) THEN 0 ELSE view.indexIds
  <2>1. es \in SUBSET IxEntries /\ id \in Nat
    BY TablesShape DEF Dropped
  <2>2. IndexId(m, def, view) = [objects |-> [objs |-> view.objects.objs, def |-> view.objects.def], indexes |-> es, indexIds |-> id]
    BY <1>3, TablesShape
  <2> HIDE DEF es, id
  <2> QED BY <2>1, <2>2, TablesShape, TablesMade
<1> QED BY <1>3, <1>4, <1>5

\* What configureIndexes makes of the kind in memory: the index as it is defined.
LEMMA OpenedIndex ==
  ASSUME NEW m \in Memories, NEW def \in IxDefinitions, NEW view \in StoredTables, nextIx \in Nat
  PROVE  /\ OpenIndex(m, def, view) \in Memories
         /\ OpenIndex(m, def, view).def = def /\ OpenIndex(m, def, view).kind = "open"
         /\ Adds(m, def) => /\ OpenIndex(m, def, view).ix = IndexId(m, def, view).indexIds
                            /\ OpenIndex(m, def, view).ready = ~Creates(m, def, view)
         /\ Drops(m, def) /\ ~Adds(m, def) => def = "none" /\ OpenIndex(m, def, view).ix = 0
         /\ ~Drops(m, def) /\ ~Adds(m, def) =>
              /\ m.def = def /\ OpenIndex(m, def, view).ix = m.ix
              /\ OpenIndex(m, def, view).ready = m.ready
<1>1. m = [kind |-> m.kind, def |-> m.def, ix |-> m.ix, ready |-> m.ready] /\ m.def \in IxDefinitions
      /\ m.ix \in Nat /\ m.ready \in BOOLEAN
  BY DEF Memories
<1>2. CASE Adds(m, def)
  <2>1. IndexId(m, def, view).indexIds \in Nat /\ Creates(m, def, view) \in BOOLEAN
    BY ConfiguredView, TablesShape DEF Creates, Adds
  <2>2. OpenIndex(m, def, view) =
          [kind |-> "open", def |-> def, ix |-> IndexId(m, def, view).indexIds, ready |-> ~Creates(m, def, view)]
    BY <1>2 DEF OpenIndex
  <2> QED BY <1>2, <2>1, <2>2 DEF Memories
<1>3. CASE ~Adds(m, def) /\ Drops(m, def)
  BY <1>3 DEF OpenIndex, NoIndex, Memories, Adds, Drops, IxDefinitions
<1>4. CASE ~Adds(m, def) /\ ~Drops(m, def)
  <2>1. OpenIndex(m, def, view) = [kind |-> "open", def |-> m.def, ix |-> m.ix, ready |-> m.ready]
    BY <1>1, <1>4 DEF OpenIndex
  <2>2. m.def = def
    BY <1>4 DEF Adds, Drops
  <2> QED BY <1>1, <1>4, <2>1, <2>2 DEF Memories
<1> QED BY <1>2, <1>3, <1>4

\* The parts of the request.
LEMMA ChangeMade ==
  ASSUME NEW p, NEW v, NEW ord, NEW w, NEW b, NEW os, NEW c, NEW d,
         change' = [pc |-> p, view |-> v, order |-> ord, written |-> w, by |-> b, objs |-> os, created |-> c, dropped |-> d]
  PROVE  /\ ChangeShape'
         /\ change'.pc = p /\ change'.view = v /\ change'.order = ord /\ change'.written = w
         /\ change'.by = b /\ change'.objs = os /\ change'.created = c /\ change'.dropped = d
  BY DEF ChangeShape

\* Nothing runs.
LEMMA NowIdle ==
  ASSUME change' = Idle0
  PROVE  /\ ChangeShape' /\ change'.pc = "idle" /\ change'.written = {} /\ change'.objs = {}
         /\ change'.created = FALSE /\ change'.dropped = FALSE /\ ~CutNow'
         /\ TornNow' = tornObjs' /\ (PartedNow' <=> parted')
  BY DEF ChangeShape, Idle0, CutNow, TornNow, PartedNow

\* A request at its begin has written nothing.
LEMMA NotWriting ==
  ASSUME change.pc # "writing"
  PROVE  ~CutNow /\ TornNow = tornObjs /\ (PartedNow <=> parted)
  BY DEF CutNow, TornNow, PartedNow

\* A request that writes nothing yet would leave nothing torn.
LEMMA NotWritingNext ==
  ASSUME change'.pc # "writing"
  PROVE  ~CutNow' /\ TornNow' = tornObjs' /\ (PartedNow' <=> parted')
  BY DEF CutNow, TornNow, PartedNow

\* The object of a kind, put in the tables.
LEMMA RedefinedView ==
  ASSUME tables \in StoredTables, NEW def \in IxDefinitions
  PROVE  /\ Redefined(def) \in StoredTables
         /\ Redefined(def).objects = [objs |-> tables.objects.objs, def |-> def]
         /\ Redefined(def).indexes = tables.indexes /\ Redefined(def).indexIds = tables.indexIds
<1>1. Redefined(def) = [objects |-> [objs |-> tables.objects.objs, def |-> def],
                        indexes |-> tables.indexes, indexIds |-> tables.indexIds]
  <2>1. tables = [objects |-> tables.objects, indexes |-> tables.indexes, indexIds |-> tables.indexIds]
        /\ tables.objects = [objs |-> tables.objects.objs, def |-> tables.objects.def]
    BY TablesShape
  <2> QED BY <2>1 DEF Redefined
<1>2. Redefined(def) \in StoredTables
  <2>1. tables.objects.objs \in [IxObjects -> IxItems] /\ tables.indexes \in SUBSET IxEntries /\ tables.indexIds \in Nat
    BY TablesShape
  <2> QED BY <1>1, <2>1, TablesMade
<1> QED BY <1>1, <1>2

\* Where configureIndexes starts, from what a putKind or a load has in memory: an index
\* that is ready is the stored one, and one that is not is not.
Configurable(m, def, view) ==
  /\ m \in Memories /\ def \in IxDefinitions /\ view \in StoredTables
  /\ view.objects = [objs |-> tables.objects.objs, def |-> def]
  /\ view.indexes = tables.indexes /\ view.indexIds = tables.indexIds
  /\ tables.indexIds < nextIx /\ m.ix < nextIx /\ (m.def # "none" => m.ix # IdIndex)
  /\ ~parted /\ m.def # "none" =>
       IF m.ready THEN m.def = tables.objects.def /\ m.ix = tables.indexIds ELSE m.ix # tables.indexIds

\* An id is taken over by another definition only where that is told.
Told(m, def) ==
  /\ parted \in BOOLEAN /\ parted' \in BOOLEAN
  /\ ~parted' => ~parted /\ (def # "none" /\ tables.indexIds # 0 /\ ~Drops(m, def) => def = tables.objects.def)

\* Types of the drawn id, and what the tables become, in the terms of the tables before.
LEMMA ConfiguredIds ==
  ASSUME IxTypeOK, NEW m, NEW def, NEW view, Configurable(m, def, view), DrawIx(m, def, view)
  PROVE  /\ m.ix \in Nat /\ tables.indexIds \in Nat /\ tables.indexIds = view.indexIds
         /\ nextIx \in Nat /\ nextIx > 0 /\ nextIx' \in Nat /\ nextIx' > 0 /\ nextIx <= nextIx'
         /\ Creates(m, def, view) => nextIx < nextIx'
         /\ IndexId(m, def, view).indexIds =
              (IF Creates(m, def, view) THEN nextIx ELSE IF Drops(m, def) THEN 0 ELSE tables.indexIds)
         /\ Creates(m, def, view) <=> Adds(m, def) /\ (Drops(m, def) \/ tables.indexIds = 0)
<1>1. m \in Memories /\ m.ix \in Nat /\ nextIx \in Nat /\ nextIx > 0 /\ tables.indexIds \in Nat
      /\ def \in IxDefinitions /\ view \in StoredTables /\ tables.indexIds = view.indexIds
  BY TablesShape DEF IxTypeOK, Memories, Configurable
<1>2. nextIx' = IF Creates(m, def, view) THEN nextIx + 1 ELSE nextIx
  BY DEF DrawIx
<1>3. nextIx' \in Nat /\ nextIx' > 0 /\ nextIx <= nextIx' /\ (Creates(m, def, view) => nextIx < nextIx')
  BY <1>1, <1>2
<1> QED BY <1>1, <1>3, ConfiguredView

\* What configureIndexes leaves in memory: an index that is ready is the stored one, and
\* one that is not is not.
LEMMA OpenedKeeps ==
  ASSUME IxTypeOK, NEW m, NEW def, NEW view, Configurable(m, def, view), Told(m, def),
         mem' = OpenIndex(m, def, view), DrawIx(m, def, view), tables' = tables
  PROVE  /\ mem' \in Memories /\ mem'.def = def
         /\ mem'.ix < nextIx' /\ (mem'.def # "none" => mem'.ix # IdIndex /\ mem'.kind = "open")
         /\ ReadyAgrees'
         /\ ~parted' /\ mem'.def # "none" /\ ~mem'.ready => mem'.ix # tables.indexIds
<1> DEFINE new == Creates(m, def, view)
<1>1. m.ix \in Nat /\ tables.indexIds \in Nat /\ nextIx \in Nat /\ nextIx > 0 /\ nextIx' \in Nat /\ nextIx' > 0
      /\ nextIx <= nextIx' /\ (new => nextIx < nextIx')
  BY ConfiguredIds
<1>2. IndexId(m, def, view).indexIds = (IF new THEN nextIx ELSE IF Drops(m, def) THEN 0 ELSE tables.indexIds)
      /\ (new <=> Adds(m, def) /\ (Drops(m, def) \/ tables.indexIds = 0))
  BY ConfiguredIds
<1>3. m \in Memories /\ def \in IxDefinitions /\ view \in StoredTables
      /\ tables.indexIds < nextIx /\ m.ix < nextIx /\ (m.def # "none" => m.ix # IdIndex)
      /\ (~parted /\ m.def # "none" =>
            IF m.ready THEN m.def = tables.objects.def /\ m.ix = tables.indexIds ELSE m.ix # tables.indexIds)
  BY DEF Configurable
<1>4. mem' \in Memories /\ mem'.def = def /\ mem'.kind = "open"
      /\ (Adds(m, def) => mem'.ix = IndexId(m, def, view).indexIds /\ mem'.ready = ~new)
      /\ (Drops(m, def) /\ ~Adds(m, def) => def = "none" /\ mem'.ix = 0)
      /\ (~Drops(m, def) /\ ~Adds(m, def) => m.def = def /\ mem'.ix = m.ix /\ mem'.ready = m.ready)
  BY <1>1, <1>3, OpenedIndex
<1>5. Adds(m, def) => def # "none"
  BY DEF Adds
<1> HIDE DEF new
<1>6. mem'.ix < nextIx'
  <2>1. CASE Adds(m, def) /\ new
    BY <2>1, <1>1, <1>2, <1>4
  <2>2. CASE Adds(m, def) /\ ~new
    <3>1. mem'.ix = tables.indexIds
      BY <2>2, <1>2, <1>4
    <3> QED BY <3>1, <1>1, <1>3
  <2>3. CASE ~Adds(m, def) /\ Drops(m, def)
    BY <2>3, <1>1, <1>4
  <2>4. CASE ~Adds(m, def) /\ ~Drops(m, def)
    BY <2>4, <1>1, <1>3, <1>4
  <2> QED BY <2>1, <2>2, <2>3, <2>4
<1>7. mem'.def # "none" => mem'.ix # IdIndex
  <2>1. CASE Adds(m, def) /\ new
    BY <2>1, <1>1, <1>2, <1>4 DEF IdIndex
  <2>2. CASE Adds(m, def) /\ ~new
    BY <2>2, <1>2, <1>4 DEF IdIndex
  <2>3. CASE ~Adds(m, def)
    BY <2>3, <1>3, <1>4
  <2> QED BY <2>1, <2>2, <2>3
<1>8. ASSUME ~parted', mem'.def # "none", mem'.ready PROVE Agrees'
  <2>1. CASE Adds(m, def)
    <3>1. ~new /\ ~Drops(m, def) /\ tables.indexIds # 0 /\ mem'.ix = tables.indexIds
      BY <2>1, <1>2, <1>4, <1>8
    <3>2. def = tables.objects.def
      BY <3>1, <1>5, <1>8, <2>1 DEF Told
    <3> QED BY <3>1, <3>2, <1>4 DEF Agrees
  <2>2. CASE ~Adds(m, def)
    <3>1. m.def = def /\ mem'.ix = m.ix /\ m.ready /\ m.def # "none" /\ ~parted
      BY <2>2, <1>4, <1>8 DEF Told
    <3> QED BY <3>1, <1>3, <1>4 DEF Agrees
  <2> QED BY <2>1, <2>2
<1>9. ASSUME ~parted', mem'.def # "none", ~mem'.ready PROVE mem'.ix # tables.indexIds
  <2>1. CASE Adds(m, def)
    <3>1. new
      BY <2>1, <1>4, <1>9
    <3>2. mem'.ix = nextIx
      BY <2>1, <3>1, <1>2, <1>4
    <3> QED BY <3>2, <1>1, <1>3
  <2>2. CASE ~Adds(m, def)
    <3>1. m.def = def /\ mem'.ix = m.ix /\ ~m.ready /\ m.def # "none" /\ ~parted
      BY <2>2, <1>4, <1>9 DEF Told
    <3> QED BY <3>1, <1>3
  <2> QED BY <2>1, <2>2
<1> QED BY <1>4, <1>6, <1>7, <1>8, <1>9 DEF ReadyAgrees

\* A request that configures the indexes of the kind, before it is committed.
LEMMA ConfigureIndexKeeps ==
  ASSUME IxIInv, NEW m, NEW def, NEW view, NEW by \in {"putKind", "batch", "reload", "load"}, NEW order,
         Configurable(m, def, view), Told(m, def), OrderOf(by, order), Configure(m, def, view, by, order),
         change.pc = "idle", tables' = tables, tornObjs' = tornObjs, reloadDue' \in BOOLEAN
  PROVE  IxIInv'
<1> DEFINE new == Creates(m, def, view)
           gone == Drops(m, def)
           V == IndexId(m, def, view)
<1>1. IxTypeOK /\ IdsDrawn /\ mem' = OpenIndex(m, def, view) /\ DrawIx(m, def, view)
  BY DEF IxIInv, Configure
<1>2. ChangeShape' /\ change'.pc = "called" /\ change'.view = V /\ change'.order = order
      /\ change'.written = {} /\ change'.by = by /\ change'.objs = {}
      /\ change'.created = new /\ change'.dropped = gone
  <2>1. change' = [pc |-> "called", view |-> V, order |-> order, written |-> {},
                   by |-> by, objs |-> {}, created |-> new, dropped |-> gone]
    BY DEF Configure
  <2> HIDE DEF V, new, gone
  <2> QED BY <2>1, ChangeMade
<1>3. m.ix \in Nat /\ tables.indexIds \in Nat /\ tables.indexIds = view.indexIds /\ nextIx \in Nat /\ nextIx > 0
      /\ nextIx' \in Nat /\ nextIx' > 0 /\ nextIx <= nextIx' /\ (new => nextIx < nextIx')
      /\ V.indexIds = (IF new THEN nextIx ELSE IF gone THEN 0 ELSE tables.indexIds)
      /\ (new <=> Adds(m, def) /\ (gone \/ tables.indexIds = 0))
  BY <1>1, ConfiguredIds
<1>4. /\ mem' \in Memories /\ mem'.def = def
      /\ mem'.ix < nextIx' /\ (mem'.def # "none" => mem'.ix # IdIndex /\ mem'.kind = "open")
      /\ ReadyAgrees'
      /\ ~parted' /\ mem'.def # "none" /\ ~mem'.ready => mem'.ix # tables.indexIds
  BY <1>1, OpenedKeeps
<1>5. /\ m \in Memories /\ def \in IxDefinitions /\ view \in StoredTables
      /\ view.objects = [objs |-> tables.objects.objs, def |-> def] /\ view.indexes = tables.indexes
      /\ tables.indexIds < nextIx /\ (m.def # "none" => m.ix # IdIndex)
  BY DEF Configurable
<1>6. /\ V \in StoredTables /\ V.objects.objs = tables.objects.objs /\ V.objects.def = def
      /\ V.indexes = IF gone THEN Dropped(tables.indexes, m.ix) ELSE tables.indexes
  BY <1>3, <1>5, ConfiguredView
<1>7. (gone => m.def # "none") /\ (~gone /\ ~Adds(m, def) => m.def = def) /\ (Adds(m, def) => def # "none")
      /\ (gone /\ ~Adds(m, def) => def = "none") /\ new \in BOOLEAN /\ gone \in BOOLEAN
  BY DEF Drops, Adds, Creates
<1>8. Adds(m, def) => mem'.ix = V.indexIds /\ mem'.ready = ~new
  BY <1>1, <1>3, <1>5, OpenedIndex
<1>9. tables \in StoredTables /\ tornObjs \subseteq IxObjects /\ (\A e \in tables.indexes : e[1] \in Nat /\ e[1] < nextIx)
  <2>1. \A e \in tables.indexes : e \in IxEntries
    BY TablesShape DEF IxIInv, IxTypeOK
  <2>2. \A e \in IxEntries : e[1] \in Nat
    BY DEF IxEntries
  <2> QED BY <2>1, <2>2 DEF IxIInv, IxTypeOK, IdsDrawn
<1>10. ~CutNow' /\ TornNow' = tornObjs /\ (PartedNow' <=> parted')
  BY <1>2, NotWritingNext
<1>11. (~parted' => ~parted) /\ parted' \in BOOLEAN
       /\ (~parted' /\ def # "none" /\ tables.indexIds # 0 /\ ~gone => def = tables.objects.def)
  BY DEF Told
<1>12. ~parted => ExactBut(tables, tornObjs)
  BY NotWriting DEF IxIInv, StoredExact
<1> HIDE DEF new, gone, V
<1>13. \A e \in V.indexes : e \in tables.indexes
  BY <1>6, DroppedListing
<1>14. \A o \in IxObjects : EntriesOf(V.indexes, IdIndex, o) = EntriesOf(tables.indexes, IdIndex, o)
  BY <1>5, <1>6, <1>7, DroppedListing
<1>15. IxTypeOK'
  BY <1>1, <1>2, <1>3, <1>4, <1>6, <1>7, <1>9, <1>11 DEF IxTypeOK, Ordered
<1>16. IdsDrawn'
  <2>1. tables.indexIds < nextIx' /\ \A e \in tables.indexes : e[1] < nextIx'
    BY <1>3, <1>5, <1>9
  <2>2. V.indexIds < nextIx'
    BY <1>3, <2>1
  <2>3. \A e \in V.indexes : e[1] < nextIx'
    BY <1>13, <2>1
  <2> QED BY <1>2, <1>4, <2>1, <2>2, <2>3 DEF IdsDrawn
<1>17. StoredExact'
  BY <1>10, <1>11, <1>12 DEF StoredExact, ExactBut, IdsExact, NameExact
<1>18. ASSUME ~new, ~gone PROVE V.indexes = tables.indexes /\ V.indexIds = tables.indexIds
  BY <1>3, <1>6, <1>18
<1>19. ASSUME new PROVE /\ mem'.def # "none" /\ ~mem'.ready /\ mem'.ix = nextIx /\ V.indexIds = nextIx
                        /\ tables.indexIds # nextIx /\ (~gone => tables.indexIds = 0)
  <2>1. Adds(m, def) /\ V.indexIds = nextIx /\ (~gone => tables.indexIds = 0)
    BY <1>3, <1>19
  <2>2. mem'.def # "none" /\ ~mem'.ready /\ mem'.ix = nextIx
    BY <1>4, <1>7, <1>8, <1>19, <2>1
  <2>3. tables.indexIds # nextIx
    BY <1>3, <1>5
  <2> QED BY <2>1, <2>2, <2>3
<1>20. ASSUME gone, ~new PROVE mem'.def = "none"
  BY <1>3, <1>4, <1>7, <1>20
<1>21. ViewDiffers'
  BY <1>2, <1>4, <1>6, <1>14, <1>18, <1>19, <1>20 DEF ViewDiffers
<1>22. RequestExact'
  <2> SUFFICES ASSUME ~parted' PROVE
        IF new THEN /\ \A o \in IxObjects \ tornObjs : IdsExact(V, o)
                    /\ \A e \in V.indexes : e[1] # mem'.ix
               ELSE ExactBut(V, tornObjs)
    BY <1>2 DEF RequestExact
  <2>1. \A o \in IxObjects \ tornObjs : IdsExact(V, o)
    BY <1>6, <1>11, <1>12, <1>14 DEF ExactBut, IdsExact
  <2>2. CASE new
    <3>1. \A e \in V.indexes : e[1] # nextIx
      BY <1>3, <1>9, <1>13
    <3> QED BY <2>1, <2>2, <3>1, <1>19
  <2>3. CASE ~new
    <3> SUFFICES ASSUME def # "none", V.indexIds # 0, NEW o \in IxObjects \ tornObjs PROVE NameExact(V, o)
      BY <1>6, <2>1, <2>3 DEF ExactBut, NameExact
    <3>1. ~gone
      BY <1>4, <1>20, <2>3
    <3>2. V.indexes = tables.indexes /\ V.indexIds = tables.indexIds /\ def = tables.objects.def
      BY <1>11, <1>18, <2>3, <3>1
    <3> QED BY <3>2, <1>6, <1>11, <1>12 DEF ExactBut, NameExact
  <2> QED BY <2>2, <2>3
<1>23. UnreadyDiffers'
  BY <1>4, <1>10 DEF UnreadyDiffers
<1> QED BY <1>4, <1>15, <1>16, <1>17, <1>21, <1>22, <1>23 DEF IxIInv

\* What a kind that is open has in memory, where nothing runs, is what configureIndexes
\* starts from.
LEMMA StoredReady ==
  ASSUME IxIInv, change.pc = "idle", NEW def \in IxDefinitions
  PROVE  Configurable(mem, def, Redefined(def))
<1>1. IxTypeOK /\ IdsDrawn /\ ReadyAgrees /\ UnreadyDiffers /\ tables \in StoredTables /\ (PartedNow <=> parted)
  BY NotWriting DEF IxIInv, IxTypeOK
<1>2. mem \in Memories /\ tables.indexIds < nextIx /\ mem.ix < nextIx /\ (mem.def # "none" => mem.ix # IdIndex)
  BY <1>1 DEF IxTypeOK, IdsDrawn
<1>3. ~parted /\ mem.def # "none" =>
        IF mem.ready THEN mem.def = tables.objects.def /\ mem.ix = tables.indexIds ELSE mem.ix # tables.indexIds
  BY <1>1 DEF ReadyAgrees, UnreadyDiffers, Agrees
<1>4. /\ Redefined(def) \in StoredTables /\ Redefined(def).objects = [objs |-> tables.objects.objs, def |-> def]
      /\ Redefined(def).indexes = tables.indexes /\ Redefined(def).indexIds = tables.indexIds
  BY <1>1, RedefinedView
<1> QED BY <1>2, <1>3, <1>4 DEF Configurable

\* putKind tells where a definition takes over an id.
LEMMA AdoptsTold ==
  ASSUME IxTypeOK, NEW def, parted' = (parted \/ Adopts(def))
  PROVE  Told(mem, def)
<1>1. parted \in BOOLEAN /\ parted' \in BOOLEAN /\ (parted' <=> parted \/ Adopts(def))
  BY DEF IxTypeOK, Adopts
<1> QED BY <1>1 DEF Told, Adopts

\* Between two requests, memory may change to what is stored, or not.
LEMMA IdleKeeps ==
  ASSUME IxIInv, change.pc = "idle", UNCHANGED <<tables, change, tornObjs>>, reloadDue' \in BOOLEAN,
         nextIx' \in Nat, nextIx <= nextIx', parted' \in BOOLEAN, ~parted' => ~parted,
         mem' \in Memories, mem'.ix < nextIx', mem'.def # "none" => mem'.ix # IdIndex /\ mem'.kind = "open",
         ReadyAgrees', ~parted' /\ mem'.def # "none" /\ ~mem'.ready => mem'.ix # tables.indexIds
  PROVE  IxIInv'
<1>1. change' = change /\ tables' = tables /\ tornObjs' = tornObjs /\ nextIx \in Nat /\ nextIx > 0
      /\ tables \in StoredTables /\ tables.indexIds \in Nat /\ tables.indexIds < nextIx
      /\ (\A e \in tables.indexes : e[1] \in Nat /\ e[1] < nextIx)
  <2>1. \A e \in tables.indexes : e \in IxEntries
    BY TablesShape DEF IxIInv, IxTypeOK
  <2>2. \A e \in IxEntries : e[1] \in Nat
    BY DEF IxEntries
  <2> QED BY <2>1, <2>2, TablesShape DEF IxIInv, IxTypeOK, IdsDrawn
<1>2. ~CutNow /\ TornNow = tornObjs /\ (PartedNow <=> parted) /\ TornNow' = tornObjs /\ (PartedNow' <=> parted')
  BY <1>1, NotWriting, NotWritingNext
<1>3. IxTypeOK'
  <2>1. nextIx' > 0
    BY <1>1
  <2> QED BY <1>1, <2>1 DEF IxIInv, IxTypeOK, ChangeShape, All, Ordered
<1>4. IdsDrawn'
  <2>1. tables.indexIds < nextIx' /\ \A e \in tables.indexes : e[1] < nextIx'
    BY <1>1
  <2> QED BY <1>1, <2>1 DEF IdsDrawn
<1>5. StoredExact'
  BY <1>1, <1>2 DEF IxIInv, StoredExact, ExactBut, IdsExact, NameExact
<1>6. ViewDiffers' /\ RequestExact'
  BY <1>1 DEF ViewDiffers, RequestExact
<1>7. UnreadyDiffers'
  BY <1>1, <1>2 DEF UnreadyDiffers
<1> QED BY <1>3, <1>4, <1>5, <1>6, <1>7 DEF IxIInv

\* Nothing that the invariant speaks of changes.
LEMMA IxUnchanged ==
  ASSUME IxIInv, UNCHANGED <<tables, mem, change, nextIx, tornObjs, parted>>, reloadDue' \in BOOLEAN
  PROVE  IxIInv'
<1>1. tables' = tables /\ mem' = mem /\ change' = change /\ nextIx' = nextIx /\ tornObjs' = tornObjs /\ parted' = parted
  OBVIOUS
<1>2. IxTypeOK' /\ IdsDrawn'
  BY <1>1 DEF IxIInv, IxTypeOK, ChangeShape, All, Ordered, IdsDrawn
<1>3. (CutNow' <=> CutNow) /\ TornNow' = TornNow /\ (PartedNow' <=> PartedNow)
  BY <1>1 DEF CutNow, TornNow, PartedNow, IsCut, HasFailed, All
<1>4. StoredExact'
  BY <1>1, <1>3 DEF IxIInv, StoredExact, ExactBut, IdsExact, NameExact
<1>5. ViewDiffers'
  BY <1>1 DEF IxIInv, ViewDiffers
<1>6. RequestExact'
  BY <1>1 DEF IxIInv, RequestExact, ExactBut, IdsExact, NameExact
<1>7. ReadyAgrees' /\ UnreadyDiffers'
  BY <1>1, <1>3 DEF IxIInv, ReadyAgrees, UnreadyDiffers, Agrees, All
<1> QED BY <1>2, <1>4, <1>5, <1>6, <1>7 DEF IxIInv

\* putKind, in a request of its own or in a batch.
LEMMA DefineIndexKeeps ==
  ASSUME IxIInv, NEW def \in IxDefs, NEW by \in {"putKind", "batch"}, DefineIndex(def, by)
  PROVE  IxIInv'
<1>1. IxTypeOK /\ tables \in StoredTables /\ def \in IxDefinitions /\ change.pc = "idle" /\ reloadDue' \in BOOLEAN
  BY DEF IxIInv, IxTypeOK, DefineIndex, IxDefinitions
<1>2. Configurable(mem, def, Redefined(def))
  BY <1>1, StoredReady
<1>3. Told(mem, def)
  BY <1>1, AdoptsTold DEF DefineIndex
<1>4. OrderOf(by, <<"objects", "indexes", "indexIds">>)
  BY OrdersWritten
<1> QED BY <1>1, <1>2, <1>3, <1>4, ConfigureIndexKeeps DEF DefineIndex

\* A putKind that fails after configureIndexes leaves the kind as it is in memory.
LEMMA DefineIndexFailsKeeps ==
  ASSUME IxIInv, NEW def \in IxDefs, DefineIndexFails(def)
  PROVE  IxIInv'
<1>1. /\ IxTypeOK /\ tables \in StoredTables /\ def \in IxDefinitions /\ change.pc = "idle" /\ reloadDue' \in BOOLEAN
      /\ UNCHANGED <<tables, change, tornObjs>>
  BY DEF IxIInv, IxTypeOK, DefineIndexFails, IxDefinitions
<1>2. CASE UNCHANGED <<mem, nextIx, parted>>
  BY <1>1, <1>2, IxUnchanged
<1>3. CASE /\ mem' = OpenIndex(mem, def, Redefined(def)) /\ DrawIx(mem, def, Redefined(def))
           /\ parted' = (parted \/ Adopts(def))
  <2>1. Configurable(mem, def, Redefined(def)) /\ Told(mem, def)
    BY <1>1, <1>3, StoredReady, AdoptsTold
  <2>2. nextIx \in Nat /\ nextIx' \in Nat /\ nextIx' > 0 /\ nextIx <= nextIx'
    BY <1>1, <1>3, <2>1, ConfiguredIds
  <2>3. /\ mem' \in Memories
        /\ mem'.ix < nextIx' /\ (mem'.def # "none" => mem'.ix # IdIndex /\ mem'.kind = "open")
        /\ ReadyAgrees'
        /\ ~parted' /\ mem'.def # "none" /\ ~mem'.ready => mem'.ix # tables.indexIds
    BY <1>1, <1>3, <2>1, OpenedKeeps
  <2>4. parted' \in BOOLEAN /\ (~parted' => ~parted)
    BY <2>1 DEF Told
  <2> QED BY <1>1, <2>2, <2>3, <2>4, IdleKeeps
<1> QED BY <1>2, <1>3 DEF DefineIndexFails

\* A kind that is made anew has what is stored.
LEMMA ReloadKeeps ==
  ASSUME IxIInv, change.pc = "idle", NEW by \in {"reload", "load"}, NEW order, OrderOf(by, order),
         Configure(NoIndex, tables.objects.def, tables, by, order),
         UNCHANGED <<tables, tornObjs, parted>>, reloadDue' \in BOOLEAN
  PROVE  IxIInv'
<1>1. tables \in StoredTables /\ tables.objects.def \in IxDefinitions /\ parted \in BOOLEAN
      /\ tables.objects = [objs |-> tables.objects.objs, def |-> tables.objects.def]
      /\ tables.indexIds \in Nat /\ nextIx \in Nat /\ nextIx > 0 /\ tables.indexIds < nextIx
  BY TablesShape DEF IxIInv, IxTypeOK, IdsDrawn
<1>2. NoIndex \in Memories /\ NoIndex.def = "none" /\ NoIndex.ix = 0
  BY DEF NoIndex, Memories, IxDefinitions
<1>3. Configurable(NoIndex, tables.objects.def, tables)
  BY <1>1, <1>2 DEF Configurable
<1>4. Told(NoIndex, tables.objects.def)
  BY <1>1 DEF Told
<1> QED BY <1>3, <1>4, ConfigureIndexKeeps

\* reloadKind and loadKinds.
LEMMA ReloadIndexKeeps ==
  ASSUME IxIInv, ReloadIndex \/ LoadIndex
  PROVE  IxIInv'
<1>1. CASE ReloadIndex
  <2>1. OrderOf("reload", <<"objects", "indexIds", "indexes">>)
    BY OrdersWritten
  <2> QED BY <1>1, <2>1, ReloadKeeps DEF ReloadIndex
<1>2. CASE LoadIndex
  <2>1. OrderOf("load", <<"indexes", "objects", "indexIds">>)
    BY OrdersWritten
  <2>2. reloadDue' \in BOOLEAN
    BY <1>2 DEF LoadIndex, IxIInv, IxTypeOK
  <2> QED BY <1>2, <2>1, <2>2, ReloadKeeps DEF LoadIndex
<1> QED BY <1>1, <1>2

\* A kind that could not be loaded is out of the map.
LEMMA ReloadIndexFailsKeeps ==
  ASSUME IxIInv, ReloadIndexFails \/ LoadIndexFails
  PROVE  IxIInv'
<1>1. mem' = NoKind0 /\ change.pc = "idle" /\ UNCHANGED <<tables, change, nextIx, tornObjs, parted>>
      /\ reloadDue' \in BOOLEAN
  BY DEF ReloadIndexFails, LoadIndexFails, IxIInv, IxTypeOK
<1>2. mem' \in Memories /\ mem'.def = "none" /\ mem'.ix = 0
  BY <1>1 DEF NoKind0, NoIndex, Memories, IxDefinitions
<1>3. nextIx' \in Nat /\ nextIx <= nextIx' /\ mem'.ix < nextIx' /\ parted' \in BOOLEAN /\ (~parted' => ~parted)
  BY <1>1, <1>2 DEF IxIInv, IxTypeOK
<1>4. ReadyAgrees'
  BY <1>2 DEF ReadyAgrees
<1> QED BY <1>1, <1>2, <1>3, <1>4, IdleKeeps

\* putObj and delObj: the object, and its entries in the indexes that are in memory.
LEMMA PutItemKeeps ==
  ASSUME IxIInv, NEW o \in IxObjects, NEW x \in IxItems, PutItem(o, x)
  PROVE  IxIInv'
<1> DEFINE was == ItemOf(o)
           es1 == Updated(tables.indexes, IdKeys(o, was), IdKeys(o, x))
           es2 == Updated(es1, KeysOf(mem.def, mem.ix, o, was), KeysOf(mem.def, mem.ix, o, x))
           objs2 == [tables.objects.objs EXCEPT ![o] = x]
           V == [objects |-> [objs |-> objs2, def |-> tables.objects.def], indexes |-> es2, indexIds |-> tables.indexIds]
<1>1. /\ change.pc = "idle" /\ mem' = mem /\ tables' = tables /\ nextIx' = nextIx /\ reloadDue' = reloadDue
      /\ parted' = parted /\ tornObjs' = IF Agrees THEN tornObjs ELSE tornObjs \cup {o}
  BY DEF PutItem
<1>2. /\ tables = [objects |-> tables.objects, indexes |-> tables.indexes, indexIds |-> tables.indexIds]
      /\ tables.objects = [objs |-> tables.objects.objs, def |-> tables.objects.def]
      /\ tables.objects.objs \in [IxObjects -> IxItems] /\ tables.objects.def \in IxDefinitions
      /\ tables.indexes \in SUBSET IxEntries /\ tables.indexIds \in Nat /\ tables \in StoredTables
  BY TablesShape DEF IxIInv, IxTypeOK
<1>3. /\ IxTypeOK /\ mem \in Memories /\ mem.ix \in Nat /\ nextIx \in Nat /\ nextIx > 0 /\ mem.ix < nextIx
      /\ tables.indexIds < nextIx
      /\ (mem.def # "none" => mem.ix # IdIndex) /\ was \in IxItems /\ was = tables.objects.objs[o]
      /\ (\A e \in tables.indexes : e[1] < nextIx) /\ tornObjs \subseteq IxObjects
  BY <1>2 DEF IxIInv, IxTypeOK, IdsDrawn, Memories, ItemOf
<1>4. change' = [pc |-> "called", view |-> V, order |-> <<"objects", "indexes">>, written |-> {},
                 by |-> "put", objs |-> {o}, created |-> FALSE, dropped |-> FALSE]
  <2>1. change' = [Idle0 EXCEPT !.pc = "called", !.by = "put", !.objs = {o}, !.order = <<"objects", "indexes">>,
                     !.view = [tables EXCEPT !.objects.objs[o] = x, !.indexes = es2]]
    BY DEF PutItem
  <2> HIDE DEF es1, es2, was, objs2
  <2>2. [tables EXCEPT !.objects.objs[o] = x, !.indexes = es2] = V
    <3>1. tables = [objects |-> tables.objects, indexes |-> tables.indexes, indexIds |-> tables.indexIds]
      BY <1>2
    <3>2. tables.objects = [objs |-> tables.objects.objs, def |-> tables.objects.def]
      BY <1>2
    <3>3. [tables.objects EXCEPT !.objs = objs2] = [objs |-> objs2, def |-> tables.objects.def]
      BY <3>2
    <3> DEFINE ob2 == [objs |-> objs2, def |-> tables.objects.def]
    <3>4. [tables EXCEPT !.objects = ob2, !.indexes = es2] = [objects |-> ob2, indexes |-> es2, indexIds |-> tables.indexIds]
      <4> HIDE DEF ob2
      <4> DEFINE r == [tables EXCEPT !.objects = ob2]
      <4>1. r = [objects |-> ob2, indexes |-> tables.indexes, indexIds |-> tables.indexIds]
        BY <3>1
      <4>2. [tables EXCEPT !.objects = ob2, !.indexes = es2] = [r EXCEPT !.indexes = es2]
        OBVIOUS
      <4> HIDE DEF r
      <4> QED BY <4>1, <4>2
    <3>5. [tables EXCEPT !.objects.objs[o] = x, !.indexes = es2] =
            [tables EXCEPT !.objects = [tables.objects EXCEPT !.objs = objs2], !.indexes = es2]
      BY DEF objs2
    <3> QED BY <3>3, <3>4, <3>5
  <2> HIDE DEF V
  <2> QED BY <2>1, <2>2 DEF Idle0
<1>5. V.objects.objs = objs2 /\ V.objects.def = tables.objects.def /\ V.indexes = es2 /\ V.indexIds = tables.indexIds
  OBVIOUS
<1>6. /\ \A e \in IdKeys(o, was) \cup IdKeys(o, x) : e \in IxEntries /\ e[1] = IdIndex /\ e[4] = o
      /\ \A e \in KeysOf(mem.def, mem.ix, o, was) \cup KeysOf(mem.def, mem.ix, o, x) :
           e \in IxEntries /\ e[1] = mem.ix /\ e[4] = o
  BY <1>3, KeysTyped
<1>21. /\ \A i, p : i # IdIndex \/ p # o => EntriesOf(es1, i, p) = EntriesOf(tables.indexes, i, p)
       /\ \A p : p # o => AllEntriesOf(es1, p) = AllEntriesOf(tables.indexes, p)
       /\ EntriesOf(tables.indexes, IdIndex, o) = IdKeys(o, was) => EntriesOf(es1, IdIndex, o) = IdKeys(o, x)
  <2> DEFINE old == IdKeys(o, was)
             wanted == IdKeys(o, x)
  <2>1. \A e \in old \cup wanted : e[1] = IdIndex /\ e[4] = o
    BY <1>6
  <2> HIDE DEF old, wanted, was
  <2>2. /\ \A i, p : i # IdIndex \/ p # o => EntriesOf(Updated(tables.indexes, old, wanted), i, p) = EntriesOf(tables.indexes, i, p)
        /\ \A p : p # o => AllEntriesOf(Updated(tables.indexes, old, wanted), p) = AllEntriesOf(tables.indexes, p)
        /\ EntriesOf(tables.indexes, IdIndex, o) = old => EntriesOf(Updated(tables.indexes, old, wanted), IdIndex, o) = wanted
    BY <2>1, UpdatedListing
  <2> QED BY <2>2 DEF old, wanted
<1>22. /\ \A i, p : i # mem.ix \/ p # o => EntriesOf(es2, i, p) = EntriesOf(es1, i, p)
       /\ \A p : p # o => AllEntriesOf(es2, p) = AllEntriesOf(es1, p)
       /\ EntriesOf(es1, mem.ix, o) = KeysOf(mem.def, mem.ix, o, was) =>
            EntriesOf(es2, mem.ix, o) = KeysOf(mem.def, mem.ix, o, x)
  <2> DEFINE old == KeysOf(mem.def, mem.ix, o, was)
             wanted == KeysOf(mem.def, mem.ix, o, x)
             ix == mem.ix
  <2>1. \A e \in old \cup wanted : e[1] = ix /\ e[4] = o
    BY <1>6
  <2> HIDE DEF old, wanted, was, es1, ix
  <2>2. \A i, p : i # ix \/ p # o => EntriesOf(Updated(es1, old, wanted), i, p) = EntriesOf(es1, i, p)
    BY <2>1 DEF EntriesOf, Updated
  <2>3. \A p : p # o => AllEntriesOf(Updated(es1, old, wanted), p) = AllEntriesOf(es1, p)
    BY <2>1 DEF AllEntriesOf, Updated
  <2>4. EntriesOf(es1, ix, o) = old => EntriesOf(Updated(es1, old, wanted), ix, o) = wanted
    BY <2>1 DEF EntriesOf, Updated
  <2> QED BY <2>2, <2>3, <2>4 DEF old, wanted, ix
<1>7. objs2 \in [IxObjects -> IxItems] /\ objs2[o] = x /\ \A p \in IxObjects : p # o => objs2[p] = tables.objects.objs[p]
  BY <1>2
<1> HIDE DEF was, objs2
<1>8. es2 \in SUBSET IxEntries /\ \A e \in es2 : e \in tables.indexes \/ e[1] = IdIndex \/ e[1] = mem.ix
  <2>1. \A e \in es1 : e \in IxEntries /\ (e \in tables.indexes \/ e[1] = IdIndex)
    BY <1>2, <1>6 DEF Updated
  <2> HIDE DEF es1
  <2> QED BY <1>6, <2>1 DEF Updated
<1> HIDE DEF es1, es2
<1>9. V \in StoredTables
  BY <1>2, <1>7, <1>8, TablesMade
<1> HIDE DEF V
<1>10. ChangeShape' /\ change'.pc = "called" /\ change'.view = V /\ change'.order = <<"objects", "indexes">>
       /\ change'.written = {} /\ change'.by = "put" /\ change'.objs = {o}
       /\ change'.created = FALSE /\ change'.dropped = FALSE
  BY <1>4, ChangeMade
<1>11. ~CutNow' /\ TornNow' = tornObjs' /\ (PartedNow' <=> parted') /\ ~CutNow /\ TornNow = tornObjs /\ (PartedNow <=> parted)
  BY <1>1, <1>10, NotWriting, NotWritingNext
<1>12. ~parted => ExactBut(tables, tornObjs)
  BY <1>11 DEF IxIInv, StoredExact
<1>13. IxTypeOK'
  <2>1. OrderOf("put", <<"objects", "indexes">>)
    BY OrdersWritten
  <2>2. tornObjs' \subseteq IxObjects
    BY <1>1, <1>3
  <2> QED BY <1>1, <1>3, <1>9, <1>10, <2>1, <2>2 DEF IxTypeOK, Ordered
<1>14. IdsDrawn'
  <2>1. \A e \in es2 : e[1] < nextIx
    BY <1>3, <1>8 DEF IdIndex
  <2> QED BY <1>1, <1>3, <1>5, <1>10, <2>1 DEF IxIInv, IdsDrawn
<1>15. StoredExact'
  <2> SUFFICES ASSUME ~parted PROVE ExactBut(tables, tornObjs')
    BY <1>1, <1>11 DEF StoredExact, ExactBut, IdsExact, NameExact
  <2> QED BY <1>1, <1>12 DEF ExactBut
<1>16. \A p \in IxObjects : p # o =>
         AllEntriesOf(es2, p) = AllEntriesOf(tables.indexes, p) /\ objs2[p] = tables.objects.objs[p]
  BY <1>7, <1>21, <1>22
<1>17. ViewDiffers'
  BY <1>1, <1>5, <1>10, <1>16 DEF ViewDiffers
<1>18. RequestExact'
  <2> SUFFICES ASSUME ~parted, NEW p \in IxObjects, p \notin tornObjs' PROVE IdsExact(V, p) /\ NameExact(V, p)
    BY <1>1, <1>10 DEF RequestExact, ExactBut
  <2>1. p \notin tornObjs /\ IdsExact(tables, p) /\ NameExact(tables, p)
    BY <1>1, <1>12 DEF ExactBut
  <2>2. CASE p # o
    <3>1. \A ix : EntriesOf(es2, ix, p) = EntriesOf(tables.indexes, ix, p)
      BY <1>16, <2>2, AllListing
    <3> QED BY <1>5, <1>16, <2>1, <2>2, <3>1 DEF IdsExact, NameExact
  <2>3. CASE p = o
    <3>1. Agrees
      BY <1>1, <2>3
    <3>2. EntriesOf(tables.indexes, IdIndex, o) = IdKeys(o, was)
      BY <1>3, <2>1, <2>3 DEF IdsExact
    <3>3. EntriesOf(es1, IdIndex, o) = IdKeys(o, x) /\ \A ix : ix # IdIndex => EntriesOf(es1, ix, o) = EntriesOf(tables.indexes, ix, o)
      BY <1>21, <3>2
    <3>4. \A ix : ix # mem.ix => EntriesOf(es2, ix, o) = EntriesOf(es1, ix, o)
      BY <1>22
    <3>5. CASE mem.def = "none"
      <4>1. es2 = es1
        BY <3>5 DEF es2, KeysOf, IncludeObj, Updated
      <4>2. tables.objects.def = "none"
        BY <3>1, <3>5 DEF Agrees
      <4> QED BY <1>5, <1>7, <2>3, <3>3, <4>1, <4>2 DEF IdsExact, NameExact
    <3>6. CASE mem.def # "none"
      <4>1. mem.ix # IdIndex /\ mem.def = tables.objects.def /\ mem.ix = tables.indexIds
        BY <1>3, <3>1, <3>6 DEF Agrees
      <4>2. EntriesOf(es2, IdIndex, o) = IdKeys(o, x)
        BY <3>3, <3>4, <4>1
      <4>3. EntriesOf(es1, mem.ix, o) = KeysOf(mem.def, mem.ix, o, was)
        BY <1>3, <2>1, <2>3, <3>3, <3>6, <4>1 DEF NameExact, IdIndex
      <4>4. EntriesOf(es2, mem.ix, o) = KeysOf(mem.def, mem.ix, o, x)
        BY <1>22, <4>3
      <4> QED BY <1>5, <1>7, <2>3, <4>1, <4>2, <4>4 DEF IdsExact, NameExact
    <3> QED BY <3>5, <3>6
  <2> QED BY <2>2, <2>3
<1>19. ReadyAgrees' /\ UnreadyDiffers'
  BY <1>1, <1>11 DEF IxIInv, ReadyAgrees, UnreadyDiffers, Agrees
<1> QED BY <1>13, <1>14, <1>15, <1>17, <1>18, <1>19 DEF IxIInv

\* A request that ends with an error, or with the process, leaves what it has written; the
\* history tells what that tears.
LEMMA EndKeeps ==
  ASSUME IxIInv, change' = Idle0, tables' = tables, nextIx' = nextIx, reloadDue' \in BOOLEAN,
         mem' = mem \/ mem' = [NoIndex EXCEPT !.kind = "closed"],
         tornObjs' = TornNow, parted' \in BOOLEAN, parted' <=> PartedNow,
         mem' = mem => ~(change.pc = "writing" /\ change.created /\ change.written = All)
  PROVE  IxIInv'
<1>1. /\ ChangeShape' /\ change'.pc = "idle" /\ change'.written = {} /\ change'.objs = {}
      /\ change'.created = FALSE /\ change'.dropped = FALSE /\ TornNow' = tornObjs' /\ (PartedNow' <=> parted')
  BY NowIdle
<1>2. CASE mem' = mem
  <2>1. IxTypeOK'
    BY <1>1, <1>2 DEF IxIInv, IxTypeOK, TornNow
  <2>2. IdsDrawn' /\ ViewDiffers' /\ RequestExact'
    BY <1>1, <1>2 DEF IxIInv, IdsDrawn, ViewDiffers, RequestExact
  <2>3. StoredExact'
    BY <1>1 DEF IxIInv, StoredExact, ExactBut, IdsExact, NameExact
  <2>4. ~parted' => ~parted
    BY DEF PartedNow
  <2>5. ReadyAgrees'
    BY <1>2, <2>4 DEF IxIInv, ReadyAgrees, Agrees
  <2>6. UnreadyDiffers'
    BY <1>1, <1>2 DEF IxIInv, UnreadyDiffers
  <2> QED BY <2>1, <2>2, <2>3, <2>5, <2>6 DEF IxIInv
<1>3. CASE mem' = [NoIndex EXCEPT !.kind = "closed"]
  <2>1. mem' \in Memories /\ mem'.def = "none" /\ mem'.ix = 0
    BY <1>3 DEF NoIndex, Memories, IxDefinitions
  <2>2. IxTypeOK'
    BY <1>1, <2>1 DEF IxIInv, IxTypeOK, TornNow
  <2>3. IdsDrawn' /\ ViewDiffers' /\ RequestExact'
    BY <1>1, <2>1 DEF IxIInv, IxTypeOK, IdsDrawn, ViewDiffers, RequestExact
  <2>4. StoredExact'
    BY <1>1 DEF IxIInv, StoredExact, ExactBut, IdsExact, NameExact
  <2>5. ReadyAgrees' /\ UnreadyDiffers'
    BY <2>1 DEF ReadyAgrees, UnreadyDiffers
  <2> QED BY <2>2, <2>3, <2>4, <2>5 DEF IxIInv
<1> QED BY <1>2, <1>3

\* An error before anything is written.
LEMMA PreCommitFailedKeeps ==
  ASSUME IxIInv, PreCommitFailed
  PROVE  IxIInv'
<1>1. change.pc # "writing" /\ Failed /\ tables' = tables /\ nextIx' = nextIx /\ tornObjs' = tornObjs /\ parted' = parted
  BY DEF PreCommitFailed
<1>2. TornNow = tornObjs /\ (PartedNow <=> parted) /\ parted \in BOOLEAN /\ reloadDue \in BOOLEAN
  BY <1>1, NotWriting DEF IxIInv, IxTypeOK
<1>3. change' = Idle0 /\ reloadDue' \in BOOLEAN /\ (mem' = mem \/ mem' = [NoIndex EXCEPT !.kind = "closed"])
  BY <1>1, <1>2 DEF Failed
<1> QED BY <1>1, <1>2, <1>3, EndKeeps

\* A commit that is cut off tells it.
LEMMA CutTold ==
  ASSUME IxIInv, change.pc = "writing", Cut
  PROVE  tornObjs' = TornNow /\ parted' \in BOOLEAN /\ (parted' <=> PartedNow)
<1>1. parted \in BOOLEAN
  BY DEF IxIInv, IxTypeOK
<1> QED BY <1>1 DEF Cut, TornNow, PartedNow, CutNow

\* A write that fails.
LEMMA CommitFailedKeeps ==
  ASSUME IxIInv, CommitFailed
  PROVE  IxIInv'
<1>1. change.pc = "writing" /\ change.written # All /\ Failed /\ Cut /\ tables' = tables /\ nextIx' = nextIx
  BY DEF CommitFailed
<1>2. tornObjs' = TornNow /\ parted' \in BOOLEAN /\ (parted' <=> PartedNow)
  BY <1>1, CutTold
<1>3. change' = Idle0 /\ reloadDue' \in BOOLEAN /\ (mem' = mem \/ mem' = [NoIndex EXCEPT !.kind = "closed"])
  BY <1>1 DEF Failed, IxIInv, IxTypeOK
<1> QED BY <1>1, <1>2, <1>3, EndKeeps

\* The process dies, between two writes or anywhere.
LEMMA DiesKeeps ==
  ASSUME IxIInv, Dies
  PROVE  IxIInv'
<1>1. tables' = tables /\ nextIx' = nextIx /\ change' = Idle0 /\ reloadDue' \in BOOLEAN
      /\ mem' = [NoIndex EXCEPT !.kind = "closed"] /\ parted \in BOOLEAN
  BY DEF Dies, IxIInv, IxTypeOK
<1>2. tornObjs' = TornNow /\ parted' \in BOOLEAN /\ (parted' <=> PartedNow)
  <2>1. CASE change.pc = "writing"
    BY <2>1, CutTold DEF Dies
  <2>2. CASE change.pc # "writing"
    BY <1>1, <2>2, NotWriting DEF Dies
  <2> QED BY <2>1, <2>2
<1>3. mem' # mem \/ (mem' = mem /\ mem.def = "none")
  BY <1>1 DEF NoIndex
<1>4. mem' = mem => ~(change.pc = "writing" /\ change.created /\ change.written = All)
  BY <1>3 DEF IxIInv, ViewDiffers
<1> QED BY <1>1, <1>2, <1>4, EndKeeps

\* The commit is done.
LEMMA HandlePostCommitKeeps ==
  ASSUME IxIInv, HandlePostCommit
  PROVE  IxIInv'
<1>1. /\ change.pc = "writing" /\ change.written = All /\ change' = Idle0 /\ tables' = tables /\ nextIx' = nextIx
      /\ reloadDue' = reloadDue /\ tornObjs' = tornObjs /\ parted' = parted
      /\ mem' = IF change.created THEN [mem EXCEPT !.ready = TRUE] ELSE mem
  BY DEF HandlePostCommit
<1>2. ~CutNow /\ TornNow = tornObjs /\ (PartedNow <=> parted)
  BY <1>1 DEF CutNow, IsCut, TornNow, PartedNow
<1>3. CASE ~change.created
  <2>1. mem' = mem /\ reloadDue' \in BOOLEAN /\ parted' \in BOOLEAN
    BY <1>1, <1>3 DEF IxIInv, IxTypeOK
  <2> QED BY <1>1, <1>2, <1>3, <2>1, EndKeeps
<1>4. CASE change.created
  <2>1. /\ change'.pc = "idle" /\ ChangeShape' /\ change'.written = {} /\ change'.objs = {}
        /\ change'.created = FALSE /\ change'.dropped = FALSE
        /\ TornNow' = tornObjs' /\ (PartedNow' <=> parted')
    BY <1>1, NowIdle
  <2>2. mem' \in Memories /\ mem'.kind = mem.kind /\ mem'.def = mem.def /\ mem'.ix = mem.ix /\ mem'.ready = TRUE
    BY <1>1, <1>4 DEF Memories, IxIInv, IxTypeOK
  <2>3. change.by # "put" /\ All = AllTables
    BY <1>1, <1>4 DEF IxIInv, ViewDiffers, All, AllTables
  <2>4. mem.def = tables.objects.def /\ mem.ix = tables.indexIds
    BY <1>1, <1>4, <2>3 DEF IxIInv, ViewDiffers, AllTables
  <2>5. IxTypeOK' /\ IdsDrawn' /\ ViewDiffers' /\ RequestExact'
    BY <1>1, <2>1, <2>2 DEF IxIInv, IxTypeOK, IdsDrawn, ViewDiffers, RequestExact
  <2>6. StoredExact'
    BY <1>1, <1>2, <2>1 DEF IxIInv, StoredExact, ExactBut, IdsExact, NameExact
  <2>7. ReadyAgrees' /\ UnreadyDiffers'
    BY <1>1, <2>2, <2>4 DEF ReadyAgrees, UnreadyDiffers, Agrees
  <2> QED BY <2>5, <2>6, <2>7 DEF IxIInv
<1> QED BY <1>3, <1>4

\* The request as it was, but for its progress.
LEMMA ChangeProgress ==
  ASSUME ChangeShape, NEW p, NEW v, NEW ord, NEW w,
         change' = [pc |-> p, view |-> v, order |-> ord, written |-> w, by |-> change.by, objs |-> change.objs,
                    created |-> change.created, dropped |-> change.dropped]
  PROVE  /\ ChangeShape' /\ change'.pc = p /\ change'.view = v /\ change'.order = ord /\ change'.written = w
         /\ change'.by = change.by /\ change'.objs = change.objs
         /\ change'.created = change.created /\ change'.dropped = change.dropped /\ All' = All
  BY DEF ChangeShape, All

\* handlePreCommit: an index that was created is built, and then exact.
LEMMA HandlePreCommitKeeps ==
  ASSUME IxIInv, HandlePreCommit
  PROVE  IxIInv'
<1> DEFINE es == IF change.created THEN Build(change.view.indexes, change.view.objects.objs, mem.def, mem.ix)
                                   ELSE change.view.indexes
           V == [objects |-> change.view.objects, indexes |-> es, indexIds |-> change.view.indexIds]
<1>1. change.pc = "called" /\ UNCHANGED <<tables, mem, nextIx, reloadDue, tornObjs, parted>>
      /\ ChangeShape /\ change.view \in StoredTables
  BY DEF HandlePreCommit, IxIInv, IxTypeOK
<1>2. /\ change.view = [objects |-> change.view.objects, indexes |-> change.view.indexes, indexIds |-> change.view.indexIds]
      /\ change.view.objects = [objs |-> change.view.objects.objs, def |-> change.view.objects.def]
      /\ change.view.objects.objs \in [IxObjects -> IxItems] /\ change.view.objects.def \in IxDefinitions
      /\ change.view.indexes \in SUBSET IxEntries /\ change.view.indexIds \in Nat
  BY <1>1, TablesShape
<1>3. change' = [pc |-> "commit", view |-> V, order |-> change.order, written |-> change.written, by |-> change.by,
                 objs |-> change.objs, created |-> change.created, dropped |-> change.dropped]
  <2>1. change' = [change EXCEPT !.pc = "commit", !.view.indexes = es]
    BY DEF HandlePreCommit
  <2> HIDE DEF es
  <2>2. [change.view EXCEPT !.indexes = es] = V
    BY <1>2
  <2> HIDE DEF V
  <2>3. change' = [[change EXCEPT !.pc = "commit"] EXCEPT !.view = V]
    BY <2>1, <2>2
  <2> DEFINE r == [change EXCEPT !.pc = "commit"]
  <2>4. r = [pc |-> "commit", view |-> change.view, order |-> change.order, written |-> change.written, by |-> change.by,
             objs |-> change.objs, created |-> change.created, dropped |-> change.dropped]
    BY <1>1 DEF ChangeShape
  <2> HIDE DEF r
  <2>5. change' = [r EXCEPT !.view = V]
    BY <2>3 DEF r
  <2> QED BY <2>4, <2>5
<1>4. V.objects = change.view.objects /\ V.indexes = es /\ V.indexIds = change.view.indexIds
  OBVIOUS
<1> HIDE DEF V
<1>5. /\ ChangeShape' /\ change'.pc = "commit" /\ change'.view = V /\ change'.order = change.order
      /\ change'.written = change.written /\ change'.by = change.by /\ change'.objs = change.objs
      /\ change'.created = change.created /\ change'.dropped = change.dropped /\ All' = All
  BY <1>1, <1>3, ChangeProgress
<1>6. ~CutNow /\ TornNow = tornObjs /\ (PartedNow <=> parted) /\ ~CutNow' /\ TornNow' = tornObjs' /\ (PartedNow' <=> parted')
  BY <1>1, <1>5, NotWriting, NotWritingNext
<1>7. mem \in Memories /\ mem.ix \in Nat /\ nextIx \in Nat /\ nextIx > 0 /\ mem.ix < nextIx
      /\ (mem.def # "none" => mem.ix # IdIndex) /\ (\A e \in change.view.indexes : e[1] < nextIx)
      /\ change.view.indexIds < nextIx
  BY <1>1 DEF IxIInv, IxTypeOK, Memories, IdsDrawn
<1>8. change.created => mem.def # "none" /\ mem.ix = change.view.indexIds /\ mem.def = change.view.objects.def /\ change.by # "put"
  BY <1>1 DEF IxIInv, ViewDiffers
<1>9. CASE ~change.created
  <2>1. es = change.view.indexes /\ V = change.view
    BY <1>2, <1>9 DEF V
  <2>2. IxTypeOK' /\ IdsDrawn'
    BY <1>1, <1>5, <1>9, <2>1 DEF IxIInv, IxTypeOK, Ordered, IdsDrawn
  <2>3. StoredExact'
    BY <1>1, <1>6 DEF IxIInv, StoredExact, ExactBut, IdsExact, NameExact
  <2>4. ViewDiffers' /\ RequestExact'
    BY <1>1, <1>5, <1>9, <2>1 DEF IxIInv, ViewDiffers, RequestExact
  <2>5. ReadyAgrees' /\ UnreadyDiffers'
    BY <1>1, <1>5, <1>6 DEF IxIInv, ReadyAgrees, UnreadyDiffers, Agrees
  <2> QED BY <2>2, <2>3, <2>4, <2>5 DEF IxIInv
<1>10. CASE change.created
  <2>1. ~parted => /\ \A o \in IxObjects \ tornObjs : IdsExact(change.view, o)
                   /\ \A e \in change.view.indexes : e[1] # mem.ix
    BY <1>1, <1>10 DEF IxIInv, RequestExact
  <2>2. /\ es \in SUBSET IxEntries
        /\ \A e \in es : e \in change.view.indexes \/ e[1] = mem.ix
        /\ \A i, o : i # mem.ix => EntriesOf(es, i, o) = EntriesOf(change.view.indexes, i, o)
    <3>1. mem.ix \in Nat \ {IdIndex}
      BY <1>7, <1>8, <1>10
    <3>2. es = Build(change.view.indexes, change.view.objects.objs, mem.def, mem.ix)
      BY <1>10
    <3> HIDE DEF es
    <3>3. es \in SUBSET IxEntries
      BY <1>2, <3>1, <3>2, BuildListing
    <3>4. \A e \in es : e \in change.view.indexes \/ e[1] = mem.ix
      BY <1>2, <3>1, <3>2, BuildListing
    <3>5. \A i, o : i # mem.ix => EntriesOf(es, i, o) = EntriesOf(change.view.indexes, i, o)
      BY <1>2, <3>1, <3>2, BuildListing
    <3> QED BY <3>3, <3>4, <3>5
  <2> HIDE DEF es
  <2>3. IxTypeOK'
    <3>1. V \in StoredTables
      BY <1>2, <2>2, TablesMade DEF V
    <3> QED BY <1>1, <1>5, <3>1 DEF IxIInv, IxTypeOK, Ordered
  <2>4. IdsDrawn'
    <3>1. \A e \in es : e[1] < nextIx
      BY <1>7, <2>2
    <3> QED BY <1>1, <1>4, <1>5, <1>7, <3>1 DEF IxIInv, IdsDrawn
  <2>5. StoredExact'
    BY <1>1, <1>6 DEF IxIInv, StoredExact, ExactBut, IdsExact, NameExact
  <2>6. \A o \in IxObjects : EntriesOf(es, IdIndex, o) = EntriesOf(change.view.indexes, IdIndex, o)
    BY <1>7, <1>8, <1>10, <2>2
  <2>7. ViewDiffers'
    BY <1>1, <1>4, <1>5, <1>8, <1>10, <2>6 DEF IxIInv, ViewDiffers
  <2>8. RequestExact'
    <3> SUFFICES ASSUME ~parted, NEW o \in IxObjects, o \notin tornObjs PROVE IdsExact(V, o) /\ NameExact(V, o)
      BY <1>1, <1>5 DEF RequestExact, ExactBut
    <3>1. EntriesOf(change.view.indexes, IdIndex, o) = IdKeys(o, change.view.objects.objs[o])
      BY <2>1 DEF IdsExact
    <3>2. EntriesOf(es, mem.ix, o) = KeysOf(mem.def, mem.ix, o, change.view.objects.objs[o])
      <4>1. mem.ix \in Nat \ {IdIndex} /\ \A e \in change.view.indexes : e[1] # mem.ix
        BY <1>7, <1>8, <1>10, <2>1
      <4> QED BY <1>2, <1>10, <3>1, <4>1, BuildListing DEF es
    <3> QED BY <1>4, <1>8, <1>10, <2>6, <3>1, <3>2 DEF IdsExact, NameExact
  <2>9. ReadyAgrees' /\ UnreadyDiffers'
    BY <1>1, <1>5, <1>6 DEF IxIInv, ReadyAgrees, UnreadyDiffers, Agrees
  <2> QED BY <2>3, <2>4, <2>5, <2>7, <2>8, <2>9 DEF IxIInv
<1> QED BY <1>9, <1>10

\* What is left of a commit once the next table is written, or not.
LEMMA WriteNextMade ==
  ASSUME IxIInv, NEW w, WriteNext(w)
  PROVE  LET h == Head0 IN
         /\ change.pc \in {"commit", "writing"} /\ change.order # <<>> /\ h \in AllTables
         /\ mem' = mem /\ nextIx' = nextIx /\ reloadDue' = reloadDue /\ tornObjs' = tornObjs /\ parted' = parted
         /\ ChangeShape' /\ change'.pc = "writing" /\ change'.view = change.view /\ change'.order = Tail(change.order)
         /\ change'.written = w /\ change'.by = change.by /\ change'.objs = change.objs
         /\ change'.created = change.created /\ change'.dropped = change.dropped /\ All' = All
         /\ OrderOf(change.by, change'.order)
         /\ Unwritten(change.order) = {h} \cup Unwritten(change'.order) /\ h \notin Unwritten(change'.order)
         /\ change.by \notin {"put", "reload"} => "indexIds" \in Unwritten(change.order)
         /\ h \in All
<1>1. /\ change.pc \in {"commit", "writing"} /\ change.order # <<>> /\ ChangeShape
      /\ UNCHANGED <<mem, nextIx, reloadDue, tornObjs, parted>>
      /\ OrderOf(change.by, change.order)
  BY DEF WriteNext, IxIInv, IxTypeOK
<1>2. change' = [pc |-> "writing", view |-> change.view, order |-> Tail(change.order), written |-> w, by |-> change.by,
                 objs |-> change.objs, created |-> change.created, dropped |-> change.dropped]
  <2> DEFINE ord == Tail(change.order)
  <2>1. change' = [change EXCEPT !.pc = "writing", !.order = ord, !.written = w]
    BY DEF WriteNext
  <2> HIDE DEF ord
  <2>2. change' = [pc |-> "writing", view |-> change.view, order |-> ord, written |-> w, by |-> change.by,
                   objs |-> change.objs, created |-> change.created, dropped |-> change.dropped]
    BY <1>1, <2>1 DEF ChangeShape
  <2> QED BY <2>2 DEF ord
<1>3. /\ ChangeShape' /\ change'.pc = "writing" /\ change'.view = change.view /\ change'.order = Tail(change.order)
      /\ change'.written = w /\ change'.by = change.by /\ change'.objs = change.objs
      /\ change'.created = change.created /\ change'.dropped = change.dropped /\ All' = All
  BY <1>1, <1>2, ChangeProgress
<1>4. /\ Head0 \in AllTables /\ OrderOf(change.by, Tail(change.order))
      /\ Unwritten(change.order) = {Head0} \cup Unwritten(Tail(change.order)) /\ Head0 \notin Unwritten(Tail(change.order))
      /\ change.by \notin {"put", "reload"} => "indexIds" \in Unwritten(change.order)
      /\ change.by = "put" => Head0 \in {"objects", "indexes"}
  BY <1>1, OrderWritten DEF Head0
<1>5. Head0 \in All
  BY <1>4 DEF All, AllTables
<1> QED BY <1>1, <1>3, <1>4, <1>5

\* A write has failed where a table is neither written nor to be written.
LEMMA FailedUnwritten ==
  HasFailed <=> \E t \in All \ change.written : t \notin Unwritten(change.order)
  BY DEF HasFailed, Unwritten

\* A table that could not be written is as it was.
LEMMA WriteTableFailsKeeps ==
  ASSUME IxIInv, WriteTableFails
  PROVE  IxIInv'
<1>1. WriteNext(change.written) /\ tables' = tables
  BY DEF WriteTableFails
<1>2. /\ change.pc \in {"commit", "writing"} /\ Head0 \in Unwritten(change.order)
      /\ mem' = mem /\ nextIx' = nextIx /\ reloadDue' = reloadDue /\ tornObjs' = tornObjs /\ parted' = parted
      /\ ChangeShape' /\ change'.pc = "writing" /\ change'.view = change.view
      /\ change'.written = change.written /\ change'.by = change.by /\ change'.objs = change.objs
      /\ change'.created = change.created /\ change'.dropped = change.dropped /\ All' = All
      /\ OrderOf(change.by, change'.order)
      /\ Unwritten(change'.order) \subseteq Unwritten(change.order) /\ Head0 \in All
  BY <1>1, WriteNextMade
<1>3. IxTypeOK'
  BY <1>1, <1>2 DEF IxIInv, IxTypeOK, Ordered
<1>4. IdsDrawn' /\ ViewDiffers' /\ RequestExact'
  BY <1>1, <1>2 DEF IxIInv, IdsDrawn, ViewDiffers, RequestExact
<1>5. (CutNow' <=> CutNow) /\ TornNow' = TornNow
  <2>1. change.pc # "writing" => change.written = {}
    BY <1>2 DEF IxIInv, ViewDiffers
  <2>2. CutNow' <=> CutNow
    BY <1>2, <2>1 DEF CutNow, IsCut
  <2> QED BY <1>2, <2>2 DEF TornNow
<1>6. HasFailed => HasFailed'
  BY <1>2, FailedUnwritten, ZenonT(30) DEF HasFailed, Unwritten
<1>7. ~PartedNow' => ~PartedNow
  BY <1>2, <1>5, <1>6 DEF PartedNow
<1>8. StoredExact'
  BY <1>1, <1>5, <1>7 DEF IxIInv, StoredExact, ExactBut, IdsExact, NameExact
<1>9. change.written # All
  BY <1>2 DEF IxIInv, IxTypeOK, Ordered
<1>10. ReadyAgrees' /\ UnreadyDiffers'
  BY <1>1, <1>2, <1>7, <1>9 DEF IxIInv, ReadyAgrees, UnreadyDiffers, Agrees
<1> QED BY <1>3, <1>4, <1>8, <1>10 DEF IxIInv

\* A table is what the request makes of it; the others are as they were.
LEMMA TableWritten ==
  ASSUME tables \in StoredTables, change.view \in StoredTables, NEW h \in AllTables,
         tables' = [tables EXCEPT ![h] = change.view[h]]
  PROVE  /\ tables' \in StoredTables
         /\ tables'.objects = (IF h = "objects" THEN change.view.objects ELSE tables.objects)
         /\ tables'.indexes = (IF h = "indexes" THEN change.view.indexes ELSE tables.indexes)
         /\ tables'.indexIds = (IF h = "indexIds" THEN change.view.indexIds ELSE tables.indexIds)
         /\ tables'[h] = change.view[h] /\ \A t \in AllTables \ {h} : tables'[t] = tables[t]
<1>1. CASE h = "objects"
  BY <1>1 DEF StoredTables, AllTables
<1>2. CASE h = "indexes"
  BY <1>2 DEF StoredTables, AllTables
<1>3. CASE h = "indexIds"
  BY <1>3 DEF StoredTables, AllTables
<1> QED BY <1>1, <1>2, <1>3 DEF AllTables

\* A table is written.
LEMMA WriteTableKeeps ==
  ASSUME IxIInv, WriteTable
  PROVE  IxIInv'
<1> DEFINE h == Head0
           V == change.view
           w2 == change.written \cup {h}
<1>1. WriteNext(w2) /\ tables' = [tables EXCEPT ![h] = V[h]]
  BY DEF WriteTable
<1>2. /\ change.pc \in {"commit", "writing"} /\ h \in AllTables /\ h \in All /\ h \in Unwritten(change.order)
      /\ mem' = mem /\ nextIx' = nextIx /\ reloadDue' = reloadDue /\ tornObjs' = tornObjs /\ parted' = parted
      /\ ChangeShape' /\ change'.pc = "writing" /\ change'.view = V
      /\ change'.written = w2 /\ change'.by = change.by /\ change'.objs = change.objs
      /\ change'.created = change.created /\ change'.dropped = change.dropped /\ All' = All
      /\ OrderOf(change.by, change'.order)
      /\ Unwritten(change'.order) \subseteq Unwritten(change.order) /\ h \notin Unwritten(change'.order)
  BY <1>1, WriteNextMade
<1>3. /\ IxTypeOK /\ tables \in StoredTables /\ V \in StoredTables /\ change.written \subseteq All
      /\ change.objs \subseteq IxObjects /\ tornObjs \subseteq IxObjects
      /\ Unwritten(change.order) \cap change.written = {} /\ parted \in BOOLEAN
      /\ change.by \in {"put", "putKind", "batch", "reload", "load"}
  BY <1>2 DEF IxIInv, IxTypeOK, Ordered
<1> HIDE DEF h, V
<1>4. /\ tables' \in StoredTables
      /\ tables'.objects = (IF h = "objects" THEN V.objects ELSE tables.objects)
      /\ tables'.indexes = (IF h = "indexes" THEN V.indexes ELSE tables.indexes)
      /\ tables'.indexIds = (IF h = "indexIds" THEN V.indexIds ELSE tables.indexIds)
      /\ tables'[h] = V[h] /\ \A t \in AllTables \ {h} : tables'[t] = tables[t]
  BY <1>1, <1>2, <1>3, TableWritten DEF V
<1>5. h \notin change.written /\ change.written \subseteq AllTables /\ w2 \subseteq All /\ w2 # {}
      /\ \A t \in change.written : tables[t] = V[t]
  BY <1>2, <1>3 DEF IxIInv, ViewDiffers, All, AllTables, V
<1>6. \A t \in w2 : tables'[t] = V[t]
  BY <1>4, <1>5
<1>7. Unwritten(change'.order) \cap w2 = {}
  BY <1>2, <1>3
<1>8. IxTypeOK'
  BY <1>2, <1>3, <1>4, <1>5, <1>7 DEF IxTypeOK, Ordered, V
<1>9. IdsDrawn'
  <2>1. IdsDrawn /\ V.indexIds < nextIx /\ \A e \in V.indexes : e[1] < nextIx
    BY <1>2 DEF IxIInv, IdsDrawn, V
  <2>2. tables'.indexIds < nextIx /\ \A e \in tables'.indexes : e[1] < nextIx
    BY <1>4, <2>1 DEF IdsDrawn
  <2> QED BY <1>2, <2>1, <2>2 DEF IdsDrawn
<1>10. (CutNow' <=> w2 # All) /\ TornNow' = (IF w2 # All THEN tornObjs \cup change.objs ELSE tornObjs)
  BY <1>2, <1>5 DEF CutNow, IsCut, TornNow
<1>11. PartedNow' <=> \/ parted
                      \/ w2 # All /\ (change.dropped \/ (change.created /\ (HasFailed' \/ change.by = "reload")))
  BY <1>2, <1>10 DEF PartedNow
<1>12. ~parted => ExactBut(V, tornObjs)
  BY <1>2 DEF IxIInv, RequestExact, V
<1>13. ASSUME ~HasFailed', w2 # All, change.by \notin {"put", "reload"} PROVE "indexIds" \notin w2
  <2>1. PICK t \in All : t \notin w2
    BY <1>5, <1>13
  <2>2. t \in Unwritten(change'.order)
    BY <1>2, <1>13, <2>1 DEF HasFailed, Unwritten
  <2>3. change'.order # <<>>
    BY <2>2 DEF Unwritten
  <2>4. "indexIds" \in Unwritten(change'.order)
    BY <1>2, <1>13, <2>3, OrderWritten
  <2> QED BY <1>7, <2>4
<1>14. CASE change.by = "put"
  <2>1. /\ ~change.created /\ ~change.dropped
        /\ V.objects.def = tables.objects.def /\ V.indexIds = tables.indexIds
        /\ \A o \in IxObjects \ change.objs :
             V.objects.objs[o] = tables.objects.objs[o] /\ AllEntriesOf(V.indexes, o) = AllEntriesOf(tables.indexes, o)
    BY <1>2, <1>14 DEF IxIInv, ViewDiffers, V
  <2>2. /\ tables'.objects.def = V.objects.def /\ tables'.indexIds = V.indexIds
        /\ tables'.objects.def = tables.objects.def /\ tables'.indexIds = tables.indexIds
        /\ \A o \in IxObjects \ change.objs :
             V.objects.objs[o] = tables'.objects.objs[o] /\ AllEntriesOf(V.indexes, o) = AllEntriesOf(tables'.indexes, o)
    BY <1>4, <2>1
  <2>3. w2 = All => tables'.objects = V.objects /\ tables'.indexes = V.indexes
    BY <1>6, <1>14 DEF All
  <2>4. ViewDiffers'
    BY <1>2, <1>6, <1>14, <2>1, <2>2 DEF ViewDiffers, V
  <2>5. RequestExact'
    BY <1>2, <1>12 DEF RequestExact, ExactBut, IdsExact, NameExact, V
  <2>6. StoredExact'
    <3> SUFFICES ASSUME ~parted, NEW o \in IxObjects, o \notin TornNow' PROVE IdsExact(tables', o) /\ NameExact(tables', o)
      BY <1>11 DEF StoredExact, ExactBut, IdsExact, NameExact
    <3>1. IdsExact(V, o) /\ NameExact(V, o)
      BY <1>10, <1>12 DEF ExactBut
    <3>2. CASE w2 = All
      BY <2>2, <2>3, <3>1, <3>2 DEF IdsExact, NameExact
    <3>3. CASE w2 # All
      <4>1. tables'.objects.objs[o] = V.objects.objs[o] /\ AllEntriesOf(tables'.indexes, o) = AllEntriesOf(V.indexes, o)
        BY <1>10, <2>2, <3>3
      <4>2. \A ix : EntriesOf(tables'.indexes, ix, o) = EntriesOf(V.indexes, ix, o)
        BY <4>1, AllListing
      <4> QED BY <2>2, <3>1, <4>1, <4>2 DEF IdsExact, NameExact
    <3> QED BY <3>2, <3>3
  <2>7. PartedNow <=> parted
    BY <2>1 DEF PartedNow
  <2>8. ReadyAgrees' /\ UnreadyDiffers'
    BY <1>2, <1>11, <2>1, <2>2, <2>7 DEF IxIInv, ReadyAgrees, UnreadyDiffers, Agrees
  <2> QED BY <1>8, <1>9, <2>4, <2>5, <2>6, <2>8 DEF IxIInv
<1>15. CASE change.by # "put"
  <2>1. /\ change.objs = {} /\ V.objects.objs = tables.objects.objs
        /\ \A o \in IxObjects : EntriesOf(V.indexes, IdIndex, o) = EntriesOf(tables.indexes, IdIndex, o)
        /\ mem.def = V.objects.def
        /\ ~change.created /\ ~change.dropped => V.indexes = tables.indexes /\ V.indexIds = tables.indexIds
        /\ change.created =>
              /\ mem.def # "none" /\ ~mem.ready /\ mem.ix = V.indexIds
              /\ "indexIds" \notin change.written => tables.indexIds # mem.ix
              /\ ~change.dropped /\ "indexIds" \notin change.written => tables.indexIds = 0
        /\ change.dropped => change.created \/ mem.def = "none"
    BY <1>2, <1>15 DEF IxIInv, ViewDiffers, V
  <2>2. /\ V.objects.objs = tables'.objects.objs
        /\ \A o \in IxObjects : EntriesOf(V.indexes, IdIndex, o) = EntriesOf(tables'.indexes, IdIndex, o)
        /\ ~change.created /\ ~change.dropped => V.indexes = tables'.indexes /\ V.indexIds = tables'.indexIds
        /\ "indexIds" \notin w2 => tables'.indexIds = tables.indexIds
    BY <1>4, <2>1
  <2>3. ViewDiffers'
    BY <1>2, <1>6, <1>15, <2>1, <2>2 DEF ViewDiffers, V
  <2>4. RequestExact'
    BY <1>2, <1>12 DEF RequestExact, ExactBut, IdsExact, NameExact, V
  <2>5. w2 = All => tables'.objects = V.objects /\ tables'.indexes = V.indexes /\ tables'.indexIds = V.indexIds
    BY <1>6, <1>15 DEF All
  <2>6. ASSUME ~PartedNow', change.created, w2 # All
        PROVE  ~change.dropped /\ "indexIds" \notin w2 /\ "indexIds" \notin change.written
    BY <1>11, <1>13, <1>15, <2>6
  <2>7. StoredExact'
    <3> SUFFICES ASSUME ~PartedNow', NEW o \in IxObjects, o \notin TornNow' PROVE IdsExact(tables', o) /\ NameExact(tables', o)
      BY DEF StoredExact, ExactBut, IdsExact, NameExact
    <3>1. o \notin tornObjs /\ ~parted /\ IdsExact(V, o) /\ NameExact(V, o)
      BY <1>10, <1>11, <1>12 DEF ExactBut
    <3>2. IdsExact(tables', o)
      BY <2>2, <3>1 DEF IdsExact
    <3>3. CASE w2 = All
      BY <2>5, <3>1, <3>3 DEF IdsExact, NameExact
    <3>4. CASE w2 # All /\ change.created
      BY <2>1, <2>2, <2>6, <3>2, <3>4 DEF NameExact
    <3>5. CASE w2 # All /\ ~change.created
      <4>1. ~change.dropped /\ ~PartedNow /\ TornNow = tornObjs
        BY <1>11, <2>1, <3>1, <3>5 DEF PartedNow, TornNow
      <4>2. IdsExact(tables, o) /\ NameExact(tables, o)
        BY <3>1, <4>1 DEF IxIInv, StoredExact, ExactBut
      <4>3. V.indexes = tables.indexes /\ V.indexIds = tables.indexIds
        BY <2>1, <3>5, <4>1
      <4>4. CASE h = "objects"
        BY <1>4, <3>1, <4>3, <4>4 DEF IdsExact, NameExact
      <4>5. CASE h # "objects"
        BY <1>4, <4>2, <4>3, <4>5 DEF IdsExact, NameExact
      <4> QED BY <4>4, <4>5
    <3> QED BY <3>3, <3>4, <3>5
  <2>8. ReadyAgrees'
    <3> SUFFICES ASSUME ~parted, mem.def # "none", mem.ready PROVE Agrees'
      BY <1>2 DEF ReadyAgrees
    <3>1. Agrees /\ ~change.created /\ ~change.dropped
      BY <2>1 DEF IxIInv, ReadyAgrees
    <3>2. mem.def = tables'.objects.def /\ mem.ix = tables'.indexIds
      BY <1>4, <2>1, <3>1 DEF Agrees
    <3> QED BY <1>2, <3>2 DEF Agrees
  <2>9. UnreadyDiffers'
    <3> SUFFICES ASSUME ~PartedNow', mem.def # "none", ~mem.ready, ~(change.created /\ w2 = All)
                 PROVE  mem.ix # tables'.indexIds
      BY <1>2 DEF UnreadyDiffers
    <3>1. CASE change.created
      BY <2>1, <2>2, <2>6, <3>1
    <3>2. CASE ~change.created
      <4>1. ~change.dropped /\ tables'.indexIds = tables.indexIds
        BY <1>4, <2>1, <3>2
      <4>2. ~PartedNow
        BY <1>11, <3>2, <4>1 DEF PartedNow
      <4> QED BY <3>2, <4>1, <4>2 DEF IxIInv, UnreadyDiffers
    <3> QED BY <3>1, <3>2
  <2> QED BY <1>8, <1>9, <2>3, <2>4, <2>7, <2>8, <2>9 DEF IxIInv
<1> QED BY <1>14, <1>15

\* A database without objects.
LEMMA IxInitKeeps ==
  ASSUME IxInit
  PROVE  IxIInv
<1>1. /\ tables = [objects |-> [objs |-> [o \in IxObjects |-> NoItem], def |-> "none"], indexes |-> {}, indexIds |-> 0]
      /\ mem = NoIndex /\ change = Idle0 /\ nextIx = 1 /\ reloadDue = FALSE /\ tornObjs = {} /\ parted = FALSE
  BY DEF IxInit
<1>2. tables \in StoredTables
  <2> DEFINE ob == [o \in IxObjects |-> NoItem]
  <2>1. ob \in [IxObjects -> IxItems] /\ "none" \in IxDefinitions /\ {} \in SUBSET IxEntries /\ 0 \in Nat
    BY DEF IxItems, IxDefinitions
  <2> HIDE DEF ob
  <2> QED BY <1>1, <2>1, TablesMade DEF ob
<1>3. mem \in Memories /\ mem.def = "none" /\ mem.ix = 0
  BY <1>1 DEF NoIndex, Memories, IxDefinitions
<1>4. ChangeShape /\ change.pc = "idle" /\ change.written = {} /\ change.objs = {} /\ change.created = FALSE /\ change.dropped = FALSE
  BY <1>1 DEF ChangeShape, Idle0
<1>5. IxTypeOK
  <2>1. nextIx \in Nat /\ nextIx > 0
    BY <1>1
  <2>2. reloadDue \in BOOLEAN /\ parted \in BOOLEAN /\ tornObjs \subseteq IxObjects
    BY <1>1
  <2> QED BY <1>2, <1>3, <1>4, <2>1, <2>2 DEF IxTypeOK
<1>6. IdsDrawn /\ ViewDiffers /\ RequestExact /\ ReadyAgrees /\ UnreadyDiffers
  BY <1>1, <1>3, <1>4 DEF IdsDrawn, ViewDiffers, RequestExact, ReadyAgrees, UnreadyDiffers
<1>7. StoredExact
  BY <1>1 DEF StoredExact, ExactBut, IdsExact, NameExact, EntriesOf, IdKeys
<1> QED BY <1>5, <1>6, <1>7 DEF IxIInv

\* Every step keeps the invariant.
LEMMA IxNextKeeps ==
  ASSUME IxIInv, [IxNext]_ixVars
  PROVE  IxIInv'
<1>1. CASE UNCHANGED ixVars
  <2>1. reloadDue' \in BOOLEAN
    BY <1>1 DEF ixVars, IxIInv, IxTypeOK
  <2> QED BY <1>1, <2>1, IxUnchanged DEF ixVars
<1>2. ASSUME NEW o \in IxObjects, NEW x \in Items \cup {NoItem}, PutItem(o, x) PROVE IxIInv'
  BY <1>2, PutItemKeeps DEF IxItems
<1>3. ASSUME NEW def \in IxDefs, DefineIndex(def, "putKind") \/ DefineIndex(def, "batch") PROVE IxIInv'
  BY <1>3, DefineIndexKeeps
<1>4. ASSUME NEW def \in IxDefs, DefineIndexFails(def) PROVE IxIInv'
  BY <1>4, DefineIndexFailsKeeps
<1>5. CASE ReloadIndex \/ LoadIndex
  BY <1>5, ReloadIndexKeeps
<1>6. CASE ReloadIndexFails \/ LoadIndexFails
  BY <1>6, ReloadIndexFailsKeeps
<1>7. CASE HandlePreCommit
  BY <1>7, HandlePreCommitKeeps
<1>8. CASE PreCommitFailed
  BY <1>8, PreCommitFailedKeeps
<1>9. CASE WriteTable
  BY <1>9, WriteTableKeeps
<1>10. CASE WriteTableFails
  BY <1>10, WriteTableFailsKeeps
<1>11. CASE HandlePostCommit
  BY <1>11, HandlePostCommitKeeps
<1>12. CASE CommitFailed
  BY <1>12, CommitFailedKeeps
<1>13. CASE Dies
  BY <1>13, DiesKeeps
<1> QED BY <1>1, <1>2, <1>3, <1>4, <1>5, <1>6, <1>7, <1>8, <1>9, <1>10, <1>11, <1>12, <1>13 DEF IxNext

\* Entries of objects, one of each, are as many as the objects.
LEMMA CountByObject ==
  ASSUME NEW T \in SUBSET IxObjects, NEW f, \A o \in T : f[o][4] = o
  PROVE  IsFiniteSet(T) /\ Cardinality({f[o] : o \in T}) = Cardinality(T)
<1>1. IsFiniteSet(T)
  BY IxAssumption, FS_Subset
<1> DEFINE S == {f[o] : o \in T}
           at == [o \in T |-> f[o]]
<1>2. at \in [T -> S] /\ (\A o \in T : at[o] = f[o]) /\ (\A e \in S : \E o \in T : at[o] = e)
  OBVIOUS
<1>3. \A a, b \in T : f[a] = f[b] => a = b
  OBVIOUS
<1> HIDE DEF at, S
<1>4. \A a, b \in T : at[a] = at[b] => a = b
  BY <1>2, <1>3
<1>5. at \in Bijection(T, S)
  BY <1>2, <1>4 DEF Bijection, Injection, Surjection, IsInjective
<1>6. ExistsBijection(T, S)
  BY <1>5 DEF ExistsBijection
<1>7. Cardinality(S) = Cardinality(T)
  BY <1>1, <1>6, FS_Bijection
<1> QED BY <1>1, <1>7 DEF S

\* Entries and objects that are deleted, or not.
FlaggedEntries(S, del) == {e \in S : ItemOf(e[4]).del = del}
FlaggedObjects(T, del) == {o \in T : ItemOf(o).del = del}

\* And so are those of the objects that are deleted, or not.
LEMMA CountByFlag ==
  ASSUME NEW S, NEW T \in SUBSET IxObjects, NEW f, \A o \in T : f[o][4] = o, S = {f[o] : o \in T}
  PROVE  \A del : /\ IsFiniteSet(FlaggedObjects(T, del))
                  /\ Cardinality(FlaggedEntries(S, del)) = Cardinality(FlaggedObjects(T, del))
<1> TAKE del
<1> DEFINE U == FlaggedObjects(T, del)
<1>1. FlaggedEntries(S, del) = {f[o] : o \in U}
  BY DEF FlaggedEntries, FlaggedObjects
<1>2. U \in SUBSET IxObjects /\ \A o \in U : f[o][4] = o
  BY DEF FlaggedObjects
<1> HIDE DEF U
<1>3. IsFiniteSet(U) /\ Cardinality({f[o] : o \in U}) = Cardinality(U)
  BY <1>2, CountByObject
<1> QED BY <1>1, <1>3 DEF U

\* Every object is exact.
LEMMA ExactTables ==
  ASSUME IxIInv, change.pc = "idle", ~parted
  PROVE  ExactBut(tables, tornObjs)
  BY NotWriting DEF IxIInv, StoredExact

\* An index that queries may use has the entries of each object, and no others.
LEMMA ReadyExact ==
  ASSUME IxIInv, change.pc = "idle", ~parted, mem.def # "none", mem.ready
  PROVE  /\ Agrees /\ mem.ix # IdIndex
         /\ \A o \in IxObjects \ tornObjs :
              EntriesOf(tables.indexes, mem.ix, o) = KeysOf(mem.def, mem.ix, o, ItemOf(o))
<1>1. Agrees /\ mem.ix # IdIndex
  BY DEF IxIInv, ReadyAgrees, IdsDrawn
<1> QED BY <1>1, ExactTables DEF ExactBut, NameExact, Agrees, IdIndex, ItemOf

\* What such an index finds.
LEMMA RowsExact ==
  ASSUME IxIInv, change.pc = "idle", ~parted, mem.def # "none", mem.ready, NEW v \in IxValues, NEW del \in BOOLEAN
  PROVE  Rows(tables.indexes, tables.objects.objs, mem.ix, del, v) \ tornObjs =
           {o \in IxObjects \ tornObjs : ItemOf(o) = [val |-> v, del |-> del] /\ (del => mem.def = "all")}
<1> SUFFICES ASSUME NEW o \in IxObjects, o \notin tornObjs
             PROVE  <<mem.ix, del, v, o>> \in tables.indexes /\ ItemOf(o) # NoItem <=>
                      ItemOf(o) = [val |-> v, del |-> del] /\ (del => mem.def = "all")
  BY DEF Rows, Ghost, ItemOf
<1>1. EntriesOf(tables.indexes, mem.ix, o) = KeysOf(mem.def, mem.ix, o, ItemOf(o))
  BY ReadyExact
<1>2. <<mem.ix, del, v, o>> \in tables.indexes <=> <<mem.ix, del, v, o>> \in KeysOf(mem.def, mem.ix, o, ItemOf(o))
  BY <1>1 DEF EntriesOf
<1>3. ItemOf(o) \in IxItems
  BY TablesShape DEF IxIInv, IxTypeOK, ItemOf
<1>4. ItemOf(o) = [val |-> ItemOf(o).val, del |-> ItemOf(o).del] /\ ItemOf(o).del \in BOOLEAN
  BY <1>3, ItemTyped
<1>5. [val |-> v, del |-> del] # NoItem
  BY IxAssumption DEF NoItem
<1>6. <<mem.ix, del, v, o>> \in KeysOf(mem.def, mem.ix, o, ItemOf(o)) <=>
        IncludeObj(mem.def, ItemOf(o)) /\ ItemOf(o).del = del /\ ItemOf(o).val = v
  BY DEF KeysOf
<1> QED BY <1>2, <1>4, <1>5, <1>6 DEF IncludeObj

\* The statistics of the kind.
LEMMA ReportsExact ==
  ASSUME IxIInv, change.pc = "idle", ~parted, mem.def # "none", mem.ready, tornObjs = {}
  PROVE  /\ Report(IdIndex).warnings = 0 /\ Report(mem.ix).warnings = 0
         /\ Report(mem.ix).count = Report(IdIndex).count
         /\ Report(mem.ix).delCount = (IF mem.def = "all" THEN Report(IdIndex).delCount ELSE 0)
         /\ Report(IdIndex).count + Report(IdIndex).delCount = Cardinality({o \in IxObjects : ItemOf(o) # NoItem})
<1> DEFINE of(ix) == {e \in tables.indexes : e[1] = ix}
           ghosts(ix) == {e \in of(ix) : Ghost(tables.objects.objs, e)}
           kept(ix, del) == FlaggedEntries(of(ix), del)
           stored == {o \in IxObjects : ItemOf(o) # NoItem}
           listed == {o \in IxObjects : IncludeObj(mem.def, ItemOf(o))}
           idEntry == [o \in IxObjects |-> <<IdIndex, ItemOf(o).del, IxNull, o>>]
           ixEntry == [o \in IxObjects |-> <<mem.ix, ItemOf(o).del, ItemOf(o).val, o>>]
<1>1. /\ \A o \in IxObjects : EntriesOf(tables.indexes, IdIndex, o) = IdKeys(o, ItemOf(o))
      /\ \A o \in IxObjects : EntriesOf(tables.indexes, mem.ix, o) = KeysOf(mem.def, mem.ix, o, ItemOf(o))
  BY ExactTables, ReadyExact DEF ExactBut, IdsExact, ItemOf
<1>2. \A e \in tables.indexes : e[4] \in IxObjects
  <2>1. \A e \in tables.indexes : e \in IxEntries
    BY TablesShape DEF IxIInv, IxTypeOK
  <2> QED BY <2>1 DEF IxEntries
<1>3. \A o \in IxObjects : ItemOf(o).del \in BOOLEAN
  <2>1. \A o \in IxObjects : ItemOf(o) \in IxItems
    BY TablesShape DEF IxIInv, IxTypeOK, ItemOf
  <2> QED BY <2>1, ItemTyped
<1>4. /\ \A o \in IxObjects : idEntry[o] = <<IdIndex, ItemOf(o).del, IxNull, o>> /\ idEntry[o][4] = o
      /\ \A o \in IxObjects : ixEntry[o] = <<mem.ix, ItemOf(o).del, ItemOf(o).val, o>> /\ ixEntry[o][4] = o
  OBVIOUS
<1>5. listed = (IF mem.def = "all" THEN stored ELSE FlaggedObjects(stored, FALSE))
  BY <1>3 DEF IncludeObj, FlaggedObjects
<1> HIDE DEF idEntry, ixEntry
<1>6. of(IdIndex) = {idEntry[o] : o \in stored}
  <2>1. ASSUME NEW e \in of(IdIndex) PROVE e[4] \in stored /\ e = idEntry[e[4]]
    <3>1. e[4] \in IxObjects /\ e \in IdKeys(e[4], ItemOf(e[4]))
      BY <1>1, <1>2 DEF EntriesOf
    <3> QED BY <1>4, <3>1 DEF IdKeys
  <2>2. ASSUME NEW o \in stored PROVE idEntry[o] \in of(IdIndex)
    <3>1. idEntry[o] \in IdKeys(o, ItemOf(o))
      BY <1>4 DEF IdKeys
    <3> QED BY <1>1, <3>1 DEF EntriesOf
  <2> HIDE DEF of, stored
  <2> QED BY <2>1, <2>2
<1>7. of(mem.ix) = {ixEntry[o] : o \in listed}
  <2>1. ASSUME NEW e \in of(mem.ix) PROVE e[4] \in listed /\ e = ixEntry[e[4]]
    <3>1. e[4] \in IxObjects /\ e \in KeysOf(mem.def, mem.ix, e[4], ItemOf(e[4]))
      BY <1>1, <1>2 DEF EntriesOf
    <3> QED BY <1>4, <3>1 DEF KeysOf
  <2>2. ASSUME NEW o \in listed PROVE ixEntry[o] \in of(mem.ix)
    <3>1. ixEntry[o] \in KeysOf(mem.def, mem.ix, o, ItemOf(o))
      BY <1>4 DEF KeysOf
    <3> QED BY <1>1, <3>1 DEF EntriesOf
  <2> HIDE DEF of, listed
  <2> QED BY <2>1, <2>2
<1>8. ghosts(IdIndex) = {} /\ ghosts(mem.ix) = {}
  <2>1. \A e \in of(IdIndex) : e[4] \in stored
    BY <1>4, <1>6
  <2>2. \A e \in of(mem.ix) : e[4] \in listed
    BY <1>4, <1>7
  <2> HIDE DEF of
  <2> QED BY <2>1, <2>2 DEF Ghost, ItemOf, IncludeObj
<1>9. /\ stored \in SUBSET IxObjects /\ listed \in SUBSET IxObjects
      /\ (\A o \in stored : idEntry[o][4] = o) /\ (\A o \in listed : ixEntry[o][4] = o)
  BY <1>4
<1>10. ASSUME NEW ix \in {IdIndex, mem.ix}
       PROVE  /\ Report(ix).warnings = 0
              /\ Report(ix).count = Cardinality(kept(ix, FALSE))
              /\ Report(ix).delCount = Cardinality(kept(ix, TRUE))
  <2>1. /\ {e \in of(ix) \ ghosts(ix) : ~ItemOf(e[4]).del} = kept(ix, FALSE)
        /\ {e \in of(ix) \ ghosts(ix) : ItemOf(e[4]).del} = kept(ix, TRUE)
    <3>1. ghosts(ix) = {} /\ \A e \in of(ix) : ItemOf(e[4]).del \in BOOLEAN
      BY <1>2, <1>3, <1>8
    <3> HIDE DEF of, ghosts
    <3> QED BY <3>1 DEF FlaggedEntries
  <2>2. Report(ix) = [entries |-> Cardinality(of(ix)), warnings |-> Cardinality(ghosts(ix)),
                      count |-> Cardinality(kept(ix, FALSE)), delCount |-> Cardinality(kept(ix, TRUE))]
    BY <2>1 DEF Report
  <2>3. Cardinality(ghosts(ix)) = 0
    BY <1>8, FS_EmptySet
  <2> QED BY <2>2, <2>3
<1> HIDE DEF stored, listed, ghosts
<1>11. ASSUME NEW del
       PROVE  /\ IsFiniteSet(FlaggedObjects(stored, del))
              /\ Cardinality(kept(IdIndex, del)) = Cardinality(FlaggedObjects(stored, del))
              /\ Cardinality(kept(mem.ix, del)) = Cardinality(FlaggedObjects(listed, del))
  <2> HIDE DEF of
  <2>1. Cardinality(FlaggedEntries(of(IdIndex), del)) = Cardinality(FlaggedObjects(stored, del))
    BY <1>6, <1>9, CountByFlag
  <2>2. Cardinality(FlaggedEntries(of(mem.ix), del)) = Cardinality(FlaggedObjects(listed, del))
    BY <1>7, <1>9, CountByFlag
  <2>3. FlaggedObjects(stored, del) \in SUBSET IxObjects
    BY <1>9 DEF FlaggedObjects
  <2>4. IsFiniteSet(FlaggedObjects(stored, del))
    BY <2>3, IxAssumption, FS_Subset
  <2> QED BY <2>1, <2>2, <2>4
<1>12. FlaggedObjects(listed, FALSE) = FlaggedObjects(stored, FALSE)
       /\ FlaggedObjects(listed, TRUE) = (IF mem.def = "all" THEN FlaggedObjects(stored, TRUE) ELSE {})
  BY <1>5 DEF FlaggedObjects
<1>13. Cardinality(stored) = Cardinality(FlaggedObjects(stored, FALSE)) + Cardinality(FlaggedObjects(stored, TRUE))
  <2> DEFINE live == FlaggedObjects(stored, FALSE)
             deleted == FlaggedObjects(stored, TRUE)
  <2>1. stored = live \cup deleted /\ live \cap deleted = {}
    BY <1>3, <1>9 DEF FlaggedObjects
  <2>2. IsFiniteSet(live) /\ IsFiniteSet(deleted)
    BY <1>11
  <2> HIDE DEF live, deleted
  <2>3. Cardinality(live) \in Nat /\ Cardinality(deleted) \in Nat
    BY <2>2, FS_CardinalityType
  <2>4. Cardinality(live \cup deleted) = Cardinality(live) + Cardinality(deleted) - Cardinality(live \cap deleted)
    BY <2>2, FS_Union
  <2>5. Cardinality(live \cap deleted) = 0
    BY <2>1, FS_EmptySet
  <2>6. Cardinality(stored) = Cardinality(live) + Cardinality(deleted)
    BY <2>1, <2>3, <2>4, <2>5
  <2> QED BY <2>6 DEF live, deleted
<1> HIDE DEF kept
<1>14. Report(mem.ix).count = Report(IdIndex).count
  BY <1>10, <1>11, <1>12
<1>15. Report(mem.ix).delCount = (IF mem.def = "all" THEN Report(IdIndex).delCount ELSE 0)
  <2>1. Cardinality({}) = 0
    BY FS_EmptySet
  <2> QED BY <1>10, <1>11, <1>12, <2>1
<1>16. Report(IdIndex).count + Report(IdIndex).delCount = Cardinality(stored)
  BY <1>10, <1>11, <1>13
<1> QED BY <1>10, <1>14, <1>15, <1>16 DEF stored

\* A ready index finds what is stored and no more, an index that is the stored one is ready,
\* and the statistics of the kind tell the objects: after any operations on the kind and its
\* objects, failed writes and crashes, but those that tear its id from its entries
\* (MojDbIndex, MojDbKind::configureIndexes, MojDbLevelTxn::commitImpl).
THEOREM IndexesAlwaysAnswer == IxInit /\ [][IxNext]_ixVars => []IndexesAnswer
<1>1. ASSUME IxIInv PROVE IndexesAnswer
  <2> SUFFICES ASSUME mem.kind = "open", change.pc = "idle", mem.def # "none", ~parted
               PROVE  /\ Agrees => mem.ready
                      /\ mem.ready => \A v \in IxValues, del \in BOOLEAN :
                           Rows(tables.indexes, tables.objects.objs, mem.ix, del, v) \ tornObjs =
                             {o \in IxObjects \ tornObjs : ItemOf(o) = [val |-> v, del |-> del] /\ (del => mem.def = "all")}
                      /\ mem.ready /\ tornObjs = {} =>
                           /\ Report(IdIndex).warnings = 0 /\ Report(mem.ix).warnings = 0
                           /\ Report(mem.ix).count = Report(IdIndex).count
                           /\ Report(mem.ix).delCount = (IF mem.def = "all" THEN Report(IdIndex).delCount ELSE 0)
                           /\ Report(IdIndex).count + Report(IdIndex).delCount =
                                Cardinality({o \in IxObjects : ItemOf(o) # NoItem})
    BY DEF IndexesAnswer
  <2>1. Agrees => mem.ready
    BY <1>1, NotWriting DEF IxIInv, UnreadyDiffers, Agrees
  <2>2. mem.ready => \A v \in IxValues, del \in BOOLEAN :
          Rows(tables.indexes, tables.objects.objs, mem.ix, del, v) \ tornObjs =
            {o \in IxObjects \ tornObjs : ItemOf(o) = [val |-> v, del |-> del] /\ (del => mem.def = "all")}
    BY <1>1, RowsExact
  <2>3. mem.ready /\ tornObjs = {} =>
          /\ Report(IdIndex).warnings = 0 /\ Report(mem.ix).warnings = 0
          /\ Report(mem.ix).count = Report(IdIndex).count
          /\ Report(mem.ix).delCount = (IF mem.def = "all" THEN Report(IdIndex).delCount ELSE 0)
          /\ Report(IdIndex).count + Report(IdIndex).delCount = Cardinality({o \in IxObjects : ItemOf(o) # NoItem})
    BY <1>1, ReportsExact
  <2> QED BY <2>1, <2>2, <2>3
<1> QED BY <1>1, IxInitKeeps, IxNextKeeps, PTL
=============================================================================
