---------------------------- MODULE MojDbIndexing ----------------------------
(* The life of an index: how a kind defines, creates, builds, opens and    *)
(* drops it (src/db/MojDbIndex.cpp, MojDbKind.cpp), and what is left of it *)
(* when the tables of a leveldb transaction are written one by one and one *)
(* of the writes fails, or the process dies between two of them            *)
(* (src/db-engine/leveldb/MojDbLevelTxn.cpp).                              *)
(*                                                                         *)
(* One kind has the index of ids, which every kind has, and one more, that *)
(* putKind adds, redefines and removes.  One request runs at a time;       *)
(* requests that overlap are those of MojDbTxn.                            *)
EXTENDS Naturals, FiniteSets, Sequences

CONSTANTS
  IxObjects,     \* ids of objects of the kind
  IxValues,      \* values of the property that is indexed
  IxDefs,        \* definitions of the index: "none", "plain", "all" (incDel)
  IxNull,        \* no value
  MaxIx          \* bound: ids of indexes drawn

ASSUME IxAssumption == IsFiniteSet(IxObjects) /\ IxNull \notin IxValues

VARIABLES
  tables,        \* what is committed: objects (and the kind), indexes, indexIds
  mem,           \* the kind in memory; its index: m_indexObjects, m_id, m_ready
  change,        \* the request that runs
  nextIx,        \* the sequence that ids of indexes are drawn from
  reloadDue,     \* a putKind has failed and its reloadKind is still to come
  tornObjs,      \* history: objects that were not written as one
  parted         \* history: the id of the index is not that of its entries

ixVars == <<tables, mem, change, nextIx, reloadDue, tornObjs, parted>>

NoItem == [val |-> IxNull, del |-> FALSE]
Items == [val : IxValues, del : BOOLEAN]
IdIndex == 0
NoIndex == [kind |-> "open", def |-> "none", ix |-> 0, ready |-> FALSE]
NoKind0 == [NoIndex EXCEPT !.kind = "gone"]
Idle0 == [pc |-> "idle", view |-> <<>>, order |-> <<>>, written |-> {}, by |-> "none",
          objs |-> {}, created |-> FALSE, dropped |-> FALSE]

-----------------------------------------------------------------------------
(* Entries of an index: the id of the index, and then, with incDel, the    *)
(* _del flag; the value; the id.                                           *)
IncludeObj(def, x) == def # "none" /\ x # NoItem /\ (def = "all" \/ ~x.del)
KeysOf(def, ix, o, x) == IF IncludeObj(def, x) THEN {<<ix, x.del, x.val, o>>} ELSE {}
IdKeys(o, x) == IF x = NoItem THEN {} ELSE {<<IdIndex, x.del, IxNull, o>>}

Updated(es, old, new) == (es \ (old \ new)) \cup (new \ old)

(* delKeys: an entry to delete that is missing fails the request, but a    *)
(* purge forces it.                                                        *)
CanUpdate(es, old, new, force) == force \/ old \ new \subseteq es

(* getById: an entry whose object is missing is a ghost.                   *)
Ghost(objs, e) == objs[e[4]] = NoItem

(* MojDbIsamQuery::get: the objects of a range, without ghosts.            *)
Rows(es, objs, ix, del, val) ==
  {o \in IxObjects : <<ix, del, val, o>> \in es /\ ~Ghost(objs, <<ix, del, val, o>>)}

(* Mutant: the index is built from live objects, whatever it includes.     *)
BuildLive(es, objs, def, ix) ==
  es \cup UNION {KeysOf(def, ix, o, objs[o]) : o \in Rows(es, objs, IdIndex, FALSE, IxNull)}

(* build: what the query for the kind finds, under the index of ids.       *)
Build(es, objs, def, ix) ==
  es \cup UNION {KeysOf(def, ix, o, objs[o]) :
       o \in Rows(es, objs, IdIndex, FALSE, IxNull)
             \cup (IF def = "all" THEN Rows(es, objs, IdIndex, TRUE, IxNull) ELSE {})}

(* drop: delPrefix with the id of the index.                               *)
Dropped(es, ix) == {e \in es : e[1] # ix}

-----------------------------------------------------------------------------
(* configureIndexes, against what the kind has in memory.  The id that is  *)
(* stored under the name of the index is that of whatever had the name.    *)
Drops(m, def) == m.def # "none" /\ m.def # def
Adds(m, def) == def # "none" /\ m.def # def

DropIndex(m, def, view) ==
  IF Drops(m, def) THEN [view EXCEPT !.indexIds = 0, !.indexes = Dropped(@, m.ix)] ELSE view

Creates(m, def, view) == Adds(m, def) /\ DropIndex(m, def, view).indexIds = 0

IndexId(m, def, view) ==
  IF Creates(m, def, view) THEN [DropIndex(m, def, view) EXCEPT !.indexIds = nextIx]
                           ELSE DropIndex(m, def, view)

(* MojDbIndex::open: an index that was just created is not ready yet.      *)
OpenIndex(m, def, view) ==
  CASE Adds(m, def) -> [kind |-> "open", def |-> def, ix |-> IndexId(m, def, view).indexIds,
                        ready |-> ~Creates(m, def, view)]
    [] Drops(m, def) /\ ~Adds(m, def) -> NoIndex
    [] OTHER -> [m EXCEPT !.kind = "open"]

DrawIx(m, def, view) ==
  IF Creates(m, def, view) THEN nextIx <= MaxIx /\ nextIx' = nextIx + 1 ELSE UNCHANGED nextIx

Configure(m, def, view, by, order) ==
  /\ mem' = OpenIndex(m, def, view)
  /\ DrawIx(m, def, view)
  /\ change' = [pc |-> "called", view |-> IndexId(m, def, view), order |-> order, written |-> {},
                by |-> by, objs |-> {}, created |-> Creates(m, def, view), dropped |-> Drops(m, def)]

IxInit ==
  /\ tables = [objects |-> [objs |-> [o \in IxObjects |-> NoItem], def |-> "none"],
               indexes |-> {}, indexIds |-> 0]
  /\ mem = NoIndex /\ change = Idle0
  /\ nextIx = 1 /\ reloadDue = FALSE /\ tornObjs = {} /\ parted = FALSE

ItemOf(o) == tables.objects.objs[o]

(* What is in memory is what is stored.                                    *)
Agrees == mem.def = tables.objects.def /\ (mem.def # "none" => mem.ix = tables.indexIds)

-----------------------------------------------------------------------------
(* Requests.                                                               *)

(* putObj and delObj, of a new object, a change, a deletion or a purge:    *)
(* all indexes that the kind has in memory, and the object.                *)
PutItem(o, x) ==
  /\ change.pc = "idle" /\ mem.kind = "open" /\ x # ItemOf(o)
  /\ CanUpdate(tables.indexes, IdKeys(o, ItemOf(o)), IdKeys(o, x), x = NoItem)
  /\ CanUpdate(tables.indexes, KeysOf(mem.def, mem.ix, o, ItemOf(o)), KeysOf(mem.def, mem.ix, o, x), x = NoItem)
  /\ change' = [Idle0 EXCEPT !.pc = "called", !.by = "put", !.objs = {o},
       !.order = <<"objects", "indexes">>,
       !.view = [tables EXCEPT
          !.objects.objs[o] = x,
          !.indexes = Updated(Updated(@, IdKeys(o, ItemOf(o)), IdKeys(o, x)),
                              KeysOf(mem.def, mem.ix, o, ItemOf(o)), KeysOf(mem.def, mem.ix, o, x))]]
  /\ tornObjs' = IF Agrees THEN tornObjs ELSE tornObjs \cup {o}
  /\ UNCHANGED <<tables, mem, nextIx, reloadDue, parted>>

(* putKind: the object of the kind is put, with entries in the indexes of  *)
(* the kind of kinds, before the ids of its indexes are read and written.  *)
Redefined(def) == [tables EXCEPT !.objects.def = def]

(* The kind in memory is not the one that is stored, and another           *)
(* definition takes over the id of the stored index.                       *)
Adopts(def) ==
  /\ def \notin {"none", tables.objects.def} /\ tables.indexIds # 0
  /\ ~Drops(mem, def)

DefineIndex(def, by) ==
  /\ change.pc = "idle" /\ mem.kind # "closed"
  /\ Configure(mem, def, Redefined(def), by, <<"objects", "indexes", "indexIds">>)
  /\ parted' = (parted \/ Adopts(def))
  /\ UNCHANGED <<tables, reloadDue, tornObjs>>

(* A definition is not valid, or a step after configureIndexes fails: the  *)
(* transaction is aborted, with the kind as it may be in memory.           *)
DefineIndexFails(def) ==
  /\ change.pc = "idle" /\ mem.kind = "open"
  /\ \/ UNCHANGED <<mem, nextIx, parted>>
     \/ /\ mem' = OpenIndex(mem, def, Redefined(def)) /\ DrawIx(mem, def, Redefined(def))
        /\ parted' = (parted \/ Adopts(def))
  /\ reloadDue' = TRUE
  /\ UNCHANGED <<tables, change, tornObjs>>

(* reloadKind, in a request of its own: the kind is made anew.             *)
ReloadIndex ==
  /\ change.pc = "idle" /\ reloadDue /\ mem.kind # "closed"
  /\ reloadDue' = FALSE
  /\ Configure(NoIndex, tables.objects.def, tables, "reload", <<"objects", "indexIds", "indexes">>)
  /\ UNCHANGED <<tables, tornObjs, parted>>

(* It fails when the kind is out of the map.                               *)
ReloadIndexFails ==
  /\ change.pc = "idle" /\ reloadDue /\ mem.kind # "closed"
  /\ reloadDue' = FALSE
  /\ mem' = NoKind0
  /\ UNCHANGED <<tables, change, nextIx, tornObjs, parted>>

(* loadKinds, when the database is opened: the indexes are read first.     *)
LoadIndex ==
  /\ change.pc = "idle" /\ mem.kind = "closed"
  /\ Configure(NoIndex, tables.objects.def, tables, "load", <<"indexes", "objects", "indexIds">>)
  /\ UNCHANGED <<tables, reloadDue, tornObjs, parted>>

LoadIndexFails ==
  /\ change.pc = "idle" /\ mem.kind = "closed"
  /\ mem' = NoKind0
  /\ UNCHANGED <<tables, change, nextIx, reloadDue, tornObjs, parted>>

-----------------------------------------------------------------------------
(* Commit.                                                                 *)

(* handlePreCommit builds the index that the request has created.          *)
HandlePreCommit ==
  /\ change.pc = "called"
  /\ change' = [change EXCEPT !.pc = "commit",
       !.view.indexes = IF change.created
                        THEN Build(@, change.view.objects.objs, mem.def, mem.ix) ELSE @]
  /\ UNCHANGED <<tables, mem, nextIx, reloadDue, tornObjs, parted>>

(* An error leaves the request: a putKind that is not in a batch reloads   *)
(* the kind, a database that cannot be opened is closed.  A batch, as all  *)
(* requests of the service are, leaves the kind as it is in memory.        *)
Failed ==
  /\ change' = Idle0
  /\ reloadDue' = (reloadDue \/ change.by = "putKind")
  /\ mem' = IF change.by = "load" THEN [NoIndex EXCEPT !.kind = "closed"] ELSE mem

PreCommitFailed ==
  /\ change.pc \in {"called", "commit"}
  /\ Failed
  /\ UNCHANGED <<tables, nextIx, tornObjs, parted>>

(* commitImpl of the environment: each table in turn, an error is kept     *)
(* and the others are written all the same.                                *)
Head0 == Head(change.order)
WriteNext(written) ==
  /\ change.pc \in {"commit", "writing"} /\ change.order # <<>>
  /\ change' = [change EXCEPT !.pc = "writing", !.order = Tail(@), !.written = written]
  /\ UNCHANGED <<mem, nextIx, reloadDue, tornObjs, parted>>

WriteTable ==
  /\ WriteNext(change.written \cup {Head0})
  /\ tables' = [tables EXCEPT ![Head0] = change.view[Head0]]

WriteTableFails == WriteNext(change.written) /\ UNCHANGED tables

(* What is cut off: a put leaves its object torn.  An index that is added  *)
(* has its id only after its entries; but not when a write has failed, or  *)
(* in the order of reloadKind; and the id of one that is dropped outlives  *)
(* its entries.                                                            *)
All == IF change.by = "put" THEN {"objects", "indexes"} ELSE {"objects", "indexes", "indexIds"}
IsCut == change.written \notin {{}, All}
HasFailed == \E t \in All \ change.written : \A i \in 1..Len(change.order) : change.order[i] # t
Cut ==
  /\ tornObjs' = IF IsCut THEN tornObjs \cup change.objs ELSE tornObjs
  /\ parted' = (parted \/ (IsCut /\ (change.dropped \/ (change.created /\ (HasFailed \/ change.by = "reload")))))

(* handlePostCommit: the index is ready.                                   *)
HandlePostCommit ==
  /\ change.pc = "writing" /\ change.order = <<>> /\ change.written = All
  /\ mem' = IF change.created THEN [mem EXCEPT !.ready = TRUE] ELSE mem
  /\ change' = Idle0
  /\ UNCHANGED <<tables, nextIx, reloadDue, tornObjs, parted>>

CommitFailed ==
  /\ change.pc = "writing" /\ change.order = <<>> /\ change.written # All
  /\ Failed /\ Cut
  /\ UNCHANGED <<tables, nextIx>>

(* The process dies.                                                       *)
Dies ==
  /\ mem' = [NoIndex EXCEPT !.kind = "closed"] /\ change' = Idle0 /\ reloadDue' = FALSE
  /\ IF change.pc = "writing" THEN Cut ELSE UNCHANGED <<tornObjs, parted>>
  /\ UNCHANGED <<tables, nextIx>>

IxNext ==
  \/ \E o \in IxObjects, x \in Items \cup {NoItem} : PutItem(o, x)
  \/ \E def \in IxDefs : DefineIndex(def, "putKind") \/ DefineIndex(def, "batch") \/ DefineIndexFails(def)
  \/ ReloadIndex \/ ReloadIndexFails \/ LoadIndex \/ LoadIndexFails
  \/ HandlePreCommit \/ PreCommitFailed \/ WriteTable \/ WriteTableFails
  \/ HandlePostCommit \/ CommitFailed \/ Dies

-----------------------------------------------------------------------------
(* stats: objects by the index of ids, entries, and, to verify, what the   *)
(* entries of an index lead to.                                            *)
Report(ix) ==
  LET of == {e \in tables.indexes : e[1] = ix}
      ghosts == {e \in of : Ghost(tables.objects.objs, e)} IN
  [entries |-> Cardinality(of), warnings |-> Cardinality(ghosts),
   count |-> Cardinality({e \in of \ ghosts : ~ItemOf(e[4]).del}),
   delCount |-> Cardinality({e \in of \ ghosts : ItemOf(e[4]).del})]

(* An index that queries may use finds what is stored and no more: after   *)
(* it was added to a kind that has objects, redefined, added again, and    *)
(* after every crash and every write that failed but those that tear its   *)
(* id from its entries; and the statistics of the kind say so.             *)
IndexesAnswer ==
  mem.kind = "open" /\ change.pc = "idle" /\ mem.def # "none" /\ ~parted =>
    /\ Agrees => mem.ready
    /\ mem.ready => \A v \in IxValues, del \in BOOLEAN :
         Rows(tables.indexes, tables.objects.objs, mem.ix, del, v) \ tornObjs =
           {o \in IxObjects \ tornObjs : ItemOf(o) = [val |-> v, del |-> del] /\ (del => mem.def = "all")}
    /\ mem.ready /\ tornObjs = {} =>
         /\ Report(IdIndex).warnings = 0 /\ Report(mem.ix).warnings = 0
         /\ Report(mem.ix).count = Report(IdIndex).count
         /\ Report(mem.ix).delCount = (IF mem.def = "all" THEN Report(IdIndex).delCount ELSE 0)
         /\ Report(IdIndex).count + Report(IdIndex).delCount =
              Cardinality({o \in IxObjects : ItemOf(o) # NoItem})
=============================================================================
