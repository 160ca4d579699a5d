----------------------------- MODULE MojDbQueries -----------------------------
(***************************************************************************)
(* A query carried out over an index of the LevelDB engine: MojDbIsamQuery     *)
(* with its ranges, limit and end key, MojDbLevelQuery and MojDbLevelCursor    *)
(* over the iterator of the transaction; the pages of MojDb::find and the      *)
(* count after a page; del, purge and merge by query, which write the index    *)
(* under their own cursor.                                                   *)
(*                                                                         *)
(* The cursor walks a snapshot of the index that it takes when it opens, the   *)
(* objects are read as they are when their key is reached and written as they  *)
(* were read, and other transactions commit in between and between two pages:  *)
(* the schema lock is shared, and nobody notices.  Then the later commit wins, *)
(* and the index keeps keys that are not the object's.  A transaction is dirty *)
(* when its batch wrote before the query: there a delete may return a key      *)
(* twice (see README).                                                       *)
(* Bounds: the requests, earlier writes of the batch and writes of others, and *)
(* NoLimit, which stands for the 2^32 - 1 of the code.                        *)
(***************************************************************************)
EXTENDS MojDbQueryPlan, MojDbLevelTxnIterator

CONSTANTS Ids,            \* bytes
          Objects,        \* the states an object may be put in
          Requests,       \* [op, index, query, batch, others]; the last two are bounds
          Neighbours,     \* keys of other indexes in the same database
          MergeValues,    \* what merge puts into the property
          AutoBatchSize,
          NoLimit         \* MojDbQuery::LimitDefault

Ops == {"find", "count", "del", "purge", "merge"}

ASSUME QueriesAssumption ==
  /\ End = KeySpace
  /\ Ids \subseteq 1..ByteMax /\ IsFiniteSet(Ids)
  /\ Absent \in Objects
  /\ AutoBatchSize \in Nat \ {0}
  /\ \A r \in Requests : r.op \in Ops /\ r.query.limit \in 1..NoLimit

VARIABLES
  req,       \* the request
  objs, idx, \* committed objects, committed keys of the index
  own,       \* objects written by this transaction
  store,     \* [txn, it]: index keys of the transaction, the iterator
  pc,        \* "idle", "key", "val", "item", "end", "done"
  cur,       \* MojDbIsamQuery: [ranges, seek, key, count, limit, endKey,
             \*                counting, next, item]; counting and next belong to
             \*                findImpl, item is the object read
  page,      \* MojDbQuery::page
  left,      \* queryLimit of MojDb::delImpl
  \* What has happened, for the properties.
  results,   \* keys of the items returned, over all pages
  total,     \* the count replied
  start,     \* objects as the first page found them
  theirs,    \* what others have committed since: states of some of the objects
  dirty      \* "yes" when the batch wrote before

tables == <<objs, idx>>
history == <<results, total, start, theirs, dirty>>
vars == <<req, tables, own, store, pc, cur, page, left, history>>

index == req.index
query == req.query
desc  == query.desc
Writes == req.op \in {"del", "purge", "merge"}

AtStart == results = <<>> /\ page = EmptyKey /\ left = query.limit

View(i) == IF i \in DOMAIN own THEN own[i] ELSE objs[i]
Viewed  == [i \in Ids |-> View(i)]
CommittedKeys == Neighbours \cup idx
changed == DOMAIN theirs

NoIterator == Iterator(Begin, Begin, "prev", "no")
NewTxn(keys) == [txn |-> [snap |-> keys, inserts |-> {}, deletes |-> {}], it |-> NoIterator]
NoCursor == [ranges |-> {}, seek |-> TRUE, key |-> EmptyKey, count |-> 0,
             limit |-> NoLimit, endKey |-> EmptyKey,
             counting |-> FALSE, next |-> EmptyKey, item |-> Absent]

Init ==
  /\ req \in Requests
  /\ objs \in [Ids -> Objects] /\ idx = UNION {ObjKeys(req.index, i, objs[i]) : i \in Ids}
  /\ own = <<>> /\ store = NewTxn({}) /\ pc = "idle" /\ cur = NoCursor
  /\ page = EmptyKey /\ left = req.query.limit
  /\ results = <<>> /\ total = 0 /\ start = objs /\ theirs = <<>> /\ dirty = "no"

(***************************************************************************)
(* Writes of this transaction, under the open iterator if there is one.       *)
(***************************************************************************)
insertKeys(s, keys) == FoldLeft(Put, s, Sorted(keys))
delKeys(s, keys)    == FoldLeft(Delete, s, Sorted(keys))

\* The keys that go and those that come are told from the object as it was read.
Update(i, read, new) ==
  \E old \in {ObjKeys(index, i, read)}, now \in {ObjKeys(index, i, new)} :
    /\ store' = delKeys(insertKeys(store, now \ old), old \ now)
    /\ own' = (i :> new) @@ own

\* An operation before the query in the same batch.
EarlierWrite(i, new) ==
  /\ pc = "idle" /\ AtStart
  /\ Cardinality(DOMAIN own) < req.batch /\ i \notin DOMAIN own
  /\ new # objs[i]
  /\ Update(i, View(i), new)
  /\ dirty' = "yes"
  /\ UNCHANGED <<req, tables, pc, cur, page, left, results, total, start, theirs>>

\* Another transaction commits, also an object that this one has read or written.  (What
\* is committed before the search opens is another initial state.)
OtherWrite(i, new) ==
  /\ pc # "done" /\ ~(pc = "idle" /\ AtStart)
  /\ Cardinality(changed) < req.others /\ i \notin changed /\ new # objs[i]
  /\ objs' = [objs EXCEPT ![i] = new]
  /\ idx' = (idx \ ObjKeys(index, i, objs[i])) \cup ObjKeys(index, i, new)
  /\ theirs' = (i :> new) @@ theirs
  /\ UNCHANGED <<req, own, store, pc, cur, page, left, results, total, start, dirty>>

(***************************************************************************)
(* The query.                                                              *)
(***************************************************************************)
PassLimit ==
  IF req.op \notin {"del", "purge"} THEN query.limit
  ELSE IF left > AutoBatchSize /\ (query.limit = NoLimit \/ left # query.limit)
       THEN AutoBatchSize ELSE left

\* MojDbIndex::find, with the snapshot of the index.
Open ==
  /\ pc = "idle"
  /\ canAnswer(index, query)
  /\ \E txn \in {[store.txn EXCEPT !.snap = CommittedKeys]} :
       store' = [txn |-> txn, it |-> NewIterator(txn)]
  /\ cur' = [NoCursor EXCEPT !.ranges = buildRanges(index, query, page), !.limit = PassLimit]
  /\ pc' = "key"
  /\ start' = IF AtStart THEN Viewed ELSE start
  /\ UNCHANGED <<req, tables, own, page, left, results, total, theirs, dirty>>

Refuse ==
  /\ pc = "idle" /\ ~canAnswer(index, query)
  /\ pc' = "done"
  /\ UNCHANGED <<req, tables, own, store, cur, page, left, history>>

limitEnforced == cur.count >= cur.limit
\* The first range left.
range == CHOOSE r \in cur.ranges : \A q \in cur.ranges : IF desc THEN r.upper >= q.upper ELSE r.lower <= q.lower
from  == IF desc THEN range.upper ELSE range.lower
bound == IF desc THEN range.lower ELSE range.upper

match(key) == bound = EmptyKey \/ ((key >= bound) = desc)

\* Mutant: the position left is tested as in an ascending search.
KeptAnyway == cur.seek /\ cur.key # EmptyKey /\ cur.key >= from
\* The position that the previous range left is used if it is not before this one.
Kept == cur.seek /\ cur.key # EmptyKey /\ ((cur.key < from) = desc)

\* getKey of MojDbLevelQuery; a descending seek passes over its first key.
Move ==
  LET txn == store.txn
  IN CASE Kept -> store.it
       [] ~cur.seek -> IF desc THEN prev(txn, store.it) ELSE next(txn, store.it)
       [] cur.seek /\ ~Kept /\ from = EmptyKey -> IF desc THEN last(txn) ELSE first(txn)
       [] OTHER -> IF desc THEN prev(txn, seek(txn, from)) ELSE seek(txn, from)

\* Mutant: the range that was left is not passed over.
GetKeyStays ==
  /\ pc = "key" /\ ~limitEnforced /\ cur.ranges # {}
  /\ \E it \in {Move} :
       LET found == Kept \/ isValid(it)
           key   == IF Kept THEN cur.key ELSE getKey(it)
       IN /\ store' = [store EXCEPT !.it = it]
          /\ pc' = IF found /\ match(key) THEN "val" ELSE "key"
          /\ cur' = CASE ~found -> [cur EXCEPT !.seek = FALSE, !.ranges = {}]
                      [] found /\ match(key) -> [cur EXCEPT !.seek = FALSE, !.key = key]
                      [] OTHER -> [cur EXCEPT !.seek = TRUE, !.key = key]
  /\ UNCHANGED <<req, tables, own, page, left, history>>
\* One turn of the loop of MojDbIsamQuery::getKey.
GetKey ==
  /\ pc = "key" /\ ~limitEnforced /\ cur.ranges # {}
  /\ \E it \in {Move} :
       LET found == Kept \/ isValid(it)
           key   == IF Kept THEN cur.key ELSE getKey(it)
       IN /\ store' = [store EXCEPT !.it = it]
          /\ pc' = IF found /\ match(key) THEN "val" ELSE "key"
          /\ cur' = CASE ~found -> [cur EXCEPT !.seek = FALSE, !.ranges = {}]
                      [] found /\ match(key) -> [cur EXCEPT !.seek = FALSE, !.key = key]
                      [] OTHER -> [cur EXCEPT !.seek = TRUE, !.key = key, !.ranges = @ \ {range}]
  /\ UNCHANGED <<req, tables, own, page, left, history>>

idOf(key) == Back(key)

\* saveEndKey: the first key after the page, or the last one of a descending page.
EndKey(key) == IF desc THEN key ELSE increment(key)

\* The object of the key; keys without one are passed over and not counted.
GetVal ==
  /\ pc = "val"
  /\ IF View(idOf(cur.key)) = Absent
     THEN pc' = "key" /\ UNCHANGED <<cur, results>>
     ELSE LET full == cur.count + 1 >= cur.limit
          IN /\ cur' = [cur EXCEPT !.count = @ + 1,
                                   !.endKey = IF full THEN EndKey(cur.key) ELSE @,
                                   !.item = IF Writes THEN View(idOf(cur.key)) ELSE @]
             /\ results' = IF cur.counting THEN results ELSE Append(results, cur.key)
             /\ pc' = IF Writes THEN "item" ELSE "key"
  /\ UNCHANGED <<req, tables, own, store, page, left, total, start, theirs, dirty>>

\* What the request makes of an object.
Made(obj) == CASE req.op = "del"   -> [obj EXCEPT !.del = TRUE]
               [] req.op = "purge" -> Absent
               [] req.op = "merge" -> [obj EXCEPT !.p = MergeValues]

\* delObj and putObj of the item just returned, as it was read; whether the query still
\* selects it is not asked again.  putObj does nothing when nothing changes.
Apply ==
  /\ pc = "item"
  /\ IF Made(cur.item) = cur.item THEN UNCHANGED <<store, own>>
                                  ELSE Update(idOf(cur.key), cur.item, Made(cur.item))
  /\ pc' = "key" /\ cur' = [cur EXCEPT !.item = Absent]
  /\ UNCHANGED <<req, tables, page, left, history>>

NoMore ==
  /\ pc = "key" /\ (limitEnforced \/ cur.ranges = {})
  /\ pc' = "end"
  /\ UNCHANGED <<req, tables, own, store, cur, page, left, history>>

Commit ==
  /\ objs' = Viewed /\ own' = <<>>
  /\ idx' = (idx \ store.txn.deletes) \cup store.txn.inserts
  /\ store' = NewTxn({})

nextPage == IF limitEnforced THEN cur.endKey ELSE EmptyKey

\* After the first page the rest is counted, under the same cursor.
CountRest ==
  /\ pc = "end" /\ req.op = "count" /\ page = EmptyKey /\ ~cur.counting
  /\ pc' = "key"
  /\ cur' = [cur EXCEPT !.counting = TRUE, !.next = nextPage, !.limit = NoLimit]
  /\ UNCHANGED <<req, tables, own, store, page, left, history>>

\* The client asks for the next page in a message of its own.
NextPage ==
  /\ pc = "end" /\ ~Writes
  /\ (req.op = "count" /\ page = EmptyKey) => cur.counting
  /\ page' = IF cur.counting THEN cur.next ELSE nextPage
  /\ total' = IF cur.counting THEN cur.count ELSE total
  /\ pc' = IF page' = EmptyKey THEN "done" ELSE "idle"
  /\ cur' = NoCursor
  /\ Commit
  /\ UNCHANGED <<req, left, results, start, theirs, dirty>>

\* del by query goes on until a cursor returns nothing or the limit is used up,
\* and commits after a full batch.
NextPass ==
  /\ pc = "end" /\ req.op \in {"del", "purge"} /\ cur.count > 0
  /\ left' = left - cur.limit /\ left' > 0
  /\ pc' = "idle" /\ cur' = NoCursor
  /\ IF cur.count >= AutoBatchSize THEN Commit
     ELSE store' = [store EXCEPT !.it = NoIterator] /\ UNCHANGED <<tables, own>>
  /\ UNCHANGED <<req, page, results, total, start, theirs, dirty>>

Finish ==
  /\ pc = "end" /\ Writes
  /\ req.op # "merge" => cur.count = 0 \/ left <= cur.limit
  /\ Commit
  /\ pc' = "done" /\ cur' = NoCursor
  /\ UNCHANGED <<req, page, left, history>>

Run ==
  \/ Open \/ Refuse \/ GetKey \/ GetVal \/ Apply \/ NoMore
  \/ CountRest \/ NextPage \/ NextPass \/ Finish

Next == Run \/ \E i \in Ids, new \in Objects : EarlierWrite(i, new) \/ OtherWrite(i, new)

\* The thread of the request runs, and the client asks for all pages.
Spec == Init /\ [][Next]_vars /\ WF_vars(Run)

(***************************************************************************)
(* What a query selects, told from the objects and the clauses alone.         *)
(***************************************************************************)
Above(v, w) == Key(v) > Key(w)

Satisfies(v, clause) ==
  /\ CASE clause.lop = "none"   -> TRUE
       [] clause.lop = "eq"     -> v \in clause.lval
       [] clause.lop = "prefix" -> \E w \in clause.lval : IsPrefix(Front(w), v)
       [] clause.lop = "ne"     -> v \notin clause.lval
       [] clause.lop = "gt"     -> \A w \in clause.lval : Above(v, w)
       [] clause.lop = "ge"     -> \A w \in clause.lval : v = w \/ Above(v, w)
  /\ CASE clause.uop = "none" -> TRUE
       [] clause.uop = "lt"   -> \A w \in clause.uval : Above(w, v)
       [] clause.uop = "le"   -> \A w \in clause.uval : v = w \/ Above(w, v)

Selected(obj) ==
  /\ obj # Absent
  /\ obj.del => "_del" \in DOMAIN query.where /\ TrueValue \in query.where["_del"].lval

\* The index keys of object i, in the given state, that the query selects.
Matching(i, obj) ==
  IF ~Selected(obj) THEN {}
  ELSE UNION {ObjKeys(index, i, [obj EXCEPT !.p = {v}]) :
                v \in {w \in obj.p : "p" \in DOMAIN query.where => Satisfies(w, query.where["p"])}}

Expected == UNION {Matching(i, start[i]) : i \in Ids \ changed}
InOrder(s, strict) ==
  \A a, b \in DOMAIN s : a < b =>
    IF s[a] = s[b] THEN ~strict ELSE (s[a] < s[b]) = ~desc
Answered == pc = "done" /\ canAnswer(index, query)

(***************************************************************************)
(* Properties.                                                             *)
(***************************************************************************)
\* The kinds of values the state takes; a pending key is never also a deleted one
\* (MojDbLevelTableTxn), and a cursor returns no more than its limit.
TypeOK ==
  /\ req.op \in Ops /\ objs \in [Ids -> [p : SUBSET UNION {o.p : o \in Objects} \cup {MergeValues}, del : BOOLEAN]]
  /\ DOMAIN own \subseteq Ids
  /\ store.txn.inserts \cap store.txn.deletes = {}
  /\ store.it.db \in store.txn.snap \cup {Begin, End} /\ store.it.ins \in store.txn.inserts \cup {Begin, End}
  /\ pc \in {"idle", "key", "val", "item", "end", "done"}
  /\ cur.count <= cur.limit
  /\ left \in 0..NoLimit /\ changed \subseteq Ids

\* Whatever others commit in between and between the pages, each key that was
\* there for the whole search and is selected has been returned exactly once when
\* the last page is in, and the pages together are in the order of the index.
PagesCoverOnce ==
  Answered /\ ~Writes =>
    /\ \A k \in Expected : Cardinality({a \in DOMAIN results : results[a] = k}) = 1
    /\ \A a \in DOMAIN results : idOf(results[a]) \notin changed => results[a] \in Expected
    /\ InOrder(results, TRUE)

\* The end key of a page, which also bounds the watch of the query, has all the
\* keys returned so far on one side and those still to come on the other.
EndKeyDivides ==
  cur.endKey # EmptyKey /\ ~Writes =>
    /\ \A a \in DOMAIN results : (results[a] < cur.endKey) = ~desc
    /\ \A k \in Expected : (\E a \in DOMAIN results : results[a] = k) \/ (k >= cur.endKey) = ~desc

\* A count is that of all the keys selected, however small the page.
CountsAll == Answered /\ req.op = "count" /\ changed = {} => total = Cardinality(Expected)

\* The states in which the request may have met an object.
Met(i) == {start[i]} \cup {theirs[j] : j \in changed \cap {i}}

\* del, purge and merge by query reach every object selected, and no other, of those that
\* nobody else writes meanwhile.  One that others write is left as they wrote it, or it is
\* made of the state before or after that write, and only if one of the two was selected
\* (it may be the other one: the query is not asked again).  A key comes once, unless the
\* batch had written before or others write.
WritesReachAll ==
  Answered /\ Writes =>
    /\ \A i \in Ids \ changed :
         /\ query.limit = NoLimit /\ Matching(i, start[i]) # {} => objs[i] = Made(start[i])
         /\ Matching(i, start[i]) = {} => objs[i] = start[i]
    /\ \A i \in changed :
         \/ objs[i] = theirs[i]
         \/ /\ objs[i] \in {Made(o) : o \in Met(i) \ {Absent}}
            /\ \E o \in Met(i) : Matching(i, o) # {}
    /\ \A a \in DOMAIN results : \E o \in Met(idOf(results[a])) :
         results[a] \in Matching(idOf(results[a]), o) \cup Matching(idOf(results[a]), Made(o))
    /\ changed = {} => InOrder(results, dirty = "no")

\* Every search ends, also one whose own writes move objects ahead of its cursor.  When
\* others have written an object that del was about to write, the key they put stays in the
\* index with a deleted object, each pass finds it, and only the limit ends the deletion.
Terminates == <>(pc = "done")
=============================================================================
