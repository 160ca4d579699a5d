------------------------------ MODULE MojDbSearch ------------------------------
(***************************************************************************)
(* Searching for text: the query as it is written and read (MojDbQuery), the   *)
(* values an index takes from an object (MojDbPropExtractor, MojDbTextTokenizer,*)
(* MojDbTextCollator), the groups of ranges, the filter (MojDbQueryFilter) and *)
(* the cursor that loads everything, sorts it and cuts a page out of it        *)
(* (MojDbSearchCursor), with the base 64 and the quick sort of MojUtil.         *)
(*                                                                         *)
(* Values and their order are those of MojObject.  Letters are 1..8, capitals   *)
(* 11..18, Space stands between words: where words end and what a collation    *)
(* makes of a letter is ICU's.  An id is text in base 64, a sequence of digits.  *)
(***************************************************************************)
EXTENDS MojObject, FiniteSets
LOCAL INSTANCE SequencesExt
LOCAL INSTANCE Functions

CONSTANTS
  QueryProps, QueryVals, QueryCollations,  \* what the queries an application makes speak of
  MaxClauses,                              \* bound: where and filter clauses of one query
  SearchIds, SearchObjects, SearchQueries, \* ids, what is stored under them, what is searched
  MaxSearchWrites                          \* bound: writes between the pages of one search

VARIABLES
  query,       \* a MojDbQuery
  sstore,      \* the objects
  squery,      \* the query of a search
  spage,       \* its m_page
  seen,        \* the ids the pages so far had
  sdone,       \* there is no next page
  touched,     \* ids written since
  lost         \* the page has lost its place
queryVars == <<query>>
searchVars == <<sstore, squery, spage, seen, sdone, touched, lost>>
-----------------------------------------------------------------------------
(* MojUtil. *)

RECURSIVE Encode64(_)
Encode64(b) ==
  CASE Len(b) = 0 -> <<>>
    [] Len(b) = 1 -> <<b[1] \div 4, (b[1] % 4) * 16>>
    [] Len(b) = 2 -> <<b[1] \div 4, (b[1] % 4) * 16 + b[2] \div 16, (b[2] % 16) * 4>>
    [] OTHER -> <<b[1] \div 4, (b[1] % 4) * 16 + b[2] \div 16, (b[2] % 16) * 4 + b[3] \div 64, b[3] % 64>>
                  \o Encode64(SubSeq(b, 4, Len(b)))

\* A character outside of the set, or one left over, is refused.
Decodes(s) == (\A i \in DOMAIN s : s[i] \in 0..63) /\ Len(s) % 4 # 1
RECURSIVE Decode64(_)
Decode64(s) ==
  LET d(i) == IF i <= Len(s) THEN s[i] ELSE 0
      bytes == <<d(1) * 4 + d(2) \div 16, (d(2) % 16) * 16 + d(3) \div 4, (d(3) % 4) * 64 + d(4)>> IN
    CASE Len(s) < 2 -> <<>>
      [] Len(s) \in 2..4 -> SubSeq(bytes, 1, Len(s) - 1)
      [] OTHER -> bytes \o Decode64(SubSeq(s, 5, Len(s)))

\* rand_r, seeded with the left end: any function of it.
MojRand(left) == 7 * left + 3
Swapped(s, i, j) == [s EXCEPT ![i] = s[j], ![j] = s[i]]
\* An item: [id, obj, keys]; keys are compared as the sets of MojRbTree are.
ItemLess(x, y) == CompareArrays(x.keys, y.keys) < 0
\* Positions left..right - 1; everything less than the pivot before it.
Partition(s, left, right) ==
  LET last == right - 1
      start == [s |-> Swapped(s, left + (MojRand(left) % (right - left)), last), mid |-> left]
      Step(p, i) == IF ItemLess(p.s[i], p.s[last]) THEN [s |-> Swapped(p.s, i, p.mid), mid |-> p.mid + 1] ELSE p
      end == FoldLeft(Step, start, [i \in 1..(last - left) |-> left + i - 1]) IN
    [s |-> Swapped(end.s, end.mid, last), mid |-> end.mid]
RECURSIVE QuickSort(_, _, _)
QuickSort(s, left, right) ==
  IF left + 1 >= right THEN s
  ELSE LET p == Partition(s, left, right) IN QuickSort(QuickSort(p.s, left, p.mid), p.mid + 1, right)
-----------------------------------------------------------------------------
(* MojDbQuery.  A clause: [lop, lval, uop, uval, coll]. *)

NoOp == "none"
ClauseNone == [lop |-> NoOp, lval |-> Undefined, uop |-> NoOp, uval |-> Undefined, coll |-> NoOp]
UpperOps == {"<", "<="}
AboveOps == {">", ">="}
ArrayOps == {"=", "%", "%%"}
DelProp0 == <<0>>      \* "_del"

\* setLower and setUpper: each bound once, and the collation of the other one.
BoundFits(c, op, coll) ==
  /\ (IF op \in UpperOps THEN c.uop ELSE c.lop) = NoOp
  /\ c.coll = NoOp \/ coll = c.coll
SetBound(c, op, val, coll) ==
  IF op \in UpperOps THEN [c EXCEPT !.uop = op, !.uval = val, !.coll = coll]
  ELSE [c EXCEPT !.lop = op, !.lval = val, !.coll = coll]
\* updateClause: only < or <= goes with > or >=.
Combines(c, op) ==
  \/ op \in UpperOps /\ c.lop \in {NoOp} \cup AboveOps
  \/ op \in AboveOps /\ c.uop \in {NoOp} \cup UpperOps

\* addClause, or why not.
ClauseOk(map, prop, op, val, coll) ==
  /\ val[1] = TypeArray => op \in ArrayOps
  /\ prop \in DOMAIN map => Combines(map[prop], op) /\ BoundFits(map[prop], op, coll)
WithClause(map, prop, op, val, coll) ==
  LET old == IF prop \in DOMAIN map THEN map[prop] ELSE ClauseNone IN
    [p \in DOMAIN map \cup {prop} |-> IF p = prop THEN SetBound(old, op, val, coll) ELSE map[p]]

NoClauses == [p \in {} |-> ClauseNone]
LimitDefault == 2147483647
NewQuery == [select |-> {}, where |-> NoClauses, filter |-> NoClauses, order |-> <<>>, distinct |-> <<>>,
             desc |-> FALSE, limit |-> LimitDefault, page |-> <<>>]

InNames(props) == SetToSortSeq(props, LAMBDA p, q : CompareBytes(p, q) < 0)

Spelt(p, op, val, coll) == [prop |-> p, op |-> op, val |-> val, coll |-> coll]

\* Mutant: a clause with two bounds is written with its first.
AppendClausesLower(map) ==
  FlattenSeq([i \in 1..Cardinality(DOMAIN map) |->
    LET p == InNames(DOMAIN map)[i]
        c == map[p] IN
      IF c.lop = NoOp THEN <<Spelt(p, c.uop, c.uval, c.coll)>> ELSE <<Spelt(p, c.lop, c.lval, c.coll)>>])

AppendClauses(map) ==
  FlattenSeq([i \in 1..Cardinality(DOMAIN map) |->
    LET p == InNames(DOMAIN map)[i]
        c == map[p] IN
      (IF c.lop = NoOp THEN <<>> ELSE <<Spelt(p, c.lop, c.lval, c.coll)>>)
        \o (IF c.uop = NoOp THEN <<>> ELSE <<Spelt(p, c.uop, c.uval, c.coll)>>)])

\* toObject: the members that are written.  The filter clauses put the where
\* clauses under "where" again.
ToObject(q) ==
  LET written == {k \in {"select", "where", "order", "distinct", "desc", "limit", "page"} :
        CASE k = "select" -> q.select # {}
          [] k = "where" -> q.where # NoClauses \/ q.filter # NoClauses
          [] k = "order" -> q.order # <<>>
          [] k = "distinct" -> q.distinct # <<>>
          [] k = "desc" -> q.desc
          [] k = "limit" -> q.limit # LimitDefault
          [] k = "page" -> q.page # <<>>} IN
    [k \in written |->
       CASE k = "select" -> InNames(q.select)
         [] k = "where" -> AppendClauses(q.where)
         [] k = "order" -> q.order
         [] k = "distinct" -> q.distinct
         [] k = "desc" -> TRUE
         [] k = "limit" -> q.limit
         [] k = "page" -> Encode64(q.page)]

\* addClauses, one by one; the query is refused for one that does not fit.
AddClauses(clauses) ==
  FoldLeft(LAMBDA r, c :
    IF r.ok /\ ClauseOk(r.map, c.prop, c.op, c.val, c.coll)
    THEN [r EXCEPT !.map = WithClause(@, c.prop, c.op, c.val, c.coll)] ELSE [r EXCEPT !.ok = FALSE],
    [ok |-> TRUE, map |-> NoClauses], clauses)

\* fromObject: a distinct property is the only one selected, and the order.
FromText(o) ==
  LET given(k, default) == IF k \in DOMAIN o THEN o[k] ELSE default
      distinct == given("distinct", <<>>) IN
    [select |-> IF distinct # <<>> THEN {distinct} ELSE Range(given("select", <<>>)),
     where |-> AddClauses(given("where", <<>>)).map, filter |-> AddClauses(given("filter", <<>>)).map,
     order |-> IF distinct # <<>> THEN distinct ELSE given("order", <<>>), distinct |-> distinct,
     desc |-> given("desc", FALSE), limit |-> given("limit", LimitDefault), page |-> Decode64(given("page", <<>>))]

\* where, filter, select, order, distinct, desc, limit, page, includeDeleted.
QueryInit == query = NewQuery
Clauses(q) == Cardinality(DOMAIN q.where) + Cardinality(DOMAIN q.filter)
QueryNext ==
  \/ \E p \in QueryProps, op \in UpperOps \cup AboveOps \cup ArrayOps \cup {"!=", "?"}, v \in QueryVals, c \in QueryCollations :
       /\ Clauses(query) < MaxClauses \/ p \in DOMAIN query.where
       /\ ClauseOk(query.where, p, op, v, c)
       /\ query' = [query EXCEPT !.where = WithClause(@, p, op, v, c)]
  \/ \E p \in QueryProps, op \in {">", "%%"}, v \in QueryVals :
       /\ Clauses(query) < MaxClauses
       /\ ClauseOk(query.filter, p, op, v, NoOp)
       /\ query' = [query EXCEPT !.filter = WithClause(@, p, op, v, NoOp)]
  \/ \E p \in QueryProps :
       query' \in {[query EXCEPT !.select = @ \cup {p}], [query EXCEPT !.order = p], [query EXCEPT !.distinct = p]}
  \/ query' \in {[query EXCEPT !.desc = TRUE], [query EXCEPT !.limit = 1], [query EXCEPT !.page = <<255, 16>>]}
  \/ /\ ClauseOk(query.where, DelProp0, "=", Push(EmptyArray, Null), NoOp)
     /\ query' = [query EXCEPT !.where = WithClause(@, DelProp0, "=", Push(EmptyArray, Null), NoOp)]
-----------------------------------------------------------------------------
(* The values of a property. *)

Space == 9
LetterOf(c, coll) == IF coll = "primary" /\ c > 10 THEN c - 10 ELSE c
Collated(v, coll) == IF v[1] = TypeString /\ coll # NoOp THEN <<TypeString, [i \in DOMAIN v[2] |-> LetterOf(v[2][i], coll)]>> ELSE v
Words(s) ==
  LET InWord(i, j) == \A k \in i..j : s[k] # Space
      Ends(i, j) == (i = 1 \/ s[i - 1] = Space) /\ (j = Len(s) \/ s[j + 1] = Space) IN
    {SubSeq(s, ij[1], ij[2]) : ij \in {x \in (1..Len(s)) \X (1..Len(s)) : x[1] <= x[2] /\ InWord(x[1], x[2]) /\ Ends(x[1], x[2])}}

\* An extractor: [tokenize, coll, default].
Extractor(tokenize, coll) == [tokenize |-> tokenize, coll |-> coll, default |-> {}]
Tokens(s, coll) == {Collated(<<TypeString, w>>, coll) : w \in Words(s)}

RECURSIVE PropVals(_, _, _)
HandleVal(v, path, x) ==
  IF Len(path) > 1 THEN PropVals(v, Tail(path), x)
  ELSE IF x.tokenize /\ v[1] = TypeString THEN Tokens(v[2], x.coll) ELSE {Collated(v, x.coll)}
Wildcard == <<42>>
PropVals(v, path, x) ==
  LET props == IF v[1] = TypeObject THEN Range(v[2]) ELSE {}
      found == {p[2] : p \in {q \in props : path[1] \in {q[1], Wildcard}}}
      vals == UNION {IF u[1] = TypeArray /\ path[1] # Wildcard THEN Range(u[2]) ELSE {u} : u \in found} IN
    IF found = {} /\ path[1] # Wildcard THEN x.default ELSE UNION {HandleVal(u, path, x) : u \in vals}
-----------------------------------------------------------------------------
(* MojDbQueryFilter. *)

IdProp == <<1>>        \* "_id", which an element of an array has been given

RECURSIVE FindValues(_, _)
FindValues(v, path) ==
  IF path = <<>> THEN IF v[1] = TypeArray THEN {DelProp(u, IdProp) : u \in Range(v[2])} ELSE {v}
  ELSE IF v[1] = TypeArray THEN UNION {FindValues(u, path) : u \in Range(v[2])}
  ELSE IF v[1] = TypeObject THEN UNION {FindValues(p[2], Tail(path)) : p \in {q \in Range(v[2]) : q[1] = path[1]}}
  ELSE {}

Upper(s) == [i \in DOMAIN s |-> LetterOf(s[i], "primary")]
RECURSIVE FindSubString(_, _)
FindSubString(v, sub) ==
  IF sub[1] = TypeArray THEN \E u \in Range(sub[2]) : FindSubString(v, u)
  ELSE /\ v[1] = TypeString /\ sub[1] = TypeString
       /\ \/ v[2] = <<>> /\ sub[2] = <<>>
          \/ v[2] # <<>> /\ sub[2] # <<>> /\ \E i \in DOMAIN v[2] : IsPrefix(Upper(sub[2]), Upper(SubSeq(v[2], i, Len(v[2]))))

TestLower(c, v) ==
  CASE c.lop = NoOp -> TRUE
    [] c.lop = "=" -> \E w \in (IF c.lval[1] = TypeArray THEN Range(c.lval[2]) ELSE {c.lval}) : EqualValues(v, w)
    [] c.lop = "!=" -> ~EqualValues(v, c.lval)
    [] c.lop = ">" -> CompareValues(v, c.lval) > 0
    [] c.lop = ">=" -> CompareValues(v, c.lval) >= 0
    [] c.lop = "%%" -> FindSubString(v, c.lval)
TestUpper(c, v) ==
  CASE c.uop = NoOp -> TRUE
    [] c.uop = "<" -> CompareValues(v, c.uval) < 0
    [] c.uop = "<=" -> CompareValues(v, c.uval) <= 0
\* Every clause holds of some value of its property.
FilterTest(filter, v) == \A p \in DOMAIN filter : \E u \in FindValues(v, <<p>>) : TestLower(filter[p], u) /\ TestUpper(filter[p], u)
-----------------------------------------------------------------------------
(* The ranges of a search.  A query: [prop, op, text, filter, order, distinct,  *)
(* desc, limit, coll]; op is "?" or "=".                                       *)

SortedVals(vals) == SetToSortSeq(vals, LAMBDA v, w : CompareValues(v, w) < 0)
StringPrefixOf(v, w) == w[1] = TypeString /\ IsPrefix(v[2], w[2])

\* Mutant: the prefixes stay among the words.
SearchWordsAll(q) == SortedVals(Tokens(q.text[2], q.coll))

\* pushSearch: the words in their order, without those that begin the next one.
PrefixesDropped(toks) ==
  FoldLeft(LAMBDA ws, i : IF i = Len(toks) \/ ~StringPrefixOf(toks[i], toks[i + 1]) THEN Append(ws, toks[i]) ELSE ws,
           <<>>, [i \in DOMAIN toks |-> i])
SearchWords(q) == PrefixesDropped(SortedVals(Tokens(q.text[2], q.coll)))

\* A range has its word's group; one inside the range before it is not added.
RangesOf(words) ==
  FoldLeft(LAMBDA rs, i : IF rs # <<>> /\ StringPrefixOf(rs[Len(rs)].word, words[i]) THEN rs
                          ELSE Append(rs, [word |-> words[i], group |-> (i - 1) % Len(words)]),
           <<>>, [i \in DOMAIN words |-> i])
SearchRanges(q) ==
  IF q.op = "=" THEN <<[word |-> Collated(q.text, q.coll), group |-> 0]>> ELSE RangesOf(SearchWords(q))
GroupCount(q) == IF q.op = "=" THEN 0 ELSE Len(SearchWords(q))

RangeHas(q, r, key) == IF q.op = "=" THEN key = r.word ELSE StringPrefixOf(r.word, key)
RangeIds(q, r) ==
  {id \in DOMAIN sstore :
     \E key \in PropVals(sstore[id], q.prop, Extractor(q.op = "?", q.coll)) : RangeHas(q, r, key)}

\* loadIds: no match unless every group is accounted for; then what is in all.
\* found: pairs of a group and an id in one of its ranges.
InAllGroups(q, found) ==
  LET groups == {f[1] : f \in found} IN
    IF groups = {} \/ ~(0..(GroupCount(q) - 1) \subseteq groups) THEN {}
    ELSE {f[2] : f \in {f \in found : \A g \in groups : <<g, f[2]>> \in found}}
LoadIds(q) == InAllGroups(q, UNION {{r.group} \X RangeIds(q, r) : r \in Range(SearchRanges(q))})
-----------------------------------------------------------------------------
(* MojDbSearchCursor. *)

OrderProp(q) == IF q.distinct # <<>> THEN q.distinct ELSE q.order
SortKeys(q, v) ==
  IF OrderProp(q) = <<>> THEN <<>>
  ELSE SortedVals(PropVals(v, OrderProp(q), Extractor(FALSE, IF q.coll = NoOp THEN "primary" ELSE q.coll)))

\* loadObjects, in the order of the ids.
ItemsOf(q, ids) == [i \in DOMAIN ids |-> [id |-> ids[i], obj |-> sstore[ids[i]], keys |-> SortKeys(q, sstore[ids[i]])]]
LoadObjects(q) == ItemsOf(q, InNames({id \in LoadIds(q) : FilterTest(q.filter, sstore[id])}))

DistinctItems(q, items) ==
  IF q.distinct = <<>> THEN items
  ELSE FoldLeft(LAMBDA ds, x : IF ds = <<>> \/ CompareArrays(ds[Len(ds)].keys, x.keys) # 0 THEN Append(ds, x) ELSE ds, <<>>, items)
SortedItems(q, items) == IF OrderProp(q) = <<>> THEN items ELSE QuickSort(items, 1, Len(items) + 1)
Directed(q, items) == IF q.desc THEN Reverse(items) ELSE items

Loaded(q) == Directed(q, DistinctItems(q, SortedItems(q, LoadObjects(q))))

\* m_page.fromObject: an id that is not base 64 leaves the page as it was.
PageOf(id, page) == IF Decodes(id) THEN Decode64(id) ELSE page

\* setPagePosition, or the beginning: where the page starts, and the next one.
PageStart(items, page) ==
  IF page = <<>> THEN 1
  ELSE LET at == {i \in DOMAIN items : items[i].id = Encode64(page)} IN
         IF at = {} THEN Len(items) + 1 ELSE CHOOSE i \in at : \A j \in at : i <= j
NextPage(items, page, limit) ==
  LET from == PageStart(items, page)
      rest == Len(items) - from + 1 IN
    IF page # <<>> /\ rest = 0 THEN page
    ELSE IF limit >= rest THEN <<>> ELSE PageOf(items[from + limit].id, page)
PageIds(items, page, limit) ==
  LET from == PageStart(items, page)
      rest == Len(items) - from + 1 IN
    [i \in 1..(IF limit < rest THEN limit ELSE rest) |-> items[from + i - 1].id]
-----------------------------------------------------------------------------
SearchInit ==
  /\ sstore \in UNION {[ids -> SearchObjects] : ids \in SUBSET SearchIds}
  /\ squery \in SearchQueries
  /\ spage = <<>> /\ seen = <<>> /\ sdone = FALSE /\ touched = {} /\ lost = FALSE

\* search: the page asked for, and the id the next one begins with.
SearchPage ==
  /\ ~sdone /\ ~lost
  /\ \E items \in {Loaded(squery)} :
    /\ seen' = seen \o PageIds(items, spage, squery.limit)
    /\ spage' = NextPage(items, spage, squery.limit)
    /\ sdone' = (spage' = <<>>)
    /\ lost' = (~sdone' /\ Encode64(spage') \notin {items[i].id : i \in DOMAIN items})
    /\ UNCHANGED <<sstore, squery, touched>>

\* A put or a del between two pages.
SearchWrite ==
  \E id \in SearchIds :
    /\ ~sdone /\ ~lost /\ seen # <<>> /\ Cardinality(touched) < MaxSearchWrites
    /\ \/ \E v \in SearchObjects : sstore' = [i \in DOMAIN sstore \cup {id} |-> IF i = id THEN v ELSE sstore[i]]
       \/ id \in DOMAIN sstore /\ sstore' = [i \in DOMAIN sstore \ {id} |-> sstore[i]]
    /\ touched' = touched \cup {id}
    /\ lost' = (spage # <<>> /\ id = Encode64(spage))
    /\ UNCHANGED <<squery, spage, seen, sdone>>

SearchNext == SearchPage \/ SearchWrite
-----------------------------------------------------------------------------
(* Properties. *)

\* What is written of a query is read as the same query; one with a distinct
\* property has nothing else selected and no other order.  (The filter is not
\* written, and operator== does not look at it.)
QueryReadBack ==
  LET d == query.distinct
      meant == IF d = <<>> THEN query ELSE [query EXCEPT !.select = {d}, !.order = d] IN
    /\ AddClauses(AppendClauses(query.where)).ok
    /\ FromText(ToObject(query)) = [meant EXCEPT !.filter = NoClauses]

\* The same of the whole query.
QueryFilterReadBack == FromText(ToObject(query)).filter = query.filter

\* Does an object have, for each word of the text, a word that begins so.
Matches(q, v) ==
  /\ FilterTest(q.filter, v)
  /\ IF q.op = "=" THEN Collated(q.text, q.coll) \in PropVals(v, q.prop, Extractor(FALSE, q.coll))
     ELSE /\ Words(q.text[2]) # {}
          /\ \A w \in Tokens(q.text[2], q.coll) :
               \E u \in PropVals(v, q.prop, Extractor(TRUE, q.coll)) : u[1] = TypeString /\ IsPrefix(w[2], u[2])

SeenIds == Range(seen)

\* The pages of a search show every object that matches exactly once, in order,
\* and nothing else.  A write between two pages takes away what it writes, and at
\* most objects whose place in the order other objects share, as long as the
\* object the next page begins with stays.
SearchPagesCover ==
  LET untouched == {id \in DOMAIN sstore \ touched : Matches(squery, sstore[id])}
      Shared(id, ids) == OrderProp(squery) # <<>> /\ \E j \in ids \ {id} : SortKeys(squery, sstore[j]) = SortKeys(squery, sstore[id]) IN
    /\ touched = {} => \A id \in SeenIds : Matches(squery, sstore[id])
    /\ touched = {} => \A i, j \in DOMAIN seen : i < j =>
         /\ seen[i] # seen[j]
         /\ LET d == CompareArrays(SortKeys(squery, sstore[seen[i]]), SortKeys(squery, sstore[seen[j]])) IN
              (IF squery.desc THEN d >= 0 ELSE d <= 0) /\ (squery.distinct # <<>> => d # 0)
    /\ sdone => \A id \in untouched :
         \/ id \in SeenIds
         \/ touched = {} /\ squery.distinct # <<>> /\ Shared(id, SeenIds)
         \/ touched # {} /\ (squery.distinct # <<>> \/ Shared(id, DOMAIN sstore))
=============================================================================
