---------------------------- MODULE MojDbQueryPlan ----------------------------
(***************************************************************************)
(* From a query to ranges of index keys: MojDbKey, MojDbKeyBuilder,          *)
(* MojDbIndex::getKeys and canAnswer, MojDbQueryPlan.                        *)
(*                                                                         *)
(* A key is a byte string.  It is written as a number of KeyLen digits, the   *)
(* bytes plus one followed by zeros, so that the lexical order of the strings *)
(* is the order of the numbers and 0 is the empty string.  ByteMax stands for *)
(* the byte 255: incrementing it carries into the byte before, as in the code. *)
(***************************************************************************)
EXTENDS Integers, FiniteSets, SequencesExt

CONSTANTS ByteMax,   \* the greatest byte
          KeyLen     \* the length of the longest key

ASSUME KeyAssumption == ByteMax \in Nat \ {0, 1, 2, 3, 4, 5} /\ KeyLen \in Nat \ {0}

Digits == ByteMax + 2
KeySpace == Digits ^ KeyLen     \* above every key
EmptyKey == 0

Weights == {Digits ^ i : i \in 0..(KeyLen - 1)}

\* The weight of the last byte of a nonempty key, and that byte.
Unit(key) == CHOOSE u \in Weights :
               key % u = 0 /\ (key \div u) % Digits # 0
Back(key) == ((key \div Unit(key)) % Digits) - 1

Key(bytes) ==
  LET value[i \in 0..Len(bytes)] == IF i = 0 THEN 0 ELSE value[i - 1] * Digits + bytes[i] + 1
  IN value[Len(bytes)] * Digits ^ (KeyLen - Len(bytes))

Sorted(keys) == [i \in 1..Cardinality(keys) |-> CHOOSE k \in keys : Cardinality({j \in keys : j < k}) = i - 1]

\* The smallest key above every key that extends this one.
increment(key) == IF key = EmptyKey THEN EmptyKey ELSE (key + Unit(key)) % KeySpace

PopZero(key) == IF Back(key) = 0 THEN key - Unit(key) ELSE key

(***************************************************************************)
(* Values as the object writer encodes them: the markers keep the order of    *)
(* MojObjectWriter, strings end with a zero.                                 *)
(***************************************************************************)
NullValue      == <<1>>
StringValue(s) == Append(<<2>> \o s, 0)
FalseValue     == <<3>>
TrueValue      == <<4>>
IntValue(n)    == <<5, n>>

\* All concatenations of one value of each member of the stack.
KeySet(stack) ==
  LET heads[i \in 0..Len(stack)] ==
        IF i = 0 THEN {<<>>} ELSE {h \o v : h \in heads[i - 1], v \in stack[i]}
  IN {Key(bytes) : bytes \in heads[Len(stack)]}

(***************************************************************************)
(* An index is [id, props, incDel]: a byte, property names, and whether it    *)
(* covers deleted objects; it has the property "_del" first then.  An object  *)
(* is [p |-> a set of values, del |-> a Boolean]; one with several values of   *)
(* its property (an array) has several keys.                                 *)
(***************************************************************************)
Absent == [p |-> {}, del |-> FALSE]

PropValues(obj, prop) ==
  IF prop = "_del" THEN {IF obj.del THEN TrueValue ELSE FalseValue} ELSE obj.p

includeObj(index, obj) == obj # Absent /\ (index.incDel \/ ~obj.del)

ObjKeys(index, id, obj) ==
  IF includeObj(index, obj)
  THEN KeySet(<<{<<index.id>>}>> \o [i \in DOMAIN index.props |-> PropValues(obj, index.props[i])]
              \o <<{<<id>>}>>)
  ELSE {}

(***************************************************************************)
(* A clause is [lop, lval, uop, uval]: operators "none", "eq", "ne", "gt",     *)
(* "ge", "prefix" below, "none", "lt", "le" above; sets of values, of which    *)
(* only "eq" and "prefix" may have several.  A query is [where, order, desc,   *)
(* limit], where being a function from property names to clauses.             *)
(***************************************************************************)
Clause(lop, lval, uop, uval) == [lop |-> lop, lval |-> lval, uop |-> uop, uval |-> uval]
NoClause == Clause("eq", {}, "none", {})

\* A search for deleted objects too is a clause with an array of both flags.
IncludeDeleted == Clause("eq", {FalseValue, TrueValue}, "none", {})

\* The result must be contiguous in the index.
canAnswer(index, query) ==
  LET where  == DOMAIN query.where
      skip   == IF index.incDel /\ "_del" \notin where THEN 1 ELSE 0
      n      == Cardinality(where)
      prop(i) == index.props[skip + i]
  IN /\ skip + n <= Len(index.props)
     /\ IF n = 0
        THEN skip < Len(index.props) /\ query.order = prop(1)
        ELSE /\ \A i \in 1..n : prop(i) \in where
             /\ \A i \in 1..(n - 1) : query.where[prop(i)].lop = "eq"
             /\ query.order \in where \cup {""}
                  \/ (skip + n < Len(index.props) /\ query.order = prop(n + 1))

(***************************************************************************)
(* Ranges.  The values of the clauses before the last one head all keys of a  *)
(* range; each head with a value of the last clause gives one or two ranges.  *)
(***************************************************************************)
KeyRange(lower, upper) == [lower |-> lower, upper |-> upper]

\* prefix is the head without the last value if the last clause is an inequality.
rangesFromKeys(clause, lower, upper, prefix) ==
  LET above == CASE clause.uop = "none" -> increment(prefix)
                 [] clause.uop = "le"   -> increment(upper)
                 [] clause.uop = "lt"   -> upper
  IN CASE clause.lop = "none"   -> {KeyRange(lower, above)}
       [] clause.lop = "prefix" -> {KeyRange(lower, increment(PopZero(prefix)))}
       [] clause.lop = "eq"     -> {KeyRange(lower, increment(prefix))}
       [] clause.lop = "ne"     -> {KeyRange(prefix, lower), KeyRange(increment(lower), increment(prefix))}
       [] clause.lop = "gt"     -> {KeyRange(increment(lower), above)}
       [] clause.lop = "ge"     -> {KeyRange(lower, above)}

ContainsRange(outer, inner) ==
  /\ outer.lower = EmptyKey \/ inner.lower >= outer.lower
  /\ outer.upper = EmptyKey \/ (inner.lower < outer.upper /\ inner.upper <= outer.upper)

\* A range before the page is dropped, one around its start is cut there.
Cut(ranges, page, desc) ==
  IF page = EmptyKey THEN ranges
  ELSE IF desc
  THEN {[r EXCEPT !.upper = IF @ = EmptyKey \/ page < @ THEN page ELSE @] :
          r \in {q \in ranges : q.lower = EmptyKey \/ page > q.lower}}
  ELSE {[r EXCEPT !.lower = IF @ = EmptyKey \/ page >= @ THEN page ELSE @] :
          r \in {q \in ranges : q.upper = EmptyKey \/ page <= q.upper}}

\* Of two ranges one of which lies in the other, as of a prefix and a longer one,
\* only the wider is searched.
Widest(ranges) == {r \in ranges : \A q \in ranges \ {r} : ~ContainsRange(q, r)}

\* The clause of a property; deleted objects are left out unless asked for.
ClauseOf(query, prop) ==
  IF prop \in DOMAIN query.where THEN query.where[prop] ELSE Clause("eq", {FalseValue}, "none", {})

Heads(index, query, n) ==
  CASE n = 0 -> {<<index.id>>}
    [] n = 1 -> {<<index.id>> \o v : v \in ClauseOf(query, index.props[1]).lval}

\* MojDbQueryPlan::init, buildRanges and rangesFromKeySets.
buildRanges(index, query, page) ==
  LET props == DOMAIN query.where \cup (IF index.incDel THEN {"_del"} ELSE {})
      n     == Cardinality(props)
  IN IF n = 0
     THEN Cut(rangesFromKeys(NoClause, Key(<<index.id>>), Key(<<index.id>>), Key(<<index.id>>)), page, query.desc)
     ELSE LET last == ClauseOf(query, index.props[n])
              lows == IF last.lop = "none" THEN {NullValue} ELSE last.lval
              upps(v) == IF last.uop = "none" THEN {v} ELSE last.uval
              prefix(h, v) == IF last.lop \in {"eq", "prefix"} THEN Key(h \o v) ELSE Key(h)
              rangesOf(h, v) == UNION {rangesFromKeys(last, Key(h \o v), Key(h \o w), prefix(h, v)) : w \in upps(v)}
          IN Widest(Cut(UNION {rangesOf(h, v) : h \in Heads(index, query, n - 1), v \in lows},
                        page, query.desc))
=============================================================================
