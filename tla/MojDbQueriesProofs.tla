-------------------------- MODULE MojDbQueriesProofs --------------------------
(***************************************************************************)
(* The cut of the ranges at a page, and the steps of the iterator of a       *)
(* transaction, for any keys.                                              *)
(***************************************************************************)
EXTENDS MojDbQueryPlan, MojDbLevelTxnIterator, MojDbAdmin, FiniteSetTheorems, WellFoundedInduction, TLAPS

(***************************************************************************)
(* Pages.                                                                  *)
(***************************************************************************)
\* A key lies in a range: not below its lower key and below its upper key, where
\* an empty key is no bound.
InRange(key, r) == /\ r.lower = EmptyKey \/ key >= r.lower
                   /\ r.upper = EmptyKey \/ key < r.upper

Ranges == [lower : Nat, upper : Nat]

\* addRange: in an ascending search the ranges of the next page hold the keys of the
\* query from the page key on, and no other.
THEOREM CutAscending ==
  ASSUME NEW ranges, ranges \subseteq Ranges, NEW page \in Nat \ {EmptyKey}, NEW key \in Nat \ {EmptyKey}
  PROVE  (\E r \in Cut(ranges, page, FALSE) : InRange(key, r))
           <=> key >= page /\ \E r \in ranges : InRange(key, r)
PROOF
<1> DEFINE cut(r) == [r EXCEPT !.lower = IF r.lower = EmptyKey \/ page >= r.lower THEN page ELSE r.lower]
           kept   == {q \in ranges : q.upper = EmptyKey \/ page <= q.upper}
<1>1. Cut(ranges, page, FALSE) = {cut(r) : r \in kept}
  BY DEF Cut
<1>2. ASSUME NEW r \in kept
      PROVE  InRange(key, cut(r)) <=> key >= page /\ InRange(key, r)
  BY <1>2 DEF InRange, Ranges, EmptyKey
<1>3. ASSUME NEW r \in ranges, key >= page, InRange(key, r)
      PROVE  r \in kept
  BY <1>3 DEF InRange, Ranges, EmptyKey
<1> HIDE DEF cut, kept
<1>4. kept \subseteq ranges
  BY DEF kept
<1>5. ASSUME NEW q \in Cut(ranges, page, FALSE), InRange(key, q)
      PROVE  key >= page /\ \E r \in ranges : InRange(key, r)
  <2>1. PICK r \in kept : q = cut(r)
    BY <1>1, <1>5
  <2> QED BY <2>1, <1>2, <1>4, <1>5
<1>6. ASSUME key >= page, NEW r \in ranges, InRange(key, r)
      PROVE  \E q \in Cut(ranges, page, FALSE) : InRange(key, q)
  <2>1. r \in kept /\ InRange(key, cut(r))
    BY <1>2, <1>3, <1>6
  <2>2. cut(r) \in Cut(ranges, page, FALSE)
    BY <2>1, <1>1
  <2> QED BY <2>1, <2>2
<1> QED BY <1>5, <1>6

\* addRange: in a descending search they hold the keys below the page key.
THEOREM CutDescending ==
  ASSUME NEW ranges, ranges \subseteq Ranges, NEW page \in Nat \ {EmptyKey}, NEW key \in Nat \ {EmptyKey}
  PROVE  (\E r \in Cut(ranges, page, TRUE) : InRange(key, r))
           <=> key < page /\ \E r \in ranges : InRange(key, r)
PROOF
<1> DEFINE cut(r) == [r EXCEPT !.upper = IF r.upper = EmptyKey \/ page < r.upper THEN page ELSE r.upper]
           kept   == {q \in ranges : q.lower = EmptyKey \/ page > q.lower}
<1>1. Cut(ranges, page, TRUE) = {cut(r) : r \in kept}
  BY DEF Cut
<1>2. ASSUME NEW r \in kept
      PROVE  InRange(key, cut(r)) <=> key < page /\ InRange(key, r)
  BY <1>2 DEF InRange, Ranges, EmptyKey
<1>3. ASSUME NEW r \in ranges, key < page, InRange(key, r)
      PROVE  r \in kept
  BY <1>3 DEF InRange, Ranges, EmptyKey
<1> HIDE DEF cut, kept
<1>4. kept \subseteq ranges
  BY DEF kept
<1>5. ASSUME NEW q \in Cut(ranges, page, TRUE), InRange(key, q)
      PROVE  key < page /\ \E r \in ranges : InRange(key, r)
  <2>1. PICK r \in kept : q = cut(r)
    BY <1>1, <1>5
  <2> QED BY <2>1, <1>2, <1>4, <1>5
<1>6. ASSUME key < page, NEW r \in ranges, InRange(key, r)
      PROVE  \E q \in Cut(ranges, page, TRUE) : InRange(key, q)
  <2>1. r \in kept /\ InRange(key, cut(r))
    BY <1>2, <1>3, <1>6
  <2>2. cut(r) \in Cut(ranges, page, TRUE)
    BY <2>1, <1>1
  <2> QED BY <2>1, <2>2
<1> QED BY <1>5, <1>6

(***************************************************************************)
(* The iterator.                                                           *)
(***************************************************************************)
Keys == 1..(End - 1)

LessThan == {ss \in Nat \X Nat : ss[1] < ss[2]}

\* A set of naturals that is not empty has a least member.
LEMMA Least ==
  ASSUME NEW T, T \subseteq Nat, T # {}
  PROVE  \E x \in T : \A y \in T : x <= y
PROOF
<1>1. IsWellFoundedOn(LessThan, Nat)
  BY NatLessThanWellFounded, Zenon DEF OpToRel, LessThan
<1>2. PICK x \in T : \A y \in T : <<y, x>> \notin LessThan
  BY <1>1, WFMin, Zenon
<1>3. \A a, b \in Nat : a < b => <<a, b>> \in LessThan
  BY DEF LessThan
<1>4. ASSUME NEW y \in T PROVE x <= y
  <2>1. x \in Nat /\ y \in Nat
    BY <1>4
  <2>2. ~ y < x
    BY <2>1, <1>2, <1>3, Zenon
  <2> QED BY <2>1, <2>2
<1> QED BY <1>4

\* ++ of either iterator: the least key after the position, or the end.
LEMMA AfterIsNext ==
  ASSUME NEW keys, keys \subseteq Keys, NEW pos \in Int
  PROVE  /\ After(keys, pos) \in keys \cup {End}
         /\ After(keys, pos) \in keys => After(keys, pos) > pos
         /\ \A k \in keys : k > pos => After(keys, pos) <= k
PROOF
<1> DEFINE later == {k \in keys : k > pos}
<1> USE EndAssumption DEF Keys
<1>1. CASE later = {}
  BY <1>1 DEF After
<1>2. CASE later # {}
  <2>1. \A k \in keys : k \in Nat
    OBVIOUS
  <2>2. PICK x \in later : \A y \in later : x <= y
    <3>1. later \subseteq Nat
      BY <2>1
    <3> HIDE DEF later
    <3> QED BY <1>2, <3>1, Least
  <2>3. x \in keys /\ x > pos /\ \A j \in keys : j > pos => x <= j
    BY <2>2
  <2> HIDE DEF later
  <2> QED BY <2>3 DEF After
<1> QED BY <1>1, <1>2

\* -- of either iterator: the greatest key before the position, or the begin.
LEMMA BeforeIsPrevious ==
  ASSUME NEW keys, keys \subseteq Keys, NEW pos \in Int
  PROVE  /\ Before(keys, pos) \in keys \cup {Begin}
         /\ Before(keys, pos) \in keys => Before(keys, pos) < pos
         /\ \A k \in keys : k < pos => Before(keys, pos) >= k
PROOF
<1> DEFINE earlier == {k \in keys : k < pos}
           below   == {End - k : k \in earlier}
<1> USE EndAssumption DEF Keys
<1>1. CASE earlier = {}
  BY <1>1 DEF Before, Begin
<1>2. CASE earlier # {}
  <2>1. \A k \in keys : k \in Nat /\ End - k \in Nat
    OBVIOUS
  <2>2. PICK x \in below : \A y \in below : x <= y
    <3>1. below \subseteq Nat /\ below # {}
      BY <2>1, <1>2
    <3> HIDE DEF below
    <3> QED BY <3>1, Least
  <2>3. PICK k \in earlier : x = End - k
    BY <2>2
  <2>4. \A j \in earlier : End - k <= End - j
    BY <2>2, <2>3
  <2>5. k \in keys /\ k < pos /\ \A j \in keys : j < pos => k >= j
    BY <2>3, <2>4
  <2> HIDE DEF earlier, below
  <2> QED BY <2>5 DEF Before
<1> QED BY <1>1, <1>2

\* Only one position is the next one.
LEMMA AfterIs ==
  ASSUME NEW keys, keys \subseteq Keys, NEW pos \in Int, NEW a \in keys \cup {End},
         a \in keys => a > pos, \A k \in keys : k > pos => a <= k
  PROVE  After(keys, pos) = a
PROOF
<1> DEFINE b == After(keys, pos)
<1>1. End \in Int /\ \A k \in keys : k \in Int /\ k < End
  BY EndAssumption DEF Keys
<1>2. /\ b \in keys \cup {End}
      /\ b \in keys => b > pos
      /\ \A k \in keys : k > pos => b <= k
  BY AfterIsNext
<1> HIDE DEF b
<1>3. b = a
  <2>1. CASE a \in keys /\ b \in keys
    BY <1>1, <1>2, <2>1
  <2>2. CASE a \in keys /\ b = End
    BY <1>1, <1>2, <2>2
  <2>3. CASE a = End /\ b \in keys
    BY <1>1, <1>2, <2>3
  <2> QED BY <1>2, <2>1, <2>2, <2>3
<1> QED BY <1>3 DEF b

\* From just before a key: the key, or what comes after it.
LEMMA FromKey ==
  ASSUME NEW keys, keys \subseteq Keys, NEW key \in Keys, NEW p, p = After(keys, key - 1)
  PROVE  /\ p \in Int /\ key <= p
         /\ key \in keys => p = key
         /\ key \notin keys => p # key /\ p = After(keys, key)
PROOF
<1>1. /\ key \in Int /\ key - 1 \in Int /\ End \in Int /\ key < End
      /\ \A k \in keys : k \in Int /\ k < End /\ (k > key - 1 <=> k >= key)
  BY EndAssumption DEF Keys
<1>2. /\ p \in keys \cup {End}
      /\ p \in keys => p > key - 1
      /\ \A k \in keys : k > key - 1 => p <= k
  BY <1>1, AfterIsNext
<1>3. p \in Int /\ key <= p
  <2>1. CASE p \in keys
    BY <1>1, <1>2, <2>1
  <2>2. CASE p = End
    BY <1>1, <2>2
  <2> QED BY <1>2, <2>1, <2>2
<1>4. ASSUME key \in keys PROVE p = key
  <2>1. p <= key
    BY <1>1, <1>2, <1>4
  <2> QED BY <2>1, <1>1, <1>3
<1>5. ASSUME key \notin keys PROVE p # key /\ p = After(keys, key)
  <2>1. p # key
    BY <1>1, <1>2, <1>5
  <2>2. /\ p \in keys => p > key
        /\ \A k \in keys : k > key => p <= k
    BY <1>1, <1>2, <1>3, <2>1
  <2>3. After(keys, key) = p
    BY <1>1, <1>2, <2>2, AfterIs
  <2> QED BY <2>1, <2>3
<1> QED BY <1>3, <1>4, <1>5

\* A transaction as the iterator sees it.
Txns == [snap : SUBSET Keys, inserts : SUBSET Keys, deletes : SUBSET Keys]
Merged(txn) == Live(txn) \cup txn.inserts

\* The keys of a transaction, stored, pending or both, lie between Begin and End.
LEMMA TxnKeys ==
  ASSUME NEW txn \in Txns
  PROVE  /\ Live(txn) \subseteq Keys /\ txn.inserts \subseteq Keys /\ Merged(txn) \subseteq Keys
         /\ \A k \in Keys : k \in Int /\ 0 < k /\ k < End
BY EndAssumption DEF Txns, Live, Merged, Keys

\* seek: the iterator stands on the least key, stored or pending and not deleted,
\* that is not below the one sought, or it has ended.
THEOREM SeekFinds ==
  ASSUME NEW txn \in Txns, NEW key \in Keys
  PROVE  getKey(seek(txn, key)) = After(Merged(txn), key - 1)
PROOF
<1> DEFINE d == After(Live(txn), key - 1)
           i == After(txn.inserts, key - 1)
<1>1. key - 1 \in Int /\ End \in Int
  BY TxnKeys, EndAssumption
<1>2. /\ d \in Live(txn) \cup {End}
      /\ d \in Live(txn) => d > key - 1
      /\ \A k \in Live(txn) : k > key - 1 => d <= k
  BY <1>1, TxnKeys, AfterIsNext
<1>3. /\ i \in txn.inserts \cup {End}
      /\ i \in txn.inserts => i > key - 1
      /\ \A k \in txn.inserts : k > key - 1 => i <= k
  BY <1>1, TxnKeys, AfterIsNext
<1>5. getKey(seek(txn, key)) = IF d <= i THEN d ELSE i
  BY DEF getKey, seek, Iterator
<1> HIDE DEF d, i
<1>6. End \in Int /\ \A k \in Keys : k \in Int /\ k < End
  BY TxnKeys, EndAssumption
<1>7. Live(txn) \subseteq Keys /\ txn.inserts \subseteq Keys /\ Merged(txn) \subseteq Keys
  BY TxnKeys
<1>8. CASE d <= i
  <2>1. d \in Merged(txn) \cup {End} /\ (d \in Merged(txn) => d > key - 1)
    BY <1>2, <1>3, <1>6, <1>7, <1>8 DEF Merged
  <2>2. ASSUME NEW k \in Merged(txn), k > key - 1 PROVE d <= k
    BY <1>2, <1>3, <1>6, <1>7, <1>8, <2>2 DEF Merged
  <2>3. After(Merged(txn), key - 1) = d
    BY <1>1, <1>7, <2>1, <2>2, AfterIs
  <2> QED BY <1>5, <1>8, <2>3
<1>9. CASE ~ d <= i
  <2>1. i \in Merged(txn) \cup {End} /\ (i \in Merged(txn) => i > key - 1)
    BY <1>2, <1>3, <1>6, <1>7, <1>9 DEF Merged
  <2>2. ASSUME NEW k \in Merged(txn), k > key - 1 PROVE i <= k
    BY <1>2, <1>3, <1>6, <1>7, <1>9, <2>2 DEF Merged
  <2>3. After(Merged(txn), key - 1) = i
    BY <1>1, <1>7, <2>1, <2>2, AfterIs
  <2> QED BY <1>5, <1>9, <2>3
<1> QED BY <1>8, <1>9

\* The positions of an iterator are those it is made of.
LEMMA Fields ==
  ASSUME NEW db, NEW ins, NEW dir, NEW invalid
  PROVE  /\ Iterator(db, ins, dir, invalid).db = db
         /\ Iterator(db, ins, dir, invalid).ins = ins
         /\ Iterator(db, ins, dir, invalid).dir = dir
         /\ Iterator(db, ins, dir, invalid).invalid = invalid
BY DEF Iterator

\* The walk on from a key that both positions have reached or passed.
LEMMA OnFromKey ==
  ASSUME NEW txn, NEW key \in Keys, NEW d, NEW i,
         d \in Int /\ key <= d /\ i \in Int /\ key <= i /\ (d = key \/ i = key)
  PROVE  next(txn, Iterator(d, i, "next", "no"))
           = Iterator(IF d = key THEN After(Live(txn), key) ELSE d,
                      IF i = key THEN After(txn.inserts, key) ELSE i, "next", "no")
PROOF
<1> DEFINE it == Iterator(d, i, "next", "no")
<1>1. it.db = d /\ it.ins = i /\ it.dir = "next" /\ it.invalid = "no"
  BY Fields
<1> HIDE DEF it
<1>2. key \in Int /\ 0 < key
  BY EndAssumption DEF Keys
<1>3. ~isBegin(it)
  BY <1>1, <1>2 DEF isBegin, Begin
<1>4. next(txn, it) = Advance(txn, it)
  BY <1>1, <1>3 DEF next
<1>5. Advance(txn, it) = Iterator(IF d <= i THEN After(Live(txn), d) ELSE d,
                                  IF i <= d THEN After(txn.inserts, i) ELSE i, "next", "no")
  BY <1>1 DEF Advance
<1>6. /\ (IF d <= i THEN After(Live(txn), d) ELSE d) = IF d = key THEN After(Live(txn), key) ELSE d
      /\ (IF i <= d THEN After(txn.inserts, i) ELSE i) = IF i = key THEN After(txn.inserts, key) ELSE i
  BY <1>2
<1> QED BY <1>4, <1>5, <1>6 DEF it

\* next: from a key the iterator moves to where a seek for its successor goes.
THEOREM NextIsSeek ==
  ASSUME NEW txn \in Txns, NEW key \in Merged(txn)
  PROVE  next(txn, seek(txn, key)) = seek(txn, key + 1)
PROOF
<1> DEFINE d == After(Live(txn), key - 1)
           i == After(txn.inserts, key - 1)
<1>1. key \in Keys /\ key \in Int
  BY TxnKeys
<1>2. /\ d \in Int /\ key <= d
      /\ key \in Live(txn) => d = key
      /\ key \notin Live(txn) => d # key /\ d = After(Live(txn), key)
  BY <1>1, TxnKeys, FromKey
<1>3. /\ i \in Int /\ key <= i
      /\ key \in txn.inserts => i = key
      /\ key \notin txn.inserts => i # key /\ i = After(txn.inserts, key)
  BY <1>1, TxnKeys, FromKey
<1>4. seek(txn, key) = Iterator(d, i, "next", "no")
  BY DEF seek
<1>5. seek(txn, key + 1) = Iterator(After(Live(txn), key), After(txn.inserts, key), "next", "no")
  BY <1>1 DEF seek
<1>6. key \in Live(txn) \/ key \in txn.inserts
  BY DEF Merged
<1> HIDE DEF d, i
<1>7. next(txn, seek(txn, key)) = Iterator(IF d = key THEN After(Live(txn), key) ELSE d,
                                           IF i = key THEN After(txn.inserts, key) ELSE i, "next", "no")
  <2>1. d \in Int /\ key <= d /\ i \in Int /\ key <= i /\ (d = key \/ i = key)
    BY <1>2, <1>3, <1>6
  <2>2. next(txn, Iterator(d, i, "next", "no"))
          = Iterator(IF d = key THEN After(Live(txn), key) ELSE d,
                     IF i = key THEN After(txn.inserts, key) ELSE i, "next", "no")
    BY <1>1, <2>1, OnFromKey
  <2> QED BY <1>4, <2>2, Zenon
<1>8. /\ (IF d = key THEN After(Live(txn), key) ELSE d) = After(Live(txn), key)
      /\ (IF i = key THEN After(txn.inserts, key) ELSE i) = After(txn.inserts, key)
  BY <1>2, <1>3
<1> QED BY <1>5, <1>7, <1>8, Zenon

\* What is not ahead may go without moving the next position.
LEMMA AfterWithout ==
  ASSUME NEW keys, keys \subseteq Keys, NEW key \in Keys
  PROVE  After(keys \ {key}, key) = After(keys, key)
PROOF
<1> DEFINE a == After(keys, key)
<1>1. key \in Int
  BY EndAssumption DEF Keys
<1>2. /\ a \in keys \cup {End}
      /\ a \in keys => a > key
      /\ \A k \in keys : k > key => a <= k
  BY <1>1, AfterIsNext
<1> HIDE DEF a
<1>3. a \in (keys \ {key}) \cup {End}
  BY <1>1, <1>2
<1>4. keys \ {key} \subseteq Keys
  OBVIOUS
<1>5. After(keys \ {key}, key) = a
  BY <1>1, <1>2, <1>3, <1>4, AfterIs
<1> QED BY <1>5 DEF a

\* notifyDelete: when the object under the cursor is deleted, or moved to another key,
\* the next key is the one after it, of what is left, neither twice nor passed over.
THEOREM DeleteThenNext ==
  ASSUME NEW txn \in Txns, NEW key \in Merged(txn), NEW s,
         s = Delete([txn |-> txn, it |-> seek(txn, key)], key)
  PROVE  next(s.txn, s.it) = seek(s.txn, key + 1)
PROOF
<1> DEFINE d == After(Live(txn), key - 1)
           i == After(txn.inserts, key - 1)
           t == [snap |-> txn.snap, inserts |-> txn.inserts \ {key}, deletes |-> txn.deletes \cup {key}]
           it == notifyDelete(txn, seek(txn, key), key)
<1>1. key \in Keys /\ key \in Int /\ 0 < key
  BY TxnKeys
<1>2. /\ d \in Int /\ key <= d
      /\ key \in Live(txn) => d = key
      /\ key \notin Live(txn) => d # key /\ d = After(Live(txn), key)
  BY <1>1, TxnKeys, FromKey
<1>3. /\ i \in Int /\ key <= i
      /\ key \in txn.inserts => i = key
      /\ key \notin txn.inserts => i # key /\ i = After(txn.inserts, key)
  BY <1>1, TxnKeys, FromKey
<1>4. seek(txn, key) = Iterator(d, i, "next", "no")
  BY DEF seek
<1>5. s.txn = t /\ s.it = it
  BY DEF Delete
<1>6. Live(t) = Live(txn) \ {key} /\ t.inserts = txn.inserts \ {key}
  BY DEF Live
<1>7. /\ After(Live(t), key) = After(Live(txn), key)
      /\ After(t.inserts, key) = After(txn.inserts, key)
  BY <1>1, <1>6, TxnKeys, AfterWithout
<1>8. seek(t, key + 1) = Iterator(After(Live(t), key), After(t.inserts, key), "next", "no")
  BY <1>1 DEF seek
<1> HIDE DEF d, i, t
<1>9. CASE key \in txn.inserts
  <2> DEFINE db == After(Live(txn), key)
             ins == After(txn.inserts, key)
  <2>1. it = Iterator(IF d = key THEN db ELSE d, ins, "next", "yes")
    BY <1>3, <1>4, <1>9, Fields DEF notifyDelete
  <2>2. (IF d = key THEN db ELSE d) = db
    BY <1>2
  <2>3. it.db = db /\ it.ins = ins /\ it.dir = "next" /\ it.invalid = "yes"
    BY <2>1, <2>2, Fields
  <2>4. db # Begin
    BY <1>1, TxnKeys, AfterIsNext, EndAssumption DEF Begin
  <2> HIDE DEF it, db, ins
  <2>5. next(t, it) = Iterator(db, ins, "next", "no")
    BY <2>3, <2>4 DEF next, isBegin
  <2> QED BY <2>5, <1>5, <1>7, <1>8 DEF db, ins
<1>10. CASE key \notin txn.inserts
  <2>1. d = key /\ i # key
    BY <1>2, <1>3, <1>10 DEF Merged
  <2>2. it = Iterator(d, i, "next", "no")
    BY <1>4, <2>1, Fields DEF notifyDelete
  <2> HIDE DEF it
  <2>3. next(t, it) = Iterator(After(Live(t), key), i, "next", "no")
    BY <1>1, <1>2, <1>3, <2>1, <2>2, OnFromKey
  <2> QED BY <2>3, <1>3, <1>5, <1>7, <1>8, <1>10
<1> QED BY <1>9, <1>10

(***************************************************************************)
(* Descending.                                                             *)
(***************************************************************************)
\* Only one position is the previous one.
LEMMA BeforeIs ==
  ASSUME NEW keys, keys \subseteq Keys, NEW pos \in Int, NEW a \in keys \cup {Begin},
         a \in keys => a < pos, \A k \in keys : k < pos => a >= k
  PROVE  Before(keys, pos) = a
PROOF
<1> DEFINE b == Before(keys, pos)
<1>1. Begin \in Int /\ \A k \in keys : k \in Int /\ k > Begin
  BY EndAssumption DEF Keys, Begin
<1>2. /\ b \in keys \cup {Begin}
      /\ b \in keys => b < pos
      /\ \A k \in keys : k < pos => b >= k
  BY BeforeIsPrevious
<1> HIDE DEF b
<1>3. b = a
  <2>1. CASE a \in keys /\ b \in keys
    BY <1>1, <1>2, <2>1
  <2>2. CASE a \in keys /\ b = Begin
    BY <1>1, <1>2, <2>2
  <2>3. CASE a = Begin /\ b \in keys
    BY <1>1, <1>2, <2>3
  <2> QED BY <1>2, <2>1, <2>2, <2>3
<1> QED BY <1>3 DEF b

\* Going back from where a key was found, or should have been, leads before it.
LEMMA BackFrom ==
  ASSUME NEW keys, keys \subseteq Keys, NEW key \in Keys,
         NEW p, p = After(keys, key - 1), NEW b, b = Before(keys, key)
  PROVE  /\ p \in Int /\ key <= p
         /\ b \in Int /\ b < key
         /\ Before(keys, p) = b
PROOF
<1>1. /\ key \in Int /\ key - 1 \in Int /\ End \in Int /\ key < End /\ Begin \in Int /\ Begin < key
      /\ \A k \in keys : k \in Int /\ k < End
  BY EndAssumption DEF Keys, Begin
<1>2. p \in Int /\ key <= p
  BY FromKey
<1>3. \A k \in keys : k > key - 1 => p <= k
  BY <1>1, AfterIsNext
<1>4. /\ b \in keys \cup {Begin}
      /\ b \in keys => b < key
      /\ \A k \in keys : k < key => b >= k
  BY <1>1, BeforeIsPrevious
<1>5. b \in Int /\ b < key
  <2>1. CASE b \in keys
    BY <1>1, <1>4, <2>1
  <2>2. CASE b = Begin
    BY <1>1, <2>2
  <2> QED BY <1>4, <2>1, <2>2
<1>6. ASSUME NEW k \in keys, k < p PROVE b >= k
  BY <1>1, <1>2, <1>3, <1>4, <1>6
<1>7. b \in keys => b < p
  BY <1>1, <1>2, <1>5
<1>8. \A k \in keys : k < p => b >= k
  BY <1>6
<1>9. Before(keys, p) = b
  BY <1>2, <1>4, <1>7, <1>8, BeforeIs
<1> QED BY <1>2, <1>5, <1>9

\* The iterator that stands on the greatest key not above the given one.
Down(txn, key) == Iterator(Before(Live(txn), key + 1), Before(txn.inserts, key + 1), "prev", "no")

\* A step back moves the position that is not behind the other.
LEMMA RetreatOf ==
  ASSUME NEW txn, NEW d, NEW i
  PROVE  Retreat(txn, Iterator(d, i, "prev", "no"))
           = Iterator(IF d >= i THEN Before(Live(txn), d) ELSE d,
                      IF i >= d THEN Before(txn.inserts, i) ELSE i, "prev", "no")
BY Fields DEF Retreat

\* The descending seek of a query, which passes over its first key: the iterator
\* stands on the greatest key below the one sought, whether that one is there or not.
THEOREM SeekThenPrev ==
  ASSUME NEW txn \in Txns, NEW key \in Keys
  PROVE  prev(txn, seek(txn, key)) = Down(txn, key - 1)
PROOF
<1> DEFINE d  == After(Live(txn), key - 1)
           i  == After(txn.inserts, key - 1)
           db == Before(Live(txn), key)
           ib == Before(txn.inserts, key)
           it == Iterator(d, i, "next", "no")
<1>1. key \in Int /\ End \in Int /\ key < End
  BY TxnKeys, EndAssumption
<1>2. d \in Int /\ key <= d /\ db \in Int /\ db < key /\ Before(Live(txn), d) = db
  BY TxnKeys, BackFrom
<1>3. i \in Int /\ key <= i /\ ib \in Int /\ ib < key /\ Before(txn.inserts, i) = ib
  BY TxnKeys, BackFrom
<1>4. seek(txn, key) = it /\ Down(txn, key - 1) = Iterator(db, ib, "prev", "no")
  BY <1>1 DEF seek, Down
<1> HIDE DEF d, i, db, ib
<1>5. it.db = d /\ it.ins = i /\ it.dir = "next" /\ getKey(it) = IF d <= i THEN d ELSE i
  BY Fields DEF getKey
<1> HIDE DEF it
<1>6. CASE d = End /\ i = End
  BY <1>2, <1>3, <1>4, <1>5, <1>6 DEF prev, isEnd, last
<1>7. ASSUME ~(d = End /\ i = End)
      PROVE  prev(txn, it) = Retreat(txn, TurnBackward(txn, it))
  BY <1>5, <1>7 DEF prev, isEnd
<1>8. CASE d = End /\ i # End
  <2>1. TurnBackward(txn, it) = Iterator(db, i, "prev", "no")
    BY <1>2, <1>5, <1>8 DEF TurnBackward
  <2>2. Retreat(txn, Iterator(db, i, "prev", "no")) = Iterator(db, ib, "prev", "no")
    BY <1>1, <1>2, <1>3, RetreatOf
  <2> QED BY <1>4, <1>7, <1>8, <2>1, <2>2
<1>9. CASE d # End /\ i = End
  <2>1. TurnBackward(txn, it) = Iterator(d, ib, "prev", "no")
    BY <1>3, <1>5, <1>9 DEF TurnBackward
  <2>2. Retreat(txn, Iterator(d, ib, "prev", "no")) = Iterator(db, ib, "prev", "no")
    BY <1>1, <1>2, <1>3, RetreatOf
  <2> QED BY <1>4, <1>7, <1>9, <2>1, <2>2
<1>10. CASE d # End /\ i # End
  <2> DEFINE t == Iterator(d, i, "prev", "no")
  <2>1. getKey(t) = IF d <= i THEN i ELSE d
    BY Fields DEF getKey
  <2>2. TurnBackward(txn, it) = IF getKey(it) < getKey(t) THEN Retreat(txn, t) ELSE t
    BY <1>5, <1>10 DEF TurnBackward
  <2>3. Retreat(txn, t) = Iterator(IF d >= i THEN db ELSE d, IF i >= d THEN ib ELSE i, "prev", "no")
    BY <1>2, <1>3, RetreatOf
  <2>4. CASE d = i
    <3>1. TurnBackward(txn, it) = t
      BY <1>2, <1>5, <2>1, <2>2, <2>4
    <3>2. Retreat(txn, t) = Iterator(db, ib, "prev", "no")
      BY <1>2, <2>3, <2>4
    <3> QED BY <1>4, <1>7, <1>10, <3>1, <3>2
  <2>5. CASE d < i
    <3>1. TurnBackward(txn, it) = Iterator(d, ib, "prev", "no")
      BY <1>2, <1>3, <1>5, <2>1, <2>2, <2>3, <2>5
    <3>2. Retreat(txn, Iterator(d, ib, "prev", "no")) = Iterator(db, ib, "prev", "no")
      BY <1>1, <1>2, <1>3, RetreatOf
    <3> QED BY <1>4, <1>7, <1>10, <3>1, <3>2
  <2>6. CASE i < d
    <3>1. TurnBackward(txn, it) = Iterator(db, i, "prev", "no")
      BY <1>2, <1>3, <1>5, <2>1, <2>2, <2>3, <2>6
    <3>2. Retreat(txn, Iterator(db, i, "prev", "no")) = Iterator(db, ib, "prev", "no")
      BY <1>1, <1>2, <1>3, RetreatOf
    <3> QED BY <1>4, <1>7, <1>10, <3>1, <3>2
  <2> QED BY <1>2, <1>3, <2>4, <2>5, <2>6
<1> QED BY <1>6, <1>8, <1>9, <1>10

\* From just after a key: the key, or what comes before it.
LEMMA ToKey ==
  ASSUME NEW keys, keys \subseteq Keys, NEW key \in Keys
  PROVE  /\ Before(keys, key + 1) \in Int /\ Before(keys, key + 1) <= key
         /\ key \in keys => Before(keys, key + 1) = key
         /\ key \notin keys => /\ Before(keys, key + 1) # key
                               /\ Before(keys, key + 1) = Before(keys, key)
PROOF
<1> DEFINE b == Before(keys, key + 1)
<1>1. /\ key \in Int /\ key + 1 \in Int /\ Begin \in Int /\ Begin < key
      /\ \A k \in keys : k \in Int /\ k > Begin
  BY EndAssumption DEF Keys, Begin
<1>2. /\ b \in keys \cup {Begin}
      /\ b \in keys => b < key + 1
      /\ \A k \in keys : k < key + 1 => b >= k
  BY <1>1, BeforeIsPrevious
<1> HIDE DEF b
<1>3. b \in Int /\ b <= key
  <2>1. CASE b \in keys
    BY <1>1, <1>2, <2>1
  <2>2. CASE b = Begin
    BY <1>1, <2>2
  <2> QED BY <1>2, <2>1, <2>2
<1>4. ASSUME key \in keys PROVE b = key
  BY <1>1, <1>2, <1>3, <1>4
<1>5. ASSUME key \notin keys PROVE b # key /\ b = Before(keys, key)
  <2>1. b # key
    BY <1>1, <1>2, <1>5
  <2>2. b \in keys => b < key
    BY <1>3, <1>1, <2>1
  <2>3. \A k \in keys : k < key => b >= k
    BY <1>1, <1>2
  <2>4. Before(keys, key) = b
    BY <1>1, <1>2, <2>2, <2>3, BeforeIs
  <2> QED BY <2>1, <2>4
<1> QED BY <1>3, <1>4, <1>5 DEF b

\* prev: from a key the iterator moves to where it stands just before that key.
THEOREM PrevIsDown ==
  ASSUME NEW txn \in Txns, NEW key \in Merged(txn)
  PROVE  prev(txn, Down(txn, key)) = Down(txn, key - 1)
PROOF
<1> DEFINE d  == Before(Live(txn), key + 1)
           i  == Before(txn.inserts, key + 1)
           db == Before(Live(txn), key)
           ib == Before(txn.inserts, key)
           it == Iterator(d, i, "prev", "no")
<1>1. key \in Keys /\ key \in Int /\ End \in Int /\ key < End
  BY TxnKeys, EndAssumption
<1>2. /\ d \in Int /\ d <= key
      /\ key \in Live(txn) => d = key
      /\ key \notin Live(txn) => d # key /\ d = db
  BY <1>1, TxnKeys, ToKey
<1>3. /\ i \in Int /\ i <= key
      /\ key \in txn.inserts => i = key
      /\ key \notin txn.inserts => i # key /\ i = ib
  BY <1>1, TxnKeys, ToKey
<1>4. Down(txn, key) = it /\ Down(txn, key - 1) = Iterator(db, ib, "prev", "no")
  BY <1>1 DEF Down
<1>5. key \in Live(txn) \/ key \in txn.inserts
  BY DEF Merged
<1>6. Retreat(txn, it) = Iterator(IF d >= i THEN Before(Live(txn), d) ELSE d,
                                  IF i >= d THEN Before(txn.inserts, i) ELSE i, "prev", "no")
  BY RetreatOf
<1> HIDE DEF d, i
<1>7. it.db = d /\ it.ins = i /\ it.dir = "prev" /\ it.invalid = "no"
  BY Fields
<1> HIDE DEF it
<1>8. prev(txn, it) = Retreat(txn, it)
  BY <1>1, <1>2, <1>7 DEF prev, isEnd
<1>9. /\ (IF d >= i THEN Before(Live(txn), d) ELSE d) = db
      /\ (IF i >= d THEN Before(txn.inserts, i) ELSE i) = ib
  BY <1>1, <1>2, <1>3, <1>5
<1> QED BY <1>4, <1>6, <1>8, <1>9

\* notifyPut: a key that the batch puts, if it had not deleted it before, leaves the
\* cursor where a new search for the current key would put it: a key ahead of it is
\* found later, and a key behind it is not.
THEOREM PutKeepsPlace ==
  ASSUME NEW txn \in Txns, NEW here \in Merged(txn), NEW key \in Keys, key \notin txn.deletes,
         NEW s, s = Put([txn |-> txn, it |-> seek(txn, here)], key)
  PROVE  s.it = seek(s.txn, here)
PROOF
<1> DEFINE d  == After(Live(txn), here - 1)
           i  == After(txn.inserts, here - 1)
           put == txn.inserts \cup {key}
           t  == [snap |-> txn.snap, inserts |-> put, deletes |-> txn.deletes \ {key}]
           it == Iterator(d, i, "next", "no")
<1>1. /\ here \in Keys /\ here \in Int /\ here - 1 \in Int /\ key \in Int /\ End \in Int /\ key < End
      /\ txn.inserts \subseteq Keys /\ put \subseteq Keys /\ Live(txn) \subseteq Keys
      /\ \A k \in Keys : k \in Int
  BY TxnKeys, EndAssumption
<1>2. d \in Int /\ here <= d /\ (here \in Live(txn) => d = here)
  BY <1>1, FromKey
<1>3. i \in Int /\ here <= i /\ (here \in txn.inserts => i = here)
  BY <1>1, FromKey
<1>4. /\ i \in txn.inserts \cup {End}
      /\ \A k \in txn.inserts : k > here - 1 => i <= k
  BY <1>1, AfterIsNext
<1>5. s.txn = t /\ s.it = notifyPut(t, it, key)
  BY DEF Put, seek
<1>6. t.inserts = put /\ Live(t) = Live(txn)
  BY DEF Live
<1>7. seek(t, here) = Iterator(d, After(put, here - 1), "next", "no")
  BY <1>6 DEF seek
<1> HIDE DEF d, i, t
<1>8. it.db = d /\ it.ins = i /\ it.dir = "next" /\ it.invalid = "no"
  BY Fields
<1>9. CASE here <= key /\ key < i
  <2>1. here \in Live(txn)
    BY <1>1, <1>3, <1>9 DEF Merged
  <2>2. d <= key
    BY <1>2, <1>9, <2>1
  <2>a. ASSUME NEW k \in put, k < i PROVE key >= k
    <3>1. CASE k = key
      BY <1>1, <3>1
    <3>2. CASE k \in txn.inserts
      <4>1. k \in Int
        BY <1>1, <3>2
      <4>2. k > here - 1 => i <= k
        BY <1>4, <3>2
      <4> QED BY <1>1, <1>3, <1>9, <2>a, <4>1, <4>2
    <3> QED BY <3>1, <3>2
  <2>3. key \in put \cup {Begin} /\ (key \in put => key < i) /\ \A k \in put : k < i => key >= k
    BY <1>9, <2>a
  <2>4. Before(put, i) = key
    BY <1>1, <1>3, <2>3, BeforeIs
  <2>b. ASSUME NEW k \in put, k > here - 1 PROVE key <= k
    <3>1. CASE k = key
      BY <1>1, <3>1
    <3>2. CASE k \in txn.inserts
      <4>1. k \in Int
        BY <1>1, <3>2
      <4>2. i <= k
        BY <1>4, <2>b, <3>2
      <4> QED BY <1>1, <1>3, <1>9, <4>1, <4>2
    <3> QED BY <3>1, <3>2
  <2>5. key \in put \cup {End} /\ (key \in put => key > here - 1) /\ \A k \in put : k > here - 1 => key <= k
    BY <1>1, <1>9, <2>b
  <2>6. After(put, here - 1) = key
    BY <1>1, <2>5, AfterIs
  <2>7. notifyPut(t, it, key) = Iterator(d, key, "next", "no")
    BY <1>6, <1>8, <1>9, <2>2, <2>4 DEF notifyPut
  <2> QED BY <1>5, <1>7, <2>6, <2>7
<1>10. CASE ~(here <= key /\ key < i)
  <2>1. ~(d <= key /\ key < i)
    BY <1>1, <1>2, <1>3, <1>10
  <2>2. i \in put \cup {End} /\ (i \in put => i > here - 1) /\ \A k \in put : k > here - 1 => i <= k
    BY <1>1, <1>3, <1>4, <1>10
  <2>3. After(put, here - 1) = i
    BY <1>1, <2>2, AfterIs
  <2>4. notifyPut(t, it, key) = it
    BY <1>8, <2>1 DEF notifyPut
  <2> QED BY <1>5, <1>7, <2>3, <2>4
<1> QED BY <1>9, <1>10
(***************************************************************************)
(* Purges (MojDb::purge), for any objects, batches and windows.  Revisions *)
(* and days grow together, also across the reading of the clock and the    *)
(* drawing of a mapping's revision, so the mapping a purge goes by, the    *)
(* newest that is old enough, tells the age of every revision below its    *)
(* own.                                                                    *)
(***************************************************************************)
Maps == [rev : Nat, day : Nat]

PurgeType ==
  [pc : {Idle, "stamp", "sync", "syncDel", "other", "otherDel", "record", "again", "end"},
   map : Maps \cup {NoMapping}, now : Nat, days : Nat, count : Nat, inBatch : Nat,
   todo : SUBSET Objs, gone : SUBSET Objs, over : SUBSET Objs,
   added : SUBSET Maps, dropped : SUBSET Maps, record : Int]

SeenShape ==
  seen = [raced |-> seen.raced, exempt |-> seen.exempt, undumped |-> seen.undumped,
          atDump |-> seen.atDump, purgedRev |-> seen.purgedRev, interrupted |-> seen.interrupted]

AdminTypeOK ==
  /\ objects \in [Objs -> [st : {"live", "del", "none"}, rev : Int, day : Nat]]
  /\ rev \in Nat /\ day \in Nat
  /\ write \in {NoWrite} \cup [obj : Objs, rev : Nat, st : {"live", "del"}, day : Nat]
  /\ mappings \subseteq Maps
  /\ lastPurged \in Int
  /\ purge \in PurgeType
  /\ SeenShape
  /\ seen.purgedRev \in Int /\ seen.interrupted \in BOOLEAN

\* When a revision was handed out, as far as the database still tells.
Stamps ==
  {[rev |-> objects[o].rev, day |-> objects[o].day] : o \in {p \in Objs : objects[p].st # "none"}}
    \cup {[rev |-> w.rev, day |-> w.day] : w \in {write} \ {NoWrite}}
    \cup mappings \cup purge.added \cup {purge.map, NoMapping}

\* A higher revision is not of an earlier day, and none is of the future.
StampsOrdered ==
  /\ Today <= day
  /\ \A s \in Stamps : /\ s.rev <= rev /\ s.day <= Today
                       /\ \A t \in Stamps : s.rev <= t.rev => s.day <= t.day

\* What each stage of a purge has in hand.
PurgeStages ==
  /\ purge.pc = Idle => purge = IdlePurge
  /\ purge.pc \notin {Idle, "again", "end"} => purge.record = NoRev /\ purge.dropped = {}
  /\ purge.todo # {} => purge.pc \in {"syncDel", "otherDel"}
  /\ purge.pc = "stamp" => purge.map = NoMapping /\ purge.added = {}
  /\ purge.record # NoRev =>
       /\ purge.record = purge.map.rev
       /\ purge.dropped = {m \in mappings \cup purge.added : m.day <= purge.map.day}
  /\ purge.map = NoMapping =>
       purge.pc \in {Idle, "stamp", "end"} /\ purge.gone = {} /\ purge.record = NoRev
  /\ purge.map # NoMapping => purge.map.day <= purge.now - purge.days

\* The revision is recorded, or will be with the next commit.
Owed == \/ purge.pc \in {"sync", "syncDel", "other", "otherDel", "record"} /\ purge.count > 0
        \/ purge.pc \in {"again", "end"} /\ purge.record # NoRev

\* What a purge has found and removed stays as the query saw it until the commit, unless it is
\* written over.
GoneDeleted ==
  /\ \A o \in (purge.todo \cup purge.gone) \ purge.over :
       objects[o].st = "del" /\ objects[o].rev <= purge.map.rev
  /\ purge.gone # {} => Owed

\* A mapping left is newer than the last one used, whose elders were all deleted.
MapsAbove ==
  /\ lastPurged <= rev
  /\ \A m \in mappings \cup purge.added : lastPurged < m.rev
  /\ purge.map # NoMapping => lastPurged <= purge.map.rev

RevCovered ==
  ~seen.interrupted =>
    seen.purgedRev <= lastPurged \/ (Owed /\ seen.purgedRev <= purge.map.rev)

PurgeIInv ==
  AdminTypeOK /\ StampsOrdered /\ PurgeStages /\ GoneDeleted /\ MapsAbove /\ RevCovered

\* Numbers with an upper bound have a greatest.
LEMMA Greatest ==
  ASSUME NEW R, R \subseteq Int, R # {}, NEW b \in Int, \A x \in R : x <= b
  PROVE  \E x \in R : \A y \in R : y <= x
PROOF
<1> DEFINE T == {b - x : x \in R}
<1>1. T \subseteq Nat /\ T # {}
  <2>1. \A x \in R : x \in Int /\ b - x \in Nat
    OBVIOUS
  <2> QED BY <2>1
<1> HIDE DEF T
<1>2. PICK t \in T : \A u \in T : t <= u
  BY <1>1, Least
<1>3. PICK x \in R : t = b - x
  BY DEF T
<1>4. ASSUME NEW y \in R PROVE y <= x
  <2>1. b - y \in T
    BY DEF T
  <2> QED BY <2>1, <1>2, <1>3
<1> QED BY <1>4

\* The mapping a purge goes by is one of those that are old enough, if there is one.
LEMMA MappingIs ==
  ASSUME NEW M, M \subseteq Maps, NEW b \in Int, \A m \in M : m.rev <= b, NEW t \in Int
  PROVE  \/ MappingFor(M, t) = NoMapping
         \/ MappingFor(M, t) \in M /\ MappingFor(M, t).day <= t
PROOF
<1> DEFINE old  == {m \in M : m.day <= t}
           revs == {m.rev : m \in old}
<1>1. CASE old = {}
  BY <1>1 DEF MappingFor
<1>2. CASE old # {}
  <2>1. revs \subseteq Int /\ revs # {} /\ \A x \in revs : x <= b
    BY <1>2 DEF Maps
  <2>2. PICK x \in revs : \A y \in revs : y <= x
    <3> HIDE DEF revs
    <3> QED BY ONLY <2>1, Greatest, b \in Int
  <2>3. \E m \in old : \A n \in old : n.rev <= m.rev
    BY <2>2
  <2>4. Newest(old) \in old
    <3> HIDE DEF old
    <3> QED BY <2>3 DEF Newest
  <2> QED BY <2>4, <1>2 DEF MappingFor
<1> QED BY <1>1, <1>2

\* Stamps stay in order when those that are new are of the highest revision and of a day not
\* before the others.
LEMMA StampsGrow ==
  ASSUME AdminTypeOK, AdminTypeOK', StampsOrdered, rev <= rev', Today' <= day',
         NEW d \in Nat, Today <= d, d <= Today',
         \A s \in Stamps' : s \in Stamps \/ (s.rev = rev' /\ s.day = d /\ rev < rev')
  PROVE  StampsOrdered'
PROOF
<1>1. Stamps \subseteq [rev : Int, day : Int]
  BY DEF Stamps, AdminTypeOK, PurgeType, Maps, NoMapping, NoRev
<1>2. rev \in Nat /\ rev' \in Nat /\ Today \in Nat /\ Today' \in Nat
  BY DEF AdminTypeOK, Today, PurgeType
<1>3. \A s \in Stamps : s.rev \in Int /\ s.day \in Int /\ s.rev <= rev /\ s.day <= Today
  BY <1>1 DEF StampsOrdered
<1>4. \A s \in Stamps' : s.rev <= rev' /\ s.day <= d /\ s.day <= Today'
  BY <1>2, <1>3
<1>5. ASSUME NEW s \in Stamps', NEW t \in Stamps', s.rev <= t.rev PROVE s.day <= t.day
  <2>1. CASE s \in Stamps /\ t \in Stamps
    BY <2>1, <1>5 DEF StampsOrdered
  <2>2. CASE t \notin Stamps
    BY <2>2, <1>4
  <2>3. CASE s \notin Stamps /\ t \in Stamps
    BY <2>3, <1>2, <1>3, <1>5
  <2> QED BY <2>1, <2>2, <2>3
<1> QED BY <1>4, <1>5 DEF StampsOrdered

\* A commit of what a purge has written.
LEMMA CommitKeeps ==
  ASSUME PurgeIInv, NEW p \in PurgeType, p.map = purge.map, p.added = purge.added,
         p.record = purge.record, p.dropped = purge.dropped,
         p.gone # {} => purge.map # NoMapping,
         \A o \in p.gone \ p.over : objects[o].rev <= purge.map.rev,
         CommitPurge(p), UNCHANGED <<rev, day, write>>, purge.pc # "stamp", purge'.pc # "stamp",
         purge' \in PurgeType, purge'.added = {}, purge'.map \in {purge.map, NoMapping}
  PROVE  /\ AdminTypeOK' /\ StampsOrdered' /\ MapsAbove'
         /\ lastPurged' = IF p.record = NoRev THEN lastPurged ELSE p.record
         /\ seen'.interrupted = seen.interrupted
         /\ \/ seen'.purgedRev = seen.purgedRev
            \/ p.gone # {} /\ seen'.purgedRev <= purge.map.rev
PROOF
<1> USE DEF PurgeIInv
<1> DEFINE R == {objects[o].rev : o \in p.gone \ p.over} \cup {seen.purgedRev}
           back == {o \in p.gone : Dumping /\ objects[o].st = "live"}
           top == CHOOSE r \in R : \A q \in R : q <= r
           lost(o) == \E e \in Told : /\ e.obj = o
                                      /\ e.st = "live"
                                      /\ \A d \in Sent : d.obj = o => d.rev <= e.rev
<1>1. /\ objects' = [o \in Objs |-> IF o \in p.gone
                       THEN [st |-> "none", rev |-> NoRev, day |-> 0] ELSE objects[o]]
      /\ mappings' = (mappings \cup purge.added) \ purge.dropped
      /\ lastPurged' = IF p.record = NoRev THEN lastPurged ELSE p.record
      /\ seen' = [seen EXCEPT !.purgedRev = top, !.exempt = @ \cup back,
                              !.undumped = @ \cup {o \in p.gone : lost(o)}]
  BY DEF CommitPurge
<1>2. p.gone \subseteq Objs /\ purge.added \subseteq Maps /\ p.record \in Int
  BY DEF PurgeType, AdminTypeOK
<1>3. /\ R \subseteq Int /\ R # {}
      /\ \A o \in p.gone : objects[o].rev \in Int
  BY <1>2 DEF AdminTypeOK
<1>4. \A m \in Stamps : m.rev <= rev
  BY DEF StampsOrdered
<1>5. purge.map \in Maps \cup {NoMapping} /\ purge.map \in Stamps
  BY DEF AdminTypeOK, PurgeType, Stamps
<1>6. purge.map.rev \in Int /\ purge.map.rev <= rev /\ rev \in Int
  BY <1>4, <1>5 DEF Maps, NoMapping, NoRev, AdminTypeOK
<1>7. \E b \in Int : \A x \in R : x <= b
  <2>1. CASE seen.purgedRev <= rev
    BY <2>1, <1>3, <1>6
  <2>2. CASE rev < seen.purgedRev
    BY <2>2, <1>3, <1>6
  <2> QED BY <2>1, <2>2, <1>6 DEF AdminTypeOK
<1>8. top \in R
  <2>1. \E r \in R : \A q \in R : q <= r
    <3> HIDE DEF R
    <3> QED BY ONLY <1>3, <1>7, Greatest
  <2> HIDE DEF R
  <2> QED BY <2>1
<1>9. /\ seen'.purgedRev = top /\ seen'.interrupted = seen.interrupted
      /\ SeenShape'
  <2> HIDE DEF R, top, lost, back
  <2> QED BY <1>1 DEF AdminTypeOK, SeenShape
<1>10. \/ top = seen.purgedRev
       \/ p.gone # {} /\ top <= purge.map.rev
  <2>1. CASE top = seen.purgedRev
    BY <2>1
  <2>2. CASE top # seen.purgedRev
    <3> HIDE DEF top
    <3>1. PICK o \in p.gone \ p.over : top = objects[o].rev
      BY <1>8, <2>2
    <3> QED BY <3>1
  <2> QED BY <2>1, <2>2
<1>11. top \in Int
  BY <1>3, <1>8
<1> HIDE DEF R, top, lost, back
<1>12. AdminTypeOK'
  <2>1. objects' \in [Objs -> [st : {"live", "del", "none"}, rev : Int, day : Nat]]
    BY <1>1 DEF AdminTypeOK, NoRev
  <2>2. mappings' \subseteq Maps /\ lastPurged' \in Int
    BY <1>1, <1>2 DEF AdminTypeOK
  <2> QED BY <2>1, <2>2, <1>9, <1>11 DEF AdminTypeOK
<1>13. StampsOrdered'
  <2>1. Stamps' = {[rev |-> objects'[o].rev, day |-> objects'[o].day]
                     : o \in {q \in Objs : objects'[q].st # "none"}}
                  \cup {[rev |-> w.rev, day |-> w.day] : w \in {write} \ {NoWrite}}
                  \cup mappings' \cup {} \cup {purge'.map, NoMapping}
    BY DEF Stamps
  <2>2. ASSUME NEW s \in Stamps' PROVE s \in Stamps
    <3>1. CASE s \in {[rev |-> objects'[o].rev, day |-> objects'[o].day]
                         : o \in {q \in Objs : objects'[q].st # "none"}}
      <4>1. PICK o \in Objs : objects'[o].st # "none"
                              /\ s = [rev |-> objects'[o].rev, day |-> objects'[o].day]
        BY <3>1
      <4>2. objects'[o] = objects[o]
        BY <4>1, <1>1
      <4> QED BY <4>1, <4>2 DEF Stamps
    <3>2. CASE s \in {[rev |-> w.rev, day |-> w.day] : w \in {write} \ {NoWrite}}
      BY <3>2 DEF Stamps
    <3>3. CASE s \in mappings' \cup {purge'.map, NoMapping}
      BY <3>3, <1>1 DEF Stamps
    <3> QED BY <2>1, <2>2, <3>1, <3>2, <3>3
  <2>3. Today = day /\ Today' = day /\ day \in Nat /\ day' = day
    BY DEF Today, AdminTypeOK
  <2> QED BY <2>2, <2>3, <1>12, StampsGrow, <1>6
<1>14. MapsAbove'
  <2>1. CASE p.record = NoRev
    BY <2>1, <1>1, <1>2 DEF MapsAbove
  <2>2. CASE p.record # NoRev
    <3>1. lastPurged' = purge.map.rev
      BY <2>2, <1>1 DEF PurgeStages
    <3>2. ASSUME NEW m \in mappings' PROVE lastPurged' < m.rev
      <4>1. m \in mappings \cup purge.added /\ m.day > purge.map.day
        BY <1>1, <2>2, <1>2, <1>5 DEF PurgeStages, AdminTypeOK, Maps, NoMapping, NoRev
      <4>2. m \in Stamps /\ m \in Maps
        BY <4>1, <1>2 DEF Stamps, AdminTypeOK
      <4>3. m.rev > purge.map.rev
        BY <4>1, <4>2, <1>5, <1>6 DEF StampsOrdered, Maps, NoMapping, NoRev
      <4> QED BY <3>1, <4>3
    <3> QED BY <3>1, <3>2, <1>6 DEF MapsAbove
  <2> QED BY <2>1, <2>2
<1> QED BY <1>1, <1>9, <1>10, <1>12, <1>13, <1>14

\* What a dump overlaps with changes nothing a purge looks at.
LEMMA OverlapKeeps ==
  ASSUME SeenShape, NEW o, NEW r, seen' = Overlap(o, r)
  PROVE  SeenShape' /\ UNCHANGED <<seen.purgedRev, seen.interrupted>>
BY DEF SeenShape, Overlap

\* What is left of a request when what it wrote is committed.
LEMMA WrittenIs ==
  ASSUME NEW q \in PurgeType
  PROVE  /\ Written(q) \in PurgeType
         /\ Written(q) = [pc |-> q.pc, map |-> q.map, now |-> q.now, days |-> q.days, count |-> q.count,
                          inBatch |-> q.inBatch, todo |-> q.todo, gone |-> {}, over |-> {}, added |-> {}, dropped |-> {}, record |-> NoRev]
<1> DEFINE w == Written(q)
<1>1. w \in PurgeType
  <2> DEFINE v == [q EXCEPT !.gone = {}, !.over = {}, !.added = {}]
  <2>1. v \in PurgeType
    BY DEF PurgeType
  <2>2. w = [v EXCEPT !.dropped = {}, !.record = NoRev]
    BY DEF Written
  <2>3. NoRev \in Int
    BY DEF NoRev
  <2>4. {} \in SUBSET Maps
    OBVIOUS
  <2> HIDE DEF v, w
  <2> QED BY <2>1, <2>2, <2>3, <2>4 DEF PurgeType
<1>2. w.gone = {} /\ w.over = {} /\ w.added = {} /\ w.dropped = {} /\ w.record = NoRev
  BY DEF PurgeType, Written
<1>3. w.pc = q.pc /\ w.map = q.map /\ w.now = q.now /\ w.days = q.days /\ w.count = q.count
      /\ w.inBatch = q.inBatch /\ w.todo = q.todo
  BY DEF PurgeType, Written
<1> HIDE DEF w
<1>4. w = [pc |-> w.pc, map |-> w.map, now |-> w.now, days |-> w.days, count |-> w.count,
           inBatch |-> w.inBatch, todo |-> w.todo, gone |-> w.gone, over |-> w.over,
           added |-> w.added, dropped |-> w.dropped, record |-> w.record]
  BY <1>1 DEF PurgeType
<1> QED BY <1>1, <1>2, <1>3, <1>4 DEF w

\* Databases in use when the purges begin.
LEMMA PurgeInit == AdminInit => PurgeIInv
<1> SUFFICES ASSUME AdminInit PROVE PurgeIInv
  OBVIOUS
<1>1. Cardinality(Objs) \in Nat
  BY AdminAssumption, FS_CardinalityType
<1>2. /\ objects \in [Objs -> [st : {"live", "del"}, rev : 1..Cardinality(Objs), day : {0}]]
      /\ rev = Cardinality(Objs) /\ day = 0 /\ write = NoWrite /\ mappings = {}
      /\ lastPurged = -1 /\ purge = IdlePurge
      /\ seen = [raced |-> {}, exempt |-> {}, undumped |-> {}, atDump |-> Fresh.has,
                 purgedRev |-> -1, interrupted |-> FALSE]
  BY <1>1, AdminAssumption DEF AdminInit, NoRev
<1>3. purge.pc = Idle /\ purge.todo = {} /\ purge.gone = {} /\ purge.added = {} /\ purge.map = NoMapping
      /\ purge.record = NoRev /\ purge.dropped = {}
  BY <1>2 DEF IdlePurge
<1>4. AdminTypeOK
  <2>1. IdlePurge \in PurgeType
    BY DEF IdlePurge, PurgeType, Idle, NoRev
  <2>2. objects \in [Objs -> [st : {"live", "del", "none"}, rev : Int, day : Nat]]
    BY <1>1, <1>2
  <2>3. seen.raced = {} /\ seen.exempt = {} /\ seen.undumped = {} /\ seen.atDump = Fresh.has
        /\ seen.purgedRev = -1 /\ seen.interrupted = FALSE
    BY <1>2
  <2>4. SeenShape
    BY <1>2, <2>3 DEF SeenShape
  <2> QED BY <1>1, <1>2, <2>1, <2>2, <2>3, <2>4 DEF AdminTypeOK
<1>5. StampsOrdered
  <2>1. ASSUME NEW s \in Stamps
        PROVE  s = NoMapping \/ (s.rev \in 1..Cardinality(Objs) /\ s.day = 0)
    BY <1>2, <1>3 DEF Stamps
  <2>2. NoMapping.rev = -1 /\ NoMapping.day = -1
    BY DEF NoMapping, NoRev
  <2>3. Today = 0
    BY <1>2, <1>3 DEF Today, Idle
  <2> QED BY <2>1, <2>2, <2>3, <1>1, <1>2 DEF StampsOrdered
<1> QED BY <1>1, <1>2, <1>3, <1>4, <1>5
     DEF PurgeIInv, PurgeStages, GoneDeleted, MapsAbove, RevCovered

\* The steps of the clients, and the clock.
LEMMA ClientKeeps == ASSUME PurgeIInv, ClientNext PROVE PurgeIInv'
<1> USE DEF PurgeIInv
<1>1. ASSUME NEW o \in Objs, NEW st \in {"live", "del"}, DrawRev(o, st) PROVE PurgeIInv'
  <2>1. /\ write = NoWrite /\ rev' = rev + 1 /\ rev \in Nat /\ Today \in Nat
        /\ write' = [obj |-> o, rev |-> rev + 1, st |-> st, day |-> Today]
        /\ seen' = Overlap(o, rev + 1)
        /\ UNCHANGED <<objects, day, mappings, lastPurged, purge>>
    BY <1>1 DEF DrawRev, purgeVars, AdminTypeOK, Today, PurgeType
  <2>2. SeenShape' /\ UNCHANGED <<seen.purgedRev, seen.interrupted>>
    BY <2>1, OverlapKeeps DEF AdminTypeOK
  <2>3. AdminTypeOK'
    BY <2>1, <2>2 DEF AdminTypeOK
  <2>4. StampsOrdered'
    <3>1. \A s \in Stamps' : s \in Stamps \/ s = [rev |-> rev', day |-> Today]
      BY <2>1 DEF Stamps
    <3>2. Today' = Today /\ Today' <= day' /\ rev < rev' /\ rev <= rev' /\ Today <= Today
      BY <2>1 DEF Today, StampsOrdered
    <3> QED BY <3>1, <3>2, <2>1, <2>3, StampsGrow
  <2> QED BY <2>1, <2>2, <2>3, <2>4
       DEF PurgeStages, GoneDeleted, MapsAbove, RevCovered, Owed, AdminTypeOK
<1>2. ASSUME CommitWrite PROVE PurgeIInv'
  <2> DEFINE w    == write.obj
             over == purge.over \cup ({w} \cap (purge.todo \cup purge.gone))
  <2>1. /\ write \in [obj : Objs, rev : Nat, st : {"live", "del"}, day : Nat]
        /\ write # NoWrite /\ write' = NoWrite
        /\ objects' = [objects EXCEPT ![w] =
                [st |-> write.st, rev |-> write.rev, day |-> write.day]]
        /\ seen' = Overlap(w, write.rev)
        /\ purge' = [purge EXCEPT !.over = over]
        /\ UNCHANGED <<rev, day, mappings, lastPurged>>
    BY <1>2 DEF CommitWrite, AdminTypeOK
  <2>2. SeenShape' /\ UNCHANGED <<seen.purgedRev, seen.interrupted>>
    BY <2>1, OverlapKeeps DEF AdminTypeOK
  <2>3. w \in Objs /\ over \subseteq Objs
    BY <2>1 DEF AdminTypeOK, PurgeType
  <2> HIDE DEF w, over
  <2>4. /\ purge' \in PurgeType /\ purge'.over = over /\ (purge'.pc = Idle => over = purge.over)
        /\ UNCHANGED <<purge.pc, purge.map, purge.now, purge.days, purge.count, purge.todo, purge.gone,
                       purge.added, purge.dropped, purge.record>>
    <3>1. purge.pc = Idle => over = purge.over
      BY DEF PurgeStages, IdlePurge, over
    <3> QED BY <2>1, <2>3, <3>1 DEF AdminTypeOK, PurgeType
  <2>5. AdminTypeOK'
    BY <2>1, <2>2, <2>3, <2>4 DEF AdminTypeOK
  <2>6. StampsOrdered'
    <3>1. \A s \in Stamps' : s \in Stamps
      <4>1. ASSUME NEW o \in Objs, objects'[o].st # "none"
            PROVE  [rev |-> objects'[o].rev, day |-> objects'[o].day] \in Stamps
        <5>1. CASE o = w
          BY <5>1, <2>1 DEF Stamps, AdminTypeOK
        <5>2. CASE o # w
          BY <5>2, <4>1, <2>1 DEF Stamps, AdminTypeOK
        <5> QED BY <5>1, <5>2
      <4> QED BY <4>1, <2>1, <2>4 DEF Stamps
    <3>2. Today' = Today /\ Today' <= day' /\ Today \in Nat /\ rev <= rev'
      BY <2>1, <2>4 DEF Today, StampsOrdered, AdminTypeOK, PurgeType
    <3> QED BY <3>1, <3>2, <2>5, StampsGrow
  <2>7. PurgeStages'
    <3>1. purge'.pc = Idle => purge' = purge
      BY <2>1, <2>4 DEF AdminTypeOK, PurgeType
    <3> QED BY <2>1, <2>4, <3>1 DEF PurgeStages
  <2>8. GoneDeleted'
    <3>1. ASSUME NEW o \in (purge'.todo \cup purge'.gone) \ purge'.over
          PROVE  objects'[o] = objects[o] /\ o \in (purge.todo \cup purge.gone) \ purge.over
      BY <2>1, <2>3, <2>4 DEF over, AdminTypeOK, PurgeType
    <3>2. Owed' = Owed
      BY <2>4 DEF Owed
    <3> QED BY <2>4, <3>1, <3>2 DEF GoneDeleted
  <2> QED BY <2>1, <2>2, <2>4, <2>5, <2>6, <2>7, <2>8 DEF MapsAbove, RevCovered, Owed
<1>3. ASSUME AbortWrite PROVE PurgeIInv'
  <2>1. write' = NoWrite /\ UNCHANGED <<objects, rev, day, mappings, lastPurged, purge, seen>>
    BY <1>3 DEF AbortWrite, purgeVars
  <2>2. AdminTypeOK'
    BY <2>1 DEF AdminTypeOK, SeenShape
  <2>3. Stamps' \subseteq Stamps
    BY <2>1 DEF Stamps
  <2>4. StampsOrdered'
    BY <2>1, <2>3 DEF StampsOrdered, Today
  <2> QED BY <2>1, <2>2, <2>4 DEF PurgeStages, GoneDeleted, MapsAbove, RevCovered, Owed
<1>4. ASSUME NextDay PROVE PurgeIInv'
  <2>1. day' = day + 1 /\ day \in Nat /\ UNCHANGED <<objects, rev, write, mappings, lastPurged, purge, seen>>
    BY <1>4 DEF NextDay, clientVars, purgeVars, AdminTypeOK
  <2>2. AdminTypeOK'
    BY <2>1 DEF AdminTypeOK, SeenShape
  <2>3. Stamps' \subseteq Stamps
    BY <2>1 DEF Stamps
  <2>4. StampsOrdered'
    <3>1. Today \in Nat /\ Today' \in Nat /\ Today <= Today' /\ Today' <= day'
      BY <2>1 DEF Today, StampsOrdered, AdminTypeOK, PurgeType
    <3>2. \A s \in Stamps : s.day \in Int
      BY DEF Stamps, AdminTypeOK, PurgeType, Maps, NoMapping, NoRev
    <3> QED BY <3>1, <3>2, <2>1, <2>3 DEF StampsOrdered
  <2> QED BY <2>1, <2>2, <2>4 DEF PurgeStages, GoneDeleted, MapsAbove, RevCovered, Owed
<1> QED BY <1>1, <1>2, <1>3, <1>4 DEF ClientNext

\* What stays as it is.
LEMMA NothingOfPurge ==
  ASSUME PurgeIInv, SeenShape', UNCHANGED <<objects, rev, day, write, mappings, lastPurged, purge>>,
         UNCHANGED <<seen.purgedRev, seen.interrupted>>
  PROVE  PurgeIInv'
<1> USE DEF PurgeIInv
<1>1. AdminTypeOK'
  BY DEF AdminTypeOK
<1>2. StampsOrdered'
  BY DEF StampsOrdered, Stamps, Today
<1> QED BY <1>1, <1>2 DEF PurgeStages, GoneDeleted, MapsAbove, RevCovered, Owed

\* A purge reads the clock.
LEMMA BeginKeeps == ASSUME PurgeIInv, NEW numDays \in {-1, 0}, PurgeBegin(numDays) PROVE PurgeIInv'
<1> USE DEF PurgeIInv
<1> DEFINE days == IF numDays <= -1 THEN Window ELSE numDays
<1>1. /\ purge = IdlePurge /\ day \in Nat /\ days \in Nat
      /\ purge' = [IdlePurge EXCEPT !.pc = "stamp", !.now = day, !.days = days]
      /\ UNCHANGED <<objects, rev, day, write, mappings, lastPurged, seen>>
  BY AdminAssumption DEF PurgeBegin, Purging, PurgeStages, AdminTypeOK, clientVars
<1> HIDE DEF days
<1>2. /\ purge' \in PurgeType /\ purge'.pc = "stamp" /\ purge'.now = day /\ purge'.map = NoMapping
      /\ purge'.todo = {} /\ purge'.gone = {} /\ purge'.added = {} /\ purge'.dropped = {}
      /\ purge'.record = NoRev
  <2>1. /\ IdlePurge \in PurgeType /\ IdlePurge.map = NoMapping /\ IdlePurge.todo = {}
        /\ IdlePurge.gone = {} /\ IdlePurge.added = {} /\ IdlePurge.dropped = {}
        /\ IdlePurge.record = NoRev
    BY DEF IdlePurge, PurgeType, NoRev
  <2>2. purge \in PurgeType /\ purge' = [purge EXCEPT !.pc = "stamp", !.now = day, !.days = days]
    BY <1>1 DEF AdminTypeOK
  <2> QED BY <1>1, <2>1, <2>2 DEF PurgeType
<1>3. purge.pc = Idle /\ purge.record = NoRev /\ purge.added = {} /\ purge.map = NoMapping
  BY <1>1 DEF IdlePurge
<1>4. AdminTypeOK'
  BY <1>1, <1>2 DEF AdminTypeOK, SeenShape
<1>5. Stamps' = Stamps /\ Today = day /\ Today' = day
  BY <1>1, <1>2, <1>3 DEF Stamps, Today, Idle
<1>6. StampsOrdered'
  BY <1>1, <1>5 DEF StampsOrdered
<1>7. ~Owed
  BY <1>3 DEF Owed, Idle
<1> QED BY <1>1, <1>2, <1>3, <1>4, <1>6, <1>7
         DEF PurgeStages, GoneDeleted, MapsAbove, RevCovered, Idle

\* Its mapping is one of those there are, and old enough.
LEMMA StampKeeps == ASSUME PurgeIInv, PurgeStamp PROVE PurgeIInv'
<1> USE DEF PurgeIInv
<1> DEFINE m     == [rev |-> rev + 1, day |-> purge.now]
           t     == purge.now - purge.days
           M     == mappings \cup {m}
           found == MappingFor(M, t)
           to    == IF found = NoMapping THEN "end" ELSE "sync"
<1>1. /\ purge.pc = "stamp" /\ rev' = rev + 1 /\ rev \in Nat
      /\ purge' = [purge EXCEPT !.pc = to, !.map = found, !.added = {m}]
      /\ UNCHANGED <<objects, day, write, mappings, lastPurged, seen>>
  BY DEF PurgeStamp, AdminTypeOK
<1>2. purge \in PurgeType /\ purge.now \in Nat /\ purge.days \in Nat
  BY DEF AdminTypeOK, PurgeType
<1>3. /\ purge.map = NoMapping /\ purge.todo = {} /\ purge.gone = {} /\ purge.added = {}
      /\ purge.dropped = {} /\ purge.record = NoRev
  BY <1>1 DEF PurgeStages, Idle
<1>4. M \subseteq Maps /\ \A n \in M : n.rev <= rev + 1
  <2>1. m \in Maps
    BY <1>1, <1>2 DEF Maps
  <2>2. \A n \in mappings : n \in Stamps /\ n \in Maps
    BY DEF Stamps, AdminTypeOK
  <2> QED BY <2>1, <2>2, <1>1 DEF StampsOrdered, Maps
<1>5. found = NoMapping \/ (found \in M /\ found.day <= t)
  <2>1. rev + 1 \in Int /\ t \in Int
    BY <1>1, <1>2
  <2> DEFINE b == rev + 1
  <2> HIDE DEF M, b, t
  <2>2. b \in Int /\ \A n \in M : n.rev <= b
    BY <1>4, <2>1 DEF b
  <2> QED BY ONLY <1>4, <2>1, <2>2, MappingIs
<1>6. m.rev = rev' /\ m.day = purge.now /\ m \in Maps
  BY <1>1, <1>2 DEF Maps
<1>6a. to \in {"sync", "end"} /\ (found = NoMapping => to = "end")
  OBVIOUS
<1> HIDE DEF m, found, to
<1>7. /\ purge' \in PurgeType /\ purge'.pc = to /\ purge'.map = found /\ purge'.added = {m}
      /\ purge'.now = purge.now /\ purge'.days = purge.days /\ purge'.todo = {} /\ purge'.gone = {}
      /\ purge'.dropped = {} /\ purge'.record = NoRev
  <2>1. found \in Maps \cup {NoMapping}
    BY <1>4, <1>5
  <2> QED BY <1>1, <1>2, <1>3, <1>6, <1>6a, <2>1 DEF PurgeType
<1>8. AdminTypeOK'
  BY <1>1, <1>7 DEF AdminTypeOK, SeenShape
<1>9. StampsOrdered'
  <2>1. \A s \in Stamps' : s \in Stamps \/ s = m
    BY <1>1, <1>3, <1>5, <1>7 DEF Stamps
  <2>2. Today = purge.now /\ Today' = day /\ day' = day /\ Today <= day /\ day \in Nat
    BY <1>1, <1>6a, <1>7 DEF Today, StampsOrdered, AdminTypeOK
  <2> QED BY <2>1, <2>2, <1>1, <1>2, <1>6, <1>8, StampsGrow
<1>10. PurgeStages'
  BY <1>5, <1>6a, <1>7 DEF PurgeStages, Idle
<1>11. MapsAbove'
  <2>1. lastPurged \in Int /\ lastPurged <= rev /\ \A n \in mappings : lastPurged < n.rev
    BY DEF MapsAbove, AdminTypeOK
  <2>2. lastPurged < m.rev /\ m.rev = rev + 1
    BY <1>1, <1>6, <2>1
  <2>3. \A n \in M : lastPurged < n.rev
    BY <2>1, <2>2
  <2>4. found # NoMapping => lastPurged <= found.rev
    BY <1>4, <1>5, <2>1, <2>3 DEF Maps
  <2> HIDE DEF M
  <2> QED BY <1>1, <1>7, <2>1, <2>2, <2>4 DEF MapsAbove
<1>12. RevCovered' /\ GoneDeleted'
  <2>1. ~Owed
    BY <1>1 DEF Owed
  <2> QED BY <2>1, <1>1, <1>7 DEF RevCovered, GoneDeleted
<1> QED BY <1>8, <1>9, <1>10, <1>11, <1>12

\* The query of a pass over the deleted objects.
LEMMA PassKeeps ==
  ASSUME PurgeIInv, NEW synced \in BOOLEAN, NEW limit, NEW from, NEW to,
         (from = "sync" /\ to = "syncDel") \/ (from = "other" /\ to = "otherDel"),
         PurgePass(from, synced, limit, to)
  PROVE  PurgeIInv'
<1> USE DEF PurgeIInv
<1> DEFINE D == FirstPurgeable(synced, limit)
<1>1. /\ purge.pc = from /\ purge' = [purge EXCEPT !.pc = to, !.todo = D, !.inBatch = 0]
      /\ UNCHANGED <<objects, rev, write, day, mappings, lastPurged, seen>>
  BY DEF PurgePass, clientVars
<1>2. D \subseteq Objs /\ \A o \in D : objects[o].st = "del" /\ objects[o].rev <= purge.map.rev
  BY DEF FirstPurgeable, Purgeable
<1> HIDE DEF D
<1>3. from \in {"sync", "other"} /\ to \in {"syncDel", "otherDel"}
  OBVIOUS
<1>4. /\ purge' \in PurgeType /\ purge'.pc = to /\ purge'.todo = D
      /\ UNCHANGED <<purge.map, purge.now, purge.days, purge.count, purge.gone, purge.over,
                     purge.added, purge.dropped, purge.record>>
  BY <1>1, <1>2, <1>3 DEF AdminTypeOK, PurgeType
<1>5. AdminTypeOK'
  BY <1>1, <1>4 DEF AdminTypeOK, SeenShape
<1>6. StampsOrdered'
  BY <1>1, <1>3, <1>4 DEF StampsOrdered, Stamps, Today
<1>7. PurgeStages'
  BY <1>1, <1>3, <1>4 DEF PurgeStages, Idle
<1>8. Owed => Owed'
  BY <1>1, <1>3, <1>4 DEF Owed
<1>9. GoneDeleted'
  BY <1>1, <1>2, <1>4, <1>8 DEF GoneDeleted
<1>10. MapsAbove' /\ RevCovered'
  BY <1>1, <1>4, <1>8 DEF MapsAbove, RevCovered
<1> QED BY <1>5, <1>6, <1>7, <1>9, <1>10

\* One object of a pass.
LEMMA ObjKeeps == ASSUME PurgeIInv, NEW o \in Objs, PurgeObj(o) PROVE PurgeIInv'
<1> USE DEF PurgeIInv
<1>1. /\ o \in purge.todo
      /\ purge' = [purge EXCEPT !.todo = @ \ {o}, !.gone = @ \cup {o}, !.count = @ + 1, !.inBatch = @ + 1]
      /\ UNCHANGED <<objects, rev, write, day, mappings, lastPurged, seen>>
  BY DEF PurgeObj, clientVars
<1>2. purge.pc \in {"syncDel", "otherDel"} /\ purge.count \in Nat
  BY <1>1 DEF PurgeStages, AdminTypeOK, PurgeType
<1>3. /\ purge' \in PurgeType /\ purge'.todo = purge.todo \ {o} /\ purge'.gone = purge.gone \cup {o}
      /\ purge'.count = purge.count + 1
      /\ UNCHANGED <<purge.pc, purge.map, purge.now, purge.days, purge.over,
                     purge.added, purge.dropped, purge.record>>
  <2> DEFINE todo == purge.todo \ {o}
             gone == purge.gone \cup {o}
  <2>1. /\ purge \in PurgeType /\ todo \in SUBSET Objs /\ gone \in SUBSET Objs
        /\ purge.count + 1 \in Nat /\ purge.inBatch + 1 \in Nat
    BY DEF AdminTypeOK, PurgeType
  <2>2. purge' = [purge EXCEPT !.todo = todo, !.gone = gone, !.count = purge.count + 1,
                               !.inBatch = purge.inBatch + 1]
    BY <1>1
  <2>3. purge'.todo = todo /\ purge'.gone = gone
    BY <2>1, <2>2 DEF PurgeType
  <2> HIDE DEF todo, gone
  <2>4. /\ purge' \in PurgeType /\ purge'.count = purge.count + 1
        /\ UNCHANGED <<purge.pc, purge.map, purge.now, purge.days, purge.over,
                       purge.added, purge.dropped, purge.record>>
    BY <2>1, <2>2 DEF PurgeType
  <2> QED BY <2>3, <2>4 DEF todo, gone
<1>4. AdminTypeOK'
  BY <1>1, <1>3 DEF AdminTypeOK, SeenShape
<1>5. StampsOrdered'
  BY <1>1, <1>3 DEF StampsOrdered, Stamps, Today
<1>6. PurgeStages'
  BY <1>1, <1>2, <1>3 DEF PurgeStages, Idle
<1>7. Owed'
  BY <1>2, <1>3 DEF Owed
<1>8. GoneDeleted'
  <2>1. (purge'.todo \cup purge'.gone) \ purge'.over = (purge.todo \cup purge.gone) \ purge.over
    BY <1>1, <1>3
  <2> QED BY <1>1, <1>3, <1>7, <2>1 DEF GoneDeleted
<1>9. MapsAbove' /\ RevCovered'
  BY <1>1, <1>3, <1>7 DEF MapsAbove, RevCovered
<1> QED BY <1>4, <1>5, <1>6, <1>8, <1>9

\* The end of a pass, whose batch may be full.
LEMMA PassEndKeeps ==
  ASSUME PurgeIInv, NEW from, NEW to,
         (from = "syncDel" /\ to = "other") \/ (from = "otherDel" /\ to = "record"),
         PassEnd(from, to)
  PROVE  PurgeIInv'
<1> USE DEF PurgeIInv
<1> DEFINE p == [purge EXCEPT !.pc = to]
<1>1. /\ purge.pc = from /\ purge.todo = {} /\ UNCHANGED <<rev, day, write>>
      /\ \/ CommitPurge(p) /\ purge' = Written(p)
         \/ purge' = p /\ UNCHANGED <<objects, mappings, lastPurged, seen>>
  BY DEF PassEnd
<1>2. from \in {"syncDel", "otherDel"} /\ to \in {"other", "record"}
  OBVIOUS
<1>3. purge.map # NoMapping /\ purge.record = NoRev /\ purge.dropped = {} /\ purge \in PurgeType
  BY <1>1, <1>2 DEF PurgeStages, AdminTypeOK, Idle
<1>4. /\ p \in PurgeType /\ p.pc = to /\ p.map = purge.map /\ p.now = purge.now /\ p.days = purge.days
      /\ p.count = purge.count /\ p.todo = {} /\ p.gone = purge.gone /\ p.over = purge.over
      /\ p.added = purge.added /\ p.dropped = {} /\ p.record = NoRev
  BY <1>1, <1>2, <1>3 DEF PurgeType
<1> HIDE DEF p
<1>5. CASE CommitPurge(p) /\ purge' = Written(p)
  <2>1. \A o \in p.gone \ p.over : objects[o].rev <= purge.map.rev
    BY <1>4 DEF GoneDeleted
  <2>2. /\ purge' \in PurgeType /\ purge'.pc = to /\ purge'.map = purge.map /\ purge'.now = purge.now
        /\ purge'.days = purge.days /\ purge'.count = purge.count /\ purge'.todo = {}
        /\ purge'.gone = {} /\ purge'.added = {} /\ purge'.dropped = {} /\ purge'.record = NoRev
    BY <1>4, <1>5, WrittenIs
  <2>3. /\ AdminTypeOK' /\ StampsOrdered' /\ MapsAbove' /\ lastPurged' = lastPurged
        /\ seen'.interrupted = seen.interrupted
        /\ \/ seen'.purgedRev = seen.purgedRev
           \/ p.gone # {} /\ seen'.purgedRev <= purge.map.rev
    <3>1. purge.pc # "stamp" /\ purge'.pc # "stamp" /\ p.record = purge.record
          /\ p.dropped = purge.dropped
      BY <1>1, <1>2, <1>3, <1>4, <2>2
    <3> QED BY <3>1, <2>1, <2>2, <1>1, <1>3, <1>4, <1>5, CommitKeeps
  <2>4. PurgeStages'
    BY <1>2, <1>3, <2>2 DEF PurgeStages, Idle
  <2>5. GoneDeleted'
    BY <2>2 DEF GoneDeleted
  <2>6. Owed => Owed'
    BY <1>1, <1>2, <2>2 DEF Owed
  <2>7. RevCovered'
    <3>1. p.gone # {} => Owed'
      BY <1>4, <2>6 DEF GoneDeleted
    <3> QED BY <2>2, <2>3, <2>6, <3>1 DEF RevCovered
  <2> QED BY <2>3, <2>4, <2>5, <2>7
<1>6. CASE purge' = p /\ UNCHANGED <<objects, mappings, lastPurged, seen>>
  <2>1. AdminTypeOK'
    BY <1>1, <1>4, <1>6 DEF AdminTypeOK, SeenShape
  <2>2. StampsOrdered'
    BY <1>1, <1>2, <1>4, <1>6 DEF StampsOrdered, Stamps, Today
  <2>3. PurgeStages'
    BY <1>2, <1>3, <1>4, <1>6 DEF PurgeStages, Idle
  <2>4. Owed => Owed'
    BY <1>1, <1>2, <1>4, <1>6 DEF Owed
  <2>5. GoneDeleted' /\ MapsAbove' /\ RevCovered'
    BY <2>4, <1>1, <1>4, <1>6 DEF GoneDeleted, MapsAbove, RevCovered
  <2> QED BY <2>1, <2>2, <2>3, <2>5
<1> QED BY <1>1, <1>5, <1>6

\* The revision of the mapping is to be recorded, and the mappings it uses up.
LEMMA RecordKeeps == ASSUME PurgeIInv, PurgeRecord PROVE PurgeIInv'
<1> USE DEF PurgeIInv
<1> DEFINE used == {m \in mappings \cup purge.added : m.day <= purge.map.day}
<1>1. /\ purge.pc = "record" /\ UNCHANGED <<objects, rev, write, day, mappings, lastPurged, seen>>
      /\ purge' = [purge EXCEPT
           !.pc = IF purge.count < Batch THEN "end" ELSE "again",
           !.record = IF purge.count > 0 THEN purge.map.rev ELSE NoRev,
           !.dropped = used]
  BY DEF PurgeRecord, clientVars
<1>2. purge.map # NoMapping /\ purge \in PurgeType /\ purge.map \in Maps
  BY <1>1 DEF PurgeStages, AdminTypeOK, Idle, PurgeType
<1>3. used \subseteq Maps
  BY <1>2 DEF AdminTypeOK, PurgeType
<1> HIDE DEF used
<1>4. purge' = [pc |-> IF purge.count < Batch THEN "end" ELSE "again", map |-> purge.map,
                now |-> purge.now, days |-> purge.days, count |-> purge.count,
                inBatch |-> purge.inBatch, todo |-> purge.todo, gone |-> purge.gone,
                over |-> purge.over, added |-> purge.added, dropped |-> used,
                record |-> IF purge.count > 0 THEN purge.map.rev ELSE NoRev]
  BY <1>1, <1>2 DEF PurgeType
<1>5. AdminTypeOK'
  <2>1. purge' \in PurgeType
    BY <1>2, <1>3, <1>4 DEF PurgeType, NoRev, Maps
  <2> QED BY <2>1, <1>1 DEF AdminTypeOK, SeenShape
<1>6. StampsOrdered'
  BY <1>1, <1>4 DEF StampsOrdered, Stamps, Today
<1>7. PurgeStages'
  <2>1. purge.todo = {}
    BY <1>1 DEF PurgeStages
  <2>2. /\ purge'.pc \in {"again", "end"} /\ purge'.todo = {} /\ purge'.map # NoMapping
        /\ purge'.dropped = used /\ purge'.record \in {purge.map.rev, NoRev}
        /\ UNCHANGED <<purge.map, purge.now, purge.days, purge.added>>
    BY <1>2, <1>4, <2>1
  <2> QED BY <1>1, <1>2, <2>2 DEF PurgeStages, Idle, used
<1>8. Owed => Owed'
  BY <1>1, <1>2, <1>4 DEF Owed, NoRev, Maps
<1>9. GoneDeleted' /\ MapsAbove' /\ RevCovered'
  BY <1>1, <1>4, <1>8 DEF GoneDeleted, MapsAbove, RevCovered
<1> QED BY <1>5, <1>6, <1>7, <1>9

\* The commits between two rounds and at the end.
LEMMA RoundKeeps == ASSUME PurgeIInv, PurgeAgain \/ PurgeEnd PROVE PurgeIInv'
<1> USE DEF PurgeIInv
<1>1. /\ purge.pc \in {"again", "end"} /\ CommitPurge(purge) /\ UNCHANGED <<rev, day, write>>
      /\ \/ purge.pc = "again" /\ purge' = [Written(purge) EXCEPT !.pc = "sync", !.count = 0]
         \/ purge' = IdlePurge
  BY DEF PurgeAgain, PurgeEnd
<1>2. purge \in PurgeType
  BY DEF AdminTypeOK
<1>3. LET q == [Written(purge) EXCEPT !.pc = "sync", !.count = 0]
      IN  /\ q \in PurgeType /\ q.pc = "sync" /\ q.map = purge.map /\ q.now = purge.now
          /\ q.days = purge.days /\ q.todo = purge.todo /\ q.gone = {} /\ q.added = {} /\ q.dropped = {} /\ q.record = NoRev
  <2> DEFINE w == Written(purge)
  <2>1. /\ w \in PurgeType /\ w.map = purge.map /\ w.now = purge.now /\ w.days = purge.days
        /\ w.todo = purge.todo /\ w.gone = {} /\ w.added = {} /\ w.dropped = {} /\ w.record = NoRev
    BY <1>2, WrittenIs
  <2> HIDE DEF w
  <2>2. LET q == [w EXCEPT !.pc = "sync", !.count = 0]
        IN  /\ q \in PurgeType /\ q.pc = "sync" /\ q.map = w.map /\ q.now = w.now
            /\ q.days = w.days /\ q.todo = w.todo /\ q.gone = w.gone /\ q.added = w.added /\ q.dropped = w.dropped
            /\ q.record = w.record
    BY <2>1 DEF PurgeType
  <2> QED BY <2>1, <2>2 DEF w
<1>4. /\ purge' \in PurgeType /\ purge'.added = {} /\ purge'.map \in {purge.map, NoMapping}
      /\ purge'.todo = {} /\ purge'.gone = {} /\ purge'.record = NoRev /\ purge'.pc # "stamp"
  <2>1. CASE purge' = IdlePurge
    BY <2>1 DEF PurgeType, IdlePurge, NoRev, Idle
  <2>2. CASE purge' = [Written(purge) EXCEPT !.pc = "sync", !.count = 0]
    <3>1. purge.todo = {}
      BY <1>1 DEF PurgeStages
    <3> QED BY <2>2, <3>1, <1>3
  <2> QED BY <1>1, <2>1, <2>2
<1>5. /\ AdminTypeOK' /\ StampsOrdered' /\ MapsAbove'
      /\ lastPurged' = IF purge.record = NoRev THEN lastPurged ELSE purge.record
      /\ seen'.interrupted = seen.interrupted
      /\ \/ seen'.purgedRev = seen.purgedRev
         \/ purge.gone # {} /\ seen'.purgedRev <= purge.map.rev
  <2>1. /\ purge.gone # {} => purge.map # NoMapping
        /\ \A o \in purge.gone \ purge.over : objects[o].rev <= purge.map.rev
    BY DEF PurgeStages, GoneDeleted
  <2> QED BY <2>1, <1>1, <1>2, <1>4, CommitKeeps
<1>6. PurgeStages'
  <2>1. CASE purge.pc = "again" /\ purge' = [Written(purge) EXCEPT !.pc = "sync", !.count = 0]
    BY <2>1, <1>3, <1>4 DEF PurgeStages, Idle
  <2>2. CASE purge' = IdlePurge
    BY <2>2 DEF PurgeStages, IdlePurge, Idle
  <2> QED BY <2>1, <2>2, <1>1
<1>7. GoneDeleted'
  BY <1>4 DEF GoneDeleted
<1>8. RevCovered'
  <2>1. Owed <=> purge.record # NoRev
    BY <1>1 DEF Owed
  <2>2. purge.record # NoRev => purge.record = purge.map.rev
    BY DEF PurgeStages
  <2>3. purge.gone # {} => Owed
    BY DEF GoneDeleted
  <2>4. purge.record # NoRev => lastPurged <= purge.record
    BY DEF MapsAbove, PurgeStages
  <2>5. seen.purgedRev \in Int /\ lastPurged \in Int /\ purge.record \in Int
    BY <1>2 DEF AdminTypeOK, PurgeType
  <2> QED BY <1>5, <2>1, <2>2, <2>3, <2>4, <2>5 DEF RevCovered
<1> QED BY <1>5, <1>6, <1>7, <1>8

\* A purge that is cut off loses what it had not committed.
LEMMA FailKeeps == ASSUME PurgeIInv, PurgeFails PROVE PurgeIInv'
<1> USE DEF PurgeIInv
<1>1. /\ purge' = IdlePurge /\ UNCHANGED <<objects, rev, write, day, mappings, lastPurged>>
      /\ seen' = [seen EXCEPT !.interrupted = @ \/ seen.purgedRev > lastPurged]
  BY DEF PurgeFails, clientVars
<1>2. /\ purge'.pc = Idle /\ purge'.added = {} /\ purge'.todo = {} /\ purge'.gone = {} /\ purge'.map = NoMapping
      /\ purge'.record = NoRev /\ purge' \in PurgeType
  BY <1>1 DEF IdlePurge, PurgeType, NoRev, Idle
<1>3. /\ SeenShape' /\ seen'.purgedRev = seen.purgedRev
      /\ seen'.interrupted = (seen.interrupted \/ seen.purgedRev > lastPurged)
  BY <1>1 DEF AdminTypeOK, SeenShape
<1>4. AdminTypeOK'
  BY <1>1, <1>2, <1>3 DEF AdminTypeOK
<1>5. Stamps' \subseteq Stamps
  BY <1>1, <1>2 DEF Stamps
<1>6. StampsOrdered'
  <2>1. Today \in Nat /\ day \in Nat /\ Today <= day /\ Today' = day' /\ day' = day /\ rev' = rev /\ rev \in Nat
    BY <1>1, <1>2 DEF Today, Idle, AdminTypeOK, StampsOrdered, PurgeType
  <2> QED BY <2>1, <1>4, <1>5, StampsGrow
<1>7. RevCovered'
  <2>1. lastPurged' = lastPurged /\ lastPurged \in Int /\ seen.purgedRev \in Int
    BY <1>1 DEF AdminTypeOK
  <2>2. ~seen'.interrupted => ~(seen.purgedRev > lastPurged)
    BY <1>3, Zenon
  <2> QED BY <2>1, <2>2, <1>3 DEF RevCovered
<1>8. PurgeStages'
  BY <1>1, <1>2 DEF PurgeStages, Idle
<1>9. MapsAbove'
  BY <1>1, <1>2 DEF MapsAbove
<1> QED BY <1>2, <1>4, <1>6, <1>7, <1>8, <1>9 DEF GoneDeleted

\* Backups and restores only read.
LEMMA BackupKeeps == ASSUME PurgeIInv, DumpNext \/ RestoreNext PROVE PurgeIInv'
<1>1. /\ UNCHANGED <<objects, rev, day, write, mappings, lastPurged, purge>>
      /\ SeenShape' /\ UNCHANGED <<seen.purgedRev, seen.interrupted>>
  <2>1. SeenShape
    BY DEF PurgeIInv, AdminTypeOK
  <2>2. CASE \E full \in BOOLEAN : DumpBegin(full)
    BY <2>1, <2>2 DEF DumpBegin, clientVars, purgeVars, SeenShape
  <2>3. CASE DumpFull
    BY <2>1, <2>3 DEF DumpFull, clientVars, purgeVars, SeenShape
  <2>4. CASE DumpObj \/ DumpPassEnd \/ DumpReply \/ DumpFails
    BY <2>1, <2>4 DEF DumpObj, DumpPassEnd, DumpReply, DumpFails, clientVars, purgeVars, SeenShape
  <2>5. CASE RestoreNext
    BY <2>1, <2>5 DEF RestoreNext, RestoreBegin, LoadObj, LoadEnd, RestoreFails, clientVars, purgeVars, SeenShape
  <2> QED BY <2>2, <2>3, <2>4, <2>5 DEF DumpNext
<1> QED BY <1>1, NothingOfPurge

\* Every step keeps the invariant.
LEMMA AdminStep == PurgeIInv /\ [AdminNext]_adminVars => PurgeIInv'
<1> SUFFICES ASSUME PurgeIInv, [AdminNext]_adminVars PROVE PurgeIInv'
  OBVIOUS
<1>1. CASE ClientNext
  BY <1>1, ClientKeeps
<1>2. CASE PurgeNext
  <2>1. CASE PurgeSynced \/ PurgeOthers
    BY <2>1, PassKeeps DEF PurgeSynced, PurgeOthers
  <2>2. CASE SyncedEnd \/ OthersEnd
    BY <2>2, PassEndKeeps DEF SyncedEnd, OthersEnd
  <2>3. CASE \E o \in Objs : PurgeObj(o)
    BY <2>3, ObjKeeps
  <2> QED BY <1>2, <2>1, <2>2, <2>3, BeginKeeps, StampKeeps, RecordKeeps, RoundKeeps, FailKeeps
       DEF PurgeNext, PurgeGoesOn
<1>3. CASE DumpNext \/ RestoreNext
  BY <1>3, BackupKeeps
<1>4. CASE UNCHANGED adminVars
  BY <1>4, NothingOfPurge DEF adminVars, clientVars, purgeVars, PurgeIInv, AdminTypeOK, SeenShape
<1> QED BY <1>1, <1>2, <1>3, <1>4 DEF AdminNext

\* What disappears was in the transaction of the purge, and old enough.
LEMMA PurgedWasOld ==
  ASSUME PurgeIInv, [AdminNext]_adminVars, NEW o \in Objs \ purge.over,
         objects[o].st # "none", objects'[o].st = "none"
  PROVE  objects[o].st = "del" /\ objects[o].day <= purge.now - purge.days
<1> USE DEF PurgeIInv
<1>1. o \in purge.gone /\ purge.map # NoMapping
      /\ objects[o].st = "del" /\ objects[o].rev <= purge.map.rev
  <2>1. ASSUME o \in purge.gone
        PROVE  /\ purge.map # NoMapping
               /\ objects[o].st = "del" /\ objects[o].rev <= purge.map.rev
    BY <2>1 DEF GoneDeleted, PurgeStages
  <2>2. CASE PurgeAgain \/ PurgeEnd
    <3>1. CommitPurge(purge)
      BY <2>2 DEF PurgeAgain, PurgeEnd
    <3>2. o \in purge.gone
      BY <3>1 DEF CommitPurge
    <3> QED BY <2>1, <3>2
  <2>3. ASSUME NEW from, NEW to, PassEnd(from, to) PROVE o \in purge.gone
    <3> DEFINE p == [purge EXCEPT !.pc = to]
    <3>1. CommitPurge(p)
      BY <2>3 DEF PassEnd
    <3>2. o \in p.gone
      <4> HIDE DEF p
      <4> QED BY <3>1 DEF CommitPurge
    <3> QED BY <3>2 DEF AdminTypeOK, PurgeType
  <2>4. CASE SyncedEnd \/ OthersEnd
    BY <2>1, <2>3, <2>4 DEF SyncedEnd, OthersEnd
  <2>5. CASE CommitWrite
    BY <2>5 DEF CommitWrite, AdminTypeOK
  <2>6. CASE UNCHANGED objects
    BY <2>6
  <2>7. \/ UNCHANGED objects \/ CommitWrite \/ SyncedEnd \/ OthersEnd \/ PurgeAgain \/ PurgeEnd
    <3>1. CASE ClientNext
      BY <3>1 DEF ClientNext, DrawRev, AbortWrite, NextDay, clientVars
    <3>2. CASE PurgeNext
      <4>1. CASE \E q \in Objs : PurgeObj(q)
        BY <4>1 DEF PurgeObj, clientVars
      <4>2. CASE PurgeSynced \/ PurgeOthers
        BY <4>2 DEF PurgeSynced, PurgeOthers, PurgePass, clientVars
      <4>3. CASE PurgeStamp \/ PurgeRecord \/ PurgeFails \/ \E n \in {-1, 0} : PurgeBegin(n)
        BY <4>3 DEF PurgeBegin, PurgeStamp, PurgeRecord, PurgeFails, clientVars
      <4> QED BY ONLY <3>2, <4>1, <4>2, <4>3 DEF PurgeNext, PurgeGoesOn
    <3>3. CASE DumpNext
      <4>1. CASE \E full \in BOOLEAN : DumpBegin(full)
        BY <4>1 DEF DumpBegin, clientVars
      <4>2. CASE DumpObj \/ DumpFull
        BY <4>2 DEF DumpObj, DumpFull, clientVars
      <4>3. CASE DumpPassEnd \/ DumpReply \/ DumpFails
        BY <4>3 DEF DumpPassEnd, DumpReply, DumpFails, clientVars
      <4> QED BY ONLY <3>3, <4>1, <4>2, <4>3 DEF DumpNext
    <3>4. CASE RestoreNext
      BY <3>4 DEF RestoreNext, RestoreBegin, LoadObj, LoadEnd, RestoreFails, clientVars
    <3>5. CASE UNCHANGED adminVars
      BY <3>5 DEF adminVars
    <3> QED BY <3>1, <3>2, <3>3, <3>4, <3>5 DEF AdminNext
  <2> QED BY <2>2, <2>4, <2>5, <2>6, <2>7
<1>2. objects[o].day <= purge.map.day
  <2>1. [rev |-> objects[o].rev, day |-> objects[o].day] \in Stamps /\ purge.map \in Stamps
    BY DEF Stamps
  <2> QED BY <2>1, <1>1 DEF StampsOrdered
<1>3. purge.map.day <= purge.now - purge.days
  BY <1>1 DEF PurgeStages
<1>4. /\ objects[o].day \in Int /\ purge.map.day \in Int /\ purge.now \in Int /\ purge.days \in Int
  BY <1>1 DEF AdminTypeOK, PurgeType, Maps
<1> QED BY <1>1, <1>2, <1>3, <1>4

\* MojDb::purge removes only what was deleted long enough before it began, and
\* LastPurgedRev covers what it removed, unless it was cut off: whatever is written
\* meanwhile to other objects, and to those it does not find or remove.
THEOREM PurgesAlways == AdminInit /\ [][AdminNext]_adminVars => PurgesKept
<1>1. PurgeIInv => PurgedRevRecorded
  <2> SUFFICES ASSUME PurgeIInv PROVE PurgedRevRecorded
    OBVIOUS
  <2>1. ~Purging => ~Owed
    BY DEF PurgeIInv, PurgeStages, Purging, Owed, Idle
  <2> QED BY <2>1 DEF PurgeIInv, RevCovered, PurgedRevRecorded
<1>2. PurgeIInv /\ [AdminNext]_adminVars =>
        \A o \in Objs \ purge.over : objects[o].st # "none" /\ objects'[o].st = "none" =>
          /\ objects[o].st = "del"
          /\ objects[o].day <= purge.now - purge.days
  BY PurgedWasOld
<1> QED BY <1>1, <1>2, PurgeInit, AdminStep, PTL DEF PurgesKept, PurgedAfterWindow

(***************************************************************************)
(* Backups (MojDb::dump and load), for any objects, sizes and steps.  What *)
(* the files tell of an object is the entry with its highest revision.     *)
(***************************************************************************)
Waiting == [obj : SyncObjs, rev : Nat]
FileEntries == [obj : SyncObjs \cup {"kind"}, rev : Nat, st : {"live", "del"}]
IncKeys == [rev : Int, del : Int]
DumpType == [pc : {Idle, "live", "del", "reply"}, file : Seq(FileEntries), todo : SUBSET Waiting,
             cur : Int, resp : IncKeys, more : BOOLEAN]

BackupTypeOK ==
  /\ chain \in Seq([objects : Seq(FileEntries), hasMore : BOOLEAN])
  /\ incKey \in IncKeys
  /\ dump \in DumpType

ObjectsPast ==
  \A o \in Objs : objects[o].rev <= rev /\ (objects[o].st # "none" => objects[o].rev \in Nat)

LatestIn(S, e) == e \in S /\ \A d \in S : d.obj = e.obj => d.rev <= e.rev
TellsLive(S, o, r) == LatestIn(S, [obj |-> o, rev |-> r, st |-> "live"])
NotLive(S, o) == \A e \in S : LatestIn(S, e) /\ e.obj = o => e.st # "live"

\* No entry is newer than its object, and one as new says the same.
EntryAgrees(e) ==
  IF e.obj = "kind" THEN e = KindEntry
  ELSE objects[e.obj].st # "none" =>
         /\ e.rev <= objects[e.obj].rev
         /\ e.rev = objects[e.obj].rev => e.st = objects[e.obj].st

EntriesAgree ==
  /\ \A e \in Told : e.rev <= rev /\ EntryAgrees(e)
  /\ \A d, e \in Told : d.obj = e.obj /\ d.rev = e.rev => d.st = e.st

\* The files tell of an object in the order of its revisions.
FileOrdered(s) == \A i, j \in DOMAIN s : i < j /\ s[i].obj = s[j].obj => s[i].rev <= s[j].rev
Precede(S, T) == \A d \in S, e \in T : d.obj = e.obj => d.rev <= e.rev
ChainOrdered ==
  /\ FileOrdered(dump.file) /\ Precede(Sent, Range(dump.file))
  /\ \A f \in DOMAIN chain : FileOrdered(chain[f].objects)
  /\ \A f, g \in DOMAIN chain : f < g => Precede(Range(chain[f].objects), Range(chain[g].objects))

\* A backup begins with the kind.
KindFirst ==
  /\ chain # <<>> => chain[1].objects # <<>> /\ chain[1].objects[1] = KindEntry
  /\ Dumping /\ chain = <<>> => dump.file # <<>> /\ dump.file[1] = KindEntry

\* Keys are revisions of the past.
KeysPast ==
  /\ incKey.rev <= rev /\ incKey.del <= rev
  /\ dump.resp.rev <= rev /\ dump.resp.del <= rev /\ dump.cur <= rev

\* A write that is not committed is newer than what was, and, if it overlapped no dump, than the key.
WriteAhead ==
  write # NoWrite =>
    /\ write.rev <= rev
    /\ \A o \in Objs : objects[o].rev < write.rev
    /\ \A e \in Told : e.obj # "kind" => e.rev < write.rev
    /\ Dumping => write.rev \in seen.raced
    /\ write.rev \in seen.raced \/ (write.rev > incKey.rev /\ write.rev > incKey.del)

\* The finished files tell the versions up to the key.
ChainTells ==
  \A o \in SyncObjs :
    /\ objects[o].st = "live" /\ objects[o].rev \notin seen.raced =>
         objects[o].rev > incKey.rev \/ TellsLive(Sent, o, objects[o].rev)
    /\ objects[o].st = "del" /\ objects[o].rev \notin seen.raced =>
         objects[o].rev > incKey.del \/ NotLive(Sent, o)
    /\ objects[o].st = "none" => o \in seen.undumped \/ NotLive(Sent, o)

\* The versions a dump answers for, and those it is still to tell.
Firm(o) == o \notin seen.exempt \/ objects[o].rev \notin seen.raced
Waits(o) == [obj |-> o, rev |-> objects[o].rev] \in dump.todo

DumpTells ==
  Dumping => \A o \in SyncObjs :
    /\ objects[o].st = "live" /\ Firm(o) =>
         \/ TellsLive(Told, o, objects[o].rev)
         \/ dump.pc = "live" /\ Waits(o)
         \/ dump.pc = "reply" /\ dump.more /\ objects[o].rev > dump.resp.rev
    /\ objects[o].st = "del" /\ Firm(o) =>
         \/ NotLive(Told, o)
         \/ dump.pc = "live" /\ objects[o].rev > incKey.del
         \/ dump.pc = "del" /\ Waits(o)
         \/ dump.pc = "reply" /\ dump.more /\ objects[o].rev > dump.resp.del
    /\ objects[o].st = "none" => o \in seen.undumped \/ NotLive(Told, o)

\* What nothing has overlapped is as it was when the dump began.
AsAtDump ==
  Dumping => \A o \in SyncObjs \ seen.exempt :
    IF seen.atDump[o] = NoRev THEN objects[o].st # "live"
    ELSE objects[o].st = "live" /\ objects[o].rev = seen.atDump[o]

DumpStages ==
  /\ ~Dumping => dump.file = <<>>
  /\ dump.pc \in {"live", "del"} => ~dump.more

LastTells ==
  \A o \in SyncObjs \ (seen.exempt \cup seen.undumped) :
    IF seen.atDump[o] = NoRev THEN NotLive(Sent, o) ELSE TellsLive(Sent, o, seen.atDump[o])

LastComplete == ~Dumping /\ ~dump.more /\ chain # <<>> => LastTells

\* What the restoring device has of the entries it has read.
ReadUpTo(f, n) ==
  (UNION {Range(chain[g].objects) : g \in 1..(f - 1)}) \cup {chain[f].objects[i] : i \in 1..(n - 1)}
Processed == ReadUpTo(restore.file, restore.next)
Effect(e) == IF e.st = "live" THEN e.rev ELSE NoRev
Follows(dev, S) == \A e \in S : e.obj # "kind" /\ LatestIn(S, e) => dev.has[e.obj] = Effect(e)
FromFiles(dev) ==
  /\ dev = [registered |-> dev.registered, has |-> dev.has] /\ DOMAIN dev.has = Objs
  /\ \A o \in Objs : dev.has[o] # NoRev => \E e \in Sent : e.obj = o

Restored ==
  /\ restore = [pc |-> restore.pc, file |-> restore.file, next |-> restore.next, total |-> restore.total,
                work |-> restore.work, stored |-> restore.stored]
  /\ restore.pc = Idle => restore = IdleRestore
  /\ restore.pc # Idle => ~Dumping /\ ~dump.more /\ chain # <<>> /\ FromFiles(restore.stored)
  /\ restore.pc = "load" =>
       /\ FromFiles(restore.work)
       /\ restore.file \in DOMAIN chain
       /\ restore.next \in 1..(Len(chain[restore.file].objects) + 1)
       /\ restore.work.registered \/ (restore.file = 1 /\ restore.next = 1)
       /\ Follows(restore.work, Processed)
  /\ restore.pc = "done" => Follows(restore.stored, Sent)

SourceIInv ==
  /\ BackupTypeOK /\ ObjectsPast /\ EntriesAgree /\ ChainOrdered /\ KindFirst /\ KeysPast /\ WriteAhead
  /\ ChainTells /\ DumpTells /\ AsAtDump /\ DumpStages /\ LastComplete

\* What the entries are.
LEMMA ToldTyped ==
  ASSUME BackupTypeOK
  PROVE  Sent \subseteq FileEntries /\ Told \subseteq FileEntries /\ Sent \subseteq Told
<1>1. \A f \in DOMAIN chain : chain[f].objects \in Seq(FileEntries)
  <2> DEFINE F == Seq(FileEntries)
             files == [objects : F, hasMore : BOOLEAN]
  <2>1. chain \in Seq(files)
    BY DEF BackupTypeOK
  <2> HIDE DEF F, files
  <2>2. \A f \in DOMAIN chain : chain[f] \in files
    BY <2>1
  <2>3. \A f \in DOMAIN chain : chain[f].objects \in F
    BY <2>2 DEF files
  <2> QED BY <2>3 DEF F
<1>2. \A s \in Seq(FileEntries) : Range(s) \subseteq FileEntries
  BY DEF Range
<1>3. dump.file \in Seq(FileEntries)
  BY DEF BackupTypeOK, DumpType
<1>4. Sent \subseteq FileEntries
  BY <1>1, <1>2 DEF Sent
<1> QED BY <1>2, <1>3, <1>4 DEF Told

\* An entry more at the end of a file.
LEMMA AppendIs ==
  ASSUME NEW T, NEW s \in Seq(T), NEW e \in T
  PROVE  /\ Append(s, e) \in Seq(T) /\ Len(s) \in Nat /\ DOMAIN s = 1..Len(s)
         /\ DOMAIN Append(s, e) = 1..(Len(s) + 1)
         /\ \A i \in 1..Len(s) : Append(s, e)[i] = s[i]
         /\ Append(s, e)[Len(s) + 1] = e
         /\ Range(Append(s, e)) = Range(s) \cup {e}
<1>1. /\ Append(s, e) \in Seq(T) /\ Len(s) \in Nat /\ DOMAIN s = 1..Len(s)
      /\ DOMAIN Append(s, e) = 1..(Len(s) + 1)
      /\ \A i \in 1..Len(s) : Append(s, e)[i] = s[i]
      /\ Append(s, e)[Len(s) + 1] = e
  OBVIOUS
<1> DEFINE t == Append(s, e)
<1> HIDE DEF t
<1>2. DOMAIN t = 1..(Len(s) + 1) /\ (\A i \in 1..Len(s) : t[i] = s[i]) /\ t[Len(s) + 1] = e
  BY <1>1 DEF t
<1>3. Range(t) = Range(s) \cup {e}
  <2>1. ASSUME NEW x \in Range(t) PROVE x \in Range(s) \cup {e}
    BY <1>1, <1>2 DEF Range
  <2>2. ASSUME NEW x \in Range(s) PROVE x \in Range(t)
    BY <1>1, <1>2 DEF Range
  <2>3. e \in Range(t)
    BY <1>1, <1>2 DEF Range
  <2> QED BY <2>1, <2>2, <2>3
<1> QED BY <1>1, <1>3 DEF t

\* Steps that leave objects and files alone, and may only excuse more.
LEMMA QuietKeeps ==
  ASSUME PurgeIInv, SourceIInv, rev' \in Nat, rev <= rev', WriteAhead',
         UNCHANGED <<objects, chain, incKey, dump>>,
         seen.raced \subseteq seen'.raced, seen.exempt \subseteq seen'.exempt,
         ~Dumping => seen'.exempt = seen.exempt, UNCHANGED <<seen.undumped, seen.atDump>>
  PROVE  SourceIInv'
<1> USE DEF SourceIInv
<1>1. Sent' = Sent /\ Told' = Told /\ Dumping' = Dumping
  BY DEF Sent, Told, Dumping
<1>2. rev \in Nat
  BY DEF PurgeIInv, AdminTypeOK
<1>3. BackupTypeOK'
  BY DEF BackupTypeOK
<1>4. ObjectsPast'
  <2>1. \A o \in Objs : objects[o].rev \in Int
    BY DEF PurgeIInv, AdminTypeOK
  <2> QED BY <1>2, <2>1 DEF ObjectsPast
<1>5. EntriesAgree'
  <2>1. \A e \in Told : e.rev \in Nat
    BY ToldTyped DEF FileEntries
  <2> QED BY <1>1, <1>2, <2>1 DEF EntriesAgree, EntryAgrees
<1>6. ChainOrdered' /\ KindFirst'
  BY <1>1 DEF ChainOrdered, KindFirst
<1>7. KeysPast'
  <2>1. incKey \in IncKeys /\ dump.resp \in IncKeys /\ dump.cur \in Int
    BY DEF BackupTypeOK, DumpType
  <2> QED BY <1>2, <2>1 DEF KeysPast, IncKeys
<1>8. ChainTells'
  BY <1>1 DEF ChainTells
<1>9. DumpTells'
  <2>1. \A o \in SyncObjs : Firm(o)' => Firm(o)
    BY DEF Firm
  <2>2. \A o \in SyncObjs : Waits(o)' = Waits(o)
    BY DEF Waits
  <2> QED BY <1>1, <2>1, <2>2 DEF DumpTells
<1>10. AsAtDump' /\ DumpStages'
  BY <1>1 DEF AsAtDump, DumpStages
<1>11. LastComplete'
  BY <1>1 DEF LastComplete, LastTells
<1> QED BY <1>3, <1>4, <1>5, <1>6, <1>7, <1>8, <1>9, <1>10, <1>11


\* A commit while a dump runs is excused; one outside is newer than the key.
LEMMA CommitKeepsSource == ASSUME PurgeIInv, SourceIInv, CommitWrite PROVE SourceIInv'
<1> USE DEF SourceIInv
<1> DEFINE w == write.obj
<1>1. /\ write \in [obj : Objs, rev : Nat, st : {"live", "del"}, day : Nat] /\ write # NoWrite
      /\ objects' = [objects EXCEPT ![w] = [st |-> write.st, rev |-> write.rev, day |-> write.day]]
      /\ write' = NoWrite /\ seen' = Overlap(w, write.rev)
      /\ UNCHANGED <<rev, chain, incKey, dump>>
  BY DEF CommitWrite, backupVars, PurgeIInv, AdminTypeOK
<1>2. /\ w \in Objs /\ write.rev \in Nat /\ write.st \in {"live", "del"}
      /\ objects'[w].st = write.st /\ objects'[w].rev = write.rev
      /\ \A o \in Objs : o # w => objects'[o] = objects[o]
  BY <1>1 DEF PurgeIInv, AdminTypeOK
<1>3. /\ seen.raced \subseteq seen'.raced /\ seen.exempt \subseteq seen'.exempt
      /\ ~Dumping => seen' = seen
      /\ Dumping => write.rev \in seen'.raced /\ w \in seen'.exempt
      /\ UNCHANGED <<seen.undumped, seen.atDump>>
  BY <1>1 DEF Overlap, SeenShape, PurgeIInv, AdminTypeOK
<1>4. Sent' = Sent /\ Told' = Told /\ Dumping' = Dumping
  BY <1>1 DEF Sent, Told, Dumping
<1>5. SyncObjs \subseteq Objs /\ "kind" \notin Objs
  BY AdminAssumption
<1> HIDE DEF w
<1>6. BackupTypeOK' /\ ChainOrdered' /\ KindFirst' /\ KeysPast' /\ WriteAhead' /\ DumpStages'
  BY <1>1, <1>4 DEF BackupTypeOK, ChainOrdered, KindFirst, KeysPast, WriteAhead, DumpStages
<1>7. ObjectsPast'
  BY <1>1, <1>2 DEF ObjectsPast, WriteAhead
<1>8. EntriesAgree'
  <2>1. ASSUME NEW e \in Told PROVE EntryAgrees(e)'
    <3>1. e \in FileEntries
      BY ToldTyped
    <3>2. CASE e.obj = w
      <4>1. e.rev < write.rev /\ e.rev \in Nat /\ e.obj # "kind"
        BY <1>1, <1>2, <1>5, <3>1, <3>2 DEF WriteAhead, FileEntries
      <4> QED BY <1>2, <3>2, <4>1 DEF EntryAgrees
    <3>3. CASE e.obj # w
      <4>1. e.obj = "kind" \/ objects'[e.obj] = objects[e.obj]
        BY <1>2, <1>5, <3>1, <3>3 DEF FileEntries
      <4> QED BY <4>1 DEF EntriesAgree, EntryAgrees
    <3> QED BY <3>2, <3>3
  <2> QED BY <1>1, <1>4, <2>1 DEF EntriesAgree
<1>9. ChainTells'
  <2>1. ASSUME write.rev \notin seen'.raced PROVE write.rev > incKey.rev /\ write.rev > incKey.del
    BY <1>1, <1>3, <2>1 DEF WriteAhead
  <2> QED BY <1>1, <1>2, <1>3, <1>4, <1>5, <2>1 DEF ChainTells
<1>10. DumpTells'
  <2>1. ASSUME Dumping, NEW o \in SyncObjs, Firm(o)' PROVE o # w /\ objects'[o] = objects[o] /\ Firm(o)
    BY <1>2, <1>3, <1>5, <2>1 DEF Firm
  <2>2. \A o \in SyncObjs : o # w => (Waits(o)' <=> Waits(o))
    BY <1>1, <1>2, <1>5 DEF Waits
  <2>3. ASSUME Dumping, NEW o \in SyncObjs, objects'[o].st = "none" PROVE objects'[o] = objects[o]
    BY <1>2, <1>5, <2>3
  <2> QED BY <1>1, <1>3, <1>4, <2>1, <2>2, <2>3 DEF DumpTells
<1>11. AsAtDump'
  BY <1>2, <1>3, <1>4, <1>5 DEF AsAtDump
<1>12. LastComplete'
  BY <1>1, <1>3, <1>4 DEF LastComplete, LastTells
<1> QED BY <1>6, <1>7, <1>8, <1>9, <1>10, <1>11, <1>12

\* The clients and the clock.
LEMMA WritesKeepSource == ASSUME PurgeIInv, SourceIInv, ClientNext PROVE SourceIInv'
<1> USE DEF SourceIInv
<1>0. rev \in Nat /\ SeenShape /\ \A o \in Objs : objects[o].rev \in Int
  BY DEF PurgeIInv, AdminTypeOK
<1>1. ASSUME NEW o \in Objs, NEW st \in {"live", "del"}, DrawRev(o, st) PROVE SourceIInv'
  <2>1. /\ rev' = rev + 1 /\ write' = [obj |-> o, rev |-> rev + 1, st |-> st, day |-> Today]
        /\ seen' = Overlap(o, rev + 1)
        /\ UNCHANGED <<objects, chain, incKey, dump>>
    BY <1>1 DEF DrawRev, backupVars
  <2>2. /\ seen.raced \subseteq seen'.raced /\ seen.exempt \subseteq seen'.exempt
        /\ ~Dumping => seen' = seen
        /\ Dumping => rev + 1 \in seen'.raced
        /\ UNCHANGED <<seen.undumped, seen.atDump>>
    BY <2>1, <1>0 DEF Overlap, SeenShape
  <2>3. WriteAhead'
    <3>1. write'.rev = rev + 1 /\ Told' = Told /\ Dumping' = Dumping
      BY <2>1 DEF Told, Sent, Dumping
    <3>2. \A e \in Told : e.rev < rev + 1
      BY <1>0, ToldTyped DEF EntriesAgree, FileEntries
    <3>3. \A p \in Objs : objects'[p].rev < rev + 1
      BY <1>0, <2>1 DEF ObjectsPast
    <3>4. rev + 1 > incKey.rev /\ rev + 1 > incKey.del
      BY <1>0 DEF KeysPast, BackupTypeOK, IncKeys
    <3> QED BY <1>0, <2>1, <2>2, <3>1, <3>2, <3>3, <3>4 DEF WriteAhead
  <2> QED BY <1>0, <2>1, <2>2, <2>3, QuietKeeps
<1>2. ASSUME CommitWrite PROVE SourceIInv'
  BY <1>2, CommitKeepsSource
<1>3. ASSUME AbortWrite \/ NextDay PROVE SourceIInv'
  <2>1. /\ write' = NoWrite \/ write' = write
        /\ UNCHANGED <<objects, rev, chain, incKey, dump, seen>>
    BY <1>3 DEF AbortWrite, NextDay, clientVars, backupVars
  <2>2. WriteAhead'
    BY <2>1 DEF WriteAhead, Told, Sent, Dumping
  <2> QED BY <1>0, <2>1, <2>2, QuietKeeps
<1> QED BY <1>1, <1>2, <1>3 DEF ClientNext

\* What a purge takes away had told its deletion, or is excused.
LEMMA PurgedKeepsSource ==
  ASSUME PurgeIInv, SourceIInv, NEW p, CommitPurge(p), p.gone \subseteq Objs,
         UNCHANGED <<rev, write, chain, incKey, dump>>
  PROVE  SourceIInv'
<1> USE DEF SourceIInv
<1>1. objects' = [o \in Objs |-> IF o \in p.gone
                       THEN [st |-> "none", rev |-> NoRev, day |-> 0] ELSE objects[o]]
  BY DEF CommitPurge
<1>2. /\ UNCHANGED <<seen.raced, seen.atDump>>
      /\ seen'.exempt = seen.exempt \cup {o \in p.gone : Dumping /\ objects[o].st = "live"}
      /\ seen'.undumped = seen.undumped \cup
         {o \in p.gone : \E e \in Told : /\ e.obj = o
                                         /\ e.st = "live"
                                         /\ \A d \in Sent : d.obj = o => d.rev <= e.rev}
  <2> DEFINE lost == {o \in p.gone : \E e \in Told : /\ e.obj = o
                                         /\ e.st = "live"
                                         /\ \A d \in Sent : d.obj = o => d.rev <= e.rev}
             back == {o \in p.gone : Dumping /\ objects[o].st = "live"}
             top  == LET R == {objects[o].rev : o \in p.gone \ p.over} \cup {seen.purgedRev}
                     IN CHOOSE r \in R : \A q \in R : q <= r
  <2>1. seen' = [seen EXCEPT !.purgedRev = top, !.exempt = @ \cup back, !.undumped = @ \cup lost]
    BY DEF CommitPurge
  <2> HIDE DEF lost, back, top
  <2>2. /\ UNCHANGED <<seen.raced, seen.atDump>> /\ seen'.exempt = seen.exempt \cup back
        /\ seen'.undumped = seen.undumped \cup lost
    BY <2>1 DEF PurgeIInv, AdminTypeOK, SeenShape
  <2> QED BY <2>2 DEF lost, back
<1>3. Sent' = Sent /\ Told' = Told /\ Dumping' = Dumping
  BY DEF Sent, Told, Dumping
<1>4. SyncObjs \subseteq Objs /\ "kind" \notin Objs
  BY AdminAssumption
<1>5. ASSUME NEW o \in Objs
      PROVE  \/ objects'[o] = objects[o] /\ o \notin p.gone
             \/ o \in p.gone /\ objects'[o].st = "none" /\ objects'[o].rev = -1
  BY <1>1 DEF NoRev
<1>6. ASSUME NEW o \in p.gone PROVE o \in seen'.undumped \/ (NotLive(Sent, o) /\ NotLive(Told, o))
  <2>1. Sent \subseteq Told
    BY ToldTyped
  <2>2. ASSUME NEW e \in Told, e.obj = o, e.st = "live", \A d \in Sent : d.obj = o => d.rev <= e.rev
        PROVE  o \in seen'.undumped
    BY <1>2, <2>2
  <2> QED BY <2>1, <2>2 DEF NotLive, LatestIn
<1>7. BackupTypeOK' /\ ChainOrdered' /\ KindFirst' /\ KeysPast' /\ DumpStages'
  BY <1>3 DEF BackupTypeOK, ChainOrdered, KindFirst, KeysPast, DumpStages
<1>8. ObjectsPast'
  <2>1. rev \in Nat
    BY DEF PurgeIInv, AdminTypeOK
  <2> QED BY <1>5, <2>1 DEF ObjectsPast
<1>9. EntriesAgree'
  <2>1. ASSUME NEW e \in Told PROVE EntryAgrees(e)'
    <3>1. e.obj = "kind" \/ e.obj \in Objs
      BY <1>4, ToldTyped DEF FileEntries
    <3> QED BY <3>1, <1>5 DEF EntriesAgree, EntryAgrees
  <2> QED BY <1>3, <2>1 DEF EntriesAgree
<1>10. WriteAhead'
  <2>1. ASSUME write # NoWrite PROVE \A o \in Objs : objects'[o].rev < write.rev
    <3>1. write.rev \in Nat
      BY <2>1 DEF PurgeIInv, AdminTypeOK
    <3> QED BY <1>5, <2>1, <3>1 DEF WriteAhead
  <2> QED BY <1>2, <1>3, <2>1 DEF WriteAhead
<1>11. ChainTells'
  BY <1>2, <1>3, <1>4, <1>5, <1>6 DEF ChainTells
<1>12. DumpTells'
  <2>1. \A o \in SyncObjs : o \notin p.gone => objects'[o] = objects[o] /\ (Firm(o)' => Firm(o))
                                              /\ (Waits(o)' <=> Waits(o))
    BY <1>2, <1>4, <1>5 DEF Firm, Waits
  <2>2. ASSUME Dumping, NEW o \in SyncObjs, o \notin p.gone, objects[o].st = "none"
        PROVE  o \in seen'.undumped \/ NotLive(Told, o)
    BY <1>2, <2>2 DEF DumpTells
  <2> QED BY <1>3, <1>4, <1>5, <1>6, <2>1, <2>2 DEF DumpTells
<1>13. AsAtDump'
  BY <1>2, <1>3, <1>4, <1>5 DEF AsAtDump
<1>14. LastComplete'
  <2>1. ~Dumping => seen'.exempt = seen.exempt
    BY <1>2
  <2> QED BY <1>2, <1>3, <2>1 DEF LastComplete, LastTells
<1> QED BY <1>7, <1>8, <1>9, <1>10, <1>11, <1>12, <1>13, <1>14

\* The steps of a purge.
LEMMA PurgesKeepSource == ASSUME PurgeIInv, SourceIInv, PurgeNext PROVE SourceIInv'
<1>0. rev \in Nat /\ SeenShape /\ purge \in PurgeType
  BY DEF PurgeIInv, AdminTypeOK
<1>1. ASSUME UNCHANGED <<objects, write, chain, incKey, dump, seen>>, rev' \in {rev, rev + 1}
      PROVE  SourceIInv'
  <2>1. WriteAhead'
    <3>1. write # NoWrite => write.rev \in Nat
      BY DEF PurgeIInv, AdminTypeOK
    <3> QED BY <1>0, <1>1, <3>1 DEF SourceIInv, WriteAhead, Told, Sent, Dumping
  <2> QED BY <1>0, <1>1, <2>1, QuietKeeps
<1>2. ASSUME NEW n \in {-1, 0}, PurgeBegin(n) \/ PurgeStamp PROVE SourceIInv'
  BY <1>1, <1>2 DEF PurgeBegin, PurgeStamp, backupVars, clientVars
<1>3. ASSUME PurgeRecord \/ PurgeSynced \/ PurgeOthers \/ \E o \in Objs : PurgeObj(o) PROVE SourceIInv'
  <2>1. CASE PurgeRecord
    BY <1>1, <2>1 DEF PurgeRecord, backupVars, clientVars
  <2>2. CASE PurgeSynced \/ PurgeOthers
    BY <1>1, <2>2 DEF PurgeSynced, PurgeOthers, PurgePass, backupVars, clientVars
  <2>3. CASE \E o \in Objs : PurgeObj(o)
    BY <1>1, <2>3 DEF PurgeObj, backupVars, clientVars
  <2> QED BY <1>3, <2>1, <2>2, <2>3
<1>4. ASSUME PurgeFails PROVE SourceIInv'
  <2>1. /\ UNCHANGED <<objects, rev, write, chain, incKey, dump>>
        /\ UNCHANGED <<seen.raced, seen.exempt, seen.undumped, seen.atDump>>
    BY <1>0, <1>4 DEF PurgeFails, backupVars, clientVars, SeenShape
  <2>2. WriteAhead'
    BY <2>1 DEF SourceIInv, WriteAhead, Told, Sent, Dumping
  <2> QED BY <1>0, <2>1, <2>2, QuietKeeps
<1>5. ASSUME PurgeAgain \/ PurgeEnd PROVE SourceIInv'
  <2>1. CommitPurge(purge) /\ UNCHANGED <<rev, write, chain, incKey, dump>>
    BY <1>5 DEF PurgeAgain, PurgeEnd, backupVars
  <2>2. purge.gone \subseteq Objs
    BY <1>0 DEF PurgeType
  <2> QED BY <2>1, <2>2, PurgedKeepsSource
<1>6. ASSUME NEW from, NEW to, PassEnd(from, to) PROVE SourceIInv'
  <2> DEFINE p == [purge EXCEPT !.pc = to]
  <2>1. /\ UNCHANGED <<rev, write, chain, incKey, dump>>
        /\ CommitPurge(p) \/ UNCHANGED <<objects, seen>>
    BY <1>6 DEF PassEnd, backupVars
  <2>2. p.gone \subseteq Objs
    BY <1>0 DEF PurgeType
  <2> HIDE DEF p
  <2> QED BY <2>1, <2>2, <1>1, PurgedKeepsSource
<1>7. PICK n \in {-1, 0} : TRUE
  OBVIOUS
<1> QED BY <1>2, <1>3, <1>4, <1>5, <1>6, <1>7 DEF PurgeNext, PurgeGoesOn, SyncedEnd, OthersEnd

\* What a dump step leaves alone.
LEMMA DumpLeaves ==
  ASSUME DumpNext
  PROVE  UNCHANGED <<objects, rev, write, restore>> /\ (UNCHANGED seen \/ DumpFull \/ \E full \in BOOLEAN : DumpBegin(full))
<1>1. CASE \E full \in BOOLEAN : DumpBegin(full)
  <2>1. UNCHANGED <<objects, rev, write, restore>>
    BY <1>1 DEF DumpBegin, clientVars
  <2> QED BY ONLY <1>1, <2>1
<1>2. CASE DumpObj \/ DumpFull
  BY <1>2 DEF DumpObj, DumpFull, clientVars
<1>3. CASE DumpPassEnd \/ DumpReply \/ DumpFails
  BY <1>3 DEF DumpPassEnd, DumpReply, DumpFails, clientVars
<1> QED BY ONLY DumpNext, <1>1, <1>2, <1>3 DEF DumpNext

\* A dump begins: what the files do not tell yet waits.
LEMMA DumpBeginKeeps ==
  ASSUME PurgeIInv, SourceIInv, NEW full \in BOOLEAN, DumpBegin(full) PROVE SourceIInv'
<1> USE DEF SourceIInv
<1> DEFINE k == IF full THEN NoKey ELSE incKey
           file == IF KindEntry.rev > k.rev THEN <<KindEntry>> ELSE <<>>
           raced == seen.raced \cup ({write.rev} \ {NoRev})
           exempt == {o \in Objs : ~full /\ objects[o].rev \in seen.raced} \cup ({write.obj} \cap Objs)
           atDump == [o \in Objs |-> IF objects[o].st = "live" THEN objects[o].rev ELSE NoRev]
<1>1. /\ ~Dumping /\ (chain = <<>> => full)
      /\ chain' = IF full THEN <<>> ELSE chain
      /\ incKey' = k
      /\ dump' = [IdleDump EXCEPT !.pc = "live", !.todo = Entries("live", k.rev), !.file = file]
      /\ seen' = [seen EXCEPT !.atDump = atDump, !.raced = raced, !.exempt = exempt,
                              !.undumped = IF full THEN {} ELSE @]
      /\ UNCHANGED <<objects, rev, write>>
  BY DEF DumpBegin, clientVars, raced, exempt, atDump, file, k
<1>2. /\ rev \in Nat /\ SeenShape /\ incKey \in IncKeys
      /\ write # NoWrite => write.obj \in Objs /\ write.rev \in Nat
  BY DEF PurgeIInv, AdminTypeOK, BackupTypeOK
<1>3. dump' = [pc |-> "live", file |-> file, todo |-> Entries("live", k.rev), cur |-> NoRev,
               resp |-> NoKey, more |-> FALSE]
  <2> HIDE DEF k, file
  <2> QED BY <1>1 DEF IdleDump
<1>4. /\ seen'.atDump = atDump /\ seen'.raced = raced /\ seen'.exempt = exempt
      /\ seen'.undumped = IF full THEN {} ELSE seen.undumped
  <2> HIDE DEF atDump, raced, exempt
  <2> QED BY <1>1, <1>2 DEF SeenShape
<1>5. /\ k \in IncKeys /\ k.rev <= rev /\ k.del <= rev
      /\ full => k.rev = -1 /\ k.del = -1
      /\ ~full => k = incKey
  BY <1>2 DEF KeysPast, NoKey, NoRev, IncKeys
<1>6. /\ file \in Seq(FileEntries) /\ Range(file) \subseteq {KindEntry} /\ FileOrdered(file)
      /\ full => file # <<>> /\ file[1] = KindEntry
  <2>1. KindEntry \in FileEntries /\ KindEntry.rev = 0
    BY DEF KindEntry, FileEntries
  <2>2. CASE file = <<>>
    <3>1. ~full
      BY <1>5, <2>1, <2>2
    <3> QED BY <2>2, <3>1 DEF Range, FileOrdered
  <2>3. CASE file = <<KindEntry>>
    <3> HIDE DEF file
    <3> QED BY <2>1, <2>3 DEF Range, FileOrdered
  <2> QED BY <2>2, <2>3
<1>7. /\ Sent' = IF full THEN {} ELSE Sent
      /\ Told' = Sent' \cup Range(file)
  <2> HIDE DEF file
  <2> QED BY <1>1, <1>3 DEF Told, Sent
<1>8. Dumping' /\ dump'.pc = "live" /\ ~dump'.more /\ dump'.todo = Entries("live", k.rev)
  BY <1>3 DEF Dumping, Idle
<1>9. SyncObjs \subseteq Objs /\ "kind" \notin Objs /\ KindEntry.obj = "kind" /\ KindEntry.rev = 0
  BY AdminAssumption DEF KindEntry
<1>10. \A o \in SyncObjs : objects[o].st # "none" => objects[o].rev \in Nat
  BY <1>9 DEF ObjectsPast
<1> HIDE DEF k, file, raced, exempt, atDump
<1>11. \A o \in SyncObjs : objects[o].st = "live" /\ objects[o].rev > k.rev
                            => [obj |-> o, rev |-> objects[o].rev] \in Entries("live", k.rev)
  BY DEF Entries
<1>12. Sent \subseteq Told /\ Told \subseteq FileEntries /\ Sent' \subseteq Sent
  BY <1>7, ToldTyped
<1>13. BackupTypeOK'
  <2>1. Entries("live", k.rev) \subseteq Waiting
    BY <1>10 DEF Entries, Waiting
  <2>2. dump' \in DumpType
    BY <1>3, <1>6, <2>1 DEF DumpType, IncKeys, NoKey, NoRev
  <2>3. <<>> \in Seq([objects : Seq(FileEntries), hasMore : BOOLEAN])
    OBVIOUS
  <2> QED BY <1>1, <1>5, <2>2, <2>3 DEF BackupTypeOK
<1>14. ObjectsPast' /\ AsAtDump' /\ DumpStages'
  <2>1. ObjectsPast'
    BY <1>1 DEF ObjectsPast
  <2>2. DumpStages'
    BY <1>8 DEF DumpStages
  <2>3. AsAtDump'
    BY <1>1, <1>4, <1>9, <1>10 DEF AsAtDump, atDump, NoRev
  <2> QED BY <2>1, <2>2, <2>3
<1>15. EntriesAgree'
  <2>1. \A e \in Told' : e \in Told \/ e = KindEntry
    BY <1>6, <1>7, <1>12
  <2>2. \A e \in Told : e.obj = "kind" => e = KindEntry
    BY DEF EntriesAgree, EntryAgrees
  <2>3. \A e \in Told' : e.rev <= rev /\ EntryAgrees(e)'
    BY <1>1, <1>2, <1>9, <2>1 DEF EntriesAgree, EntryAgrees
  <2>4. ASSUME NEW d \in Told', NEW e \in Told', d.obj = e.obj, d.rev = e.rev PROVE d.st = e.st
    <3>1. CASE d \in Told /\ e \in Told
      BY <2>4, <3>1 DEF EntriesAgree
    <3>2. CASE d = KindEntry \/ e = KindEntry
      BY <1>9, <2>1, <2>2, <2>4, <3>2
    <3> QED BY <2>1, <3>1, <3>2
  <2> QED BY <1>1, <2>3, <2>4 DEF EntriesAgree
<1>16. ChainOrdered'
  <2>1. dump'.file = file
    BY <1>3
  <2>2. \A d \in Sent : d.obj = "kind" => d.rev = 0
    BY <1>9, <1>12 DEF EntriesAgree, EntryAgrees
  <2>3. Precede(Sent', Range(file))
    BY <1>6, <1>9, <1>12, <2>2 DEF Precede
  <2>4. CASE full
    <3>1. DOMAIN chain' = {}
      BY <1>1, <2>4
    <3> QED BY <1>6, <2>1, <2>3, <3>1 DEF ChainOrdered
  <2>5. CASE ~full
    BY <1>1, <1>6, <2>1, <2>3, <2>5 DEF ChainOrdered
  <2> QED BY <2>4, <2>5
<1>17. KindFirst'
  <2>1. dump'.file = file
    BY <1>3
  <2>2. chain' = <<>> => full
    BY <1>1
  <2>3. chain' # <<>> => chain' = chain
    BY <1>1
  <2> QED BY <1>6, <2>1, <2>2, <2>3 DEF KindFirst
<1>18. KeysPast'
  <2>1. dump'.resp.rev = -1 /\ dump'.resp.del = -1 /\ dump'.cur = -1
    BY <1>3 DEF NoKey, NoRev
  <2> QED BY <1>1, <1>2, <1>5, <2>1 DEF KeysPast
<1>19. WriteAhead'
  <2>1. write # NoWrite => write.rev \in seen'.raced
    BY <1>2, <1>4 DEF raced, NoRev
  <2>2. \A e \in Told' : e.obj # "kind" => e \in Told
    BY <1>6, <1>7, <1>9, <1>12
  <2> QED BY <1>1, <2>1, <2>2 DEF WriteAhead
<1>20. ChainTells'
  <2>1. CASE full
    <3>1. Sent' = {} /\ incKey' = k /\ k.rev = -1 /\ k.del = -1
      BY <1>1, <1>5, <1>7, <2>1
    <3>2. \A o : NotLive({}, o)
      BY DEF NotLive
    <3> QED BY <1>1, <1>10, <3>1, <3>2 DEF ChainTells
  <2>2. CASE ~full
    BY <1>1, <1>4, <1>5, <1>7, <2>2 DEF ChainTells, raced
  <2> QED BY <2>1, <2>2
<1>21. DumpTells'
  <2>1. ASSUME NEW o \in SyncObjs, ~full, Firm(o)' PROVE objects[o].rev \notin seen.raced
    BY <1>1, <1>4, <1>9, <2>1 DEF Firm, raced, exempt
  <2>2. ASSUME NEW o \in SyncObjs
        PROVE  /\ NotLive(Sent', o) => NotLive(Told', o)
               /\ \A r : TellsLive(Sent', o, r) => TellsLive(Told', o, r)
    <3>1. \A e \in Told' : e.obj = o => e \in Sent'
      BY <1>6, <1>7, <1>9
    <3>2. Sent' \subseteq Told'
      BY <1>7
    <3> QED BY <3>1, <3>2 DEF NotLive, TellsLive, LatestIn
  <2>3. CASE full
    <3>1. \A o \in SyncObjs : NotLive(Told', o)
      <4>1. \A o : NotLive({}, o)
        BY DEF NotLive
      <4> QED BY <1>7, <2>2, <2>3, <4>1
    <3>2. \A o \in SyncObjs : objects'[o].st = "live" => Waits(o)'
      BY <1>1, <1>5, <1>8, <1>10, <1>11, <2>3 DEF Waits
    <3> QED BY <1>8, <3>1, <3>2 DEF DumpTells
  <2>4. CASE ~full
    <3>1. incKey' = incKey /\ k = incKey /\ Sent' = Sent
      BY <1>1, <1>5, <1>7, <2>4
    <3>2. ASSUME NEW o \in SyncObjs, objects[o].st = "live", Firm(o)'
          PROVE  TellsLive(Told', o, objects[o].rev) \/ Waits(o)'
      BY <1>1, <1>8, <1>11, <2>1, <2>2, <2>4, <3>1, <3>2 DEF ChainTells, Waits
    <3>3. ASSUME NEW o \in SyncObjs, objects[o].st = "del", Firm(o)'
          PROVE  NotLive(Told', o) \/ objects[o].rev > incKey'.del
      BY <2>1, <2>2, <2>4, <3>1, <3>3 DEF ChainTells
    <3>4. ASSUME NEW o \in SyncObjs, objects[o].st = "none"
          PROVE  o \in seen'.undumped \/ NotLive(Told', o)
      BY <1>4, <2>2, <2>4, <3>1, <3>4 DEF ChainTells
    <3> QED BY <1>1, <1>8, <3>2, <3>3, <3>4 DEF DumpTells
  <2> QED BY <2>3, <2>4
<1>22. LastComplete'
  BY <1>8 DEF LastComplete
<1> QED BY <1>13, <1>14, <1>15, <1>16, <1>17, <1>18, <1>19, <1>20, <1>21, <1>22

\* The next waiting entry: a ghost is passed over, the object as it is now is told.
LEMMA DumpObjKeeps == ASSUME PurgeIInv, SourceIInv, DumpObj PROVE SourceIInv'
<1> USE DEF SourceIInv
<1> DEFINE e == Oldest(dump.todo)
           x == objects[e.obj]
           new == [obj |-> e.obj, rev |-> x.rev, st |-> x.st]
<1>1. /\ dump.pc \in {"live", "del"} /\ dump.todo # {}
      /\ UNCHANGED <<objects, rev, write, chain, incKey, seen>>
      /\ \/ x.st = "none" /\ dump' = [dump EXCEPT !.todo = @ \ {e}]
         \/ x.st # "none" /\ dump' = [dump EXCEPT !.todo = @ \ {e}, !.cur = x.rev,
                                                  !.file = Append(@, new)]
  BY DEF DumpObj, clientVars
<1>2. dump \in DumpType /\ dump.file \in Seq(FileEntries) /\ dump.todo \subseteq Waiting
      /\ rev \in Nat
  BY DEF BackupTypeOK, DumpType, PurgeIInv, AdminTypeOK
<1>3. e \in dump.todo
  <2> DEFINE revs == {t.rev : t \in dump.todo}
  <2>1. revs \subseteq Nat /\ revs # {}
    BY <1>1, <1>2 DEF Waiting
  <2>2. \E r \in revs : \A q \in revs : r <= q
    <3> HIDE DEF revs
    <3> QED BY ONLY <2>1, Least
  <2>3. \E t \in dump.todo : \A u \in dump.todo : t.rev <= u.rev
    BY <2>2
  <2> QED BY <2>3 DEF Oldest
<1>4. e.obj \in SyncObjs /\ e.obj \in Objs /\ e.obj # "kind" /\ e = [obj |-> e.obj, rev |-> e.rev]
  BY <1>2, <1>3, AdminAssumption DEF Waiting
<1> HIDE DEF e
<1>5. SyncObjs \subseteq Objs
  BY AdminAssumption
<1>6. Dumping /\ Dumping' /\ dump'.pc = dump.pc /\ dump'.more = dump.more /\ Sent' = Sent
  <2>1. dump'.pc = dump.pc /\ dump'.more = dump.more
    <3> HIDE DEF x, new
    <3> QED BY <1>1, <1>2 DEF DumpType
  <2> QED BY <1>1, <2>1 DEF Dumping, Idle, Sent
<1>7. CASE x.st = "none"
  <2>1. dump' = [dump EXCEPT !.todo = @ \ {e}]
    BY <1>1, <1>7
  <2>2. /\ dump' \in DumpType /\ dump'.file = dump.file /\ dump'.todo = dump.todo \ {e}
        /\ dump'.cur = dump.cur /\ dump'.resp = dump.resp
    BY <1>2, <2>1 DEF DumpType
  <2>3. Told' = Told
    BY <1>6, <2>2 DEF Told
  <2>4. BackupTypeOK' /\ ObjectsPast' /\ EntriesAgree' /\ ChainOrdered' /\ KindFirst' /\ KeysPast'
    BY <1>1, <1>6, <2>2, <2>3
       DEF BackupTypeOK, ObjectsPast, EntriesAgree, EntryAgrees, ChainOrdered, KindFirst, KeysPast
  <2>5. WriteAhead' /\ ChainTells' /\ AsAtDump' /\ DumpStages' /\ LastComplete'
    BY <1>1, <1>6, <2>2, <2>3
       DEF WriteAhead, ChainTells, AsAtDump, DumpStages, LastComplete, LastTells
  <2>6. DumpTells'
    <3>1. \A o \in SyncObjs : objects[o].st # "none" /\ Waits(o) => Waits(o)'
      BY <1>1, <1>4, <1>7, <2>2 DEF Waits
    <3> QED BY <1>1, <1>6, <2>2, <2>3, <3>1 DEF DumpTells, Firm
  <2> QED BY <2>4, <2>5, <2>6
<1>8. CASE x.st # "none"
  <2>1. dump' = [dump EXCEPT !.todo = @ \ {e}, !.cur = x.rev, !.file = Append(@, new)]
    BY <1>1, <1>8
  <2>2. new \in FileEntries /\ new.obj = e.obj /\ new.rev = x.rev /\ new.st = x.st /\ x.rev \in Nat /\ x.rev <= rev
    BY <1>4, <1>8 DEF FileEntries, ObjectsPast, PurgeIInv, AdminTypeOK
  <2> HIDE DEF new, x
  <2>3. /\ dump'.file = Append(dump.file, new) /\ dump'.todo = dump.todo \ {e}
        /\ dump'.cur = x.rev /\ dump'.resp = dump.resp /\ dump' \in DumpType
    <3> DEFINE file == Append(dump.file, new)
               todo == dump.todo \ {e}
    <3>1. dump' = [dump EXCEPT !.todo = todo, !.cur = x.rev, !.file = file]
      BY <2>1
    <3>2. file \in Seq(FileEntries) /\ todo \subseteq Waiting /\ x.rev \in Int
      BY <1>2, <2>2, AppendIs
    <3> HIDE DEF file, todo
    <3>3. dump' = [pc |-> dump.pc, file |-> file, todo |-> todo, cur |-> x.rev, resp |-> dump.resp,
                   more |-> dump.more]
      BY <1>2, <3>1 DEF DumpType
    <3>4. dump' \in DumpType
      BY <1>2, <3>2, <3>3 DEF DumpType
    <3> QED BY <3>3, <3>4 DEF file, todo
  <2>4. Told' = Told \cup {new} /\ Range(dump'.file) = Range(dump.file) \cup {new}
    BY <1>2, <1>6, <2>2, <2>3, AppendIs DEF Told
  <2>5. \A d \in Told : d.obj = e.obj => d.rev <= x.rev /\ (d.rev = x.rev => d.st = x.st)
    BY <1>4, <1>8 DEF EntriesAgree, EntryAgrees, x
  <2>6. BackupTypeOK' /\ ObjectsPast' /\ DumpStages' /\ AsAtDump' /\ ChainTells' /\ LastComplete'
    BY <1>1, <1>6, <2>3
       DEF BackupTypeOK, ObjectsPast, DumpStages, AsAtDump, ChainTells, LastComplete
  <2>7. EntriesAgree'
    <3>1. ASSUME NEW d, d = new PROVE EntryAgrees(d)'
      BY <1>1, <1>4, <2>2, <3>1 DEF EntryAgrees, x
    <3>2. \A d \in Told : EntryAgrees(d)'
      BY <1>1 DEF EntriesAgree, EntryAgrees
    <3>3. \A d \in Told : d.obj = new.obj /\ d.rev = new.rev => d.st = new.st
      BY <2>2, <2>5
    <3> QED BY <1>1, <2>2, <2>4, <3>1, <3>2, <3>3 DEF EntriesAgree
  <2>8. ChainOrdered'
    <3>1. \A d \in Told : d.obj = new.obj => d.rev <= new.rev
      BY <2>2, <2>5
    <3>2. FileOrdered(dump'.file)
      <4> DEFINE s == dump.file
                 t == Append(s, new)
      <4>1. /\ DOMAIN s = 1..Len(s) /\ DOMAIN t = 1..(Len(s) + 1) /\ Len(s) \in Nat
            /\ \A i \in 1..Len(s) : t[i] = s[i] /\ s[i] \in Told
            /\ t[Len(s) + 1] = new
        BY <1>2, <2>2, AppendIs DEF Told, Range
      <4>2. FileOrdered(s) /\ dump'.file = t
        BY <2>3 DEF ChainOrdered
      <4> HIDE DEF s, t
      <4>3. ASSUME NEW i \in DOMAIN t, NEW j \in DOMAIN t, i < j, t[i].obj = t[j].obj
            PROVE  t[i].rev <= t[j].rev
        <5>1. CASE j = Len(s) + 1
          BY <3>1, <4>1, <4>3, <5>1
        <5>2. CASE j # Len(s) + 1
          BY <4>1, <4>2, <4>3, <5>2 DEF FileOrdered
        <5> QED BY <5>1, <5>2
      <4> QED BY <4>2, <4>3 DEF FileOrdered
    <3>3. Precede(Sent, Range(dump'.file))
      <4>1. Sent \subseteq Told
        BY ToldTyped
      <4> QED BY <2>4, <3>1, <4>1 DEF ChainOrdered, Precede
    <3> QED BY <1>1, <1>6, <3>2, <3>3 DEF ChainOrdered
  <2>9. KindFirst'
    <3>1. dump.file # <<>> => dump'.file # <<>> /\ dump'.file[1] = dump.file[1]
      BY <1>2, <2>2, <2>3, AppendIs
    <3> QED BY <1>1, <1>6, <3>1 DEF KindFirst
  <2>10. KeysPast'
    BY <1>1, <2>2, <2>3 DEF KeysPast
  <2>11. WriteAhead'
    BY <1>1, <1>4, <1>6, <2>2, <2>4 DEF WriteAhead, x
  <2>12. DumpTells'
    <3>1. ASSUME NEW o \in SyncObjs, o # e.obj
          PROVE  /\ NotLive(Told, o) => NotLive(Told', o)
                 /\ \A r : TellsLive(Told, o, r) => TellsLive(Told', o, r)
                 /\ Waits(o) => Waits(o)'
      <4>1. \A d \in Told' : d.obj = o => d \in Told
        BY <2>2, <2>4, <3>1
      <4>2. Waits(o) => Waits(o)'
        BY <1>1, <1>4, <2>3, <3>1 DEF Waits
      <4> QED BY <2>4, <4>1, <4>2 DEF NotLive, TellsLive, LatestIn
    <3>2. x.st = "live" => TellsLive(Told', e.obj, x.rev)
      BY <2>2, <2>4, <2>5 DEF TellsLive, LatestIn, new
    <3>3. x.st = "del" => NotLive(Told', e.obj)
      <4>1. ASSUME x.st = "del", NEW d \in Told', LatestIn(Told', d), d.obj = e.obj PROVE d.st # "live"
        <5>1. new \in Told' /\ x.rev <= d.rev
          BY <2>2, <2>4, <4>1 DEF LatestIn
        <5>2. CASE d = new
          BY <2>2, <4>1, <5>2
        <5>3. CASE d \in Told
          <6>1. d.rev \in Nat
            BY <5>3, ToldTyped DEF FileEntries
          <6> QED BY <2>2, <2>5, <4>1, <5>1, <5>3, <6>1
        <5> QED BY <2>4, <5>2, <5>3
      <4> QED BY <4>1 DEF NotLive
    <3>4. \A o \in SyncObjs : Firm(o)' <=> Firm(o)
      BY <1>1 DEF Firm
    <3>5. dump'.more = dump.more /\ dump'.resp = dump.resp /\ dump.pc # "reply"
      BY <1>1, <1>6, <2>3
    <3>6. ASSUME NEW o \in SyncObjs, o # e.obj
          PROVE  /\ objects[o].st = "live" /\ Firm(o) =>
                      TellsLive(Told', o, objects[o].rev) \/ (dump.pc = "live" /\ Waits(o)')
                 /\ objects[o].st = "del" /\ Firm(o) =>
                      \/ NotLive(Told', o)
                      \/ dump.pc = "live" /\ objects[o].rev > incKey.del
                      \/ dump.pc = "del" /\ Waits(o)'
                 /\ objects[o].st = "none" => o \in seen.undumped \/ NotLive(Told', o)
      BY <1>6, <3>1, <3>5, <3>6 DEF DumpTells
    <3> QED BY <1>1, <1>4, <1>6, <1>8, <3>2, <3>3, <3>4, <3>6 DEF DumpTells, x
  <2> QED BY <2>6, <2>7, <2>8, <2>9, <2>10, <2>11, <2>12
<1> QED BY <1>7, <1>8

\* The file is full: what is passed over because of a later write is excused, the rest stays above the key.
LEMMA DumpFullKeeps == ASSUME PurgeIInv, SourceIInv, DumpFull PROVE SourceIInv'
<1> USE DEF SourceIInv
<1> DEFINE r == IF dump.cur = NoRev THEN ParamOf(dump.pc) ELSE dump.cur
           answer == WithOther(WithRev(dump.resp, dump.pc, r), dump.pc)
           skipped == {t \in dump.todo : t.rev <= r}
           raced == seen.raced \cup {t.rev : t \in skipped}
           exempt == seen.exempt \cup {t.obj : t \in skipped}
<1>1. /\ dump.pc \in {"live", "del"}
      /\ dump' = [dump EXCEPT !.pc = "reply", !.more = TRUE, !.resp = answer]
      /\ seen' = [seen EXCEPT !.raced = raced, !.exempt = exempt]
      /\ UNCHANGED <<objects, rev, write, chain, incKey>>
  BY DEF DumpFull, clientVars
<1>2. /\ dump \in DumpType /\ dump.todo \subseteq Waiting /\ dump.cur \in Int /\ dump.resp \in IncKeys
      /\ incKey \in IncKeys /\ rev \in Nat /\ SeenShape
  BY DEF BackupTypeOK, DumpType, PurgeIInv, AdminTypeOK
<1>3. r \in Int /\ r <= rev
  BY <1>2 DEF ParamOf, KeysPast, IncKeys
<1>4. /\ answer \in IncKeys /\ answer.rev <= rev /\ answer.del <= rev
      /\ dump.pc = "live" => answer.rev = r /\ answer.del = incKey.del
      /\ dump.pc = "del" => answer.rev = incKey.rev /\ answer.del = r
  <2> HIDE DEF r
  <2> QED BY <1>1, <1>2, <1>3 DEF WithOther, WithRev, IncKeys, KeysPast
<1> HIDE DEF answer
<1>5. /\ dump' \in DumpType /\ dump'.pc = "reply" /\ dump'.more /\ dump'.resp = answer
      /\ dump'.cur = dump.cur /\ dump'.file = dump.file
  BY <1>1, <1>2, <1>4 DEF DumpType
<1>6. /\ seen'.raced = raced /\ seen'.exempt = exempt
      /\ UNCHANGED <<seen.undumped, seen.atDump>>
  <2> HIDE DEF raced, exempt
  <2> QED BY <1>1, <1>2 DEF SeenShape
<1>7. Dumping /\ Dumping' /\ Sent' = Sent /\ Told' = Told
  BY <1>1, <1>5 DEF Dumping, Idle, Sent, Told
<1>8. ASSUME NEW o \in SyncObjs, Firm(o)'
      PROVE  Firm(o) /\ (Waits(o) => objects[o].rev > r)
  <2>1. Firm(o)
    BY <1>1, <1>6, <1>8 DEF Firm
  <2>2. ASSUME Waits(o) PROVE objects[o].rev > r
    <3> DEFINE t == [obj |-> o, rev |-> objects[o].rev]
    <3>1. t \in dump.todo /\ t.obj = o /\ t.rev = objects[o].rev /\ t.rev \in Nat
      BY <1>2, <2>2 DEF Waits, Waiting
    <3> HIDE DEF t, r
    <3>2. t \notin skipped
      BY <1>1, <1>6, <1>8, <3>1 DEF Firm
    <3> QED BY <1>3, <3>1, <3>2
  <2> QED BY <2>1, <2>2
<1> HIDE DEF r, skipped
<1>9. BackupTypeOK' /\ ObjectsPast' /\ EntriesAgree' /\ ChainOrdered' /\ KindFirst' /\ KeysPast'
  <2>1. KindFirst'
    BY <1>1, <1>5, <1>7 DEF KindFirst
  <2>2. EntriesAgree' /\ ChainOrdered'
    BY <1>1, <1>5, <1>7 DEF EntriesAgree, EntryAgrees, ChainOrdered
  <2> QED BY <1>1, <1>4, <1>5, <2>1, <2>2 DEF BackupTypeOK, ObjectsPast, KeysPast
<1>10. WriteAhead' /\ ChainTells' /\ AsAtDump' /\ DumpStages' /\ LastComplete'
  <2>1. WriteAhead'
    BY <1>1, <1>6, <1>7 DEF WriteAhead
  <2>2. ChainTells'
    BY <1>1, <1>6, <1>7 DEF ChainTells
  <2>3. AsAtDump'
    BY <1>1, <1>6, <1>7 DEF AsAtDump
  <2> QED BY <1>5, <1>7, <2>1, <2>2, <2>3 DEF DumpStages, LastComplete
<1>11. DumpTells'
  <2>1. ASSUME NEW o \in SyncObjs
        PROVE  /\ objects[o].st = "live" /\ Firm(o)' =>
                    TellsLive(Told, o, objects[o].rev) \/ objects[o].rev > answer.rev
               /\ objects[o].st = "del" /\ Firm(o)' =>
                    NotLive(Told, o) \/ objects[o].rev > answer.del
               /\ objects[o].st = "none" => o \in seen.undumped \/ NotLive(Told, o)
    BY <1>1, <1>4, <1>7, <1>8 DEF DumpTells
  <2> QED BY <1>1, <1>5, <1>6, <1>7, <2>1 DEF DumpTells
<1> QED BY <1>9, <1>10, <1>11

\* A pass ends: nothing of it waits any more.
LEMMA DumpPassEndKeeps == ASSUME PurgeIInv, SourceIInv, DumpPassEnd PROVE SourceIInv'
<1> USE DEF SourceIInv
<1> DEFINE answer == IF dump.cur = NoRev THEN dump.resp ELSE WithRev(dump.resp, dump.pc, dump.cur)
           deleted == Entries("del", incKey.del)
<1>1. /\ dump.pc \in {"live", "del"} /\ dump.todo = {}
      /\ dump' = IF dump.pc = "live"
                 THEN [dump EXCEPT !.pc = "del", !.resp = answer, !.cur = NoRev, !.todo = deleted]
                 ELSE [dump EXCEPT !.pc = "reply", !.resp = answer]
      /\ UNCHANGED <<objects, rev, write, chain, incKey, seen>>
  BY DEF DumpPassEnd, clientVars
<1>2. /\ dump \in DumpType /\ dump.cur \in Int /\ dump.resp \in IncKeys /\ incKey \in IncKeys
      /\ rev \in Nat
  BY DEF BackupTypeOK, DumpType, PurgeIInv, AdminTypeOK
<1>3. answer \in IncKeys /\ answer.rev <= rev /\ answer.del <= rev
  BY <1>2 DEF WithRev, IncKeys, KeysPast
<1>4. SyncObjs \subseteq Objs
  BY AdminAssumption
<1>5. deleted \subseteq Waiting
  BY <1>4 DEF Entries, Waiting, ObjectsPast
<1> HIDE DEF answer, deleted
<1>6. /\ dump' \in DumpType /\ dump'.file = dump.file /\ dump'.more = dump.more
      /\ dump'.resp = answer /\ dump'.cur \in {NoRev, dump.cur}
      /\ dump.pc = "live" => dump'.pc = "del" /\ dump'.todo = deleted
      /\ dump.pc = "del" => dump'.pc = "reply"
  <2>1. CASE dump.pc = "live"
    <3>1. dump' = [pc |-> "del", file |-> dump.file, todo |-> deleted, cur |-> NoRev, resp |-> answer,
                   more |-> dump.more]
      BY <1>1, <1>2, <2>1 DEF DumpType
    <3>2. dump' \in DumpType
      BY <1>2, <1>3, <1>5, <3>1 DEF DumpType, NoRev
    <3> QED BY <2>1, <3>1, <3>2
  <2>2. CASE dump.pc = "del"
    <3>1. dump' = [dump EXCEPT !.pc = "reply", !.resp = answer]
      BY <1>1, <2>2
    <3> QED BY <1>2, <1>3, <2>2, <3>1 DEF DumpType
  <2> QED BY <1>1, <2>1, <2>2
<1>7. Dumping /\ Dumping' /\ Sent' = Sent /\ Told' = Told
  BY <1>1, <1>6 DEF Dumping, Idle, Sent, Told
<1>8. BackupTypeOK' /\ ObjectsPast' /\ EntriesAgree' /\ ChainOrdered' /\ KindFirst' /\ KeysPast'
  <2>1. KindFirst'
    BY <1>1, <1>6, <1>7 DEF KindFirst
  <2>2. EntriesAgree' /\ ChainOrdered'
    BY <1>1, <1>6, <1>7 DEF EntriesAgree, EntryAgrees, ChainOrdered
  <2>3. KeysPast'
    BY <1>1, <1>2, <1>3, <1>6 DEF KeysPast, NoRev
  <2> QED BY <1>1, <1>6, <2>1, <2>2, <2>3 DEF BackupTypeOK, ObjectsPast
<1>9. WriteAhead' /\ ChainTells' /\ AsAtDump' /\ DumpStages' /\ LastComplete'
  <2>1. WriteAhead' /\ ChainTells' /\ AsAtDump'
    BY <1>1, <1>6, <1>7 DEF WriteAhead, ChainTells, AsAtDump
  <2> QED BY <1>1, <1>6, <1>7, <2>1 DEF DumpStages, LastComplete
<1>10. DumpTells'
  <2>1. \A o \in SyncObjs : Firm(o)' <=> Firm(o)
    BY <1>1 DEF Firm
  <2>2. \A o \in SyncObjs : ~Waits(o)
    BY <1>1 DEF Waits
  <2>3. ASSUME NEW o \in SyncObjs, dump.pc = "live", objects[o].st = "del", objects[o].rev > incKey.del
        PROVE  Waits(o)'
    BY <1>1, <1>6, <2>3 DEF Waits, Entries, deleted
  <2> QED BY <1>1, <1>6, <1>7, <2>1, <2>2, <2>3 DEF DumpTells
<1> QED BY <1>8, <1>9, <1>10

\* The answer: the file joins the finished ones, its key is the next file's.
LEMMA DumpReplyKeeps == ASSUME PurgeIInv, SourceIInv, DumpReply PROVE SourceIInv'
<1> USE DEF SourceIInv
<1> DEFINE new == [objects |-> dump.file, hasMore |-> dump.more]
           files == [objects : Seq(FileEntries), hasMore : BOOLEAN]
           n == Len(chain) + 1
<1>1. /\ dump.pc = "reply" /\ chain' = Append(chain, new) /\ incKey' = dump.resp
      /\ dump' = [IdleDump EXCEPT !.more = dump.more]
      /\ UNCHANGED <<objects, rev, write, seen>>
  BY DEF DumpReply, clientVars
<1>2. /\ dump \in DumpType /\ dump.file \in Seq(FileEntries) /\ dump.more \in BOOLEAN
      /\ dump.resp \in IncKeys /\ rev \in Nat /\ chain \in Seq(files)
  BY DEF BackupTypeOK, DumpType, PurgeIInv, AdminTypeOK
<1>3. new \in files /\ new.objects = dump.file
  BY <1>2
<1>4. dump' = [pc |-> Idle, file |-> <<>>, todo |-> {}, cur |-> NoRev, resp |-> NoKey, more |-> dump.more]
  BY <1>1 DEF IdleDump
<1> HIDE DEF new, files
<1>5. /\ chain' \in Seq(files) /\ Len(chain) \in Nat /\ DOMAIN chain = 1..Len(chain) /\ DOMAIN chain' = 1..n
      /\ \A f \in DOMAIN chain : chain'[f] = chain[f]
      /\ chain'[n] = new /\ n \in DOMAIN chain'
  <2>1. n \in 1..n
    BY <1>2, <1>3, AppendIs
  <2> QED BY <1>1, <1>2, <1>3, <2>1, AppendIs
<1> HIDE DEF n
<1>6. Dumping /\ ~Dumping'
  BY <1>1, <1>4 DEF Dumping, Idle
<1>7. Sent' = Told /\ Told' = Told
  <2>1. \A f \in DOMAIN chain' : f \in DOMAIN chain \/ f = n
    BY <1>5 DEF n
  <2>2. \A f \in DOMAIN chain : f \in DOMAIN chain'
    BY <1>5 DEF n
  <2>3. \A e : e \in Sent' <=> \E f \in DOMAIN chain' : e \in Range(chain'[f].objects)
    BY DEF Sent
  <2>4. \A e : e \in Sent <=> \E f \in DOMAIN chain : e \in Range(chain[f].objects)
    BY DEF Sent
  <2>5. \A e : e \in Sent' <=> e \in Sent \/ e \in Range(dump.file)
    BY <1>3, <1>5, <2>1, <2>2, <2>3, <2>4
  <2>6. Range(dump'.file) = {}
    BY <1>4 DEF Range
  <2> QED BY <2>5, <2>6 DEF Told
<1>8. BackupTypeOK'
  <2>1. dump' \in DumpType
    BY <1>2, <1>4 DEF DumpType, IncKeys, NoKey, NoRev
  <2> QED BY <1>1, <1>2, <1>5, <2>1 DEF BackupTypeOK, files
<1>9. ObjectsPast' /\ EntriesAgree'
  BY <1>1, <1>7 DEF ObjectsPast, EntriesAgree, EntryAgrees
<1>10. ChainOrdered'
  <2>1. dump'.file = <<>> /\ Range(dump'.file) = {} /\ FileOrdered(dump'.file)
    BY <1>4 DEF Range, FileOrdered
  <2>2. \A f \in DOMAIN chain' : FileOrdered(chain'[f].objects)
    <3>1. \A f \in DOMAIN chain' : f \in DOMAIN chain \/ f = n
      BY <1>5 DEF n
    <3> QED BY <1>3, <1>5, <3>1 DEF ChainOrdered
  <2>3. ASSUME NEW f \in DOMAIN chain', NEW g \in DOMAIN chain', f < g
        PROVE  Precede(Range(chain'[f].objects), Range(chain'[g].objects))
    <3>1. f \in DOMAIN chain /\ chain'[f] = chain[f]
      BY <1>5, <2>3 DEF n
    <3>2. CASE g \in DOMAIN chain
      BY <1>5, <2>3, <3>1, <3>2 DEF ChainOrdered
    <3>3. CASE g = n
      <4>1. Range(chain[f].objects) \subseteq Sent
        BY <3>1 DEF Sent
      <4> QED BY <1>3, <1>5, <3>1, <3>3, <4>1 DEF ChainOrdered, Precede
    <3> QED BY <1>5, <3>2, <3>3 DEF n
  <2> QED BY <2>1, <2>2, <2>3 DEF ChainOrdered, Precede
<1>11. KindFirst'
  <2>1. CASE chain = <<>>
    <3>1. n = 1
      BY <2>1 DEF n
    <3> QED BY <1>3, <1>5, <1>6, <2>1, <3>1 DEF KindFirst
  <2>2. CASE chain # <<>>
    <3>1. 1 \in DOMAIN chain
      BY <1>2, <2>2
    <3> QED BY <1>5, <1>6, <2>2, <3>1 DEF KindFirst
  <2> QED BY <2>1, <2>2
<1>12. KeysPast'
  <2>1. dump'.resp.rev = -1 /\ dump'.resp.del = -1 /\ dump'.cur = -1
    BY <1>4 DEF NoKey, NoRev
  <2> QED BY <1>1, <1>2, <2>1 DEF KeysPast
<1>13. WriteAhead'
  BY <1>1, <1>6, <1>7 DEF WriteAhead
<1>14. ChainTells'
  BY <1>1, <1>6, <1>7 DEF DumpTells, ChainTells, Firm
<1>15. DumpTells' /\ AsAtDump' /\ DumpStages'
  BY <1>4, <1>6 DEF DumpTells, AsAtDump, DumpStages, Idle
<1>16. LastComplete'
  <2>1. dump'.more = dump.more
    BY <1>4
  <2>2. \A o \in SyncObjs : objects[o].st \in {"live", "del", "none"}
    BY AdminAssumption DEF PurgeIInv, AdminTypeOK
  <2>3. ASSUME ~dump.more, NEW o \in SyncObjs \ (seen.exempt \cup seen.undumped)
        PROVE  IF seen.atDump[o] = NoRev THEN NotLive(Told, o) ELSE TellsLive(Told, o, seen.atDump[o])
    <3>1. Firm(o)
      BY DEF Firm
    <3> QED BY <1>1, <1>6, <2>2, <2>3, <3>1 DEF DumpTells, AsAtDump
  <2> QED BY <1>1, <1>7, <2>1, <2>3 DEF LastComplete, LastTells
<1> QED BY <1>8, <1>9, <1>10, <1>11, <1>12, <1>13, <1>14, <1>15, <1>16

\* A dump fails: its file is not among those that are loaded.
LEMMA DumpFailsKeeps == ASSUME PurgeIInv, SourceIInv, DumpFails PROVE SourceIInv'
<1> USE DEF SourceIInv
<1>1. /\ dump' = [IdleDump EXCEPT !.more = TRUE]
      /\ UNCHANGED <<objects, rev, write, chain, incKey, seen>>
  BY DEF DumpFails, clientVars
<1>2. dump' = [pc |-> Idle, file |-> <<>>, todo |-> {}, cur |-> NoRev, resp |-> NoKey, more |-> TRUE]
  BY <1>1 DEF IdleDump
<1>3. Range(dump'.file) = {} /\ FileOrdered(dump'.file) /\ dump'.more /\ ~Dumping'
  BY <1>2 DEF Range, FileOrdered, Dumping
<1>4. Sent' = Sent /\ Told' = Sent /\ Sent \subseteq Told
  BY <1>1, <1>3, ToldTyped DEF Told, Sent
<1>5. BackupTypeOK'
  <2>1. dump' \in DumpType
    BY <1>2 DEF DumpType, IncKeys, NoKey, NoRev, Idle
  <2> QED BY <1>1, <2>1 DEF BackupTypeOK
<1>6. ObjectsPast' /\ EntriesAgree' /\ ChainOrdered' /\ KindFirst'
  <2>1. ObjectsPast' /\ EntriesAgree'
    BY <1>1, <1>4 DEF ObjectsPast, EntriesAgree, EntryAgrees
  <2>2. ChainOrdered' /\ KindFirst'
    BY <1>1, <1>3, <1>4 DEF ChainOrdered, Precede, KindFirst
  <2> QED BY <2>1, <2>2
<1>7. KeysPast'
  <2>1. dump'.resp.rev = -1 /\ dump'.resp.del = -1 /\ dump'.cur = -1 /\ rev \in Nat
    BY <1>2 DEF NoKey, NoRev, PurgeIInv, AdminTypeOK
  <2> QED BY <1>1, <2>1 DEF KeysPast
<1>8. WriteAhead' /\ ChainTells'
  <2>1. WriteAhead'
    BY <1>1, <1>3, <1>4 DEF WriteAhead
  <2>2. ChainTells'
    BY <1>1, <1>4 DEF ChainTells
  <2> QED BY <2>1, <2>2
<1>9. DumpTells' /\ AsAtDump' /\ DumpStages' /\ LastComplete'
  BY <1>2, <1>3 DEF DumpTells, AsAtDump, DumpStages, LastComplete, Idle
<1> QED BY <1>5, <1>6, <1>7, <1>8, <1>9

\* Every step of the source.
LEMMA SourceKeeps ==
  ASSUME PurgeIInv, SourceIInv, [AdminNext]_adminVars PROVE SourceIInv'
<1>1. ASSUME RestoreNext PROVE SourceIInv'
  <2>1. UNCHANGED <<objects, rev, write, dump, chain, incKey, seen>>
    BY <1>1 DEF RestoreNext, RestoreBegin, LoadObj, LoadEnd, RestoreFails, clientVars, backupVars
  <2>2. WriteAhead'
    BY <2>1 DEF SourceIInv, WriteAhead, Told, Sent, Dumping
  <2>3. rev \in Nat
    BY DEF PurgeIInv, AdminTypeOK
  <2> QED BY <2>1, <2>2, <2>3, QuietKeeps
<1>2. ASSUME DumpNext PROVE SourceIInv'
  BY <1>2, DumpBeginKeeps, DumpObjKeeps, DumpFullKeeps, DumpPassEndKeeps, DumpReplyKeeps, DumpFailsKeeps
     DEF DumpNext
<1>3. ASSUME UNCHANGED adminVars PROVE SourceIInv'
  <2>1. UNCHANGED <<objects, rev, write, dump, chain, incKey, seen>>
    BY <1>3 DEF adminVars
  <2>2. WriteAhead'
    BY <2>1 DEF SourceIInv, WriteAhead, Told, Sent, Dumping
  <2>3. rev \in Nat
    BY DEF PurgeIInv, AdminTypeOK
  <2> QED BY <2>1, <2>2, <2>3, QuietKeeps
<1> QED BY <1>1, <1>2, <1>3, WritesKeepSource, PurgesKeepSource DEF AdminNext

\* A database in use, no file yet, no restore.
LEMMA SourceInit == ASSUME AdminInit PROVE SourceIInv /\ Restored
<1>1. /\ chain = <<>> /\ dump = IdleDump /\ incKey = NoKey /\ write = NoWrite /\ restore = IdleRestore
      /\ rev = Cardinality(Objs)
  BY DEF AdminInit
<1>2. Cardinality(Objs) \in Nat
  BY AdminAssumption, FS_CardinalityType
<1>3. /\ Sent = {} /\ Told = {} /\ ~Dumping /\ DOMAIN chain = {}
      /\ dump.file = <<>> /\ Range(dump.file) = {} /\ dump.resp = NoKey /\ dump.cur = -1
  BY <1>1 DEF Sent, Told, Dumping, IdleDump, Range, NoRev
<1>4. BackupTypeOK
  <2>1. dump \in DumpType
    BY <1>1 DEF DumpType, IdleDump, IncKeys, NoKey, NoRev, Idle
  <2> QED BY <1>1, <2>1 DEF BackupTypeOK, IncKeys, NoKey, NoRev
<1>5. ASSUME NEW o \in Objs
      PROVE  objects[o].st \in {"live", "del"} /\ objects[o].rev = Order[o] /\ Order[o] \in 1..Cardinality(Objs)
  BY AdminAssumption DEF AdminInit
<1>6. ObjectsPast
  BY <1>1, <1>2, <1>5 DEF ObjectsPast
<1>7. EntriesAgree /\ ChainOrdered /\ KindFirst /\ WriteAhead /\ DumpTells /\ AsAtDump /\ DumpStages /\ LastComplete
  BY <1>1, <1>3 DEF EntriesAgree, ChainOrdered, FileOrdered, Precede, KindFirst, WriteAhead, DumpTells,
                    AsAtDump, DumpStages, LastComplete, Idle, IdleDump
<1>8. KeysPast
  BY <1>1, <1>2, <1>3 DEF KeysPast, NoKey, NoRev
<1>9. ChainTells
  <2>1. \A o \in SyncObjs : objects[o].rev > -1 /\ objects[o].st # "none"
    BY <1>2, <1>5, AdminAssumption
  <2> QED BY <1>1, <2>1 DEF ChainTells, NoKey, NoRev
<1>10. Restored
  BY <1>1 DEF Restored, IdleRestore, Idle
<1> QED BY <1>4, <1>6, <1>7, <1>8, <1>9, <1>10 DEF SourceIInv

\* What has been read, entry by entry and file by file.
LEMMA ReadingIs ==
  ASSUME BackupTypeOK
  PROVE  /\ Len(chain) \in Nat /\ DOMAIN chain = 1..Len(chain)
         /\ \A f \in DOMAIN chain : /\ Len(chain[f].objects) \in Nat
                                    /\ DOMAIN chain[f].objects = 1..Len(chain[f].objects)
         /\ ReadUpTo(1, 1) = {}
         /\ \A f \in DOMAIN chain, n \in Nat : n \in 1..Len(chain[f].objects) =>
              ReadUpTo(f, n + 1) = ReadUpTo(f, n) \cup {chain[f].objects[n]}
         /\ \A f \in DOMAIN chain : ReadUpTo(f + 1, 1) = ReadUpTo(f, Len(chain[f].objects) + 1)
         /\ chain # <<>> => ReadUpTo(Len(chain), Len(chain[Len(chain)].objects) + 1) = Sent
         /\ \A f \in DOMAIN chain, n \in Nat : n \in 1..(Len(chain[f].objects) + 1) =>
              ReadUpTo(f, n) \subseteq Sent
<1>1. Len(chain) \in Nat /\ DOMAIN chain = 1..Len(chain) /\ (chain # <<>> => Len(chain) \in DOMAIN chain)
  <2> DEFINE files == [objects : Seq(FileEntries), hasMore : BOOLEAN]
  <2>1. chain \in Seq(files)
    BY DEF BackupTypeOK
  <2> HIDE DEF files
  <2> QED BY <2>1
<1>2. ASSUME NEW f \in DOMAIN chain
      PROVE  /\ Len(chain[f].objects) \in Nat
             /\ DOMAIN chain[f].objects = 1..Len(chain[f].objects)
  <2>1. chain[f].objects \in Seq(FileEntries)
    <3> DEFINE F == Seq(FileEntries)
               files == [objects : F, hasMore : BOOLEAN]
    <3>1. chain \in Seq(files)
      BY DEF BackupTypeOK
    <3> HIDE DEF F, files
    <3>2. chain[f] \in files
      BY <3>1
    <3>3. chain[f].objects \in F
      BY <3>2 DEF files
    <3> QED BY <3>3 DEF F
  <2> QED BY <2>1
<1> DEFINE InFile(g, e) == \E i \in DOMAIN chain[g].objects : e = chain[g].objects[i]
<1>3. \A f, n, e : e \in ReadUpTo(f, n) <=> \/ \E g \in 1..(f - 1) : InFile(g, e)
                                           \/ \E i \in 1..(n - 1) : e = chain[f].objects[i]
  <2> TAKE f, n, e
  <2> DEFINE earlier == {Range(chain[g].objects) : g \in 1..(f - 1)}
             here == {chain[f].objects[i] : i \in 1..(n - 1)}
  <2>1. e \in UNION earlier <=> \E g \in 1..(f - 1) : e \in Range(chain[g].objects)
    OBVIOUS
  <2>2. \A g : e \in Range(chain[g].objects) <=> InFile(g, e)
    BY DEF Range
  <2>3. e \in here <=> \E i \in 1..(n - 1) : e = chain[f].objects[i]
    OBVIOUS
  <2>4. ReadUpTo(f, n) = (UNION earlier) \cup here
    BY DEF ReadUpTo
  <2> HIDE DEF InFile, earlier, here
  <2> QED BY ONLY <2>1, <2>2, <2>3, <2>4
<1>4. \A e : e \in Sent <=> \E g \in DOMAIN chain : InFile(g, e)
  BY DEF Sent, Range
<1>5. ReadUpTo(1, 1) = {}
  <2>1. 1..(1 - 1) = {}
    OBVIOUS
  <2> QED BY <1>3, <2>1
<1>6. ASSUME NEW f \in DOMAIN chain, NEW n \in Nat, n \in 1..Len(chain[f].objects)
      PROVE  ReadUpTo(f, n + 1) = ReadUpTo(f, n) \cup {chain[f].objects[n]}
  <2>1. \A i : i \in 1..(n + 1 - 1) <=> i \in 1..(n - 1) \/ i = n
    BY <1>6
  <2> HIDE DEF InFile
  <2> QED BY ONLY <1>3, <2>1
<1>7. ASSUME NEW f \in DOMAIN chain, NEW e
      PROVE  e \in ReadUpTo(f, Len(chain[f].objects) + 1) <=> \E g \in 1..f : InFile(g, e)
  <2>1. \A i : i \in 1..(Len(chain[f].objects) + 1 - 1) <=> i \in DOMAIN chain[f].objects
    BY <1>2
  <2>2. \A g : g \in 1..f <=> g \in 1..(f - 1) \/ g = f
    BY <1>1
  <2>3. (\E i \in 1..(Len(chain[f].objects) + 1 - 1) : e = chain[f].objects[i]) <=> InFile(f, e)
    BY <2>1
  <2> HIDE DEF InFile
  <2> QED BY ONLY <1>3, <2>2, <2>3
<1>8. ASSUME NEW f \in DOMAIN chain PROVE ReadUpTo(f + 1, 1) = ReadUpTo(f, Len(chain[f].objects) + 1)
  <2>1. f + 1 - 1 = f /\ 1..(1 - 1) = {}
    BY <1>1
  <2> HIDE DEF InFile
  <2>2. \A e : e \in ReadUpTo(f + 1, 1) <=> \E g \in 1..f : InFile(g, e)
    <3> DEFINE k == f + 1
    <3>1. k - 1 = f
      <4>1. f \in Int
        BY <1>1
      <4> QED BY ONLY <4>1
    <3> HIDE DEF k
    <3>2. \A e : e \in ReadUpTo(k, 1) <=> \E g \in 1..f : InFile(g, e)
      <4>1. \A e : e \in ReadUpTo(k, 1) <=> \/ \E g \in 1..(k - 1) : InFile(g, e)
                                            \/ \E i \in 1..(1 - 1) : e = chain[k].objects[i]
        BY ONLY <1>3
      <4>2. \A i : i \notin 1..(1 - 1)
        OBVIOUS
      <4> QED BY ONLY <3>1, <4>1, <4>2
    <3> QED BY <3>2 DEF k
  <2> QED BY ONLY <1>7, <1>8, <2>2
<1>9. ASSUME chain # <<>> PROVE ReadUpTo(Len(chain), Len(chain[Len(chain)].objects) + 1) = Sent
  <2> DEFINE m == Len(chain)
  <2> HIDE DEF InFile
  <2>1. m \in DOMAIN chain /\ DOMAIN chain = 1..m
    BY <1>1, <1>9
  <2> HIDE DEF m
  <2>2. ReadUpTo(m, Len(chain[m].objects) + 1) = Sent
    BY ONLY <1>4, <1>7, <2>1
  <2> QED BY <2>2 DEF m
<1>10. ASSUME NEW f \in DOMAIN chain, NEW n \in Nat, n \in 1..(Len(chain[f].objects) + 1)
       PROVE  ReadUpTo(f, n) \subseteq Sent
  <2>1. \A g \in 1..(f - 1) : g \in DOMAIN chain
    BY <1>1
  <2>2. \A i \in 1..(n - 1) : i \in DOMAIN chain[f].objects
    BY <1>2, <1>10
  <2>3. \A e : (\E i \in 1..(n - 1) : e = chain[f].objects[i]) => InFile(f, e)
    BY <2>2
  <2> HIDE DEF InFile
  <2> QED BY ONLY <1>3, <1>4, <1>10, <2>1, <2>3
<1> QED BY <1>1, <1>2, <1>5, <1>6, <1>8, <1>9, <1>10

\* Loading an entry: it is the latest of its object so far.
LEMMA LoadKeeps == ASSUME PurgeIInv, SourceIInv, Restored, LoadObj PROVE Restored'
<1> USE DEF SourceIInv
<1> DEFINE f == restore.file
           n == restore.next
           s == chain[f].objects
           e == s[n]
           work == restore.work
           dev == Loaded(work, e)
<1>1. /\ restore.pc = "load" /\ n <= Len(s)
      /\ restore' = [restore EXCEPT !.work = dev, !.next = @ + 1, !.total = @ + 1,
                       !.stored = IF Step > 0 /\ (restore.total + 1) % Step = 0 THEN dev ELSE @]
      /\ UNCHANGED <<chain, dump>>
  BY DEF LoadObj, backupVars
<1>2. /\ ~Dumping /\ ~dump.more /\ chain # <<>> /\ FromFiles(restore.stored) /\ FromFiles(work)
      /\ f \in DOMAIN chain /\ n \in 1..(Len(s) + 1)
      /\ work.registered \/ (f = 1 /\ n = 1)
      /\ Follows(work, ReadUpTo(f, n))
  BY <1>1 DEF Restored, Processed, Idle
<1>3. /\ Len(s) \in Nat /\ DOMAIN s = 1..Len(s) /\ n \in 1..Len(s) /\ n \in Nat /\ n \in DOMAIN s
      /\ Len(chain) \in Nat /\ DOMAIN chain = 1..Len(chain)
  <2>1. Len(s) \in Nat /\ DOMAIN s = 1..Len(s) /\ Len(chain) \in Nat /\ DOMAIN chain = 1..Len(chain)
    BY <1>2, ReadingIs
  <2> HIDE DEF s, n
  <2> QED BY <1>1, <1>2, <2>1
<1>4. /\ restore'.pc = "load" /\ restore'.file = f /\ restore'.next = n + 1 /\ restore'.work = dev
      /\ restore'.stored \in {dev, restore.stored}
      /\ restore' = [pc |-> restore'.pc, file |-> restore'.file, next |-> restore'.next,
                     total |-> restore'.total, work |-> restore'.work, stored |-> restore'.stored]
  <2> DEFINE full == Step > 0 /\ (restore.total + 1) % Step = 0
             ahead == n + 1
             total == restore.total + 1
             stored == IF full THEN dev ELSE restore.stored
  <2>1. restore' = [restore EXCEPT !.work = dev, !.next = ahead, !.total = total, !.stored = stored]
    BY <1>1
  <2>2. stored \in {dev, restore.stored}
    OBVIOUS
  <2> HIDE DEF ahead, total, stored, dev
  <2>3. restore' = [pc |-> restore.pc, file |-> f, next |-> ahead, total |-> total, work |-> dev,
                    stored |-> stored]
    BY <2>1 DEF Restored
  <2> QED BY <1>1, <2>2, <2>3 DEF ahead
<1> DEFINE P == ReadUpTo(f, n)
           Q == ReadUpTo(f, n + 1)
<1>5. Q = P \cup {e} /\ P \subseteq Sent /\ Q \subseteq Sent
  <2>1. n + 1 \in Nat /\ n + 1 \in 1..(Len(s) + 1)
    BY <1>3
  <2> QED BY <1>2, <1>3, <2>1, ReadingIs
<1>6. Sent \subseteq FileEntries /\ Sent \subseteq Told /\ SyncObjs \subseteq Objs /\ "kind" \notin Objs
  BY ToldTyped, AdminAssumption
<1>7. f = 1 /\ n = 1 => e.obj = "kind"
  BY <1>2 DEF KindFirst, KindEntry
<1>8. ASSUME NEW d \in P, d.obj = e.obj PROVE d.rev <= e.rev
  <2>1. CASE \E g \in 1..(f - 1) : d \in Range(chain[g].objects)
    <3>1. PICK g \in 1..(f - 1) : d \in Range(chain[g].objects)
      BY <2>1
    <3>2. g \in DOMAIN chain /\ g < f
      BY <1>2, <1>3
    <3>3. e \in Range(chain[f].objects)
      BY <1>3 DEF Range
    <3> HIDE DEF e, f
    <3> QED BY <1>2, <1>8, <3>1, <3>2, <3>3 DEF ChainOrdered, Precede
  <2>2. CASE \E i \in 1..(n - 1) : d = s[i]
    <3>1. PICK i \in 1..(n - 1) : d = s[i]
      BY <2>2
    <3>2. i \in DOMAIN s /\ i < n
      BY <1>3
    <3>3. FileOrdered(s)
      BY <1>2 DEF ChainOrdered
    <3> HIDE DEF s, n
    <3> QED BY <1>3, <1>8, <3>1, <3>2, <3>3 DEF FileOrdered
  <2>3. (\E g \in 1..(f - 1) : d \in Range(chain[g].objects)) \/ \E i \in 1..(n - 1) : d = s[i]
    <3> HIDE DEF f, n, e
    <3> QED BY DEF ReadUpTo
  <2> QED BY <2>1, <2>2, <2>3
<1>9. e \in FileEntries
  BY <1>5, <1>6
<1> HIDE DEF P, Q, e, s, f, n, work
<1>10. FromFiles(dev) /\ dev.registered
  <2>1. e.obj \in Objs \cup {"kind"} /\ e \in Sent
    BY <1>5, <1>6, <1>9 DEF FileEntries
  <2>2. work = [registered |-> work.registered, has |-> work.has] /\ DOMAIN work.has = Objs
    BY <1>2 DEF FromFiles
  <2>3. CASE e.obj = "kind"
    <3>1. dev = [registered |-> TRUE, has |-> work.has]
      BY <2>2, <2>3 DEF Loaded
    <3> QED BY <1>2, <3>1 DEF FromFiles
  <2>4. CASE e.obj # "kind"
    <3> DEFINE v == Effect(e)
               has == [work.has EXCEPT ![e.obj] = v]
    <3>1. work.registered
      BY <1>2, <1>7, <2>4
    <3>2. e.st \in {"live", "del"}
      BY <1>9 DEF FileEntries
    <3>3. dev = [work EXCEPT !.has = has]
      BY <2>2, <2>4, <3>1, <3>2 DEF Loaded, Effect
    <3> HIDE DEF v
    <3>4. DOMAIN has = Objs /\ \A o \in Objs : o # e.obj => has[o] = work.has[o]
      BY <2>2
    <3> HIDE DEF has
    <3>5. dev = [registered |-> work.registered, has |-> has]
      BY <2>2, <3>3
    <3>6. \A o \in Objs : has[o] # NoRev => \E d \in Sent : d.obj = o
      BY <1>2, <2>1, <3>4 DEF FromFiles
    <3> HIDE DEF dev
    <3> QED BY <3>1, <3>4, <3>5, <3>6 DEF FromFiles
  <2> QED BY <2>3, <2>4
<1>11. Follows(dev, Q)
  <2> SUFFICES ASSUME NEW d \in Q, d.obj # "kind", LatestIn(Q, d) PROVE dev.has[d.obj] = Effect(d)
    BY DEF Follows
  <2>1. d \in FileEntries /\ d.obj \in Objs /\ e.obj \in Objs \cup {"kind"}
    BY <1>5, <1>6, <1>9 DEF FileEntries
  <2>2. work = [registered |-> work.registered, has |-> work.has] /\ DOMAIN work.has = Objs
    BY <1>2 DEF FromFiles
  <2>3. CASE d.obj = e.obj
    <3>1. d.rev = e.rev
      <4>1. e.rev <= d.rev
        BY <1>5, <2>3 DEF LatestIn
      <4>2. d.rev <= e.rev
        <5>1. CASE d \in P
          BY <1>8, <2>3, <5>1
        <5>2. CASE d = e
          BY <4>1, <5>2
        <5> QED BY <1>5, <5>1, <5>2
      <4> QED BY <1>9, <2>1, <4>1, <4>2 DEF FileEntries
    <3>2. d.st = e.st
      BY <1>5, <1>6, <2>3, <3>1 DEF EntriesAgree
    <3>3. work.registered
      BY <1>2, <1>7, <2>3
    <3>4. dev = [work EXCEPT !.has[e.obj] = Effect(e)]
      BY <1>9, <2>2, <2>3, <3>3 DEF Loaded, Effect, FileEntries
    <3>5. Effect(d) = Effect(e)
      BY <3>1, <3>2 DEF Effect
    <3>6. dev.has[e.obj] = Effect(e)
      <4> DEFINE v == Effect(e)
      <4> HIDE DEF v, dev
      <4>1. dev = [work EXCEPT !.has[e.obj] = v]
        BY <3>4 DEF v
      <4>2. dev.has[e.obj] = v
        BY <2>1, <2>2, <2>3, <4>1
      <4> QED BY <4>2 DEF v
    <3> QED BY <2>3, <3>5, <3>6
  <2>4. CASE d.obj # e.obj
    <3>1. d \in P /\ LatestIn(P, d)
      BY <1>5, <2>4 DEF LatestIn
    <3>2. work.has[d.obj] = Effect(d)
      BY <1>2, <3>1 DEF Follows, P, f, n, work
    <3>3. dev.has[d.obj] = work.has[d.obj]
      BY <2>1, <2>2, <2>4 DEF Loaded
    <3> QED BY <3>2, <3>3
  <2> QED BY <2>3, <2>4
<1> HIDE DEF dev
<1>12. Sent' = Sent /\ Dumping' = Dumping /\ \A g, m : ReadUpTo(g, m)' = ReadUpTo(g, m)
  BY <1>1 DEF Sent, Dumping, ReadUpTo
<1>13. FromFiles(restore.stored)' /\ FromFiles(restore.work)'
  BY <1>2, <1>4, <1>10, <1>12 DEF FromFiles
<1>14. Follows(restore.work, Processed)'
  BY <1>4, <1>11, <1>12 DEF Processed, Q, Follows
<1>15. restore'.next \in 1..(Len(chain[f].objects) + 1)
  BY <1>3, <1>4 DEF s
<1>16. /\ restore'.pc # Idle /\ restore'.pc # "done" /\ ~Dumping' /\ ~dump'.more /\ chain' # <<>>
       /\ restore'.file \in DOMAIN chain' /\ restore'.work.registered
       /\ restore'.next \in 1..(Len(chain'[restore'.file].objects) + 1)
  BY <1>1, <1>2, <1>4, <1>10, <1>12, <1>15 DEF Idle
<1> QED BY <1>4, <1>13, <1>14, <1>16 DEF Restored

\* Between files: what is read stays read; after the last, all is.
LEMMA LoadEndKeeps == ASSUME PurgeIInv, SourceIInv, Restored, LoadEnd PROVE Restored'
<1> USE DEF SourceIInv
<1> DEFINE f == restore.file
           n == restore.next
           s == chain[f].objects
           work == restore.work
<1>1. /\ restore.pc = "load" /\ n > Len(s) /\ UNCHANGED <<chain, dump>>
      /\ restore' = IF f < Len(chain)
                    THEN [restore EXCEPT !.file = @ + 1, !.next = 1, !.total = 0]
                    ELSE [restore EXCEPT !.pc = "done", !.stored = work]
  BY DEF LoadEnd, backupVars
<1>2. /\ ~Dumping /\ ~dump.more /\ chain # <<>> /\ FromFiles(restore.stored) /\ FromFiles(work)
      /\ f \in DOMAIN chain /\ n \in 1..(Len(s) + 1)
      /\ work.registered \/ (f = 1 /\ n = 1)
      /\ Follows(work, ReadUpTo(f, n))
  BY <1>1 DEF Restored, Processed, Idle
<1>3. Len(s) \in Nat /\ DOMAIN s = 1..Len(s) /\ Len(chain) \in Nat /\ DOMAIN chain = 1..Len(chain)
  BY <1>2, ReadingIs
<1>4. n = Len(s) + 1
  <2> HIDE DEF s, n
  <2> QED BY <1>1, <1>2, <1>3
<1>5. work.registered
  <2>1. f = 1 => s # <<>>
    BY <1>2 DEF KindFirst
  <2>2. s # <<>> => Len(s) # 0
    <3> DEFINE F == Seq(FileEntries)
               files == [objects : F, hasMore : BOOLEAN]
    <3>1. chain \in Seq(files)
      BY DEF BackupTypeOK
    <3> HIDE DEF F, files
    <3>2. chain[f] \in files
      BY <1>2, <3>1
    <3>3. s \in F
      BY <3>2 DEF files
    <3> HIDE DEF s
    <3> QED BY <3>3 DEF F
  <2> HIDE DEF s, n, f
  <2> QED BY <1>2, <1>3, <1>4, <2>1, <2>2
<1>6. Sent' = Sent /\ Dumping' = Dumping /\ \A g, m : ReadUpTo(g, m)' = ReadUpTo(g, m)
  BY <1>1 DEF Sent, Dumping, ReadUpTo
<1> HIDE DEF s, work
<1>7. CASE f < Len(chain)
  <2>1. restore' = [restore EXCEPT !.file = f + 1, !.next = 1, !.total = 0]
    BY <1>1, <1>7
  <2>2. restore' = [pc |-> "load", file |-> f + 1, next |-> 1, total |-> 0, work |-> work,
                    stored |-> restore.stored]
    BY <1>1, <2>1 DEF Restored, work
  <2>3. f + 1 \in DOMAIN chain
    BY <1>2, <1>3, <1>7
  <2>4. 1 \in 1..(Len(chain[f + 1].objects) + 1)
    <3>1. Len(chain[f + 1].objects) \in Nat
      BY <2>3, ReadingIs
    <3> QED BY <3>1
  <2>5. ReadUpTo(f + 1, 1) = ReadUpTo(f, n)
    BY <1>2, <1>4, ReadingIs DEF s
  <2>6. FromFiles(restore.stored)' /\ FromFiles(restore.work)'
    BY <1>2, <1>6, <2>2 DEF FromFiles
  <2>7. Follows(restore.work, Processed)'
    BY <1>2, <1>6, <2>2, <2>5 DEF Processed, Follows
  <2>8. /\ restore'.pc # Idle /\ restore'.pc # "done" /\ ~Dumping' /\ ~dump'.more /\ chain' # <<>>
        /\ restore'.file \in DOMAIN chain' /\ restore'.work.registered
        /\ restore'.next \in 1..(Len(chain'[restore'.file].objects) + 1)
    <3>1. restore'.pc = "load" /\ restore'.file = f + 1 /\ restore'.next = 1 /\ restore'.work = work
      BY <2>2
    <3>2. ~Dumping' /\ ~dump'.more /\ chain' = chain /\ chain # <<>>
      BY <1>1, <1>2, <1>6
    <3> HIDE DEF f, n
    <3> QED BY <1>5, <2>3, <2>4, <3>1, <3>2 DEF Idle
  <2>9. restore' = [pc |-> restore'.pc, file |-> restore'.file, next |-> restore'.next,
                    total |-> restore'.total, work |-> restore'.work, stored |-> restore'.stored]
    BY <2>2
  <2> QED BY <2>6, <2>7, <2>8, <2>9 DEF Restored
<1>8. CASE ~(f < Len(chain))
  <2>1. restore' = [restore EXCEPT !.pc = "done", !.stored = work]
    BY <1>1, <1>8
  <2>2. restore' = [pc |-> "done", file |-> f, next |-> n, total |-> restore.total, work |-> work,
                    stored |-> work]
    BY <2>1 DEF Restored, work
  <2>3. f = Len(chain)
    BY <1>2, <1>3, <1>8
  <2>4. ReadUpTo(f, n) = Sent
    BY <1>2, <1>4, <2>3, ReadingIs DEF s
  <2>5. FromFiles(restore.stored)' /\ Follows(restore.stored, Sent)'
    BY <1>2, <1>6, <2>2, <2>4 DEF FromFiles, Follows
  <2>6. ~Dumping' /\ ~dump'.more /\ chain' # <<>>
    BY <1>1, <1>2, <1>6
  <2>7. /\ restore'.pc = "done"
        /\ restore' = [pc |-> restore'.pc, file |-> restore'.file, next |-> restore'.next,
                       total |-> restore'.total, work |-> restore'.work, stored |-> restore'.stored]
    BY <2>2
  <2> QED BY <2>5, <2>6, <2>7 DEF Restored, Idle
<1> QED BY <1>7, <1>8

\* A restore begins from what earlier attempts have committed, or fails and leaves that.
LEMMA RestoreKeeps ==
  ASSUME PurgeIInv, SourceIInv, Restored, [AdminNext]_adminVars PROVE Restored'
<1> USE DEF SourceIInv
<1>1. ASSUME RestoreBegin PROVE Restored'
  <2> DEFINE stored == restore.stored
  <2>1. /\ restore.pc \in {Idle, "failed"} /\ ~Dumping /\ chain # <<>> /\ ~dump.more
        /\ restore' = [restore EXCEPT !.pc = "load", !.file = 1, !.next = 1, !.total = 0,
                                      !.work = stored]
        /\ UNCHANGED <<chain, dump>>
    BY <1>1 DEF RestoreBegin, backupVars
  <2>2. FromFiles(stored)
    <3>1. CASE restore.pc = Idle
      <4>1. stored = Fresh
        BY <3>1 DEF Restored, IdleRestore
      <4> QED BY <4>1 DEF FromFiles, Fresh
    <3>2. CASE restore.pc # Idle
      BY <3>2 DEF Restored
    <3> QED BY <3>1, <3>2
  <2> HIDE DEF stored
  <2>3. restore' = [pc |-> "load", file |-> 1, next |-> 1, total |-> 0, work |-> stored,
                    stored |-> stored]
    BY <2>1 DEF Restored, stored
  <2>4. 1 \in DOMAIN chain /\ 1 \in 1..(Len(chain[1].objects) + 1) /\ ReadUpTo(1, 1) = {}
    <3>1. /\ DOMAIN chain = 1..Len(chain) /\ Len(chain) \in Nat /\ ReadUpTo(1, 1) = {}
          /\ \A f \in DOMAIN chain : Len(chain[f].objects) \in Nat
      BY ReadingIs
    <3>2. Len(chain) # 0
      <4> DEFINE files == [objects : Seq(FileEntries), hasMore : BOOLEAN]
      <4>1. chain \in Seq(files)
        BY DEF BackupTypeOK
      <4> HIDE DEF files
      <4> QED BY <2>1, <4>1
    <3> QED BY <3>1, <3>2
  <2>5. Sent' = Sent /\ Dumping' = Dumping /\ \A g, m : ReadUpTo(g, m)' = ReadUpTo(g, m)
    BY <2>1 DEF Sent, Dumping, ReadUpTo
  <2>6. FromFiles(restore.stored)' /\ FromFiles(restore.work)'
    BY <2>2, <2>3, <2>5 DEF FromFiles
  <2>7. Follows(restore.work, Processed)'
    BY <2>3, <2>4, <2>5 DEF Processed, Follows
  <2>8. /\ restore'.pc # Idle /\ restore'.pc # "done" /\ ~Dumping' /\ ~dump'.more /\ chain' # <<>>
        /\ restore'.file \in DOMAIN chain' /\ restore'.file = 1 /\ restore'.next = 1
        /\ restore'.next \in 1..(Len(chain'[restore'.file].objects) + 1)
    BY <2>1, <2>3, <2>4, <2>5 DEF Idle
  <2>9. restore' = [pc |-> restore'.pc, file |-> restore'.file, next |-> restore'.next,
                    total |-> restore'.total, work |-> restore'.work, stored |-> restore'.stored]
    BY <2>3
  <2> QED BY <2>6, <2>7, <2>8, <2>9 DEF Restored
<1>2. ASSUME RestoreFails PROVE Restored'
  <2>1. /\ restore.pc = "load" /\ UNCHANGED <<chain, dump>>
        /\ restore' = [IdleRestore EXCEPT !.pc = "failed", !.stored = restore.stored]
    BY <1>2 DEF RestoreFails, backupVars
  <2>2. restore' = [pc |-> "failed", file |-> 1, next |-> 1, total |-> 0, work |-> Fresh,
                    stored |-> restore.stored]
    BY <2>1 DEF IdleRestore
  <2>3. Sent' = Sent /\ Dumping' = Dumping
    BY <2>1 DEF Sent, Dumping
  <2>4. FromFiles(restore.stored)'
    BY <2>1, <2>2, <2>3 DEF FromFiles, Restored, Idle
  <2>5. ~Dumping' /\ ~dump'.more /\ chain' # <<>>
    BY <2>1, <2>3 DEF Restored, Idle
  <2>6. /\ restore'.pc = "failed"
        /\ restore' = [pc |-> restore'.pc, file |-> restore'.file, next |-> restore'.next,
                       total |-> restore'.total, work |-> restore'.work, stored |-> restore'.stored]
    BY <2>2
  <2> QED BY <2>4, <2>5, <2>6 DEF Restored, Idle
<1>3. ASSUME restore.pc = Idle, ClientNext \/ PurgeNext \/ DumpNext PROVE Restored'
  <2>1. restore' = restore
    <3>1. CASE ClientNext
      BY <3>1 DEF ClientNext, DrawRev, CommitWrite, AbortWrite, NextDay
    <3>2. CASE PurgeNext
      <4>1. CASE \E o \in Objs : PurgeObj(o)
        BY <4>1 DEF PurgeObj
      <4>2. CASE PurgeSynced \/ PurgeOthers \/ SyncedEnd \/ OthersEnd
        BY <4>2 DEF PurgeSynced, PurgeOthers, PurgePass, SyncedEnd, OthersEnd, PassEnd
      <4>3. CASE PurgeStamp \/ PurgeRecord \/ PurgeAgain \/ PurgeEnd \/ PurgeFails
        BY <4>3 DEF PurgeStamp, PurgeRecord, PurgeAgain, PurgeEnd, PurgeFails
      <4>4. CASE \E n \in {-1, 0} : PurgeBegin(n)
        BY <4>4 DEF PurgeBegin
      <4> QED BY ONLY <3>2, <4>1, <4>2, <4>3, <4>4 DEF PurgeNext, PurgeGoesOn
    <3>3. CASE DumpNext
      BY <3>3, DumpLeaves
    <3> QED BY <1>3, <3>1, <3>2, <3>3
  <2> QED BY <1>3, <2>1 DEF Restored, Idle
<1>4. ASSUME UNCHANGED adminVars PROVE Restored'
  <2>1. UNCHANGED <<restore, chain, dump>>
    BY <1>4 DEF adminVars
  <2> QED BY <2>1 DEF Restored, FromFiles, Follows, Processed, ReadUpTo, Sent, Dumping
<1> QED BY <1>1, <1>2, <1>3, <1>4, LoadKeeps, LoadEndKeeps DEF AdminNext, RestoreNext

\* Something is the latest the files tell of an object they tell of.
LEMMA LatestExists ==
  ASSUME PurgeIInv, SourceIInv, NEW o, NEW e \in Sent, e.obj = o
  PROVE  \E d : LatestIn(Sent, d) /\ d.obj = o
<1> DEFINE revs == {d.rev : d \in {t \in Sent : t.obj = o}}
<1>1. Sent \subseteq FileEntries /\ Sent \subseteq Told
  BY ToldTyped DEF SourceIInv
<1>2. \A d \in Sent : d.rev \in Int /\ d.rev <= rev
  BY <1>1 DEF SourceIInv, EntriesAgree, FileEntries
<1>3. rev \in Int
  BY DEF PurgeIInv, AdminTypeOK
<1>4. revs # {} /\ revs \subseteq Int /\ \A r \in revs : r <= rev
  BY <1>2
<1>5. PICK r \in revs : \A q \in revs : q <= r
  <2> HIDE DEF revs
  <2> QED BY ONLY <1>3, <1>4, Greatest
<1>6. PICK d \in Sent : d.obj = o /\ d.rev = r
  BY <1>5
<1>7. \A t \in Sent : t.obj = o => t.rev <= r
  BY <1>5
<1> QED BY <1>6, <1>7 DEF LatestIn

\* What the restored device has is what the last dump began with.
LEMMA RestoredIs == ASSUME PurgeIInv, SourceIInv, Restored PROVE RestoreReproduces
<1> USE DEF SourceIInv
<1> SUFFICES ASSUME restore.pc = "done", NEW o \in SyncObjs \ (seen.exempt \cup seen.undumped)
             PROVE  restore.stored.has[o] = seen.atDump[o]
  BY DEF RestoreReproduces
<1> DEFINE has == restore.stored.has
<1>1. FromFiles(restore.stored) /\ Follows(restore.stored, Sent) /\ LastTells
  BY DEF Restored, LastComplete, Idle
<1>2. o \in Objs /\ o # "kind"
  BY AdminAssumption
<1>3. CASE seen.atDump[o] = NoRev
  <2>1. NotLive(Sent, o)
    BY <1>1, <1>3 DEF LastTells
  <2>2. ASSUME has[o] # NoRev PROVE FALSE
    <3>1. PICK e \in Sent : e.obj = o
      BY <1>1, <1>2, <2>2 DEF FromFiles
    <3>2. PICK d : LatestIn(Sent, d) /\ d.obj = o
      BY <3>1, LatestExists
    <3>3. d \in Sent /\ d.st # "live"
      BY <2>1, <3>2 DEF NotLive, LatestIn
    <3>4. has[o] = Effect(d)
      BY <1>1, <1>2, <3>2, <3>3 DEF Follows
    <3> QED BY <2>2, <3>3, <3>4 DEF Effect
  <2> QED BY <1>3, <2>2
<1>4. CASE seen.atDump[o] # NoRev
  <2> DEFINE r == seen.atDump[o]
             d == [obj |-> o, rev |-> r, st |-> "live"]
  <2>1. LatestIn(Sent, d)
    BY <1>1, <1>4 DEF LastTells, TellsLive
  <2>2. d \in Sent /\ d.obj = o /\ d.obj # "kind"
    BY <1>2, <2>1 DEF LatestIn
  <2>3. Effect(d) = r
    BY DEF Effect
  <2> HIDE DEF d, r
  <2>4. has[d.obj] = Effect(d)
    BY <1>1, <2>1, <2>2 DEF Follows
  <2> QED BY <2>2, <2>3, <2>4 DEF r
<1> QED BY <1>3, <1>4

\* A restore gives the synced objects as they were when the last dump began (MojDb::dump and load).
THEOREM RestoresReproduce == AdminInit /\ [][AdminNext]_adminVars => []RestoreReproduces
<1>1. AdminInit => PurgeIInv /\ SourceIInv /\ Restored
  BY PurgeInit, SourceInit
<1>2. PurgeIInv /\ SourceIInv /\ Restored /\ [AdminNext]_adminVars => (PurgeIInv /\ SourceIInv /\ Restored)'
  BY AdminStep, SourceKeeps, RestoreKeeps
<1>3. PurgeIInv /\ SourceIInv /\ Restored => RestoreReproduces
  BY RestoredIs
<1> QED BY <1>1, <1>2, <1>3, PTL
=============================================================================
