------------------------------ MODULE MojHashMap ------------------------------
(***************************************************************************)
(* MojHashBase under MojHashMap: buckets of chained nodes, and a list of all *)
(* nodes to iterate over, in which a node knows the pointer that leads to it. *)
(* A node is named by its key.  The sharing of an implementation between     *)
(* maps is in MojShared; a clone is what it makes of one.                   *)
(***************************************************************************)
EXTENDS Naturals, Sequences, FiniteSets

CONSTANTS
  HashKeys,            \* keys; Hash maps them to their codes, two to one
  HashVals,
  FillFactor, InitialBuckets

ASSUME HashAssumption ==
  HashKeys \subseteq Nat \ {0} /\ IsFiniteSet(HashKeys) /\ FillFactor \in Nat \ {0} /\ InitialBuckets \in Nat \ {0}

NoNode == 0          \* NULL; as m_iterRef, the address of m_begin
Hash(k) == k \div 2

VARIABLES
  table,       \* the implementation
  pairs        \* history: the value put last for each key that is there
hashVars == <<table, pairs>>

\* m_buckets, m_numBuckets, the nodes' m_bucketNext, m_begin, m_iterNext,
\* m_iterRef, m_size and values.
NoTable ==
  [num |-> 0, bucket |-> [i \in {} |-> NoNode], chain |-> [k \in HashKeys |-> NoNode], begin |-> NoNode,
   next |-> [k \in HashKeys |-> NoNode], ref |-> [k \in HashKeys |-> NoNode], size |-> 0,
   val |-> [k \in HashKeys |-> 0]]

HashInit == table = NoTable /\ pairs = [k \in {} |-> 0]

BucketOf(t, k) == Hash(k) % t.num

\* Bucket::insert at the head of the chain.
Chained(t, k) ==
  [t EXCEPT !.chain[k] = t.bucket[BucketOf(t, k)], !.bucket[BucketOf(t, k)] = k]

\* Impl::put: also at the head of the list of all nodes.
PutNode(t, k, v) ==
  LET c == Chained(t, k) IN
    [c EXCEPT !.ref = [(IF t.begin = NoNode THEN @ ELSE [@ EXCEPT ![t.begin] = k]) EXCEPT ![k] = NoNode],
              !.next[k] = t.begin, !.begin = k, !.size = @ + 1, !.val[k] = v]

\* The nodes after k, by the list of all nodes; and down the chain of a bucket.
RECURSIVE Listed(_, _), Chain(_, _)
Listed(t, k) == IF k = NoNode THEN <<>> ELSE <<k>> \o Listed(t, t.next[k])
Chain(t, k) == IF k = NoNode THEN <<>> ELSE <<k>> \o Chain(t, t.chain[k])

InChain(t, k) == t.size > 0 /\ \E i \in DOMAIN Chain(t, t.bucket[BucketOf(t, k)]) : Chain(t, t.bucket[BucketOf(t, k)])[i] = k
FindNode(t, k) == IF InChain(t, k) THEN k ELSE NoNode

\* realloc: new buckets, and every node of the list chained into them.
RECURSIVE Rechained(_, _)
Rechained(t, k) ==
  IF k = NoNode THEN t ELSE Rechained(Chained([t EXCEPT !.chain[k] = NoNode], k), t.next[k])
Realloc(t, num) == Rechained([t EXCEPT !.num = num, !.bucket = [i \in 0..num - 1 |-> NoNode]], t.begin)

\* put of MojHashMap writes the value of a key that is there.  A table that is
\* empty, whatever its buckets, starts again with InitialBuckets.
PutKey(t, k, v) ==
  LET num == IF t.size = 0 THEN 0 ELSE t.num IN
    IF FindNode(t, k) # NoNode THEN [t EXCEPT !.val[k] = v]
    ELSE PutNode(IF t.size >= num * FillFactor
                 THEN Realloc(t, IF num * 2 > InitialBuckets THEN num * 2 ELSE InitialBuckets) ELSE t, k, v)

\* Bucket::remove, then the list is closed through m_iterRef.
Unchained(t, k) ==
  LET i == BucketOf(t, k)
      before == {n \in HashKeys : t.chain[n] = k} IN
    IF t.bucket[i] = k THEN [t EXCEPT !.bucket[i] = t.chain[k], !.chain[k] = NoNode]
    ELSE [t EXCEPT !.chain = [n \in HashKeys |-> IF n \in before THEN @[k] ELSE IF n = k THEN NoNode ELSE @[n]]]

DelEntry(t, k) ==
  IF FindNode(t, k) = NoNode THEN t
  ELSE LET u == Unchained(t, k)
           r == t.ref[k]
           v == IF r = NoNode THEN [u EXCEPT !.begin = t.next[k]] ELSE [u EXCEPT !.next[r] = t.next[k]] IN
         [v EXCEPT !.ref = [n \in HashKeys |-> IF n = k THEN NoNode ELSE IF n = t.next[k] THEN r ELSE @[n]],
                   !.next[k] = NoNode, !.val[k] = 0, !.size = @ - 1]

\* clone puts the nodes into as many buckets; the list is turned round.
RECURSIVE PutAll(_, _, _)
PutAll(t, from, k) == IF k = NoNode THEN t ELSE PutAll(PutNode(t, k, from.val[k]), from, from.next[k])
CloneOf(t) == PutAll([NoTable EXCEPT !.num = t.num, !.bucket = [i \in 0..t.num - 1 |-> NoNode]], t, t.begin)

EqualTables(t, u) ==
  t.size = u.size /\ \A i \in DOMAIN Listed(t, t.begin) :
    LET k == Listed(t, t.begin)[i] IN FindNode(u, k) = k /\ t.val[k] = u.val[k]

HashNext ==
  \/ \E k \in HashKeys, v \in HashVals :
       table' = PutKey(table, k, v) /\ pairs' = [n \in DOMAIN pairs \cup {k} |-> IF n = k THEN v ELSE pairs[n]]
  \/ \E k \in HashKeys : table' = DelEntry(table, k) /\ pairs' = [n \in DOMAIN pairs \ {k} |-> pairs[n]]
  \/ table.num > 0 /\ table' = CloneOf(table) /\ UNCHANGED pairs
  \/ table' = NoTable /\ pairs' = [k \in {} |-> 0]
-----------------------------------------------------------------------------
(* Properties. *)

Once(seq, s) == {seq[i] : i \in DOMAIN seq} = s /\ \A i, j \in DOMAIN seq : seq[i] = seq[j] => i = j

\* A map finds, iterates over and counts the pairs put into it and not deleted,
\* each once, whatever growing, deleting and cloning did to its two lists; the
\* pointer a node keeps is the one that leads to it; a clone is an equal map.
HashKept ==
  /\ \A k \in HashKeys : FindNode(table, k) = (IF k \in DOMAIN pairs THEN k ELSE NoNode)
  /\ \A k \in DOMAIN pairs : table.val[k] = pairs[k]
  /\ Once(Listed(table, table.begin), DOMAIN pairs)
  /\ \A i \in DOMAIN table.bucket : Once(Chain(table, table.bucket[i]), {k \in DOMAIN pairs : BucketOf(table, k) = i})
  /\ table.size = Cardinality(DOMAIN pairs)
  /\ \A k \in DOMAIN pairs : k = (IF table.ref[k] = NoNode THEN table.begin ELSE table.next[table.ref[k]])
  /\ EqualTables(table, CloneOf(table)) /\ (\A k \in DOMAIN pairs : ~EqualTables(table, DelEntry(table, k)))
=============================================================================
