--------------------------- MODULE MojDbWatchProofs ---------------------------
(***************************************************************************)
(* Proofs about the watched queries of MojDbWatch, for any number of        *)
(* readers, writers and keys and any limit: what holds of a watcher and its  *)
(* index at all times, and that no update is missed by a client whose        *)
(* watcher was added while no transaction was in between.                    *)
(***************************************************************************)
EXTENDS MojDbWatch, FiniteSetTheorems, WellFoundedInduction, TLAPS

(* The inductive invariant. *)

\* The watcher is in the list of the index.
Watching(r) == r \in watcherVec /\ rpc[r] # "added"

\* The query was read.
HasRead(r) == rpc[r] \in {"open", "replied", "closed"}

\* How far the watcher is when the request is at rpc.
WatcherPhases ==
  \A r \in Readers :
    /\ rpc[r] = "start" => r \notin watcherVec
    /\ rpc[r] \in {"start", "added"} => state[r] = "Invalid"
    /\ rpc[r] = "added" => r \in watcherVec
    /\ rpc[r] \in {"init", "open", "replied"} => state[r] = "Pending"
    /\ rpc[r] = "failed" => state[r] # "Active"
    /\ rpc[r] = "closed" => state[r] # "Pending"

\* The limit is set when the watcher becomes active, to the end of the query.
LimitIsEnd ==
  \A r \in Readers :
    /\ rpc[r] # "closed" => limitKey[r] = Empty
    /\ state[r] = "Active" => limitKey[r] = endKey[r]

\* A watcher of a closed cursor is active until it fires or is cancelled.
EndedOnce ==
  \A r \in Readers :
    /\ fired[r] \in {0, 1}
    /\ fired[r] > 0 => rpc[r] = "closed" /\ state[r] = "Invalid" /\ ~cancelled[r]
    /\ cancelled[r] => rpc[r] \in {"closed", "failed"} /\ state[r] = "Invalid"
    /\ Listening(r) /\ r \notin lost => state[r] = "Active"

\* The query was read at one point, and its end is that of what it read.
ReadAtOnce ==
  \A r \in Readers : HasRead(r) =>
    \E c \in [Keys -> Values \cup {Absent}] :
      result[r] = Rows(r, c) /\ endKey[r] = EndOf(r, Rows(r, c))

\* A transaction notes a watcher with a key it has written.
NotedIsTouched ==
  \A w \in Writers, r \in Readers : noted[w][r] # Empty =>
    wpc[w] \in {"open", "fire"} /\ noted[w][r] \in DOMAIN pending[w]

\* A find waits to be activated with a key of a transaction that has committed.
FireKeyIsCommitted ==
  \A r \in Readers : fireKey[r] # Empty /\ op[r] = "find" =>
    \E w \in Writers : wpc[w] = "fire" /\ fireKey[r] \in DOMAIN pending[w]

IsLeast(k, S) == k \in S /\ \A j \in S : k <= j

\* A transaction notes every watcher it could see, with the least of its keys.
LeastIsNoted ==
  \A w \in Writers, r \in Readers :
    wpc[w] = "open" /\ DOMAIN pending[w] # {} /\ Watching(r) /\ raced[r] = {} =>
      IsLeast(noted[w][r], DOMAIN pending[w])

\* KeyIsFirst, of the transactions that have committed.
FiredKeyIsFirst(r) ==
  desc[r] => \A w \in Writers : wpc[w] = "fire" => Cardinality(DOMAIN pending[w]) <= 1

\* A key that will end the watcher: one a committed transaction is still to
\* fire, or one the watcher keeps until it is activated.
WillFire(r, k) ==
  /\ k # Empty /\ InRange(r, k, endKey[r])
  /\ \/ \E w \in Writers : wpc[w] = "fire" /\ noted[w][r] = k
     \/ state[r] = "Pending" /\ fireKey[r] = k

\* Rows that are outdated will be notified, unless a failed commit skipped the watcher.
OutdatedWillFire ==
  \A r \in Readers :
    /\ HasRead(r) /\ state[r] # "Invalid" /\ r \notin lost /\ Unraced(r) /\ FiredKeyIsFirst(r) /\ Outdated(r)
    => \E k \in Keys : WillFire(r, k)

WatchIInv ==
  /\ TypeOK /\ WatcherPhases /\ LimitIsEnd /\ EndedOnce /\ IndexConsistent /\ ReadAtOnce
  /\ NotedIsTouched /\ FireKeyIsCommitted /\ NotifiedForACause
  /\ LeastIsNoted /\ OutdatedWillFire
-----------------------------------------------------------------------------
(* Keys and their order. *)

LessThan == {ss \in Nat \X Nat : ss[1] < ss[2]}

\* A set of naturals that is not empty has a least member.
LEMMA LeastOf ==
  ASSUME NEW T, T \subseteq Nat, T # {}
  PROVE  \E x \in T : \A y \in T : x <= y
PROOF
<1>1. IsWellFoundedOn(LessThan, Nat)
  BY NatLessThanWellFounded, Zenon DEF OpToRel, LessThan
<1>2. PICK x \in T : \A y \in T : <<y, x>> \notin LessThan
  BY <1>1, WFMin, Zenon
<1>3. \A a, b \in Nat : a < b => <<a, b>> \in LessThan
  BY DEF LessThan
<1>4. ASSUME NEW y \in T PROVE x <= y
  <2>1. x \in Nat /\ y \in Nat
    BY <1>4
  <2>2. ~ y < x
    BY <2>1, <1>2, <1>3, Zenon
  <2> QED BY <2>1, <2>2
<1> QED BY <1>4

\* A set of keys that is not empty has a last one in the order of the query.
LEMMA LastKey ==
  ASSUME NEW r, NEW S, S \subseteq Keys, S # {}
  PROVE  \E x \in S : \A y \in S : y = x \/ Before(r, y, x)
PROOF
<1>1. S \subseteq Nat
  BY DEF Keys
<1>2. CASE desc[r]
  <2>1. PICK x \in S : \A y \in S : x <= y
    BY <1>1, LeastOf
  <2>2. \A y \in S : y = x \/ y > x
    BY <1>1, <2>1
  <2> QED BY <1>2, <2>2 DEF Before
<1>3. CASE ~desc[r]
  <2> DEFINE T == {NKeys - k : k \in S}
  <2>1. T \subseteq Nat /\ T # {}
    <3>1. \A k \in S : NKeys - k \in Nat
      BY BoundAssumption DEF Keys
    <3> QED BY <3>1
  <2>2. PICK x \in T : \A y \in T : x <= y
    BY <2>1, LeastOf
  <2>3. PICK k \in S : x = NKeys - k
    OBVIOUS
  <2>4. ASSUME NEW y \in S PROVE y = k \/ y < k
    <3>1. x <= NKeys - y
      BY <2>2
    <3> QED BY <3>1, <2>3, <1>1, BoundAssumption
  <2> QED BY <1>3, <2>4 DEF Before
<1> QED BY <1>2, <1>3

\* The keys are finite.
LEMMA KeysFinite ==
  ASSUME NEW S, S \subseteq Keys
  PROVE  IsFiniteSet(S) /\ Cardinality(S) \in Nat
PROOF
<1>1. IsFiniteSet(Keys)
  BY FS_Interval, BoundAssumption DEF Keys
<1>2. S \in SUBSET Keys
  OBVIOUS
<1>3. IsFiniteSet(S)
  BY <1>1, <1>2, FS_Subset
<1> QED BY <1>3, FS_CardinalityType

\* The key a transaction keeps for a watcher is the least of the old one and the new.
LEMMA MinKeyIsLeast ==
  ASSUME NEW old \in Keys \cup {Empty}, NEW S, S \subseteq Keys, S # {}
  PROVE  IsLeast(MinKey(old, S), S \cup ({old} \ {Empty}))
PROOF
<1> DEFINE T == S \cup ({old} \ {Empty})
<1>1. S \subseteq Nat /\ old \in Nat
  BY DEF Keys, Empty
<1>2. T \subseteq Nat /\ T # {}
  BY <1>1
<1>3. \E x \in T : \A y \in T : x <= y
  BY <1>2, LeastOf
<1> QED BY <1>3 DEF MinKey, IsLeast

-----------------------------------------------------------------------------
(* What a query returns. *)

Contents == [Keys -> Values \cup {Absent}]

\* The keys of the rows.
RowKeys(r, c) == {k \in Visible(c) : Cardinality({j \in Visible(c) : Before(r, j, k)}) < LimitOf(r)}

\* The rows are the entries of their keys.
LEMMA RowsOfKeys ==
  ASSUME NEW r, NEW c
  PROVE  Rows(r, c) = {<<k, c[k]>> : k \in RowKeys(r, c)}
PROOF
BY DEF Rows, RowKeys

\* Rows are keys with values.
LEMMA RowsType ==
  ASSUME NEW r, NEW c \in Contents
  PROVE  Rows(r, c) \in SUBSET (Keys \X Values)
PROOF
<1>1. ASSUME NEW row \in Rows(r, c) PROVE row \in Keys \X Values
  <2>1. PICK k \in RowKeys(r, c) : row = <<k, c[k]>>
    BY RowsOfKeys
  <2>2. k \in Keys /\ c[k] \in Values
    BY DEF RowKeys, Visible, Contents
  <2> QED BY <2>1, <2>2
<1> QED BY <1>1

\* There are no more rows than keys of rows.
LEMMA RowsCounted ==
  ASSUME NEW r, NEW c
  PROVE  /\ IsFiniteSet(Rows(r, c)) /\ Cardinality(Rows(r, c)) \in Nat
         /\ Cardinality(Rows(r, c)) <= Cardinality(RowKeys(r, c))
PROOF
<1> DEFINE f == [k \in RowKeys(r, c) |-> <<k, c[k]>>]
<1>1. RowKeys(r, c) \subseteq Keys
  BY DEF RowKeys, Visible
<1>2. IsFiniteSet(RowKeys(r, c))
  BY <1>1, KeysFinite
<1>3. f \in Surjection(RowKeys(r, c), Rows(r, c))
  BY RowsOfKeys DEF Surjection
<1>4. IsFiniteSet(Rows(r, c)) /\ Cardinality(Rows(r, c)) <= Cardinality(RowKeys(r, c))
  BY <1>2, <1>3, FS_Surjection
<1> QED BY <1>4, FS_CardinalityType

\* A limit is a positive number.
LEMMA LimitType ==
  ASSUME NEW r
  PROVE  LimitOf(r) \in Nat \ {0}
PROOF
BY BoundAssumption DEF LimitOf

\* When the limit was reached, the end of the query is its last key.
LEMMA EndIsLast ==
  ASSUME NEW r, NEW c \in Contents, ~(Cardinality(Rows(r, c)) < LimitOf(r))
  PROVE  /\ EndOf(r, Rows(r, c)) \in RowKeys(r, c)
         /\ \A k \in RowKeys(r, c) : k = EndOf(r, Rows(r, c)) \/ Before(r, k, EndOf(r, Rows(r, c)))
PROOF
<1> DEFINE K == RowKeys(r, c)
<1> DEFINE e == EndOf(r, Rows(r, c))
<1>1. K \subseteq Keys /\ \A k \in K : c[k] \in Values
  BY DEF RowKeys, Visible, Contents
<1>2. K # {}
  <2>1. SUFFICES ASSUME K = {} PROVE FALSE
    OBVIOUS
  <2>2. Cardinality(K) = 0
    BY <2>1, FS_EmptySet
  <2> QED BY <2>2, RowsCounted, LimitType
<1>3. PICK x \in K : \A y \in K : y = x \/ Before(r, y, x)
  BY <1>1, <1>2, LastKey
<1>4. \E v \in Values : <<x, v>> \in Rows(r, c) /\ \A row \in Rows(r, c) : row[1] = x \/ Before(r, row[1], x)
  <2>1. c[x] \in Values /\ <<x, c[x]>> \in Rows(r, c)
    BY <1>1, RowsOfKeys
  <2>2. ASSUME NEW row \in Rows(r, c) PROVE row[1] = x \/ Before(r, row[1], x)
    <3>1. PICK k \in K : row = <<k, c[k]>>
      BY RowsOfKeys
    <3> QED BY <3>1, <1>3
  <2> QED BY <2>1, <2>2
<1>5. x \in Keys
  BY <1>1, <1>3
<1> HIDE DEF K
<1>6. \E v \in Values : <<e, v>> \in Rows(r, c) /\ \A row \in Rows(r, c) : row[1] = e \/ Before(r, row[1], e)
  BY <1>4, <1>5 DEF EndOf
<1>7. e \in K
  <2>1. PICK v \in Values : <<e, v>> \in Rows(r, c)
    BY <1>6
  <2>2. PICK k \in K : <<e, v>> = <<k, c[k]>>
    BY <2>1, RowsOfKeys DEF K
  <2> QED BY <2>2
<1>8. ASSUME NEW k \in K PROVE k = e \/ Before(r, k, e)
  <2>1. <<k, c[k]>> \in Rows(r, c)
    BY RowsOfKeys DEF K
  <2>2. <<k, c[k]>>[1] = k
    OBVIOUS
  <2> QED BY <2>1, <2>2, <1>6
<1> QED BY <1>7, <1>8 DEF K

\* The end of a query is a key or empty; it is a key when a watch has a result.
LEMMA EndType ==
  ASSUME NEW r, NEW c \in Contents
  PROVE  /\ EndOf(r, Rows(r, c)) \in Keys \cup {Empty}
         /\ op[r] = "watch" /\ Rows(r, c) # {} => EndOf(r, Rows(r, c)) # Empty
PROOF
<1>1. CASE Cardinality(Rows(r, c)) < LimitOf(r)
  <2>1. EndOf(r, Rows(r, c)) = Empty
    BY <1>1 DEF EndOf
  <2>2. op[r] = "watch" => Cardinality(Rows(r, c)) = 0
    BY <1>1, RowsCounted DEF LimitOf
  <2>3. op[r] = "watch" => Rows(r, c) = {}
    BY <2>2, RowsCounted, FS_EmptySet
  <2> QED BY <2>1, <2>3
<1>2. CASE ~(Cardinality(Rows(r, c)) < LimitOf(r))
  <2>1. EndOf(r, Rows(r, c)) \in Keys
    BY <1>2, EndIsLast DEF RowKeys, Visible
  <2>2. Empty \notin Keys
    BY DEF Empty, Keys
  <2> QED BY <2>1, <2>2
<1> QED BY <1>1, <1>2

\* What lies behind the end of a query does not change its rows: it returns the
\* same of two contents that agree on every key up to the end.
LEMMA RowsUpToEnd ==
  ASSUME NEW r, desc[r] \in BOOLEAN, NEW c \in Contents, NEW d \in Contents,
         \A k \in Keys : InRange(r, k, EndOf(r, Rows(r, c))) => c[k] = d[k]
  PROVE  Rows(r, d) = Rows(r, c)
PROOF
<1> DEFINE e == EndOf(r, Rows(r, c))
<1>1. CASE Cardinality(Rows(r, c)) < LimitOf(r)
  <2>1. e = Empty
    BY <1>1 DEF EndOf
  <2>2. \A k \in Keys : c[k] = d[k]
    BY <2>1 DEF InRange
  <2>3. c = d
    BY <2>2 DEF Contents
  <2> QED BY <2>3
<1>2. CASE ~(Cardinality(Rows(r, c)) < LimitOf(r))
  <2>1. e \in RowKeys(r, c) /\ \A k \in RowKeys(r, c) : k = e \/ Before(r, k, e)
    BY <1>2, EndIsLast
  <2>2. e \in Keys /\ RowKeys(r, c) \subseteq Keys
    BY <2>1 DEF RowKeys, Visible
  <2>3. \A k \in Keys : k = e \/ Before(r, k, e) => c[k] = d[k]
    BY DEF InRange
  <2> HIDE DEF e
  <2>4. \A k \in Keys : k = e \/ Before(r, k, e) => (k \in Visible(c) <=> k \in Visible(d))
    BY <2>3 DEF Visible
  <2>5. \A j, k \in Keys : (k = e \/ Before(r, k, e)) /\ Before(r, j, k) => Before(r, j, e)
    BY <2>2 DEF Before, Keys
  <2>6. ASSUME NEW k \in Keys, k = e \/ Before(r, k, e)
        PROVE  k \in RowKeys(r, c) <=> k \in RowKeys(r, d)
    <3>1. \A j \in Keys : Before(r, j, k) => (j \in Visible(c) <=> j \in Visible(d))
      BY <2>4, <2>5, <2>6
    <3>2. {j \in Visible(c) : Before(r, j, k)} = {j \in Visible(d) : Before(r, j, k)}
      BY <3>1 DEF Visible
    <3>3. k \in Visible(c) <=> k \in Visible(d)
      BY <2>4, <2>6
    <3> QED BY <3>2, <3>3 DEF RowKeys
  <2>7. ASSUME NEW k \in Keys, ~(k = e \/ Before(r, k, e))
        PROVE  k \notin RowKeys(r, c) /\ k \notin RowKeys(r, d)
    <3>1. k \notin RowKeys(r, c)
      BY <2>1, <2>7
    <3> DEFINE T == {j \in Visible(d) : Before(r, j, k)}
    <3>2. Before(r, e, k) /\ \A j \in Keys : Before(r, j, e) => Before(r, j, k)
      BY <2>2, <2>7 DEF Before, Keys
    <3>3. ASSUME NEW j \in RowKeys(r, c) PROVE j \in T
      <4>1. j \in Keys /\ (j = e \/ Before(r, j, e)) /\ j \in Visible(c)
        BY <2>1, <2>2 DEF RowKeys
      <4>2. j \in Visible(d)
        BY <4>1, <2>4
      <4>3. Before(r, j, k)
        BY <4>1, <3>2
      <4> QED BY <4>2, <4>3
    <3>4. T \subseteq Keys
      BY DEF Visible
    <3>5. Cardinality(RowKeys(r, c)) <= Cardinality(T)
      <4>1. IsFiniteSet(T) /\ RowKeys(r, c) \in SUBSET T
        BY <3>3, <3>4, KeysFinite
      <4> HIDE DEF T
      <4> QED BY <4>1, FS_Subset
    <3>6. ~(Cardinality(T) < LimitOf(r))
      <4>1. Cardinality(T) \in Nat /\ Cardinality(RowKeys(r, c)) \in Nat
        BY <3>4, <2>2, KeysFinite
      <4> HIDE DEF T
      <4> QED BY <4>1, <3>5, <1>2, RowsCounted, LimitType
    <3>7. k \notin RowKeys(r, d)
      BY <3>6 DEF RowKeys
    <3> QED BY <3>1, <3>7
  <2>8. RowKeys(r, c) = RowKeys(r, d)
    <3>1. \A k \in Keys : k \in RowKeys(r, c) <=> k \in RowKeys(r, d)
      BY <2>6, <2>7
    <3>2. RowKeys(r, d) \subseteq Keys
      BY DEF RowKeys, Visible
    <3> QED BY <2>2, <3>1, <3>2
  <2>9. \A k \in RowKeys(r, c) : c[k] = d[k]
    BY <2>1, <2>2, <2>3
  <2>10. Rows(r, c) = {<<k, c[k]>> : k \in RowKeys(r, c)} /\ Rows(r, d) = {<<k, d[k]>> : k \in RowKeys(r, d)}
    BY RowsOfKeys
  <2> QED BY <2>8, <2>9, <2>10
<1> QED BY <1>1, <1>2
-----------------------------------------------------------------------------
(* What the steps do to the parts of the state they share. *)

\* The order and the limit of a query stay.
LEMMA QueryStays ==
  ASSUME op' = op, desc' = desc
  PROVE  /\ \A r, j, k : Before(r, j, k)' <=> Before(r, j, k)
         /\ \A r, k, l : InRange(r, k, l)' <=> InRange(r, k, l)
         /\ \A r, c : Rows(r, c)' = Rows(r, c)
         /\ \A r, rows : EndOf(r, rows)' = EndOf(r, rows)
PROOF
BY DEF Before, InRange, Rows, EndOf, LimitOf, Visible

\* A transaction writes keys.
LEMMA PendingType ==
  ASSUME TypeOK, NEW w \in Writers
  PROVE  /\ DOMAIN pending[w] \subseteq Keys
         /\ pending[w] \in [DOMAIN pending[w] -> Writers \cup {Absent}]
PROOF
BY DEF TypeOK

\* IndexConsistent, of one watcher.
Listed(r) ==
  /\ index[r] => r \in watcherVec /\ rpc[r] # "added"
  /\ r \in watcherVec /\ rpc[r] # "added" => index[r] \/ r \in lost
  /\ index[r] <=> state[r] # "Invalid"

\* A watcher that leaves the index is no longer listed and no longer counted.
LEMMA InvalidateKeepsIndex ==
  ASSUME TypeOK, IndexConsistent, NEW s \in Readers, index[s], Invalidate(s), lost' = lost,
         \A r \in Readers : rpc'[r] = "added" <=> rpc[r] = "added"
  PROVE  IndexConsistent' /\ state' \in [Readers -> {"Invalid", "Pending", "Active"}]
         /\ index' \in [Readers -> BOOLEAN] /\ watcherVec' \in SUBSET Readers /\ watchCount' \in Nat
PROOF
<1>1. s \in watcherVec /\ watcherVec \in SUBSET Readers /\ watchCount = Cardinality(watcherVec)
  BY DEF TypeOK, IndexConsistent
<1>2. IsFiniteSet(watcherVec)
  BY <1>1, ReadersAssumption, FS_Subset
<1>3. Cardinality(watcherVec \ {s}) = Cardinality(watcherVec) - 1 /\ IsFiniteSet(watcherVec \ {s})
  BY <1>1, <1>2, FS_RemoveElement
<1>4. watcherVec' = watcherVec \ {s} /\ watchCount' = Cardinality(watcherVec')
  BY <1>1, <1>3 DEF Invalidate
<1>5. watchCount' \in Nat
  BY <1>3, <1>4, FS_CardinalityType
<1>6. state' \in [Readers -> {"Invalid", "Pending", "Active"}] /\ index' \in [Readers -> BOOLEAN]
  BY DEF TypeOK, Invalidate
<1>7. ASSUME NEW r \in Readers
      PROVE  Listed(r)'
  BY <1>4 DEF TypeOK, Invalidate, IndexConsistent, Listed
<1> QED BY <1>1, <1>4, <1>5, <1>6, <1>7 DEF IndexConsistent, Listed

\* fire() does nothing, ends an active watcher, or leaves its key with a pending one.
LEMMA FireWatcherCases ==
  ASSUME WatchIInv, NEW s \in Readers, NEW k, FireWatcher(s, k)
  PROVE  \/ UNCHANGED watchVars /\ (state[s] = "Invalid" \/ ~InRange(s, k, limitKey[s]))
         \/ /\ state[s] = "Active" /\ index[s] /\ rpc[s] = "closed" /\ InRange(s, k, endKey[s])
            /\ FireImpl(s) /\ UNCHANGED <<fireKey, limitKey, cancelled>>
         \/ /\ state[s] = "Pending" /\ KeepFireKey(s, k)
            /\ UNCHANGED <<state, index, watcherVec, watchCount, fired, limitKey, cancelled>>
PROOF
<1>1. state[s] \in {"Invalid", "Pending", "Active"} /\ rpc[s] \in
        {"start", "added", "init", "open", "replied", "closed", "failed"}
  BY DEF WatchIInv, TypeOK
<1>2. state[s] = "Active" => rpc[s] = "closed" /\ index[s] /\ limitKey[s] = endKey[s]
  BY <1>1 DEF WatchIInv, WatcherPhases, LimitIsEnd, IndexConsistent
<1>3. CASE ~InRange(s, k, limitKey[s]) \/ state[s] = "Invalid"
  BY <1>3 DEF FireWatcher
<1>4. CASE InRange(s, k, limitKey[s]) /\ state[s] = "Active"
  BY <1>2, <1>4 DEF FireWatcher
<1>5. CASE InRange(s, k, limitKey[s]) /\ state[s] = "Pending"
  BY <1>5 DEF FireWatcher
<1> QED BY <1>1, <1>3, <1>4, <1>5

\* What a pending watcher keeps is one of the keys it is fired with, the first of them.
LEMMA KeptKey ==
  ASSUME TypeOK, NEW s \in Readers, NEW k \in Keys, KeepFireKey(s, k)
  PROVE  /\ fireKey' \in [Readers -> Keys \cup {Empty}] /\ fireKey'[s] # Empty
         /\ fireKey'[s] \in {fireKey[s], k} /\ \A r \in Readers \ {s} : fireKey'[r] = fireKey[r]
         /\ \A l \in Keys \cup {Empty} : InRange(s, k, l) \/ (fireKey[s] # Empty /\ InRange(s, fireKey[s], l))
                     => InRange(s, fireKey'[s], l)
PROOF
<1>1. k # Empty /\ k \in Nat /\ fireKey[s] \in Nat /\ desc[s] \in BOOLEAN
  BY DEF TypeOK, Keys, Empty
<1>2. Keys \cup {Empty} \subseteq Nat
  BY DEF Keys, Empty
<1>3. CASE fireKey[s] = Empty \/ Before(s, k, fireKey[s])
  <2>1. fireKey' = [fireKey EXCEPT ![s] = k]
    BY <1>3 DEF KeepFireKey
  <2>2. fireKey' \in [Readers -> Keys \cup {Empty}] /\ fireKey'[s] = k
        /\ \A r \in Readers \ {s} : fireKey'[r] = fireKey[r]
    BY <2>1 DEF TypeOK
  <2>3. ASSUME NEW l \in Keys \cup {Empty}, fireKey[s] # Empty, InRange(s, fireKey[s], l)
        PROVE  InRange(s, k, l)
    BY <1>1, <1>2, <1>3, <2>3 DEF InRange, Before
  <2> QED BY <1>1, <2>2, <2>3
<1>4. CASE ~(fireKey[s] = Empty \/ Before(s, k, fireKey[s]))
  <2>1. fireKey' = fireKey
    BY <1>4 DEF KeepFireKey
  <2>2. ASSUME NEW l \in Keys \cup {Empty}, InRange(s, k, l)
        PROVE  InRange(s, fireKey[s], l)
    BY <1>1, <1>2, <1>4, <2>2 DEF InRange, Before
  <2> QED BY <1>4, <2>1, <2>2 DEF TypeOK
<1> QED BY <1>3, <1>4

\* What an update does to the transaction: it has touched S besides, and noted
\* every watcher it can see.
LEMMA UpdateEffect ==
  ASSUME WatchIInv, NEW w \in Writers, NEW S \in SUBSET Keys, S # {}, Update(w, S)
  PROVE  /\ wpc[w] = "open"
         /\ UNCHANGED <<content, wpc, rpc, op, desc, state, index, limitKey, fireKey, result, endKey,
                        fired, cancelled, raced, lost, watcherVec, watchCount>>
         /\ pending' \in [Writers -> UNION {[U -> Writers \cup {Absent}] : U \in SUBSET Keys}]
         /\ noted' \in [Writers -> [Readers -> Keys \cup {Empty}]]
         /\ DOMAIN pending'[w] = DOMAIN pending[w] \cup S
         /\ \A v \in Writers \ {w} : pending'[v] = pending[v] /\ noted'[v] = noted[v]
         /\ \A r \in Readers :
              /\ noted'[w][r] \in {noted[w][r], MinKey(noted[w][r], S)}
              /\ Watching(r) => noted'[w][r] = MinKey(noted[w][r], S)
PROOF
<1>1. TypeOK
  BY DEF WatchIInv
<1>2. PICK new \in [S -> {w, Absent}] : pending' = [pending EXCEPT ![w] =
        [k \in DOMAIN pending[w] \cup S |-> IF k \in S THEN new[k] ELSE pending[w][k]]]
  BY DEF Update
<1>3. PICK seen \in SUBSET {r \in watcherVec : rpc[r] = "added"} :
        noted' = [noted EXCEPT ![w] = [r \in Readers |->
          IF r \in seen \/ (r \in watcherVec /\ rpc[r] # "added")
          THEN MinKey(noted[w][r], S) ELSE noted[w][r]]]
  BY DEF Update
<1>4. wpc[w] = "open" /\ UNCHANGED <<content, wpc, rpc, op, desc, state, index, limitKey, fireKey, result,
                                     endKey, fired, cancelled, raced, lost, watcherVec, watchCount>>
  BY DEF Update, queryVars, watchVars
<1>5. /\ pending' \in [Writers -> UNION {[U -> Writers \cup {Absent}] : U \in SUBSET Keys}]
      /\ DOMAIN pending'[w] = DOMAIN pending[w] \cup S
      /\ \A v \in Writers \ {w} : pending'[v] = pending[v]
  <2> DEFINE D == DOMAIN pending[w] \cup S
  <2> DEFINE p == [k \in D |-> IF k \in S THEN new[k] ELSE pending[w][k]]
  <2>1. D \in SUBSET Keys
    BY <1>1, PendingType
  <2>2. p \in [D -> Writers \cup {Absent}]
    BY <1>1, PendingType
  <2>3. pending \in [Writers -> UNION {[U -> Writers \cup {Absent}] : U \in SUBSET Keys}]
    BY <1>1 DEF TypeOK
  <2>4. pending' = [pending EXCEPT ![w] = p]
    BY <1>2
  <2>5. DOMAIN p = D
    OBVIOUS
  <2> HIDE DEF p, D
  <2>6. p \in UNION {[U -> Writers \cup {Absent}] : U \in SUBSET Keys}
    BY <2>1, <2>2
  <2>7. pending'[w] = p /\ \A v \in Writers \ {w} : pending'[v] = pending[v]
    BY <2>3, <2>4
  <2>8. pending' \in [Writers -> UNION {[U -> Writers \cup {Absent}] : U \in SUBSET Keys}]
    BY <2>3, <2>4, <2>6
  <2> QED BY <2>5, <2>7, <2>8 DEF D
<1>6. \A r \in Readers : MinKey(noted[w][r], S) \in Keys \cup {Empty}
  <2>1. SUFFICES ASSUME NEW r \in Readers PROVE MinKey(noted[w][r], S) \in Keys \cup {Empty}
    OBVIOUS
  <2>2. PICK old \in Keys \cup {Empty} : old = noted[w][r]
    BY <1>1 DEF TypeOK
  <2>3. MinKey(old, S) \in S \cup ({old} \ {Empty})
    BY MinKeyIsLeast DEF IsLeast
  <2> QED BY <2>2, <2>3
<1>7. /\ noted' \in [Writers -> [Readers -> Keys \cup {Empty}]]
      /\ \A v \in Writers \ {w} : noted'[v] = noted[v]
      /\ \A r \in Readers :
           /\ noted'[w][r] \in {noted[w][r], MinKey(noted[w][r], S)}
           /\ Watching(r) => noted'[w][r] = MinKey(noted[w][r], S)
  BY <1>1, <1>3, <1>6 DEF TypeOK, Watching
<1> QED BY <1>4, <1>5, <1>7

\* Outdated rows that will be notified still will be when the content, the
\* query and the committed transactions stay, and what would notify them does.
LEMMA StillWillFire ==
  ASSUME WatchIInv, NEW r \in Readers, content' = content, op' = op, desc' = desc,
         r \notin lost' => r \notin lost,
         HasRead(r)' => HasRead(r) /\ result'[r] = result[r] /\ endKey'[r] = endKey[r] /\ raced'[r] = raced[r],
         state'[r] # "Invalid" => state[r] # "Invalid",
         \A w \in Writers : wpc[w] = "fire" => wpc'[w] = "fire" /\ pending'[w] = pending[w],
         \A k \in Keys : WillFire(r, k) /\ HasRead(r)' /\ state'[r] # "Invalid"
                           => \E j \in Keys : WillFire(r, j)'
  PROVE  (HasRead(r) /\ state[r] # "Invalid" /\ r \notin lost /\ Unraced(r) /\ FiredKeyIsFirst(r) /\ Outdated(r)
            => \E k \in Keys : WillFire(r, k))'
PROOF
<1>1. SUFFICES ASSUME HasRead(r)', state'[r] # "Invalid", r \notin lost', Unraced(r)', FiredKeyIsFirst(r)', Outdated(r)'
               PROVE  \E k \in Keys : WillFire(r, k)'
  OBVIOUS
<1>2. HasRead(r) /\ state[r] # "Invalid" /\ r \notin lost /\ Unraced(r) /\ Outdated(r)
  BY <1>1, QueryStays DEF Unraced, Outdated
<1>3. FiredKeyIsFirst(r)
  BY <1>1 DEF FiredKeyIsFirst
<1>4. PICK k \in Keys : WillFire(r, k)
  BY <1>2, <1>3 DEF WatchIInv, OutdatedWillFire
<1> QED BY <1>1, <1>4

\* A finite set with at most one member has no two.
LEMMA OnlyOne ==
  ASSUME NEW T, IsFiniteSet(T), Cardinality(T) <= 1, NEW x \in T, NEW y \in T
  PROVE  x = y
PROOF
<1>1. Cardinality(T) \in Nat
  BY FS_CardinalityType
<1>2. CASE Cardinality(T) = 0
  BY <1>2, FS_EmptySet
<1>3. CASE Cardinality(T) = 1
  <2>1. \E z : T = {z}
    BY <1>3, FS_Singleton, Zenon
  <2> QED BY <2>1
<1> QED BY <1>1, <1>2, <1>3

-----------------------------------------------------------------------------
(* Every action keeps the invariant. *)

\* An update of the index by a transaction.
LEMMA UpdateKeeps ==
  ASSUME WatchIInv, NEW w \in Writers, NEW S \in SUBSET Keys, S # {}, Update(w, S)
  PROVE  WatchIInv'
PROOF
<1> USE DEF WatchIInv
<1>a. /\ wpc[w] = "open"
      /\ UNCHANGED <<content, wpc, rpc, op, desc, state, index, limitKey, fireKey, result, endKey,
                     fired, cancelled, raced, lost, watcherVec, watchCount>>
      /\ pending' \in [Writers -> UNION {[U -> Writers \cup {Absent}] : U \in SUBSET Keys}]
      /\ noted' \in [Writers -> [Readers -> Keys \cup {Empty}]]
      /\ DOMAIN pending'[w] = DOMAIN pending[w] \cup S
      /\ \A v \in Writers \ {w} : pending'[v] = pending[v] /\ noted'[v] = noted[v]
      /\ \A r \in Readers :
           /\ noted'[w][r] \in {noted[w][r], MinKey(noted[w][r], S)}
           /\ Watching(r) => noted'[w][r] = MinKey(noted[w][r], S)
  BY UpdateEffect
<1>b. \A r \in Readers : IsLeast(MinKey(noted[w][r], S), S \cup ({noted[w][r]} \ {Empty}))
  <2>1. SUFFICES ASSUME NEW r \in Readers
                 PROVE  IsLeast(MinKey(noted[w][r], S), S \cup ({noted[w][r]} \ {Empty}))
    OBVIOUS
  <2>2. PICK old \in Keys \cup {Empty} : old = noted[w][r]
    BY DEF TypeOK
  <2> QED BY <2>2, MinKeyIsLeast
<1>1. TypeOK'
  BY <1>a DEF TypeOK
<1>2. WatcherPhases'
  BY DEF TypeOK, WatcherPhases, Update, writerVars, queryVars, watchVars
<1>3. LimitIsEnd'
  BY DEF TypeOK, LimitIsEnd, Update, writerVars, queryVars, watchVars
<1>4. EndedOnce'
  BY DEF TypeOK, EndedOnce, Listening, Update, writerVars, queryVars, watchVars
<1>5. IndexConsistent'
  BY DEF TypeOK, IndexConsistent, Update, writerVars, queryVars, watchVars
<1>6. ReadAtOnce'
  BY QueryStays DEF TypeOK, ReadAtOnce, HasRead, Update, writerVars, queryVars, watchVars
<1>7. NotedIsTouched'
  <2>1. ASSUME NEW r \in Readers, noted'[w][r] # Empty PROVE noted'[w][r] \in DOMAIN pending'[w]
    BY <1>a, <1>b, <2>1 DEF IsLeast, NotedIsTouched
  <2> QED BY <1>a, <2>1 DEF NotedIsTouched
<1>8. FireKeyIsCommitted'
  BY DEF TypeOK, FireKeyIsCommitted, Update, writerVars, queryVars, watchVars
<1>9. NotifiedForACause'
  BY QueryStays DEF TypeOK, NotifiedForACause, Update, writerVars, queryVars, watchVars
<1>10. LeastIsNoted'
  <2>1. ASSUME NEW r \in Readers, Watching(r), raced[r] = {}
        PROVE  IsLeast(MinKey(noted[w][r], S), DOMAIN pending[w] \cup S)
    <3>1. CASE noted[w][r] = Empty
      <4>1. DOMAIN pending[w] = {}
        <5>1. ASSUME DOMAIN pending[w] # {} PROVE FALSE
          <6>1. IsLeast(Empty, DOMAIN pending[w])
            BY <1>a, <2>1, <3>1, <5>1 DEF LeastIsNoted
          <6> QED BY <6>1, PendingType DEF IsLeast, Empty, Keys
        <5> QED BY <5>1
      <4> QED BY <1>b, <3>1, <4>1 DEF IsLeast
    <3>2. CASE noted[w][r] # Empty
      <4>1. noted[w][r] \in DOMAIN pending[w]
        BY <3>2 DEF NotedIsTouched
      <4>2. IsLeast(noted[w][r], DOMAIN pending[w])
        BY <1>a, <2>1, <4>1 DEF LeastIsNoted
      <4>3. MinKey(noted[w][r], S) \in S \cup {noted[w][r]} /\ MinKey(noted[w][r], S) <= noted[w][r]
            /\ \A j \in S : MinKey(noted[w][r], S) <= j
        BY <1>b, <3>2 DEF IsLeast
      <4>4. DOMAIN pending[w] \cup S \subseteq Nat
        <5>1. DOMAIN pending[w] \cup S \subseteq Keys
          BY PendingType
        <5> QED BY <5>1 DEF Keys
      <4> QED BY <4>1, <4>2, <4>3, <4>4 DEF IsLeast
    <3> QED BY <3>1, <3>2
  <2>2. ASSUME NEW v \in Writers, NEW r \in Readers,
               wpc[v] = "open", DOMAIN pending'[v] # {}, Watching(r), raced[r] = {}
        PROVE  IsLeast(noted'[v][r], DOMAIN pending'[v])
    <3>1. CASE v = w
      BY <1>a, <2>1, <2>2, <3>1
    <3>2. CASE v # w
      BY <1>a, <2>2, <3>2 DEF LeastIsNoted
    <3> QED BY <3>1, <3>2
  <2> QED BY <1>a, <2>2 DEF LeastIsNoted, Watching, IsLeast
<1>11. OutdatedWillFire'
  <2>1. ASSUME NEW r \in Readers, NEW k \in Keys, WillFire(r, k)
        PROVE  WillFire(r, k)'
    BY <2>1, <1>a DEF WillFire, InRange, Before
  <2>2. ASSUME NEW r \in Readers
        PROVE  (HasRead(r) /\ state[r] # "Invalid" /\ r \notin lost /\ Unraced(r) /\ FiredKeyIsFirst(r) /\ Outdated(r)
                  => \E k \in Keys : WillFire(r, k))'
    BY <2>1, <1>a, StillWillFire DEF HasRead
  <2> QED BY <2>2 DEF OutdatedWillFire
<1> QED BY <1>1, <1>2, <1>3, <1>4, <1>5, <1>6, <1>7, <1>8, <1>9, <1>10, <1>11

\* A commit: where the content changes, so may the rows of a query.
LEMMA CommitKeeps ==
  ASSUME WatchIInv, NEW w \in Writers, Commit(w)
  PROVE  WatchIInv'
PROOF
<1> USE DEF WatchIInv
<1>a. /\ wpc[w] = "open" /\ pending[w] # <<>>
      /\ content' = [k \in Keys |-> IF k \in DOMAIN pending[w] THEN pending[w][k] ELSE content[k]]
      /\ wpc' = [wpc EXCEPT ![w] = "fire"]
      /\ UNCHANGED <<pending, noted, rpc, op, desc, state, index, limitKey, fireKey, result, endKey,
                     fired, cancelled, raced, lost, watcherVec, watchCount>>
  BY DEF Commit, queryVars, watchVars
<1>b. content \in Contents /\ content' \in Contents
  <2>1. \A k \in DOMAIN pending[w] : pending[w][k] \in Values \cup {Absent}
    BY PendingType DEF Values
  <2>2. content \in Contents
    BY DEF TypeOK, Contents
  <2> QED BY <1>a, <2>1, <2>2 DEF Contents
<1>1. TypeOK'
  <2>1. wpc' \in [Writers -> {"open", "fire", "aborted"}]
    BY <1>a DEF TypeOK
  <2> QED BY <1>a, <1>b, <2>1 DEF TypeOK, Contents
<1>2. WatcherPhases'
  BY DEF TypeOK, WatcherPhases, Commit, writerVars, queryVars, watchVars
<1>3. LimitIsEnd'
  BY DEF TypeOK, LimitIsEnd, Commit, writerVars, queryVars, watchVars
<1>4. EndedOnce'
  BY DEF TypeOK, EndedOnce, Listening, Commit, writerVars, queryVars, watchVars
<1>5. IndexConsistent'
  BY DEF TypeOK, IndexConsistent, Commit, writerVars, queryVars, watchVars
<1>6. ReadAtOnce'
  BY QueryStays DEF TypeOK, ReadAtOnce, HasRead, Commit, writerVars, queryVars, watchVars
<1>7. NotedIsTouched'
  BY DEF TypeOK, NotedIsTouched, Commit, writerVars, queryVars, watchVars
<1>8. FireKeyIsCommitted'
  BY DEF TypeOK, FireKeyIsCommitted, Commit, writerVars, queryVars, watchVars
<1>9. NotifiedForACause'
  BY QueryStays DEF TypeOK, NotifiedForACause, Commit, writerVars, queryVars, watchVars
<1>10. LeastIsNoted'
  BY DEF TypeOK, LeastIsNoted, Watching, IsLeast, Commit, writerVars, queryVars, watchVars
<1>11. OutdatedWillFire'
  <2>1. SUFFICES ASSUME NEW r \in Readers, HasRead(r), state[r] # "Invalid", r \notin lost, Unraced(r),
                        FiredKeyIsFirst(r)', Rows(r, content') # result[r]
                 PROVE  \E k \in Keys : WillFire(r, k)'
    BY <1>a, QueryStays DEF OutdatedWillFire, HasRead, Unraced, Outdated
  <2>2. ASSUME NEW k \in Keys, WillFire(r, k) PROVE WillFire(r, k)'
    BY <1>a, <2>2, QueryStays DEF WillFire, TypeOK
  <2>3. CASE Rows(r, content) # result[r]
    <3>1. FiredKeyIsFirst(r)
      BY <1>a, <2>1 DEF FiredKeyIsFirst, TypeOK
    <3>2. \E k \in Keys : WillFire(r, k)
      BY <2>1, <2>3, <3>1 DEF OutdatedWillFire, Outdated
    <3> QED BY <2>2, <3>2
  <2>4. CASE Rows(r, content) = result[r]
    <3>1. endKey[r] = EndOf(r, Rows(r, content))
      BY <2>1, <2>4 DEF ReadAtOnce
    <3>2. PICK k \in Keys : InRange(r, k, endKey[r]) /\ content[k] # content'[k]
      <4>1. desc[r] \in BOOLEAN
        BY DEF TypeOK
      <4> QED BY <1>b, <2>1, <2>4, <3>1, <4>1, RowsUpToEnd
    <3>3. k \in DOMAIN pending[w]
      BY <1>a, <3>2
    <3>4. Watching(r)
      BY <2>1 DEF IndexConsistent, Watching
    <3>m. PICK m \in Keys \cup {Empty} : m = noted[w][r]
      BY DEF TypeOK
    <3>5. IsLeast(m, DOMAIN pending[w])
      BY <1>a, <2>1, <3>3, <3>4, <3>m DEF LeastIsNoted, Unraced
    <3>6. m \in Keys /\ m <= k /\ m # Empty
      BY <3>3, <3>5, PendingType DEF IsLeast, Keys, Empty
    <3>7. InRange(r, m, endKey[r])
      <4>1. desc[r] \in BOOLEAN /\ endKey[r] \in Keys \cup {Empty}
        BY DEF TypeOK
      <4>2. CASE desc[r]
        <5>1. Cardinality(DOMAIN pending[w]) <= 1
          BY <1>a, <2>1, <4>2 DEF FiredKeyIsFirst, TypeOK
        <5>2. m = k
          BY <3>3, <3>5, <5>1, PendingType, KeysFinite, OnlyOne DEF IsLeast
        <5> QED BY <3>2, <5>2
      <4>3. CASE ~desc[r]
        BY <3>2, <3>6, <4>1, <4>3 DEF InRange, Before, Keys, Empty
      <4> QED BY <4>1, <4>2, <4>3
    <3>8. WillFire(r, m)'
      BY <1>a, <3>m, <3>6, <3>7, QueryStays DEF WillFire, TypeOK
    <3> QED BY <3>6, <3>8
  <2> QED BY <2>3, <2>4
<1> QED BY <1>1, <1>2, <1>3, <1>4, <1>5, <1>6, <1>7, <1>8, <1>9, <1>10, <1>11

\* An abort.
LEMMA AbortKeeps ==
  ASSUME WatchIInv, NEW w \in Writers, Abort(w)
  PROVE  WatchIInv'
PROOF
<1> USE DEF WatchIInv
<1>a. /\ wpc[w] = "open"
      /\ wpc' = [wpc EXCEPT ![w] = "aborted"] /\ pending' = [pending EXCEPT ![w] = <<>>]
      /\ noted' = [noted EXCEPT ![w] = [r \in Readers |-> Empty]]
      /\ UNCHANGED <<content, rpc, op, desc, state, index, limitKey, fireKey, result, endKey,
                     fired, cancelled, raced, lost, watcherVec, watchCount>>
  BY DEF Abort, Gone, NotesNothing, queryVars, watchVars
<1>1. TypeOK'
  <2>1. wpc' \in [Writers -> {"open", "fire", "aborted"}]
    BY <1>a DEF TypeOK
  <2>2. noted' \in [Writers -> [Readers -> Keys \cup {Empty}]]
    BY <1>a DEF TypeOK
  <2>3. pending' \in [Writers -> UNION {[U -> Writers \cup {Absent}] : U \in SUBSET Keys}]
    <3>1. <<>> \in [{} -> Writers \cup {Absent}]
      OBVIOUS
    <3>2. <<>> \in UNION {[U -> Writers \cup {Absent}] : U \in SUBSET Keys}
      BY <3>1
    <3> QED BY <1>a, <3>2 DEF TypeOK
  <2> QED BY <1>a, <2>1, <2>2, <2>3 DEF TypeOK
<1>2. WatcherPhases'
  BY DEF TypeOK, WatcherPhases, Abort, Gone, NotesNothing, writerVars, queryVars, watchVars
<1>3. LimitIsEnd'
  BY DEF TypeOK, LimitIsEnd, Abort, Gone, NotesNothing, writerVars, queryVars, watchVars
<1>4. EndedOnce'
  BY DEF TypeOK, EndedOnce, Listening, Abort, Gone, NotesNothing, writerVars, queryVars, watchVars
<1>5. IndexConsistent'
  BY DEF TypeOK, IndexConsistent, Abort, Gone, NotesNothing, writerVars, queryVars, watchVars
<1>6. ReadAtOnce'
  BY QueryStays DEF TypeOK, ReadAtOnce, HasRead, Abort, Gone, NotesNothing, writerVars, queryVars, watchVars
<1>7. NotedIsTouched'
  BY DEF TypeOK, NotedIsTouched, Abort, Gone, NotesNothing, writerVars, queryVars, watchVars
<1>8. FireKeyIsCommitted'
  BY DEF TypeOK, FireKeyIsCommitted, Abort, Gone, NotesNothing, writerVars, queryVars, watchVars
<1>9. NotifiedForACause'
  BY QueryStays DEF TypeOK, NotifiedForACause, Abort, Gone, NotesNothing, writerVars, queryVars, watchVars
<1>10. LeastIsNoted'
  BY DEF TypeOK, LeastIsNoted, Watching, IsLeast, Abort, Gone, NotesNothing, writerVars, queryVars, watchVars
<1>11. OutdatedWillFire'
  <2>1. ASSUME NEW r \in Readers, NEW k \in Keys, WillFire(r, k)
        PROVE  WillFire(r, k)'
    BY <2>1, <1>a DEF WillFire, InRange, Before, TypeOK
  <2>2. ASSUME NEW r \in Readers
        PROVE  (HasRead(r) /\ state[r] # "Invalid" /\ r \notin lost /\ Unraced(r) /\ FiredKeyIsFirst(r) /\ Outdated(r)
                  => \E k \in Keys : WillFire(r, k))'
    BY <2>1, <1>a, StillWillFire DEF HasRead, TypeOK
  <2> QED BY <2>2 DEF OutdatedWillFire
<1> QED BY <1>1, <1>2, <1>3, <1>4, <1>5, <1>6, <1>7, <1>8, <1>9, <1>10, <1>11

\* A commit that ends in an error with something stored: whom it noted is lost.
LEMMA CommitFailsKeeps ==
  ASSUME WatchIInv, NEW w \in Writers, CommitFails(w)
  PROVE  WatchIInv'
PROOF
<1> USE DEF WatchIInv
<1>a. /\ wpc[w] = "open"
      /\ wpc' = [wpc EXCEPT ![w] = "aborted"] /\ pending' = [pending EXCEPT ![w] = <<>>]
      /\ noted' = [noted EXCEPT ![w] = [r \in Readers |-> Empty]]
      /\ lost' = lost \cup NotedBy(w)
      /\ UNCHANGED <<rpc, op, desc, state, index, limitKey, fireKey, result, endKey,
                     fired, cancelled, raced, watcherVec, watchCount>>
  BY DEF CommitFails, Gone, NotesNothing, queryVars, watchVars
<1>b. PICK S \in SUBSET DOMAIN pending[w] :
        content' = [k \in Keys |-> IF k \in S THEN pending[w][k] ELSE content[k]]
  BY DEF CommitFails
<1>c. content \in Contents /\ content' \in Contents
  <2>1. \A k \in DOMAIN pending[w] : pending[w][k] \in Values \cup {Absent}
    BY PendingType DEF Values
  <2>2. content \in Contents
    BY DEF TypeOK, Contents
  <2> QED BY <1>b, <2>1, <2>2 DEF Contents
<1>1. TypeOK'
  <2>1. wpc' \in [Writers -> {"open", "fire", "aborted"}]
    BY <1>a DEF TypeOK
  <2>2. noted' \in [Writers -> [Readers -> Keys \cup {Empty}]]
    BY <1>a DEF TypeOK
  <2>3. pending' \in [Writers -> UNION {[U -> Writers \cup {Absent}] : U \in SUBSET Keys}]
    <3>1. <<>> \in [{} -> Writers \cup {Absent}]
      OBVIOUS
    <3>2. <<>> \in UNION {[U -> Writers \cup {Absent}] : U \in SUBSET Keys}
      BY <3>1
    <3> QED BY <1>a, <3>2 DEF TypeOK
  <2> QED BY <1>a, <1>c, <2>1, <2>2, <2>3 DEF TypeOK, Contents, NotedBy
<1>2. WatcherPhases'
  BY DEF TypeOK, WatcherPhases, CommitFails, Gone, NotesNothing, writerVars, queryVars, watchVars
<1>3. LimitIsEnd'
  BY DEF TypeOK, LimitIsEnd, CommitFails, Gone, NotesNothing, writerVars, queryVars, watchVars
<1>4. EndedOnce'
  BY DEF TypeOK, EndedOnce, Listening, CommitFails, Gone, NotesNothing, writerVars, queryVars, watchVars
<1>5. IndexConsistent'
  BY DEF TypeOK, IndexConsistent, CommitFails, Gone, NotesNothing, writerVars, queryVars, watchVars
<1>6. ReadAtOnce'
  BY QueryStays DEF TypeOK, ReadAtOnce, HasRead, CommitFails, Gone, NotesNothing, writerVars, queryVars, watchVars
<1>7. NotedIsTouched'
  BY DEF TypeOK, NotedIsTouched, CommitFails, Gone, NotesNothing, writerVars, queryVars, watchVars
<1>8. FireKeyIsCommitted'
  BY DEF TypeOK, FireKeyIsCommitted, CommitFails, Gone, NotesNothing, writerVars, queryVars, watchVars
<1>9. NotifiedForACause'
  BY QueryStays DEF TypeOK, NotifiedForACause, CommitFails, Gone, NotesNothing, writerVars, queryVars, watchVars
<1>10. LeastIsNoted'
  BY DEF TypeOK, LeastIsNoted, Watching, IsLeast, CommitFails, Gone, NotesNothing, writerVars, queryVars, watchVars
<1>11. OutdatedWillFire'
  <2>1. SUFFICES ASSUME NEW r \in Readers, HasRead(r), state[r] # "Invalid", r \notin lost, r \notin NotedBy(w),
                        Unraced(r), FiredKeyIsFirst(r)', Rows(r, content') # result[r]
                 PROVE  \E k \in Keys : WillFire(r, k)'
    BY <1>a, QueryStays DEF OutdatedWillFire, HasRead, Unraced, Outdated
  <2>2. ASSUME NEW k \in Keys, WillFire(r, k) PROVE WillFire(r, k)'
    BY <1>a, <2>2, QueryStays DEF WillFire, TypeOK
  <2>3. CASE Rows(r, content) # result[r]
    <3>1. FiredKeyIsFirst(r)
      BY <1>a, <2>1 DEF FiredKeyIsFirst, TypeOK
    <3>2. \E k \in Keys : WillFire(r, k)
      BY <2>1, <2>3, <3>1 DEF OutdatedWillFire, Outdated
    <3> QED BY <2>2, <3>2
  <2>4. CASE Rows(r, content) = result[r]
    <3>1. endKey[r] = EndOf(r, Rows(r, content))
      BY <2>1, <2>4 DEF ReadAtOnce
    <3>2. PICK k \in Keys : content[k] # content'[k]
      <4>1. desc[r] \in BOOLEAN
        BY DEF TypeOK
      <4> QED BY <1>c, <2>1, <2>4, <3>1, <4>1, RowsUpToEnd
    <3>3. k \in DOMAIN pending[w] /\ Watching(r)
      BY <1>b, <2>1, <3>2 DEF IndexConsistent, Watching
    <3>4. IsLeast(noted[w][r], DOMAIN pending[w])
      BY <1>a, <2>1, <3>3 DEF LeastIsNoted, Unraced
    <3>5. noted[w][r] # Empty
      BY <3>4, PendingType DEF IsLeast, Keys, Empty
    <3> QED BY <2>1, <3>5 DEF NotedBy
  <2> QED BY <2>3, <2>4
<1> QED BY <1>1, <1>2, <1>3, <1>4, <1>5, <1>6, <1>7, <1>8, <1>9, <1>10, <1>11

\* A committed transaction fires a watcher.
LEMMA FireKeeps ==
  ASSUME WatchIInv, NEW w \in Writers, NEW s \in Readers, Fire(w, s)
  PROVE  WatchIInv'
PROOF
<1> USE DEF WatchIInv
<1>a. /\ wpc[w] = "fire" /\ noted[w][s] # Empty /\ FireWatcher(s, noted[w][s])
      /\ noted' = [noted EXCEPT ![w][s] = Empty]
      /\ UNCHANGED <<content, wpc, pending, rpc, op, desc, result, endKey, raced, lost>>
  BY DEF Fire, queryVars
<1>b. noted[w][s] \in Keys /\ noted[w][s] \in DOMAIN pending[w] /\ noted' \in [Writers -> [Readers -> Keys \cup {Empty}]]
  BY <1>a DEF TypeOK, NotedIsTouched
<1> DEFINE Idle == UNCHANGED watchVars /\ (state[s] = "Invalid" \/ ~InRange(s, noted[w][s], limitKey[s]))
<1> DEFINE Ends == /\ state[s] = "Active" /\ index[s] /\ rpc[s] = "closed" /\ InRange(s, noted[w][s], endKey[s])
                   /\ FireImpl(s) /\ UNCHANGED <<fireKey, limitKey, cancelled>>
<1> DEFINE Keeps == /\ state[s] = "Pending" /\ KeepFireKey(s, noted[w][s])
                    /\ UNCHANGED <<state, index, watcherVec, watchCount, fired, limitKey, cancelled>>
<1>c. Idle \/ Ends \/ Keeps
  BY <1>a, FireWatcherCases
<1>d. ASSUME Ends
      PROVE  /\ IndexConsistent' /\ state' \in [Readers -> {"Invalid", "Pending", "Active"}]
             /\ index' \in [Readers -> BOOLEAN] /\ watcherVec' \in SUBSET Readers /\ watchCount' \in Nat
  BY <1>a, <1>d, InvalidateKeepsIndex DEF FireImpl
<1>e. ASSUME Keeps
      PROVE  /\ fireKey' \in [Readers -> Keys \cup {Empty}] /\ fireKey'[s] # Empty
             /\ fireKey'[s] \in {fireKey[s], noted[w][s]} /\ \A r \in Readers \ {s} : fireKey'[r] = fireKey[r]
             /\ \A l \in Keys \cup {Empty} : InRange(s, noted[w][s], l) \/ (fireKey[s] # Empty /\ InRange(s, fireKey[s], l))
                     => InRange(s, fireKey'[s], l)
  BY <1>b, <1>e, KeptKey
<1>1. TypeOK'
  <2>1. CASE Idle
    BY <1>a, <1>b, <2>1 DEF TypeOK, watchVars
  <2>2. CASE Ends
    <3>1. fired' \in [Readers -> Nat]
      BY <2>2 DEF TypeOK, FireImpl
    <3> QED BY <1>a, <1>b, <1>d, <2>2, <3>1 DEF TypeOK
  <2>3. CASE Keeps
    BY <1>a, <1>b, <1>e, <2>3 DEF TypeOK
  <2> QED BY <1>c, <2>1, <2>2, <2>3
<1>2. WatcherPhases'
  BY DEF TypeOK, WatcherPhases, Fire, FireWatcher, FireImpl, Invalidate, KeepFireKey, writerVars, queryVars, watchVars
<1>3. LimitIsEnd'
  BY DEF TypeOK, LimitIsEnd, Fire, FireWatcher, FireImpl, Invalidate, KeepFireKey, writerVars, queryVars, watchVars
<1>4. EndedOnce'
  <2>1. CASE Idle
    BY <1>a, <2>1 DEF EndedOnce, Listening, watchVars
  <2>2. CASE Ends
    <3>1. fired[s] = 0 /\ ~cancelled[s]
      BY <2>2 DEF EndedOnce
    <3> QED BY <1>a, <2>2, <3>1 DEF EndedOnce, Listening, FireImpl, Invalidate, TypeOK
  <2>3. CASE Keeps
    BY <1>a, <2>3 DEF EndedOnce, Listening
  <2> QED BY <1>c, <2>1, <2>2, <2>3
<1>5. IndexConsistent'
  <2>1. CASE Idle
    BY <1>a, <2>1 DEF IndexConsistent, watchVars
  <2>2. CASE Ends
    BY <1>d, <2>2
  <2>3. CASE Keeps
    BY <1>a, <2>3 DEF IndexConsistent
  <2> QED BY <1>c, <2>1, <2>2, <2>3
<1>6. ReadAtOnce'
  BY QueryStays DEF TypeOK, ReadAtOnce, HasRead, Fire, FireWatcher, FireImpl, Invalidate, KeepFireKey, writerVars, queryVars, watchVars
<1>7. NotedIsTouched'
  BY DEF TypeOK, NotedIsTouched, Fire, FireWatcher, FireImpl, Invalidate, KeepFireKey, writerVars, queryVars, watchVars
<1>8. FireKeyIsCommitted'
  <2>1. CASE Idle
    BY <1>a, <2>1 DEF FireKeyIsCommitted, watchVars
  <2>2. CASE Ends
    BY <1>a, <2>2 DEF FireKeyIsCommitted
  <2>3. CASE Keeps
    <3>1. ASSUME NEW r \in Readers, fireKey'[r] # Empty, op[r] = "find"
          PROVE  \E v \in Writers : wpc[v] = "fire" /\ fireKey'[r] \in DOMAIN pending[v]
      <4>1. fireKey'[r] = fireKey[r] \/ fireKey'[r] = noted[w][s]
        BY <1>e, <2>3
      <4> QED BY <1>a, <1>b, <3>1, <4>1 DEF FireKeyIsCommitted
    <3> QED BY <1>a, <3>1 DEF FireKeyIsCommitted
  <2> QED BY <1>c, <2>1, <2>2, <2>3
<1>9. NotifiedForACause'
  <2>1. CASE Idle \/ Keeps
    BY <1>a, <2>1, QueryStays DEF NotifiedForACause, watchVars
  <2>2. CASE Ends
    <3>1. ASSUME NEW r \in Readers, fired'[r] > 0, op[r] = "find"
          PROVE  \E v \in Writers : wpc[v] = "fire" /\ \E k \in DOMAIN pending[v] : InRange(r, k, endKey[r])
      <4>1. CASE r = s
        BY <1>a, <1>b, <2>2, <4>1
      <4>2. CASE r # s
        BY <2>2, <3>1, <4>2 DEF NotifiedForACause, FireImpl, TypeOK
      <4> QED BY <4>1, <4>2
    <3> QED BY <1>a, <3>1, QueryStays DEF NotifiedForACause
  <2> QED BY <1>c, <2>1, <2>2
<1>10. LeastIsNoted'
  BY DEF TypeOK, LeastIsNoted, Watching, IsLeast, Fire, FireWatcher, FireImpl, Invalidate, KeepFireKey, writerVars, queryVars, watchVars
<1>11. OutdatedWillFire'
  <2>1. ASSUME NEW r \in Readers, NEW k \in Keys, WillFire(r, k), HasRead(r)', state'[r] # "Invalid"
        PROVE  \E j \in Keys : WillFire(r, j)'
    <3>1. CASE r # s
      <4>1. state'[r] = state[r] /\ fireKey'[r] = fireKey[r] /\ \A v \in Writers : noted'[v][r] = noted[v][r]
        BY <1>a, <1>c, <1>e, <3>1 DEF TypeOK, watchVars, FireImpl, Invalidate
      <4> QED BY <1>a, <2>1, <4>1, QueryStays DEF WillFire
    <3>2. CASE r = s /\ \E v \in Writers : wpc[v] = "fire" /\ noted[v][s] = k /\ v # w
      BY <1>a, <2>1, <3>2, QueryStays DEF WillFire, TypeOK
    <3>3. CASE r = s /\ noted[w][s] = k
      <4>1. limitKey[s] = Empty \/ limitKey[s] = endKey[s]
        <5>1. state[s] \in {"Pending", "Active"}
          BY <1>c, <2>1, <3>3 DEF TypeOK, watchVars, FireImpl, Invalidate
        <5> QED BY <5>1 DEF WatcherPhases, LimitIsEnd
      <4>2. InRange(s, k, limitKey[s])
        BY <2>1, <3>3, <4>1 DEF WillFire, InRange
      <4>3. Keeps
        BY <1>c, <2>1, <3>3, <4>2 DEF FireImpl, Invalidate, TypeOK, watchVars
      <4>4. InRange(s, fireKey'[s], endKey[s]) /\ fireKey'[s] \in Keys
        BY <1>e, <2>1, <3>3, <4>3 DEF TypeOK, WillFire
      <4> QED BY <1>a, <1>e, <3>3, <4>3, <4>4, QueryStays DEF WillFire
    <3>4. CASE r = s /\ state[s] = "Pending" /\ fireKey[s] = k
      <4>1. CASE Keeps
        <5>1. InRange(s, fireKey'[s], endKey[s]) /\ fireKey'[s] \in Keys
          BY <1>e, <2>1, <3>4, <4>1 DEF TypeOK, WillFire
        <5> QED BY <1>a, <1>e, <3>4, <4>1, <5>1, QueryStays DEF WillFire
      <4>2. CASE Idle
        BY <1>a, <2>1, <3>4, <4>2, QueryStays DEF WillFire, watchVars
      <4> QED BY <1>c, <3>4, <4>1, <4>2
    <3> QED BY <2>1, <3>1, <3>2, <3>3, <3>4 DEF WillFire
  <2>2. \A r \in Readers : state'[r] # "Invalid" => state[r] # "Invalid"
    BY <1>c DEF watchVars, FireImpl, Invalidate, TypeOK
  <2>3. ASSUME NEW r \in Readers
        PROVE  (HasRead(r) /\ state[r] # "Invalid" /\ r \notin lost /\ Unraced(r) /\ FiredKeyIsFirst(r) /\ Outdated(r)
                  => \E k \in Keys : WillFire(r, k))'
    BY <1>a, <2>1, <2>2, StillWillFire DEF HasRead
  <2> QED BY <2>3 DEF OutdatedWillFire
<1> QED BY <1>1, <1>2, <1>3, <1>4, <1>5, <1>6, <1>7, <1>8, <1>9, <1>10, <1>11

\* A watcher that the index cannot let go ends the loop: whom the commit noted is lost.
LEMMA FireFailsKeeps ==
  ASSUME WatchIInv, NEW w \in Writers, NEW s \in Readers, FireFails(w, s)
  PROVE  WatchIInv'
PROOF
<1> USE DEF WatchIInv
<1>a. /\ wpc[w] = "fire" /\ noted[w][s] # Empty /\ state[s] = "Active"
      /\ state' = [state EXCEPT ![s] = "Invalid"] /\ index' = [index EXCEPT ![s] = FALSE]
      /\ lost' = lost \cup NotedBy(w) /\ noted' = [noted EXCEPT ![w] = [r \in Readers |-> Empty]]
      /\ UNCHANGED <<content, wpc, pending, rpc, op, desc, result, endKey, raced, limitKey, fireKey,
                     fired, cancelled, watcherVec, watchCount>>
  BY DEF FireFails, NotesNothing
<1>b. s \in lost' /\ rpc[s] = "closed"
  <2>1. rpc[s] \in {"start", "added", "init", "open", "replied", "closed", "failed"}
    BY DEF TypeOK
  <2> QED BY <1>a, <2>1 DEF NotedBy, WatcherPhases
<1>1. TypeOK'
  <2>1. noted' \in [Writers -> [Readers -> Keys \cup {Empty}]]
    BY <1>a DEF TypeOK
  <2> QED BY <1>a, <2>1 DEF TypeOK, NotedBy
<1>2. WatcherPhases'
  BY <1>a, <1>b DEF TypeOK, WatcherPhases
<1>3. LimitIsEnd'
  BY <1>a DEF TypeOK, LimitIsEnd
<1>4. EndedOnce'
  BY <1>a, <1>b DEF TypeOK, EndedOnce, Listening
<1>5. IndexConsistent'
  BY <1>a, <1>b DEF TypeOK, IndexConsistent
<1>6. ReadAtOnce'
  BY <1>a, QueryStays DEF ReadAtOnce, HasRead
<1>7. NotedIsTouched'
  BY <1>a DEF TypeOK, NotedIsTouched
<1>8. FireKeyIsCommitted'
  BY <1>a DEF FireKeyIsCommitted
<1>9. NotifiedForACause'
  BY <1>a, QueryStays DEF NotifiedForACause
<1>10. LeastIsNoted'
  BY <1>a DEF TypeOK, LeastIsNoted, Watching, IsLeast
<1>11. OutdatedWillFire'
  <2>1. SUFFICES ASSUME NEW r \in Readers, HasRead(r), state'[r] # "Invalid", r \notin lost, r \notin NotedBy(w),
                        Unraced(r), FiredKeyIsFirst(r), Outdated(r)
                 PROVE  \E k \in Keys : WillFire(r, k)'
    BY <1>a, QueryStays DEF OutdatedWillFire, HasRead, Unraced, Outdated, FiredKeyIsFirst
  <2>2. r # s /\ state'[r] = state[r] /\ noted[w][r] = Empty
    BY <1>a, <2>1 DEF TypeOK, NotedBy
  <2>3. PICK k \in Keys : WillFire(r, k)
    BY <2>1, <2>2 DEF OutdatedWillFire
  <2>4. WillFire(r, k)'
    BY <1>a, <2>2, <2>3, QueryStays DEF WillFire, TypeOK
  <2> QED BY <2>4
<1> QED BY <1>1, <1>2, <1>3, <1>4, <1>5, <1>6, <1>7, <1>8, <1>9, <1>10, <1>11

\* A watcher is added to the index.
LEMMA AddWatchKeeps ==
  ASSUME WatchIInv, NEW s \in Readers, AddWatch(s)
  PROVE  WatchIInv'
PROOF
<1> USE DEF WatchIInv
<1>1. TypeOK'
  BY DEF TypeOK, AddWatch, InFlight, writerVars, queryVars, watchVars
<1>2. WatcherPhases'
  BY DEF TypeOK, WatcherPhases, AddWatch, InFlight, writerVars, queryVars, watchVars
<1>3. LimitIsEnd'
  BY DEF TypeOK, LimitIsEnd, AddWatch, InFlight, writerVars, queryVars, watchVars
<1>4. EndedOnce'
  BY DEF TypeOK, EndedOnce, Listening, AddWatch, InFlight, writerVars, queryVars, watchVars
<1>5. IndexConsistent'
  <2>1. s \notin watcherVec /\ IsFiniteSet(watcherVec)
    <3>1. watcherVec \in SUBSET Readers
      BY DEF TypeOK
    <3> QED BY <3>1, ReadersAssumption, FS_Subset DEF WatcherPhases, AddWatch
  <2>2. watchCount' = Cardinality(watcherVec')
    BY <2>1, FS_AddElement DEF IndexConsistent, AddWatch
  <2>3. ASSUME NEW r \in Readers
        PROVE  Listed(r)'
    BY <2>1 DEF AddWatch, IndexConsistent, TypeOK, Listed
  <2> QED BY <2>2, <2>3 DEF IndexConsistent, Listed
<1>6. ReadAtOnce'
  BY QueryStays DEF TypeOK, ReadAtOnce, HasRead, AddWatch, InFlight, writerVars, queryVars, watchVars
<1>7. NotedIsTouched'
  BY DEF TypeOK, NotedIsTouched, AddWatch, InFlight, writerVars, queryVars, watchVars
<1>8. FireKeyIsCommitted'
  BY DEF TypeOK, FireKeyIsCommitted, AddWatch, InFlight, writerVars, queryVars, watchVars
<1>9. NotifiedForACause'
  BY QueryStays DEF TypeOK, NotifiedForACause, AddWatch, InFlight, writerVars, queryVars, watchVars
<1>10. LeastIsNoted'
  BY DEF TypeOK, LeastIsNoted, Watching, IsLeast, AddWatch, InFlight, writerVars, queryVars, watchVars
<1>11. OutdatedWillFire'
  <2>1. ASSUME NEW r \in Readers, NEW k \in Keys, WillFire(r, k)
        PROVE  WillFire(r, k)'
    BY <2>1, QueryStays DEF WillFire, AddWatch, writerVars
  <2>2. ASSUME NEW r \in Readers
        PROVE  (HasRead(r) /\ state[r] # "Invalid" /\ r \notin lost /\ Unraced(r) /\ FiredKeyIsFirst(r) /\ Outdated(r)
                  => \E k \in Keys : WillFire(r, k))'
    BY <2>1, StillWillFire DEF HasRead, AddWatch, writerVars, TypeOK
  <2> QED BY <2>2 DEF OutdatedWillFire
<1> QED BY <1>1, <1>2, <1>3, <1>4, <1>5, <1>6, <1>7, <1>8, <1>9, <1>10, <1>11

\* A watcher is initialised.
LEMMA InitWatchKeeps ==
  ASSUME WatchIInv, NEW s \in Readers, InitWatch(s)
  PROVE  WatchIInv'
PROOF
<1> USE DEF WatchIInv
<1>1. TypeOK'
  BY DEF TypeOK, InitWatch, InFlight, writerVars, queryVars, watchVars
<1>2. WatcherPhases'
  BY DEF TypeOK, WatcherPhases, InitWatch, InFlight, writerVars, queryVars, watchVars
<1>3. LimitIsEnd'
  BY DEF TypeOK, LimitIsEnd, InitWatch, InFlight, writerVars, queryVars, watchVars
<1>4. EndedOnce'
  BY DEF TypeOK, EndedOnce, Listening, InitWatch, InFlight, writerVars, queryVars, watchVars
<1>5. IndexConsistent'
  <2>1. s \in watcherVec
    BY DEF WatcherPhases, InitWatch
  <2>2. ASSUME NEW r \in Readers
        PROVE  Listed(r)'
    BY <2>1 DEF InitWatch, IndexConsistent, TypeOK, Listed
  <2>3. watchCount' = watchCount /\ watcherVec' = watcherVec
    BY DEF InitWatch
  <2> QED BY <2>2, <2>3 DEF IndexConsistent, Listed
<1>6. ReadAtOnce'
  BY QueryStays DEF TypeOK, ReadAtOnce, HasRead, InitWatch, InFlight, writerVars, queryVars, watchVars
<1>7. NotedIsTouched'
  BY DEF TypeOK, NotedIsTouched, InitWatch, InFlight, writerVars, queryVars, watchVars
<1>8. FireKeyIsCommitted'
  BY DEF TypeOK, FireKeyIsCommitted, InitWatch, InFlight, writerVars, queryVars, watchVars
<1>9. NotifiedForACause'
  BY QueryStays DEF TypeOK, NotifiedForACause, InitWatch, InFlight, writerVars, queryVars, watchVars
<1>10. LeastIsNoted'
  <2>1. UNCHANGED <<wpc, pending, noted, watcherVec>>
    BY DEF InitWatch, writerVars
  <2>2. ASSUME NEW v \in Writers, NEW r \in Readers,
               wpc[v] = "open", DOMAIN pending[v] # {}, Watching(r)', raced'[r] = {}
        PROVE  IsLeast(noted[v][r], DOMAIN pending[v])
    <3>1. CASE r = s
      <4>1. pending[v] # <<>>
        BY <2>2
      <4>2. v \in InFlight
        BY <2>2, <4>1 DEF InFlight
      <4> QED BY <2>2, <3>1, <4>2 DEF InitWatch, TypeOK
    <3>2. CASE r # s
      BY <2>2, <3>2 DEF LeastIsNoted, InitWatch, Watching, TypeOK
    <3> QED BY <3>1, <3>2
  <2> QED BY <2>1, <2>2 DEF LeastIsNoted, IsLeast
<1>11. OutdatedWillFire'
  <2>1. ASSUME NEW r \in Readers, NEW k \in Keys, WillFire(r, k), HasRead(r)'
        PROVE  WillFire(r, k)'
    <3>1. r # s
      BY <2>1 DEF HasRead, InitWatch, TypeOK
    <3> QED BY <2>1, <3>1, QueryStays DEF WillFire, InitWatch, writerVars, TypeOK
  <2>2. ASSUME NEW r \in Readers, HasRead(r)'
        PROVE  r # s /\ HasRead(r) /\ state'[r] = state[r] /\ raced'[r] = raced[r]
    BY <2>2 DEF HasRead, InitWatch, TypeOK
  <2>3. ASSUME NEW r \in Readers
        PROVE  (HasRead(r) /\ state[r] # "Invalid" /\ r \notin lost /\ Unraced(r) /\ FiredKeyIsFirst(r) /\ Outdated(r)
                  => \E k \in Keys : WillFire(r, k))'
    <3>1. CASE HasRead(r)'
      BY <2>1, <2>2, <3>1, StillWillFire DEF InitWatch, writerVars
    <3> QED BY <3>1
  <2> QED BY <2>3 DEF OutdatedWillFire
<1> QED BY <1>1, <1>2, <1>3, <1>4, <1>5, <1>6, <1>7, <1>8, <1>9, <1>10, <1>11

\* A query is read.
LEMMA OpenQueryKeeps ==
  ASSUME WatchIInv, NEW s \in Readers, OpenQuery(s)
  PROVE  WatchIInv'
PROOF
<1> USE DEF WatchIInv
<1>1. TypeOK'
  <2>1. content \in Contents
    BY DEF TypeOK, Contents
  <2>2. Rows(s, content) \in SUBSET (Keys \X Values) /\ EndOf(s, Rows(s, content)) \in Keys \cup {Empty}
    BY <2>1, RowsType, EndType
  <2>3. result' \in [Readers -> SUBSET (Keys \X Values)] /\ endKey' \in [Readers -> Keys \cup {Empty}]
    BY <2>2 DEF OpenQuery, TypeOK
  <2>4. rpc' \in [Readers -> {"start", "added", "init", "open", "replied", "closed", "failed"}]
    BY DEF OpenQuery, TypeOK
  <2> QED BY <2>3, <2>4 DEF TypeOK, OpenQuery, writerVars, watchVars
<1>2. WatcherPhases'
  BY DEF TypeOK, WatcherPhases, OpenQuery, writerVars, queryVars, watchVars
<1>3. LimitIsEnd'
  BY DEF TypeOK, WatcherPhases, LimitIsEnd, OpenQuery, watchVars
<1>4. EndedOnce'
  BY DEF TypeOK, EndedOnce, Listening, OpenQuery, writerVars, queryVars, watchVars
<1>5. IndexConsistent'
  BY DEF TypeOK, IndexConsistent, OpenQuery, writerVars, queryVars, watchVars
<1>6. ReadAtOnce'
  BY QueryStays DEF TypeOK, ReadAtOnce, HasRead, OpenQuery, writerVars, queryVars, watchVars
<1>7. NotedIsTouched'
  BY DEF TypeOK, NotedIsTouched, OpenQuery, writerVars, queryVars, watchVars
<1>8. FireKeyIsCommitted'
  BY DEF TypeOK, FireKeyIsCommitted, OpenQuery, writerVars, queryVars, watchVars
<1>9. NotifiedForACause'
  <2>1. fired[s] = 0
    BY DEF EndedOnce, OpenQuery, TypeOK
  <2>2. \A r \in Readers : fired[r] > 0 => endKey'[r] = endKey[r]
    BY <2>1 DEF OpenQuery, TypeOK
  <2> QED BY <2>2, QueryStays DEF NotifiedForACause, OpenQuery, writerVars, watchVars
<1>10. LeastIsNoted'
  BY DEF TypeOK, LeastIsNoted, Watching, IsLeast, OpenQuery, writerVars, queryVars, watchVars
<1>11. OutdatedWillFire'
  <2>1. UNCHANGED <<content, wpc, pending, noted, op, desc, raced, lost, state, fireKey>>
    BY DEF OpenQuery, writerVars, watchVars
  <2>2. ASSUME NEW r \in Readers, r # s
        PROVE  (HasRead(r)' <=> HasRead(r)) /\ result'[r] = result[r] /\ endKey'[r] = endKey[r]
    BY <2>2 DEF OpenQuery, HasRead, TypeOK
  <2>3. result'[s] = Rows(s, content)
    BY DEF OpenQuery, TypeOK
  <2>4. ASSUME NEW r \in Readers
        PROVE  (HasRead(r) /\ state[r] # "Invalid" /\ r \notin lost /\ Unraced(r) /\ FiredKeyIsFirst(r) /\ Outdated(r)
                  => \E k \in Keys : WillFire(r, k))'
    <3>1. CASE r = s
      BY <2>1, <2>3, <3>1, QueryStays DEF Outdated
    <3>2. CASE r # s
      <4>1. \A k \in Keys : WillFire(r, k) => WillFire(r, k)'
        BY <2>1, <2>2, <3>2, QueryStays DEF WillFire
      <4> QED BY <2>1, <2>2, <3>2, <4>1, StillWillFire
    <3> QED BY <3>1, <3>2
  <2> QED BY <2>4 DEF OutdatedWillFire
<1> QED BY <1>1, <1>2, <1>3, <1>4, <1>5, <1>6, <1>7, <1>8, <1>9, <1>10, <1>11

\* A find fails.
LEMMA FindFailsKeeps ==
  ASSUME WatchIInv, NEW s \in Readers, FindFails(s)
  PROVE  WatchIInv'
PROOF
<1> USE DEF WatchIInv
<1>1. TypeOK'
  BY DEF TypeOK, FindFails, writerVars, queryVars, watchVars
<1>2. WatcherPhases'
  BY DEF TypeOK, WatcherPhases, FindFails, writerVars, queryVars, watchVars
<1>3. LimitIsEnd'
  BY DEF TypeOK, LimitIsEnd, FindFails, writerVars, queryVars, watchVars
<1>4. EndedOnce'
  BY DEF TypeOK, EndedOnce, Listening, FindFails, writerVars, queryVars, watchVars
<1>5. IndexConsistent'
  BY DEF TypeOK, IndexConsistent, FindFails, writerVars, queryVars, watchVars
<1>6. ReadAtOnce'
  BY QueryStays DEF TypeOK, ReadAtOnce, HasRead, FindFails, writerVars, queryVars, watchVars
<1>7. NotedIsTouched'
  BY DEF TypeOK, NotedIsTouched, FindFails, writerVars, queryVars, watchVars
<1>8. FireKeyIsCommitted'
  BY DEF TypeOK, FireKeyIsCommitted, FindFails, writerVars, queryVars, watchVars
<1>9. NotifiedForACause'
  BY QueryStays DEF TypeOK, NotifiedForACause, FindFails, writerVars, queryVars, watchVars
<1>10. LeastIsNoted'
  BY DEF TypeOK, LeastIsNoted, Watching, IsLeast, FindFails, writerVars, queryVars, watchVars
<1>11. OutdatedWillFire'
  BY QueryStays DEF TypeOK, OutdatedWillFire, HasRead, Unraced, FiredKeyIsFirst, Outdated, WillFire, FindFails, writerVars, queryVars, watchVars
<1> QED BY <1>1, <1>2, <1>3, <1>4, <1>5, <1>6, <1>7, <1>8, <1>9, <1>10, <1>11

\* A request is answered.
LEMMA ReplyKeeps ==
  ASSUME WatchIInv, NEW s \in Readers, Reply(s)
  PROVE  WatchIInv'
PROOF
<1> USE DEF WatchIInv
<1>a. /\ rpc[s] = "open" /\ rpc' = [rpc EXCEPT ![s] = "replied"]
      /\ UNCHANGED <<content, wpc, pending, noted, op, desc, result, endKey, raced, lost>>
      /\ state[s] = "Pending"
  BY DEF Reply, writerVars, queryVars, WatcherPhases
<1> DEFINE Keeps == /\ op[s] = "watch" /\ KeepFireKey(s, endKey[s]) /\ endKey[s] \in Keys
                    /\ UNCHANGED <<state, index, watcherVec, watchCount, fired, limitKey, cancelled>>
<1>b. UNCHANGED watchVars \/ Keeps
  <2>1. CASE op[s] = "watch" /\ result[s] # {}
    <3>1. FireWatcher(s, endKey[s])
      BY <2>1 DEF Reply
    <3>2. HasRead(s)
      BY <1>a DEF HasRead
    <3>3. endKey[s] # Empty
      BY <2>1, <3>2, EndType DEF ReadAtOnce, Contents
    <3>4. endKey[s] \in Keys
      BY <3>3 DEF TypeOK
    <3> QED BY <1>a, <2>1, <3>1, <3>4, FireWatcherCases
  <2>2. CASE ~(op[s] = "watch" /\ result[s] # {})
    BY <2>2 DEF Reply
  <2> QED BY <2>1, <2>2
<1>e. ASSUME Keeps
      PROVE  /\ fireKey' \in [Readers -> Keys \cup {Empty}] /\ fireKey'[s] # Empty
             /\ fireKey'[s] \in {fireKey[s], endKey[s]} /\ \A r \in Readers \ {s} : fireKey'[r] = fireKey[r]
             /\ \A l \in Keys \cup {Empty} : InRange(s, endKey[s], l) \/ (fireKey[s] # Empty /\ InRange(s, fireKey[s], l))
                     => InRange(s, fireKey'[s], l)
  BY <1>e, KeptKey
<1>1. TypeOK'
  <2>1. rpc' \in [Readers -> {"start", "added", "init", "open", "replied", "closed", "failed"}]
    BY <1>a DEF TypeOK
  <2>2. CASE UNCHANGED watchVars
    BY <1>a, <2>1, <2>2 DEF TypeOK, watchVars
  <2>3. CASE Keeps
    BY <1>a, <1>e, <2>1, <2>3 DEF TypeOK
  <2> QED BY <1>b, <2>2, <2>3
<1>2. WatcherPhases'
  BY DEF TypeOK, WatcherPhases, Reply, FireWatcher, FireImpl, Invalidate, KeepFireKey, writerVars, queryVars, watchVars
<1>3. LimitIsEnd'
  BY DEF TypeOK, LimitIsEnd, Reply, FireWatcher, FireImpl, Invalidate, KeepFireKey, writerVars, queryVars, watchVars
<1>4. EndedOnce'
  <2>1. UNCHANGED <<state, fired, cancelled>>
    BY <1>b DEF watchVars
  <2> QED BY <1>a, <2>1 DEF EndedOnce, Listening, TypeOK
<1>5. IndexConsistent'
  <2>1. UNCHANGED <<state, index, watcherVec, watchCount>>
    BY <1>b DEF watchVars
  <2>2. \A r \in Readers : rpc'[r] # "added" <=> rpc[r] # "added"
    BY <1>a DEF TypeOK
  <2> QED BY <1>a, <2>1, <2>2 DEF IndexConsistent
<1>6. ReadAtOnce'
  BY QueryStays DEF TypeOK, ReadAtOnce, HasRead, Reply, FireWatcher, FireImpl, Invalidate, KeepFireKey, writerVars, queryVars, watchVars
<1>7. NotedIsTouched'
  BY DEF TypeOK, NotedIsTouched, Reply, FireWatcher, FireImpl, Invalidate, KeepFireKey, writerVars, queryVars, watchVars
<1>8. FireKeyIsCommitted'
  BY DEF TypeOK, FireKeyIsCommitted, Reply, FireWatcher, FireImpl, Invalidate, KeepFireKey, writerVars, queryVars, watchVars
<1>9. NotifiedForACause'
  BY QueryStays DEF TypeOK, NotifiedForACause, Reply, FireWatcher, FireImpl, Invalidate, KeepFireKey, writerVars, queryVars, watchVars
<1>10. LeastIsNoted'
  BY DEF TypeOK, LeastIsNoted, Watching, IsLeast, Reply, FireWatcher, FireImpl, Invalidate, KeepFireKey, writerVars, queryVars, watchVars
<1>11. OutdatedWillFire'
  <2>1. ASSUME NEW r \in Readers, NEW k \in Keys, WillFire(r, k)
        PROVE  \E j \in Keys : WillFire(r, j)'
    <3>1. CASE UNCHANGED watchVars
      BY <1>a, <2>1, <3>1, QueryStays DEF WillFire, watchVars
    <3>2. CASE Keeps /\ (r # s \/ \E w \in Writers : wpc[w] = "fire" /\ noted[w][r] = k)
      BY <1>a, <1>e, <2>1, <3>2, QueryStays DEF WillFire
    <3>3. CASE Keeps /\ r = s /\ fireKey[s] = k
      <4>1. InRange(s, fireKey'[s], endKey[s]) /\ fireKey'[s] \in Keys
        BY <1>e, <2>1, <3>3 DEF TypeOK, WillFire
      <4> QED BY <1>a, <1>e, <3>3, <4>1, QueryStays DEF WillFire
    <3> QED BY <1>b, <2>1, <3>1, <3>2, <3>3 DEF WillFire
  <2>2. state' = state
    BY <1>b DEF watchVars
  <2>3. ASSUME NEW r \in Readers
        PROVE  (HasRead(r) /\ state[r] # "Invalid" /\ r \notin lost /\ Unraced(r) /\ FiredKeyIsFirst(r) /\ Outdated(r)
                  => \E k \in Keys : WillFire(r, k))'
    BY <1>a, <2>1, <2>2, StillWillFire DEF HasRead, TypeOK
  <2> QED BY <2>3 DEF OutdatedWillFire
<1> QED BY <1>1, <1>2, <1>3, <1>4, <1>5, <1>6, <1>7, <1>8, <1>9, <1>10, <1>11

\* A cursor is closed: its watcher is activated or fires.
LEMMA CloseCursorKeeps ==
  ASSUME WatchIInv, NEW s \in Readers, CloseCursor(s)
  PROVE  WatchIInv'
PROOF
<1> USE DEF WatchIInv
<1>a. /\ rpc[s] = "replied" /\ rpc' = [rpc EXCEPT ![s] = "closed"]
      /\ UNCHANGED <<content, wpc, pending, noted, op, desc, result, endKey, raced, lost, fireKey, cancelled>>
      /\ state[s] = "Pending" /\ index[s]
  BY DEF CloseCursor, writerVars, queryVars, WatcherPhases, IndexConsistent
<1> DEFINE Fires == /\ fireKey[s] # Empty /\ InRange(s, fireKey[s], endKey[s])
                    /\ FireImpl(s) /\ UNCHANGED limitKey
<1> DEFINE Activates == /\ ~(fireKey[s] # Empty /\ InRange(s, fireKey[s], endKey[s]))
                        /\ state' = [state EXCEPT ![s] = "Active"]
                        /\ limitKey' = [limitKey EXCEPT ![s] = endKey[s]]
                        /\ UNCHANGED <<index, fired, watcherVec, watchCount>>
<1>b. Fires \/ Activates
  BY DEF CloseCursor
<1>c. \A r \in Readers : rpc'[r] = "added" <=> rpc[r] = "added"
  BY <1>a DEF TypeOK
<1>d. ASSUME Fires
      PROVE  /\ IndexConsistent' /\ state' \in [Readers -> {"Invalid", "Pending", "Active"}]
             /\ index' \in [Readers -> BOOLEAN] /\ watcherVec' \in SUBSET Readers /\ watchCount' \in Nat
  BY <1>a, <1>c, <1>d, InvalidateKeepsIndex DEF FireImpl
<1>1. TypeOK'
  <2>1. rpc' \in [Readers -> {"start", "added", "init", "open", "replied", "closed", "failed"}]
    BY <1>a DEF TypeOK
  <2>2. CASE Fires
    <3>1. fired' \in [Readers -> Nat]
      BY <2>2 DEF TypeOK, FireImpl
    <3> QED BY <1>a, <1>d, <2>1, <2>2, <3>1 DEF TypeOK
  <2>3. CASE Activates
    <3>1. state' \in [Readers -> {"Invalid", "Pending", "Active"}] /\ limitKey' \in [Readers -> Keys \cup {Empty}]
      BY <2>3 DEF TypeOK
    <3> QED BY <1>a, <2>1, <2>3, <3>1 DEF TypeOK
  <2> QED BY <1>b, <2>2, <2>3
<1>2. WatcherPhases'
  BY DEF TypeOK, WatcherPhases, CloseCursor, FireImpl, Invalidate, writerVars, queryVars, watchVars
<1>3. LimitIsEnd'
  BY DEF TypeOK, LimitIsEnd, CloseCursor, FireImpl, Invalidate, writerVars, queryVars, watchVars
<1>4. EndedOnce'
  BY DEF TypeOK, EndedOnce, Listening, CloseCursor, FireImpl, Invalidate, writerVars, queryVars, watchVars
<1>5. IndexConsistent'
  <2>1. CASE Fires
    BY <1>d, <2>1
  <2>2. CASE Activates
    <3>1. ASSUME NEW r \in Readers
          PROVE  Listed(r)'
      BY <1>a, <1>c, <2>2 DEF IndexConsistent, TypeOK, Listed
    <3> QED BY <2>2, <3>1 DEF IndexConsistent, Listed
  <2> QED BY <1>b, <2>1, <2>2
<1>6. ReadAtOnce'
  BY QueryStays DEF TypeOK, ReadAtOnce, HasRead, CloseCursor, FireImpl, Invalidate, writerVars, queryVars, watchVars
<1>7. NotedIsTouched'
  BY DEF TypeOK, NotedIsTouched, CloseCursor, FireImpl, Invalidate, writerVars, queryVars, watchVars
<1>8. FireKeyIsCommitted'
  BY DEF TypeOK, FireKeyIsCommitted, CloseCursor, FireImpl, Invalidate, writerVars, queryVars, watchVars
<1>9. NotifiedForACause'
  <2>1. CASE Fires
    <3>1. ASSUME NEW r \in Readers, fired'[r] > 0, op[r] = "find"
          PROVE  \E v \in Writers : wpc[v] = "fire" /\ \E k \in DOMAIN pending[v] : InRange(r, k, endKey[r])
      <4>1. CASE r = s
        BY <2>1, <3>1, <4>1 DEF FireKeyIsCommitted
      <4>2. CASE r # s
        BY <2>1, <3>1, <4>2 DEF NotifiedForACause, FireImpl, TypeOK
      <4> QED BY <4>1, <4>2
    <3> QED BY <1>a, <3>1, QueryStays DEF NotifiedForACause
  <2>2. CASE Activates
    BY <1>a, <2>2, QueryStays DEF NotifiedForACause
  <2> QED BY <1>b, <2>1, <2>2
<1>10. LeastIsNoted'
  BY DEF TypeOK, LeastIsNoted, Watching, IsLeast, CloseCursor, FireImpl, Invalidate, writerVars, queryVars, watchVars
<1>11. OutdatedWillFire'
  <2>1. ASSUME NEW r \in Readers, NEW k \in Keys, WillFire(r, k), state'[r] # "Invalid"
        PROVE  WillFire(r, k)'
    <3>1. CASE r # s
      <4>1. state'[r] = state[r]
        BY <1>b, <3>1 DEF FireImpl, Invalidate, TypeOK
      <4> QED BY <1>a, <2>1, <4>1, QueryStays DEF WillFire
    <3>2. CASE r = s
      <4>1. Activates
        BY <1>b, <2>1, <3>2 DEF FireImpl, Invalidate, TypeOK
      <4>2. \E w \in Writers : wpc[w] = "fire" /\ noted[w][r] = k
        BY <2>1, <3>2, <4>1 DEF WillFire
      <4> QED BY <1>a, <2>1, <4>2, QueryStays DEF WillFire
    <3> QED BY <3>1, <3>2
  <2>2. \A r \in Readers : HasRead(r)' => HasRead(r)
    BY <1>a DEF HasRead, TypeOK
  <2>3. \A r \in Readers : state'[r] # "Invalid" => state[r] # "Invalid"
    BY <1>a, <1>b DEF FireImpl, Invalidate, TypeOK
  <2>4. ASSUME NEW r \in Readers
        PROVE  (HasRead(r) /\ state[r] # "Invalid" /\ r \notin lost /\ Unraced(r) /\ FiredKeyIsFirst(r) /\ Outdated(r)
                  => \E k \in Keys : WillFire(r, k))'
    BY <1>a, <2>1, <2>2, <2>3, StillWillFire
  <2> QED BY <2>4 DEF OutdatedWillFire
<1> QED BY <1>1, <1>2, <1>3, <1>4, <1>5, <1>6, <1>7, <1>8, <1>9, <1>10, <1>11

\* A client cancels.
LEMMA CancelKeeps ==
  ASSUME WatchIInv, NEW s \in Readers, Cancel(s)
  PROVE  WatchIInv'
PROOF
<1> USE DEF WatchIInv
<1>a. /\ rpc[s] \in {"closed", "failed"} /\ fired[s] = 0 /\ ~cancelled[s]
      /\ cancelled' = [cancelled EXCEPT ![s] = TRUE]
      /\ UNCHANGED <<content, wpc, pending, noted, rpc, op, desc, result, endKey, raced, lost, limitKey, fireKey, fired>>
  BY DEF Cancel, writerVars, queryVars
<1>b. \/ index[s] /\ Invalidate(s)
      \/ state[s] = "Invalid" /\ UNCHANGED <<state, index, watcherVec, watchCount>>
  BY DEF Cancel, IndexConsistent
<1>c. /\ IndexConsistent' /\ state' \in [Readers -> {"Invalid", "Pending", "Active"}]
      /\ index' \in [Readers -> BOOLEAN] /\ watcherVec' \in SUBSET Readers /\ watchCount' \in Nat
  <2>1. CASE index[s] /\ Invalidate(s)
    BY <1>a, <2>1, InvalidateKeepsIndex
  <2>2. CASE UNCHANGED <<state, index, watcherVec, watchCount>>
    BY <1>a, <2>2 DEF IndexConsistent, TypeOK
  <2> QED BY <1>b, <2>1, <2>2
<1>1. TypeOK'
  <2>1. cancelled' \in [Readers -> BOOLEAN]
    BY <1>a DEF TypeOK
  <2> QED BY <1>a, <1>c, <2>1 DEF TypeOK
<1>2. WatcherPhases'
  BY DEF TypeOK, WatcherPhases, Cancel, Invalidate, writerVars, queryVars, watchVars
<1>3. LimitIsEnd'
  BY DEF TypeOK, LimitIsEnd, Cancel, Invalidate, writerVars, queryVars, watchVars
<1>4. EndedOnce'
  <2>1. state'[s] = "Invalid" /\ \A r \in Readers \ {s} : state'[r] = state[r]
    BY <1>b DEF Invalidate, TypeOK
  <2> QED BY <1>a, <2>1 DEF EndedOnce, Listening, TypeOK
<1>5. IndexConsistent'
  BY <1>c
<1>6. ReadAtOnce'
  BY QueryStays DEF TypeOK, ReadAtOnce, HasRead, Cancel, Invalidate, writerVars, queryVars, watchVars
<1>7. NotedIsTouched'
  BY DEF TypeOK, NotedIsTouched, Cancel, Invalidate, writerVars, queryVars, watchVars
<1>8. FireKeyIsCommitted'
  BY DEF TypeOK, FireKeyIsCommitted, Cancel, Invalidate, writerVars, queryVars, watchVars
<1>9. NotifiedForACause'
  BY QueryStays DEF TypeOK, NotifiedForACause, Cancel, Invalidate, writerVars, queryVars, watchVars
<1>10. LeastIsNoted'
  BY DEF TypeOK, LeastIsNoted, Watching, IsLeast, Cancel, Invalidate, writerVars, queryVars, watchVars
<1>11. OutdatedWillFire'
  BY QueryStays DEF TypeOK, OutdatedWillFire, HasRead, Unraced, FiredKeyIsFirst, Outdated, WillFire, Cancel, Invalidate, writerVars, queryVars, watchVars
<1> QED BY <1>1, <1>2, <1>3, <1>4, <1>5, <1>6, <1>7, <1>8, <1>9, <1>10, <1>11

-----------------------------------------------------------------------------
(* The theorems. *)

\* Before any request there is no watcher.
LEMMA InitKeeps ==
  ASSUME Init
  PROVE  WatchIInv
PROOF
<1>1. TypeOK
  <2>1. content \in [Keys -> Values \cup {Absent}]
    BY DEF Init, Values
  <2>2. pending \in [Writers -> UNION {[U -> Writers \cup {Absent}] : U \in SUBSET Keys}]
    <3>1. <<>> \in [{} -> Writers \cup {Absent}]
      OBVIOUS
    <3>2. <<>> \in UNION {[U -> Writers \cup {Absent}] : U \in SUBSET Keys}
      BY <3>1
    <3> QED BY <3>2 DEF Init
  <2> QED BY <2>1, <2>2 DEF Init, TypeOK
<1>2. IndexConsistent
  BY FS_EmptySet DEF Init, IndexConsistent
<1>3. \A r \in Readers : ~HasRead(r)
  BY DEF Init, HasRead
<1>4. WatcherPhases /\ LimitIsEnd /\ EndedOnce
  BY DEF Init, WatcherPhases, LimitIsEnd, EndedOnce, Listening
<1>5. NotedIsTouched /\ FireKeyIsCommitted /\ NotifiedForACause /\ LeastIsNoted
  BY DEF Init, NotedIsTouched, FireKeyIsCommitted, NotifiedForACause, LeastIsNoted, Watching
<1>6. ReadAtOnce /\ OutdatedWillFire
  BY <1>3 DEF ReadAtOnce, OutdatedWillFire
<1> QED BY <1>1, <1>2, <1>4, <1>5, <1>6 DEF WatchIInv

\* A step that changes nothing.
LEMMA StutterKeeps ==
  ASSUME WatchIInv, UNCHANGED vars
  PROVE  WatchIInv'
PROOF
<1> USE DEF WatchIInv, vars, writerVars, queryVars, watchVars
<1>1. TypeOK'
  BY DEF TypeOK
<1>2. WatcherPhases' /\ LimitIsEnd' /\ EndedOnce' /\ IndexConsistent'
  BY DEF WatcherPhases, LimitIsEnd, EndedOnce, Listening, IndexConsistent
<1>3. NotedIsTouched' /\ FireKeyIsCommitted' /\ LeastIsNoted'
  BY DEF NotedIsTouched, FireKeyIsCommitted, LeastIsNoted, Watching, IsLeast
<1>4. ReadAtOnce' /\ NotifiedForACause'
  BY QueryStays DEF ReadAtOnce, NotifiedForACause, HasRead
<1>5. OutdatedWillFire'
  BY QueryStays DEF OutdatedWillFire, HasRead, Unraced, FiredKeyIsFirst, Outdated, WillFire
<1> QED BY <1>1, <1>2, <1>3, <1>4, <1>5

\* Every step keeps the invariant.
LEMMA NextKeeps ==
  ASSUME WatchIInv, [Next]_vars
  PROVE  WatchIInv'
PROOF
<1>1. ASSUME NEW w \in Writers, Write(w) PROVE WatchIInv'
  <2>1. ASSUME NEW S \in SUBSET Keys, Cardinality(S) \in 1..2, Update(w, S) PROVE WatchIInv'
    <3>1. S # {}
      BY <2>1, FS_EmptySet
    <3> QED BY <2>1, <3>1, UpdateKeeps
  <2> QED BY <1>1, <2>1, CommitKeeps, CommitFailsKeeps, AbortKeeps DEF Write
<1>2. ASSUME NEW w \in Writers, NEW r \in Readers, FireRound(w, r) PROVE WatchIInv'
  BY <1>2, FireKeeps, FireFailsKeeps DEF FireRound
<1>3. ASSUME NEW r \in Readers, Read(r) PROVE WatchIInv'
  BY <1>3, AddWatchKeeps, InitWatchKeeps, OpenQueryKeeps, FindFailsKeeps, ReplyKeeps, CloseCursorKeeps DEF Read
<1>4. ASSUME NEW r \in Readers, Cancel(r) PROVE WatchIInv'
  BY <1>4, CancelKeeps
<1> QED BY <1>1, <1>2, <1>3, <1>4, StutterKeeps DEF Next

\* The inductive invariant holds in every reachable state of the watched queries.
THEOREM WatchInvariant == Spec => []WatchIInv
PROOF
<1>1. Init => WatchIInv
  BY InitKeeps
<1>2. WatchIInv /\ [Next]_vars => WatchIInv'
  BY NextKeeps
<1> QED BY <1>1, <1>2, PTL DEF Spec

\* A watcher notifies once, for a cause and never once cancelled, and the index
\* lists and counts exactly the watchers that point to it, however commits, aborts,
\* the cancel and the closing of the cursor interleave (MojDbWatcher, MojDbIndex).
THEOREM WatchersKept == Spec => []WatchKept
PROOF
<1>1. WatchIInv => WatchKept
  BY DEF WatchIInv, WatchKept, NotifiedOnce, EndedOnce, TypeOK
<1> QED BY <1>1, WatchInvariant, PTL

\* The comment in MojDbIndex::find: with the watch added before the transaction is
\* begun no event is missed.  A listening client whose rows the committed index no
\* longer returns is about to be fired by a transaction that has committed, when
\* no transaction was in between when its watcher was added and the one key kept
\* per transaction is the first in the order of the query, unless a commit that ended in
\* an error after it had stored something has skipped the client.
THEOREM NoUpdateMissed == Spec => []NoMissedUpdateAnswerable
PROOF
<1>1. WatchIInv => NoMissedUpdateAnswerable
  <2>1. SUFFICES ASSUME WatchIInv, NEW r \in Readers, Listening(r), r \notin lost, Outdated(r), Answerable(r)
                 PROVE  AboutToFire(r)
    BY DEF NoMissedUpdateAnswerable, Informed
  <2>2. state[r] = "Active" /\ limitKey[r] = endKey[r] /\ HasRead(r)
    BY <2>1 DEF WatchIInv, EndedOnce, LimitIsEnd, HasRead, Listening
  <2>3. Unraced(r) /\ FiredKeyIsFirst(r)
    BY <2>1 DEF Answerable, KeyIsFirst, FiredKeyIsFirst
  <2>4. PICK k \in Keys : WillFire(r, k)
    BY <2>1, <2>2, <2>3 DEF WatchIInv, OutdatedWillFire
  <2> QED BY <2>2, <2>4 DEF WillFire, AboutToFire
<1> QED BY <1>1, WatchInvariant, PTL
=============================================================================
