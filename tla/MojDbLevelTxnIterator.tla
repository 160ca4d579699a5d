------------------------- MODULE MojDbLevelTxnIterator -------------------------
(***************************************************************************)
(* The iterator of a LevelDB transaction: a walk over the keys of the          *)
(* database as they were when it was created (snap) and over the keys the      *)
(* transaction has put (inserts, a std::map that changes under the iterator),  *)
(* leaving out the database keys it has deleted.  Keys are positive numbers    *)
(* below End; a position is a key, Begin or End, of either container.         *)
(***************************************************************************)
EXTENDS Integers

CONSTANT End
Begin == 0

ASSUME EndAssumption == End \in Nat \ {0}

\* ++ and -- of MojDbLevelIterator and MojDbLevelContainerIterator.
After(keys, pos) ==
  IF \E k \in keys : k > pos
  THEN CHOOSE k \in keys : k > pos /\ \A j \in keys : j > pos => k <= j
  ELSE End
Before(keys, pos) ==
  IF \E k \in keys : k < pos
  THEN CHOOSE k \in keys : k < pos /\ \A j \in keys : j < pos => k >= j
  ELSE Begin

\* A transaction: [snap, inserts, deletes].  skipDeleted follows every step of m_it.
Live(txn) == txn.snap \ txn.deletes

\* m_it, m_insertsItertor, m_fwd ("next" or "prev"), m_invalid ("yes" or "no").
Iterator(db, ins, dir, invalid) == [db |-> db, ins |-> ins, dir |-> dir, invalid |-> invalid]

first(txn) == Iterator(After(Live(txn), Begin), After(txn.inserts, Begin), "next", "no")
last(txn)  == Iterator(Before(Live(txn), End), Before(txn.inserts, End), "prev", "no")
NewIterator(txn) == first(txn)

seek(txn, key) == Iterator(After(Live(txn), key - 1), After(txn.inserts, key - 1), "next", "no")

\* The nearer of the two positions in the direction of the walk.
getKey(it) == IF (it.dir = "next") = (it.db <= it.ins) THEN it.db ELSE it.ins

isBegin(it) == it.db = Begin /\ it.ins = Begin
isEnd(it)   == it.db = End /\ it.ins = End
isValid(it) == it.invalid = "no" /\ ({it.db, it.ins} \ {Begin, End} # {})

Advance(txn, it) ==
  Iterator(IF it.db <= it.ins THEN After(Live(txn), it.db) ELSE it.db,
           IF it.ins <= it.db THEN After(txn.inserts, it.ins) ELSE it.ins, it.dir, it.invalid)
Retreat(txn, it) ==
  Iterator(IF it.db >= it.ins THEN Before(Live(txn), it.db) ELSE it.db,
           IF it.ins >= it.db THEN Before(txn.inserts, it.ins) ELSE it.ins, it.dir, it.invalid)

\* The other direction: the position that had run out comes back, or the one
\* that is beyond the current key is taken back to it.
TurnForward(txn, it) ==
  LET t == Iterator(it.db, it.ins, "next", "no")
  IN CASE it.db = Begin -> Iterator(After(Live(txn), Begin), it.ins, "next", "no")
       [] it.db # Begin /\ it.ins = Begin -> Iterator(it.db, After(txn.inserts, Begin), "next", "no")
       [] OTHER -> IF getKey(t) < getKey(it) THEN Advance(txn, t) ELSE t
TurnBackward(txn, it) ==
  LET t == Iterator(it.db, it.ins, "prev", "no")
  IN CASE it.db = End -> Iterator(Before(Live(txn), End), it.ins, "prev", "no")
       [] it.db # End /\ it.ins = End -> Iterator(it.db, Before(txn.inserts, End), "prev", "no")
       [] OTHER -> IF getKey(it) < getKey(t) THEN Retreat(txn, t) ELSE t

\* A walk that was taken off a deleted key stands on the next one already.
next(txn, it) ==
  CASE isBegin(it) -> first(txn)
    [] ~isBegin(it) /\ it.dir = "prev" -> Advance(txn, TurnForward(txn, it))
    [] ~isBegin(it) /\ it.dir = "next" /\ it.invalid = "yes" -> Iterator(it.db, it.ins, "next", "no")
    [] OTHER -> Advance(txn, it)
prev(txn, it) ==
  CASE isEnd(it) -> last(txn)
    [] ~isEnd(it) /\ it.dir = "next" -> Retreat(txn, TurnBackward(txn, it))
    [] ~isEnd(it) /\ it.dir = "prev" /\ it.invalid = "yes" -> Iterator(it.db, it.ins, "prev", "no")
    [] OTHER -> Retreat(txn, it)

\* A key put between the two positions becomes the next one of the inserts.
notifyPut(txn, it, key) ==
  LET between == IF it.dir = "next" THEN it.db <= key /\ key < it.ins ELSE it.ins < key /\ key <= it.db
      found   == IF it.dir = "next" THEN Before(txn.inserts, it.ins) ELSE After(txn.inserts, it.ins)
  IN IF between THEN Iterator(it.db, found, it.dir, it.invalid) ELSE it

\* Mutant: the walk does not learn that its key has gone.
notifyDeleteValid(txn, it, key) ==
  LET move(keys, pos) == IF it.dir = "next" THEN After(keys, pos) ELSE Before(keys, pos)
      db == IF it.db = key THEN move(Live(txn), key) ELSE it.db
  IN IF it.ins = key THEN Iterator(db, move(txn.inserts, key), it.dir, it.invalid) ELSE it
\* Called before the key goes.
notifyDelete(txn, it, key) ==
  LET move(keys, pos) == IF it.dir = "next" THEN After(keys, pos) ELSE Before(keys, pos)
      db == IF it.db = key THEN move(Live(txn), key) ELSE it.db
  IN IF it.ins = key THEN Iterator(db, move(txn.inserts, key), it.dir, "yes") ELSE it

\* MojDbLevelTableTxn with one iterator open: [txn, it].
Put(s, key) ==
  LET t == [snap |-> s.txn.snap, inserts |-> s.txn.inserts \cup {key}, deletes |-> s.txn.deletes \ {key}]
  IN [txn |-> t, it |-> notifyPut(t, s.it, key)]
Delete(s, key) ==
  LET t == [snap |-> s.txn.snap, inserts |-> s.txn.inserts \ {key}, deletes |-> s.txn.deletes \cup {key}]
  IN [txn |-> t, it |-> notifyDelete(s.txn, s.it, key)]
=============================================================================
