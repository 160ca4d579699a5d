----------------------------- MODULE MojDbWatch -----------------------------
(***************************************************************************)
(* Watched queries on one index: MojDbWatcher, the watcher list of          *)
(* MojDbIndex, the watchers a MojDbStorageTxn collects and fires after its  *)
(* commit, and MojDbCursor::close, which activates a watcher.  Readers run  *)
(* find or watch on one thread each, writers run transactions on others.    *)
(*                                                                         *)
(* Keys are the index keys in their lexical order, 0 is the empty key.  What *)
(* an index entry leads to is abstracted to the transaction that last wrote  *)
(* it.  The query reads at one point, when the engine opens its iterator.    *)
(* Every section under a MojDbWatcher mutex or the index lock is one step.   *)
(***************************************************************************)
EXTENDS Integers, FiniteSets

CONSTANTS Readers,     \* the watched queries, each with its MojDbWatcher
          Writers,     \* the transactions
          NKeys,       \* bound: the keys of the index are 1..NKeys
          Limit,       \* limit of a find (a watch has limit 1)
          MaxTouched,  \* bound: keys one transaction touches
          FindMayFail, \* whether the engine's find may return an error
          CommitMayFail, \* whether a commit may return one after it has written
          Initial, Absent

ASSUME BoundAssumption == NKeys \in Nat /\ Limit \in Nat \ {0} /\ MaxTouched \in Nat \ {0}
ASSUME ReadersAssumption == IsFiniteSet(Readers)
ASSUME FlagAssumption  == FindMayFail \in BOOLEAN /\ CommitMayFail \in BOOLEAN
ASSUME ValueAssumption == Initial \notin Writers /\ Absent \notin Writers \cup {Initial}

Keys   == 1..NKeys
Values == Writers \cup {Initial}
Empty  == 0              \* MojDbKey::empty()

VARIABLES
  content,     \* the committed index: Keys -> Values, or Absent
  \* per writer
  wpc,         \* "open", "fire" (committed), "aborted"
  pending,     \* the keys it has written, with what becomes of them
  noted,       \* MojDbStorageTxn::m_watchers: per reader the key, or Empty
  \* per reader
  rpc,         \* where the request is
  op,          \* "find" or "watch"
  desc,        \* m_desc: the query's order is descending
  state,       \* m_state
  index,       \* m_index is set
  limitKey,    \* m_limitKey
  fireKey,     \* m_fireKey
  result,      \* what the query returned
  endKey,      \* MojDbIsamQuery::endKey()
  fired,       \* how often m_signal has fired
  cancelled,   \* the slot was cancelled while connected
  raced,       \* history: the transactions that had updated the index, and
               \* not yet committed, when the watcher was added
  lost,        \* history: the readers noted by a transaction that did not fire
               \* them, since its commit ended in an error
  \* the index
  watcherVec,  \* m_watcherVec
  watchCount   \* m_watcherMap, for the one domain of the model

writerVars == <<wpc, pending, noted>>
queryVars  == <<op, desc, result, endKey, raced, lost>>
watchVars  == <<state, index, limitKey, fireKey, fired, cancelled, watcherVec, watchCount>>
vars       == <<content, writerVars, rpc, queryVars, watchVars>>

TypeOK ==
  /\ content \in [Keys -> Values \cup {Absent}]
  /\ wpc \in [Writers -> {"open", "fire", "aborted"}]
  /\ pending \in [Writers -> UNION {[S -> Writers \cup {Absent}] : S \in SUBSET Keys}]
  /\ noted \in [Writers -> [Readers -> Keys \cup {Empty}]]
  /\ rpc \in [Readers -> {"start", "added", "init", "open", "replied", "closed", "failed"}]
  /\ op \in [Readers -> {"find", "watch"}]
  /\ desc \in [Readers -> BOOLEAN]
  /\ state \in [Readers -> {"Invalid", "Pending", "Active"}]
  /\ index \in [Readers -> BOOLEAN]
  /\ limitKey \in [Readers -> Keys \cup {Empty}]
  /\ fireKey \in [Readers -> Keys \cup {Empty}]
  /\ result \in [Readers -> SUBSET (Keys \X Values)]
  /\ endKey \in [Readers -> Keys \cup {Empty}]
  /\ fired \in [Readers -> Nat]
  /\ cancelled \in [Readers -> BOOLEAN]
  /\ raced \in [Readers -> SUBSET Writers]
  /\ lost \in SUBSET Readers
  /\ watcherVec \in SUBSET Readers
  /\ watchCount \in Nat

-----------------------------------------------------------------------------
\* Order of the keys as the query visits them.
Before(r, j, k) == IF desc[r] THEN j > k ELSE j < k

\* The test of activate() and fire(): at or before the limit, if there is one.
InRange(r, k, lim) == lim = Empty \/ k = lim \/ Before(r, k, lim)

LimitOf(r) == IF op[r] = "watch" THEN 1 ELSE Limit

\* What the query returns when the index holds c: the first entries in order.
Visible(c) == {k \in Keys : c[k] # Absent}
Rows(r, c) == {<<k, c[k]>> : k \in {k \in Visible(c) :
                 Cardinality({j \in Visible(c) : Before(r, j, k)}) < LimitOf(r)}}
\* The last key when the limit was reached, the empty key otherwise.  (When
\* ascending the code keeps the least key above it, which no entry has.)
EndOf(r, rows) ==
  IF Cardinality(rows) < LimitOf(r) THEN Empty
  ELSE CHOOSE k \in Keys : \E v \in Values : <<k, v>> \in rows /\
         \A row \in rows : row[1] = k \/ Before(r, row[1], k)

Init ==
  /\ content \in [Keys -> {Initial, Absent}]
  /\ wpc = [w \in Writers |-> "open"]
  /\ pending = [w \in Writers |-> <<>>]
  /\ noted = [w \in Writers |-> [r \in Readers |-> Empty]]
  /\ rpc = [r \in Readers |-> "start"]
  /\ op \in [Readers -> {"find", "watch"}]
  /\ desc \in [Readers -> BOOLEAN]
  /\ state = [r \in Readers |-> "Invalid"]
  /\ index = [r \in Readers |-> FALSE]
  /\ limitKey = [r \in Readers |-> Empty]
  /\ fireKey = [r \in Readers |-> Empty]
  /\ result = [r \in Readers |-> {}]
  /\ endKey = [r \in Readers |-> Empty]
  /\ fired = [r \in Readers |-> 0]
  /\ cancelled = [r \in Readers |-> FALSE]
  /\ raced = [r \in Readers |-> {}]
  /\ lost = {}
  /\ watcherVec = {}
  /\ watchCount = 0
-----------------------------------------------------------------------------
(* Writers. *)

\* Mutant: the greatest key is kept.
MaxKey(old, S) == CHOOSE k \in S \cup ({old} \ {Empty}) :
                    \A j \in S \cup ({old} \ {Empty}) : k >= j

\* MojDbStorageTxn::addWatcher: the watcher once, with the least key.
MinKey(old, S) == CHOOSE k \in S \cup ({old} \ {Empty}) :
                    \A j \in S \cup ({old} \ {Empty}) : k <= j

\* What the transaction reads: its own write, or the committed entry.
Seen(w, k) == IF k \in DOMAIN pending[w] THEN pending[w][k] ELSE content[k]

\* MojDbIndex::update for one object: its old and new keys S change, and every
\* watcher in the list one of whose ranges holds a key is noted.  The ranges of
\* a watcher that is in the list but not yet initialised are being assigned by
\* its own thread: they are seen or not.
Update(w, S) ==
  /\ wpc[w] = "open"
  /\ Cardinality(DOMAIN pending[w] \cup S) <= MaxTouched
  /\ \E new \in [S -> {w, Absent}] :
       /\ \A k \in S : new[k] = Absent => Seen(w, k) # Absent
       /\ pending' = [pending EXCEPT ![w] =
         [k \in DOMAIN pending[w] \cup S |-> IF k \in S THEN new[k] ELSE pending[w][k]]]
  /\ \E seen \in SUBSET {r \in watcherVec : rpc[r] = "added"} :
       noted' = [noted EXCEPT ![w] = [r \in Readers |->
         IF r \in seen \/ (r \in watcherVec /\ rpc[r] # "added")
         THEN MinKey(noted[w][r], S) ELSE noted[w][r]]]
  /\ UNCHANGED <<content, wpc, rpc, queryVars, watchVars>>

\* MojDbStorageTxn::commit up to commitImpl.
Commit(w) ==
  /\ wpc[w] = "open" /\ pending[w] # <<>>
  /\ content' = [k \in Keys |-> IF k \in DOMAIN pending[w] THEN pending[w][k] ELSE content[k]]
  /\ wpc' = [wpc EXCEPT ![w] = "fire"]
  /\ UNCHANGED <<pending, noted, rpc, queryVars, watchVars>>

NotedBy(w) == {r \in Readers : noted[w][r] # Empty}
NotesNothing(w) == noted' = [noted EXCEPT ![w] = [r \in Readers |-> Empty]]

\* The transaction is gone: it fires nobody.
Gone(w) ==
  /\ wpc' = [wpc EXCEPT ![w] = "aborted"]
  /\ pending' = [pending EXCEPT ![w] = <<>>]
  /\ NotesNothing(w)

\* A commit that ends in an error although it has stored something: commitImpl goes on with
\* the other tables after the write of one has failed, and what follows it may fail when
\* all is written.  Any part of the keys stands for what the tables hold of the index.
CommitFails(w) ==
  /\ CommitMayFail /\ wpc[w] = "open"
  /\ \E S \in SUBSET DOMAIN pending[w] \ {{}} :
       content' = [k \in Keys |-> IF k \in S THEN pending[w][k] ELSE content[k]]
  /\ lost' = lost \cup NotedBy(w)
  /\ Gone(w)
  /\ UNCHANGED <<rpc, op, desc, result, endKey, raced, watchVars>>

\* MojDbStorageTxn::abort, the destruction of an uncommitted transaction, or a commit that
\* fails before anything is written.
Abort(w) ==
  /\ wpc[w] = "open" /\ pending[w] # <<>>
  /\ Gone(w)
  /\ UNCHANGED <<content, rpc, queryVars, watchVars>>

-----------------------------------------------------------------------------
(* The watcher. *)

\* Mutant: the watcher stays active after cancelWatch.
InvalidateStaysActive(r) ==
  /\ state' = [state EXCEPT ![r] = "Active"]
  /\ index' = [index EXCEPT ![r] = FALSE]
  /\ watcherVec' = watcherVec \ {r}
  /\ watchCount' = watchCount - 1

\* invalidate(): the watcher leaves the index.
Invalidate(r) ==
  /\ state' = [state EXCEPT ![r] = "Invalid"]
  /\ index' = [index EXCEPT ![r] = FALSE]
  /\ watcherVec' = watcherVec \ {r}
  /\ watchCount' = watchCount - 1

\* fireImpl(): invalidate, then m_signal.fire().
FireImpl(r) ==
  /\ Invalidate(r)
  /\ fired' = [fired EXCEPT ![r] = @ + 1]

\* Pending watchers keep the first key in the query's order.
KeepFireKey(r, k) ==
  IF fireKey[r] = Empty \/ Before(r, k, fireKey[r])
  THEN fireKey' = [fireKey EXCEPT ![r] = k]
  ELSE UNCHANGED fireKey

\* Mutants: fire() does not look at the state; fire() notifies a pending watcher.
FireWatcherUnchecked(r, k) ==
  IF ~InRange(r, k, limitKey[r])
  THEN UNCHANGED watchVars
  ELSE /\ IF state[r] # "Pending"
          THEN FireImpl(r) /\ UNCHANGED fireKey
          ELSE KeepFireKey(r, k) /\ UNCHANGED <<state, index, watcherVec, watchCount, fired>>
       /\ UNCHANGED <<limitKey, cancelled>>
FireWatcherPending(r, k) ==
  IF ~InRange(r, k, limitKey[r]) \/ state[r] = "Invalid"
  THEN UNCHANGED watchVars
  ELSE FireImpl(r) /\ UNCHANGED <<fireKey, limitKey, cancelled>>

\* fire(key), under the watcher's mutex.
FireWatcher(r, k) ==
  IF ~InRange(r, k, limitKey[r]) \/ state[r] = "Invalid"
  THEN UNCHANGED watchVars
  ELSE /\ IF state[r] = "Active"
          THEN FireImpl(r) /\ UNCHANGED fireKey
          ELSE KeepFireKey(r, k) /\ UNCHANGED <<state, index, watcherVec, watchCount, fired>>
       /\ UNCHANGED <<limitKey, cancelled>>

\* One round of the loop at the end of MojDbStorageTxn::commit.
Fire(w, r) ==
  /\ wpc[w] = "fire" /\ noted[w][r] # Empty
  /\ FireWatcher(r, noted[w][r])
  /\ noted' = [noted EXCEPT ![w][r] = Empty]
  /\ UNCHANGED <<content, wpc, pending, rpc, queryVars>>

\* A round whose watcher cannot be taken out of the index: it is invalid by then but was
\* not notified, and the error ends the loop before the watchers that follow.
FireFails(w, r) ==
  /\ CommitMayFail /\ wpc[w] = "fire" /\ noted[w][r] # Empty
  /\ state[r] = "Active" /\ InRange(r, noted[w][r], limitKey[r])
  /\ state' = [state EXCEPT ![r] = "Invalid"]
  /\ index' = [index EXCEPT ![r] = FALSE]
  /\ lost' = lost \cup NotedBy(w)
  /\ NotesNothing(w)
  /\ UNCHANGED <<content, wpc, pending, rpc, op, desc, result, endKey, raced, limitKey, fireKey,
                 fired, cancelled, watcherVec, watchCount>>

-----------------------------------------------------------------------------
(* Readers. *)

\* The transactions whose changes to the index are neither visible nor gone.
InFlight == {w \in Writers : wpc[w] = "open" /\ pending[w] # <<>>}

\* MojDbIndex::addWatch under the index lock.
AddWatch(r) ==
  /\ rpc[r] = "start"
  /\ rpc' = [rpc EXCEPT ![r] = "added"]
  /\ watcherVec' = watcherVec \cup {r}
  /\ watchCount' = watchCount + 1
  /\ raced' = [raced EXCEPT ![r] = InFlight]
  /\ UNCHANGED <<content, writerVars, op, desc, result, endKey, lost, state, index, limitKey,
                 fireKey, fired, cancelled>>

\* MojDbWatcher::init, after the index lock was dropped.
InitWatch(r) ==
  /\ rpc[r] = "added"
  /\ rpc' = [rpc EXCEPT ![r] = "init"]
  /\ state' = [state EXCEPT ![r] = "Pending"]
  /\ index' = [index EXCEPT ![r] = TRUE]
  /\ raced' = [raced EXCEPT ![r] = @ \cup InFlight]
  /\ UNCHANGED <<content, writerVars, op, desc, result, endKey, lost, limitKey, fireKey, fired,
                 cancelled, watcherVec, watchCount>>

\* The engine opens the query, and the request reads the results.
OpenQuery(r) ==
  /\ rpc[r] = "init"
  /\ rpc' = [rpc EXCEPT ![r] = "open"]
  /\ result' = [result EXCEPT ![r] = Rows(r, content)]
  /\ endKey' = [endKey EXCEPT ![r] = EndOf(r, Rows(r, content))]
  /\ UNCHANGED <<content, writerVars, op, desc, raced, lost, watchVars>>

\* The engine's find fails: the cursor never gets the watcher, so nothing
\* activates it and nothing takes it out of the index.
FindFails(r) ==
  /\ FindMayFail /\ rpc[r] = "init"
  /\ rpc' = [rpc EXCEPT ![r] = "failed"]
  /\ UNCHANGED <<content, writerVars, queryVars, watchVars>>

\* MojDb::watch fires its own watcher when the query has a result; the request
\* is answered by the notification.  Otherwise the result is sent.
Reply(r) ==
  /\ rpc[r] = "open"
  /\ rpc' = [rpc EXCEPT ![r] = "replied"]
  /\ IF op[r] = "watch" /\ result[r] # {} THEN FireWatcher(r, endKey[r])
                                          ELSE UNCHANGED watchVars
  /\ UNCHANGED <<content, writerVars, queryVars>>

\* Mutant: activate() ignores the key it was fired with.
CloseCursorForgets(r) ==
  /\ rpc[r] = "replied"
  /\ rpc' = [rpc EXCEPT ![r] = "closed"]
  /\ state' = [state EXCEPT ![r] = "Active"]
  /\ limitKey' = [limitKey EXCEPT ![r] = endKey[r]]
  /\ UNCHANGED <<index, fired, watcherVec, watchCount>>
  /\ UNCHANGED <<content, writerVars, queryVars, fireKey, cancelled>>

\* MojDbCursor::close calls activate(endKey()).
CloseCursor(r) ==
  /\ rpc[r] = "replied"
  /\ rpc' = [rpc EXCEPT ![r] = "closed"]
  /\ IF fireKey[r] # Empty /\ InRange(r, fireKey[r], endKey[r])
     THEN FireImpl(r) /\ UNCHANGED limitKey
     ELSE /\ state' = [state EXCEPT ![r] = "Active"]
          /\ limitKey' = [limitKey EXCEPT ![r] = endKey[r]]
          /\ UNCHANGED <<index, fired, watcherVec, watchCount>>
  /\ UNCHANGED <<content, writerVars, queryVars, fireKey, cancelled>>

\* The client cancels; its message waits behind the request that watches.  A
\* slot that has fired is disconnected, and cancelling it does nothing.
Cancel(r) ==
  /\ rpc[r] \in {"closed", "failed"} /\ fired[r] = 0 /\ ~cancelled[r]
  /\ cancelled' = [cancelled EXCEPT ![r] = TRUE]
  /\ IF index[r] /\ state[r] # "Invalid" THEN Invalidate(r)
                    ELSE UNCHANGED <<state, index, watcherVec, watchCount>>
  /\ UNCHANGED <<content, writerVars, rpc, queryVars, limitKey, fireKey, fired>>

-----------------------------------------------------------------------------
Write(w) == (\E S \in SUBSET Keys : Cardinality(S) \in 1..2 /\ Update(w, S))
            \/ Commit(w) \/ CommitFails(w) \/ Abort(w)
Read(r)  == AddWatch(r) \/ InitWatch(r) \/ OpenQuery(r) \/ FindFails(r) \/ Reply(r) \/ CloseCursor(r)

FireRound(w, r) == Fire(w, r) \/ FireFails(w, r)

Next == \/ \E w \in Writers : Write(w) \/ \E r \in Readers : FireRound(w, r)
        \/ \E r \in Readers : Read(r) \/ Cancel(r)

\* A commit that has written goes through its watchers, unless an error ends its loop; a
\* request runs to its end.
Fairness == /\ \A w \in Writers, r \in Readers : WF_vars(FireRound(w, r))
            /\ \A r \in Readers : WF_vars(Read(r))

Spec == Init /\ [][Next]_vars
FairSpec == Spec /\ Fairness
-----------------------------------------------------------------------------
(* Properties. *)

Listening(r) == rpc[r] = "closed" /\ fired[r] = 0 /\ ~cancelled[r]

\* The client was given rows that the committed index no longer returns.
Outdated(r) == Rows(r, content) # result[r]

\* A committed transaction is still to fire r with a key r will accept.
AboutToFire(r) == \E w \in Writers :
  wpc[w] = "fire" /\ noted[w][r] # Empty /\ InRange(r, noted[w][r], limitKey[r])

\* Every listening client whose rows are outdated and to whom P applies is about
\* to be told, unless a commit that ended in an error has skipped it.
Informed(P(_)) ==
  \A r \in Readers : Listening(r) /\ r \notin lost /\ Outdated(r) /\ P(r) => AboutToFire(r)

\* The comment in MojDbIndex::find: with the watch added before the transaction
\* is begun no event is missed.  A client holding rows that its query would no
\* longer return is always about to be notified.
NoMissedUpdate == LET Any(r) == TRUE IN Informed(Any)

\* The same, for the queries whose watcher was added while no transaction was
\* between its update of the index and its commit.
Unraced(r) == raced[r] = {}
NoMissedUpdateUnraced == Informed(Unraced)

\* The same, when besides the query is ascending or no transaction touched two
\* keys: the one key kept per transaction is then the one fire() must judge.
KeyIsFirst(r) == desc[r] => \A w \in Writers : Cardinality(DOMAIN pending[w]) <= 1
Answerable(r) == Unraced(r) /\ KeyIsFirst(r)
NoMissedUpdateAnswerable == Informed(Answerable)

\* The rows of such a client being outdated leads to its notification, without any further
\* write; only a commit that ends in an error of one of its watchers leaves it out.
EventuallyNotified ==
  \A r \in Readers :
    (Listening(r) /\ r \notin lost /\ Outdated(r) /\ Answerable(r)) ~> (~Listening(r) \/ r \in lost)

\* A watcher notifies once, never once cancelled, and never before the rows were
\* sent and the cursor closed, whatever transactions fire it and however they
\* race with the closing of the cursor.
NotifiedOnce ==
  \A r \in Readers : /\ fired[r] <= 1
                     /\ cancelled[r] => fired[r] = 0
                     /\ fired[r] > 0 => rpc[r] = "closed"

\* A find is notified only because of a committed change within its window: not
\* for an aborted transaction, nor for a key beyond the last row it returned.
NotifiedForACause ==
  \A r \in Readers : fired[r] > 0 /\ op[r] = "find" =>
     \E w \in Writers : wpc[w] = "fire" /\ \E k \in DOMAIN pending[w] : InRange(r, k, endKey[r])

\* The index lists the watchers that point to it, and counts them; one it could not be
\* taken out of stays listed.
IndexConsistent ==
  /\ \A r \in Readers : /\ index[r] => r \in watcherVec /\ rpc[r] # "added"
                        /\ r \in watcherVec /\ rpc[r] # "added" => index[r] \/ r \in lost
  /\ \A r \in Readers : index[r] <=> state[r] # "Invalid"
  /\ watchCount = Cardinality(watcherVec)

\* What holds of a watcher and its index at all times.
WatchKept == TypeOK /\ NotifiedOnce /\ NotifiedForACause /\ IndexConsistent
=============================================================================
