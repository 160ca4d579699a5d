------------------------------ MODULE MojDbSeq ------------------------------
(***************************************************************************)
(* MojDbSandwichSeq (the LevelDB engine's MojDbLevelSeq has the same code): *)
(* the persistent sequence behind MojDb::nextId, which numbers revisions.  *)
(* A get takes a value with one atomic increment and writes a new page     *)
(* limit to disk, under a mutex, only when its value is not yet covered by *)
(* the limit on disk.  Threads interleave between any two of those steps,  *)
(* a write may fail, and at any point the process may die or the machine   *)
(* lose power.  Whether writes are synced is an option of the engine: the  *)
(* shipped configuration has it on for leveldb and off for sandwich.       *)
(***************************************************************************)
EXTENDS Integers, FiniteSets

CONSTANTS Threads,     \* the threads that call get()
          Idle,        \* no thread holds the mutex; no call is in progress
          Page,        \* SequenceAllocationPage
          PutMayFail,  \* whether the engine's write may return an error
          MaxNext      \* bound: get() is not called once m_next reaches it

ASSUME IdleAssumption   == Idle \notin Int /\ Idle \notin Threads
ASSUME PageAssumption   == Page \in Nat \ {0}
ASSUME BoundAssumption  == MaxNext \in Nat
ASSUME FailAssumption   == PutMayFail \in BOOLEAN

VARIABLES
  db,           \* m_db: "open", or "null" before open() and after close()
  next,         \* m_next
  allocated,    \* m_allocated
  readable,     \* the values a relaxed load of m_allocated may return
  lock,         \* the holder of m_allocationLock, or Idle
  pc,           \* where each thread is inside get()
  val,          \* the value each thread took from m_next
  sync,         \* writeOptions.sync of the engine
  disk,         \* what the engine returns for the sequence's key
  recoverable,  \* what it may return for it after the process died
  survives,     \* what it may return for it after the machine lost power
  issued        \* history: what get() has returned, but for what a power failure took back

vars == <<db, next, allocated, readable, lock, pc, val, sync, disk, recoverable, survives, issued>>
limits == <<sync, disk, recoverable, survives>>

PC == {"idle", "check", "wait", "store", "publish"}

TypeOK ==
  /\ db \in {"open", "null"}
  /\ next \in Nat
  /\ allocated \in Nat
  /\ readable \in SUBSET Nat
  /\ lock \in Threads \cup {Idle}
  /\ pc \in [Threads -> PC]
  /\ val \in [Threads -> Nat]
  /\ sync \in BOOLEAN
  /\ disk \in Nat
  /\ recoverable \in SUBSET Nat
  /\ survives \in SUBSET Nat
  /\ issued \in SUBSET Nat

AllIdle == \A t \in Threads : pc[t] = "idle"

-----------------------------------------------------------------------------
\* configure() reads the option "sync" of the engine.
Configure == sync \in BOOLEAN

Init ==
  /\ db = "null"
  /\ next = 0 /\ allocated = 0 /\ readable = {0}
  /\ lock = Idle
  /\ pc = [t \in Threads |-> "idle"]
  /\ val = [t \in Threads |-> 0]
  /\ disk = 0                    \* a key that is not found reads as 0
  /\ recoverable = {0} /\ survives = {0}
  /\ Configure
  /\ issued = {}

\* leveldb opens: what it finds in its log it writes to a table, which it syncs.
Recovers(v) == v \in recoverable /\ disk' = v /\ recoverable' = {v} /\ survives' = {v} /\ UNCHANGED sync

\* open(): both counters start at the value the reopened engine finds.
Open ==
  /\ db = "null"
  /\ \E v \in recoverable : Recovers(v) /\ next' = v /\ allocated' = v /\ readable' = {v}
  /\ db' = "open"
  /\ UNCHANGED <<lock, pc, val, issued>>

\* The engine's put: it succeeds, and is in the file of the log and, if writes are
\* synced, on the disk; or it fails with the old value still readable and the new
\* one possibly in the log that the next open replays.
PutOk(v) ==
  /\ disk' = v /\ recoverable' = {v}
  /\ survives' = IF sync THEN {v} ELSE survives \cup {v}
  /\ UNCHANGED sync
PutFail(v) ==
  /\ PutMayFail
  /\ recoverable' = recoverable \cup {v} /\ survives' = survives \cup {v}
  /\ UNCHANGED <<sync, disk>>

\* close(): stores m_next, which gives the unused rest of the page back.  MojDb
\* calls it under the schema write lock, so no get() is running; when the write
\* fails the destructor tries once more and the object is gone in any case.
Close ==
  /\ db = "open" /\ AllIdle
  /\ PutOk(next) \/ PutFail(next)
  /\ db' = "null"
  /\ UNCHANGED <<next, allocated, readable, lock, pc, val, issued>>

-----------------------------------------------------------------------------
\* get(): val = m_next.fetch_add(1)
FetchAdd(t) ==
  /\ db = "open" /\ pc[t] = "idle" /\ next < MaxNext
  /\ val' = [val EXCEPT ![t] = next]
  /\ next' = next + 1
  /\ pc' = [pc EXCEPT ![t] = "check"]
  /\ UNCHANGED <<db, allocated, readable, lock, limits, issued>>

\* The call ends: with its value, or with an error.
Return(t) == /\ issued' = issued \cup {val[t]}
             /\ pc' = [pc EXCEPT ![t] = "idle"]
Fail(t)   == /\ pc' = [pc EXCEPT ![t] = "idle"]
             /\ UNCHANGED issued

\* The first test off by one: the value at the limit counts as covered.
CheckAllocatedOffByOne(t) ==
  /\ pc[t] = "check"
  /\ \E a \in readable :
       \/ val[t] <= a /\ Return(t)
       \/ val[t] > a /\ pc' = [pc EXCEPT ![t] = "wait"] /\ UNCHANGED issued
  /\ UNCHANGED <<db, next, allocated, readable, lock, val, limits>>

\* The first test, without the mutex: the relaxed load may be out of date.
CheckAllocated(t) ==
  /\ pc[t] = "check"
  /\ \E a \in readable :
       \/ val[t] < a /\ Return(t)
       \/ val[t] >= a /\ pc' = [pc EXCEPT ![t] = "wait"] /\ UNCHANGED issued
  /\ UNCHANGED <<db, next, allocated, readable, lock, val, limits>>

\* The page is allocated without taking the mutex.
RecheckUnlocked(t) ==
  /\ pc[t] = "wait"
  /\ pc' = [pc EXCEPT ![t] = "store"]
  /\ UNCHANGED <<db, next, allocated, readable, lock, val, limits, issued>>

\* The page is allocated without re-reading the limit under the mutex.
RecheckNoReload(t) ==
  /\ pc[t] = "wait" /\ lock = Idle
  /\ lock' = t
  /\ pc' = [pc EXCEPT ![t] = "store"]
  /\ UNCHANGED <<db, next, allocated, readable, val, limits, issued>>

\* The second test, under the mutex, where the load is up to date; the guard is
\* released at once when another thread has covered the value meanwhile.
Recheck(t) ==
  /\ pc[t] = "wait" /\ lock = Idle
  /\ \/ val[t] < allocated /\ Return(t) /\ UNCHANGED lock
     \/ /\ val[t] >= allocated
        /\ lock' = t
        /\ pc' = [pc EXCEPT ![t] = "store"]
        /\ UNCHANGED issued
  /\ UNCHANGED <<db, next, allocated, readable, val, limits>>

\* The write is given the options of leveldb, which do not sync, for those of the engine.
StorePutDefault(t) ==
  /\ pc[t] = "store"
  /\ disk' = val[t] + Page /\ recoverable' = {disk'} /\ survives' = survives \cup {disk'}
  /\ pc' = [pc EXCEPT ![t] = "publish"]
  /\ UNCHANGED <<db, next, allocated, readable, lock, val, sync, issued>>

\* store(val + Page): the write; an error leaves get() and drops the guard.
StorePut(t) ==
  /\ pc[t] = "store"
  /\ \/ /\ PutOk(val[t] + Page)
        /\ pc' = [pc EXCEPT ![t] = "publish"]
        /\ UNCHANGED <<lock, issued>>
     \/ /\ PutFail(val[t] + Page)
        /\ lock' = Idle
        /\ Fail(t)
  /\ UNCHANGED <<db, next, allocated, readable, val>>

\* store(): m_allocated.store(next); the guard goes and get() returns.
Publish(t) ==
  /\ pc[t] = "publish"
  /\ allocated' = val[t] + Page
  /\ readable' = readable \cup {val[t] + Page}
  /\ lock' = Idle
  /\ Return(t)
  /\ UNCHANGED <<db, next, val, limits>>

-----------------------------------------------------------------------------
\* The threads and what they hold are gone.
Stops ==
  /\ db' = "null"
  /\ lock' = Idle
  /\ pc' = [t \in Threads |-> "idle"]
  /\ UNCHANGED <<next, allocated, readable, val>>

\* The process dies: what the engine wrote to its log is still in the file.
Crash ==
  /\ db = "open"
  /\ Stops
  /\ UNCHANGED <<limits, issued>>

\* The machine loses power: of the writes not synced the log has the first few.
\* What the limit that comes back does not cover may be given again.
PowerFails ==
  /\ \E r \in survives : /\ recoverable' = {r} /\ survives' = {r}
                           /\ issued' = {v \in issued : v < r}
  /\ Stops
  /\ UNCHANGED <<sync, disk>>

Get(t) == FetchAdd(t) \/ CheckAllocated(t) \/ Recheck(t) \/ StorePut(t) \/ Publish(t)

Next == Open \/ Close \/ Crash \/ PowerFails \/ \E t \in Threads : Get(t)

Spec == Init /\ [][Next]_vars

-----------------------------------------------------------------------------
\* store() under MOJ_DEBUG compares the disk with m_allocated and fails with
\* MojErrDbInconsistentIndex when they differ.  It never does, whatever writes
\* failed before: nobody writes the key between the re-read and the check.
StoredAndCachedAgree ==
  \A t \in Threads : pc[t] = "store" => disk = allocated

\* A value is handed out only after a limit above it is stored, whatever the next
\* open finds there: a restart of the process can never hand the value out again, nor
\* one of the machine where writes are synced (MojDbSandwichSeq::get and store).
IssuedIsDurable ==
  /\ \A v \in issued, r \in recoverable : v < r
  /\ sync => \A v \in issued, r \in survives : v < r

\* A get returns a value nobody was given, in this run or before it died, and larger
\* than every value whose get had returned when this one started.  This is what makes
\* _rev values of successive writes of an object increase.  Only a power failure, and
\* only where writes are not synced, may take the values from some point on back.
Supply == INSTANCE IdSupply WITH
            durable <- sync,
            call <- [t \in Threads |-> IF pc[t] = "idle" THEN Idle ELSE val[t]]
SupplySpec == Supply!Spec

\* The inductive invariant behind the last two properties: the values inside
\* get() are new and pairwise different, only the holder of the mutex writes,
\* and every value handed out is below m_allocated, which is below every value
\* the key may have in the log, and on disk if writes are synced.
Inside(t) == pc[t] # "idle"
Allocating(t) == pc[t] \in {"store", "publish"}

ValuesFresh ==
  /\ \A t \in Threads : Inside(t) => val[t] < next /\ val[t] \notin issued
  /\ \A t, u \in Threads : t # u /\ Inside(t) /\ Inside(u) => val[t] # val[u]
LimitOrder ==
  db = "open" => /\ \A v \in issued : v < next /\ v < allocated
                 /\ \A a \in readable : a <= allocated
                 /\ \A r \in recoverable : allocated <= r
                 /\ sync => \A r \in survives : allocated <= r
MutexHeld ==
  /\ \A t \in Threads : lock = t <=> Allocating(t)
  /\ \A t \in Threads : Allocating(t) => val[t] >= allocated
DiskStable ==
  /\ \A t \in Threads : pc[t] = "publish" => /\ disk = val[t] + Page /\ recoverable = {disk}
                                             /\ sync => survives = {disk}
  /\ db = "open" /\ (\A t \in Threads : pc[t] # "publish") => disk = allocated
ClosedIsQuiet == db = "null" => AllIdle

IInv == /\ TypeOK
        /\ ValuesFresh /\ LimitOrder /\ MutexHeld /\ DiskStable /\ ClosedIsQuiet
        /\ IssuedIsDurable
=============================================================================
