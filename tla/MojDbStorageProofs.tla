-------------------------- MODULE MojDbStorageProofs --------------------------
(***************************************************************************)
(* Proofs about the storage engine: the invariants of the sequence of      *)
(* revisions and ids (MojDbSeq) and its refinement of IdSupply, for every  *)
(* set of threads, page size and bound; and the lock file that keeps other *)
(* instances out of a directory (MojDbSandwich), for any instances.        *)
(***************************************************************************)
EXTENDS MojDbSeq, MojDbSandwich, FiniteSetTheorems, TLAPS

LEMMA InitInv == Init => IInv
  <1> SUFFICES ASSUME Init PROVE IInv
    OBVIOUS
  <1> USE IdleAssumption DEF Init, Configure
  <1>1. TypeOK
    BY DEF TypeOK, PC
  <1>2. ValuesFresh /\ MutexHeld /\ ClosedIsQuiet
    BY DEF ValuesFresh, MutexHeld, ClosedIsQuiet, AllIdle, Inside, Allocating
  <1>3. LimitOrder /\ DiskStable /\ IssuedIsDurable
    BY DEF LimitOrder, DiskStable, IssuedIsDurable
  <1>4. QED
    BY <1>1, <1>2, <1>3 DEF IInv

LEMMA StepType == TypeOK /\ [Next]_vars => TypeOK'
  <1> SUFFICES ASSUME TypeOK, [Next]_vars PROVE TypeOK'
    OBVIOUS
  <1> USE IdleAssumption, PageAssumption DEF TypeOK, PC, limits
  <1>1. CASE Open
    BY <1>1 DEF Open, Recovers
  <1>2. CASE Close
    BY <1>2 DEF Close, PutOk, PutFail
  <1>3. CASE Crash \/ PowerFails
    BY <1>3 DEF Crash, PowerFails, Stops
  <1>4. ASSUME NEW t \in Threads, Get(t) PROVE TypeOK'
    <2>1. CASE FetchAdd(t)
      BY <2>1 DEF FetchAdd
    <2>2. CASE CheckAllocated(t)
      BY <2>2 DEF CheckAllocated, Return
    <2>3. CASE Recheck(t)
      BY <2>3 DEF Recheck, Return
    <2> val[t] + Page \in Nat
      OBVIOUS
    <2>4. CASE StorePut(t)
      BY <2>4 DEF StorePut, PutOk, PutFail, Fail
    <2>5. CASE Publish(t)
      BY <2>5 DEF Publish, Return
    <2>6. QED
      BY <1>4, <2>1, <2>2, <2>3, <2>4, <2>5 DEF Get
  <1>5. CASE UNCHANGED vars
    BY <1>5 DEF vars
  <1>6. QED
    BY <1>1, <1>2, <1>3, <1>4, <1>5 DEF Next

\* The steps of get() whose effect on the invariant is spread over its parts.
LEMMA IssueInv ==
  ASSUME IInv, TypeOK', NEW t \in Threads, Inside(t), Return(t), lock # t,
         val[t] < allocated, UNCHANGED <<db, next, allocated, readable, lock, val, limits>>
  PROVE  IInv'
  <1> USE DEF IInv, TypeOK, limits
  <1>1. /\ pc' = [pc EXCEPT ![t] = "idle"] /\ issued' = issued \cup {val[t]}
        /\ ~Allocating(t) /\ db = "open"
    BY DEF Return, MutexHeld, ClosedIsQuiet, AllIdle, Inside
  <1>2. \A u \in Threads : /\ u # t => pc'[u] = pc[u]
                            /\ pc'[t] = "idle"
    BY <1>1
  <1>3. ValuesFresh'
    BY <1>1, <1>2 DEF ValuesFresh, Inside
  <1>4. LimitOrder' /\ IssuedIsDurable'
    <2>1. issued' = issued \cup {val[t]} /\ val[t] < next /\ val[t] < allocated /\ val[t] \in Nat
      BY <1>1 DEF ValuesFresh, Inside
    <2>2. /\ \A r \in recoverable : allocated <= r
          /\ sync => \A r \in survives : allocated <= r
      BY <1>1 DEF LimitOrder
    <2>3. CASE sync
      BY <1>1, <2>1, <2>2, <2>3 DEF LimitOrder, IssuedIsDurable
    <2>4. CASE ~sync
      BY <1>1, <2>1, <2>2, <2>4 DEF LimitOrder, IssuedIsDurable
    <2>5. QED
      BY <2>3, <2>4
  <1>5. MutexHeld'
    <2>1. \A u \in Threads : Allocating(u)' <=> Allocating(u)
      BY <1>1, <1>2 DEF Allocating
    <2>2. QED
      BY <2>1 DEF MutexHeld
  <1>6. DiskStable' /\ ClosedIsQuiet'
    BY <1>1, <1>2 DEF DiskStable, ClosedIsQuiet, Allocating
  <1>7. QED
    BY <1>3, <1>4, <1>5, <1>6

LEMMA StepInv == IInv /\ [Next]_vars => IInv'
  <1> SUFFICES ASSUME IInv, [Next]_vars PROVE IInv'
    OBVIOUS
  <1>0. TypeOK /\ TypeOK'
    BY StepType DEF IInv
  <1> USE <1>0
  <1> USE DEF TypeOK, ValuesFresh, LimitOrder, MutexHeld, DiskStable,
              ClosedIsQuiet, AllIdle, Inside, Allocating, IssuedIsDurable, limits
  <1>1. CASE Open
    BY <1>1, IdleAssumption DEF IInv, Open, Recovers
  <1>2. CASE Close
    BY <1>2, IdleAssumption DEF IInv, Close, PutOk, PutFail
  <1>3. CASE Crash \/ PowerFails
    BY <1>3, IdleAssumption DEF IInv, Crash, PowerFails, Stops
  <1>4. ASSUME NEW t \in Threads, FetchAdd(t) PROVE IInv'
    BY <1>4, IdleAssumption DEF IInv, FetchAdd
  <1>5. ASSUME NEW t \in Threads, CheckAllocated(t) PROVE IInv'
    <2>1. PICK a \in readable : \/ val[t] < a /\ Return(t)
                                \/ pc' = [pc EXCEPT ![t] = "wait"] /\ UNCHANGED issued
      BY <1>5 DEF CheckAllocated
    <2>2. CASE val[t] < a /\ Return(t)
      <3>1. db = "open" /\ lock # t /\ val[t] < allocated
        BY <1>5, <2>2, IdleAssumption DEF IInv, CheckAllocated
      <3>2. QED
        BY <1>5, <2>2, <3>1, IssueInv DEF CheckAllocated
    <2>3. CASE pc' = [pc EXCEPT ![t] = "wait"] /\ UNCHANGED issued
      BY <1>5, <2>3 DEF IInv, CheckAllocated
    <2>4. QED
      BY <2>1, <2>2, <2>3
  <1>6. ASSUME NEW t \in Threads, Recheck(t) PROVE IInv'
    <2>1. CASE val[t] < allocated /\ Return(t) /\ UNCHANGED lock
      BY <1>6, <2>1, IssueInv, IdleAssumption DEF Recheck
    <2>2. CASE val[t] >= allocated /\ lock' = t /\ pc' = [pc EXCEPT ![t] = "store"] /\ UNCHANGED issued
      <3>1. \A u \in Threads : u # t => ~Allocating(u) /\ pc'[u] = pc[u]
        BY <1>6, <2>2, IdleAssumption DEF IInv, Recheck
      <3>2. pc'[t] = "store" /\ pc[t] = "wait" /\ db = "open"
        BY <1>6, <2>2 DEF Recheck, IInv
      <3>3. MutexHeld'
        BY <1>6, <2>2, <3>1, <3>2 DEF Recheck
      <3>4. ValuesFresh'
        BY <1>6, <2>2, <3>1, <3>2 DEF Recheck, IInv
      <3>5. LimitOrder' /\ IssuedIsDurable' /\ DiskStable' /\ ClosedIsQuiet'
        BY <1>6, <2>2, <3>1, <3>2 DEF Recheck, IInv
      <3>6. QED
        BY <1>0, <3>3, <3>4, <3>5 DEF IInv
    <2>3. QED
      BY <1>6, <2>1, <2>2 DEF Recheck
  <1>7. ASSUME NEW t \in Threads, StorePut(t) PROVE IInv'
    <2>1. /\ pc[t] = "store" /\ db = "open" /\ lock = t
          /\ val[t] >= allocated /\ disk = allocated
          /\ \A u \in Threads : u # t => ~Allocating(u)
      <3>1. /\ pc[t] = "store" /\ db = "open" /\ lock = t /\ val[t] >= allocated
            /\ \A u \in Threads : u # t => ~Allocating(u)
        BY <1>7 DEF StorePut, IInv
      <3>2. \A u \in Threads : pc[u] # "publish"
        BY <3>1
      <3>3. QED
        BY <3>1, <3>2 DEF IInv
    <2>2. \A u \in Threads : u # t => pc'[u] = pc[u]
      BY <1>7 DEF StorePut, Fail
    <2>3. CASE PutOk(val[t] + Page) /\ pc' = [pc EXCEPT ![t] = "publish"] /\ UNCHANGED <<lock, issued>>
      <3> USE <1>7, <2>1, <2>2, <2>3, PageAssumption DEF StorePut, PutOk, IInv
      <3>1. pc'[t] = "publish" /\ disk' = val[t] + Page /\ recoverable' = {disk'}
        OBVIOUS
      <3>2. MutexHeld'
        BY <3>1
      <3>3. ValuesFresh'
        BY <3>1
      <3>4. LimitOrder' /\ IssuedIsDurable'
        BY <3>1
      <3>5. DiskStable' /\ ClosedIsQuiet'
        BY <3>1
      <3>6. QED
        BY <3>2, <3>3, <3>4, <3>5
    <2>4. CASE PutFail(val[t] + Page) /\ lock' = Idle /\ Fail(t)
      <3> USE <1>7, <2>1, <2>2, <2>4, PageAssumption DEF StorePut, PutFail, Fail, IInv
      <3>1. pc'[t] = "idle" /\ recoverable' = recoverable \cup {val[t] + Page}
        OBVIOUS
      <3>2. MutexHeld'
        BY <3>1, IdleAssumption
      <3>3. ValuesFresh'
        BY <3>1
      <3>4. LimitOrder' /\ IssuedIsDurable'
        BY <3>1
      <3>5. DiskStable' /\ ClosedIsQuiet'
        BY <3>1
      <3>6. QED
        BY <3>2, <3>3, <3>4, <3>5
    <2>5. QED
      BY <1>7, <2>3, <2>4 DEF StorePut
  <1>8. ASSUME NEW t \in Threads, Publish(t) PROVE IInv'
    <2>1. /\ pc[t] = "publish" /\ db = "open" /\ val[t] >= allocated
          /\ \A u \in Threads : u # t => ~Allocating(u)
          /\ recoverable = {val[t] + Page} /\ disk = val[t] + Page
          /\ sync => survives = {val[t] + Page}
      BY <1>8 DEF Publish, IInv
    <2>2. /\ pc'[t] = "idle" /\ issued' = issued \cup {val[t]}
          /\ \A u \in Threads : u # t => pc'[u] = pc[u]
      BY <1>8 DEF Publish, Return
    <2> USE <1>8, <2>1, <2>2 DEF Publish
    <2>3. ValuesFresh'
      BY DEF IInv
    <2>4. LimitOrder' /\ IssuedIsDurable'
      <3>1. CASE sync
        BY <3>1, PageAssumption DEF IInv
      <3>2. CASE ~sync
        BY <3>2, PageAssumption DEF IInv
      <3>3. QED
        BY <3>1, <3>2
    <2>5. MutexHeld'
      BY IdleAssumption
    <2>6. DiskStable' /\ ClosedIsQuiet'
      BY DEF IInv
    <2>7. QED
      BY <2>3, <2>4, <2>5, <2>6 DEF IInv
  <1>9. CASE UNCHANGED vars
    BY <1>9 DEF IInv, vars
  <1>10. QED
    BY <1>1, <1>2, <1>3, <1>4, <1>5, <1>6, <1>7, <1>8, <1>9 DEF Next, Get

-----------------------------------------------------------------------------
\* Every variable keeps its type: the counters stay natural numbers whatever
\* fails, so no -1 of an error path ever reaches a caller of get().
THEOREM TypeCorrect == Spec => []TypeOK
  <1>1. Init => TypeOK
    BY InitInv DEF IInv
  <1>2. QED
    BY <1>1, StepType, PTL DEF Spec

\* The inductive invariant of get(), store(), open(), close() and a crash.
THEOREM Invariance == Spec => []IInv
  BY InitInv, StepInv, PTL DEF Spec

\* No value the sequence has returned can be returned again after the process died, nor,
\* where writes are synced, after the machine lost power, whichever of its writes the
\* engine recovers.
THEOREM Durability == Spec => []IssuedIsDurable
  <1>1. IInv => IssuedIsDurable
    BY DEF IInv
  <1>2. QED
    BY <1>1, Invariance, PTL

\* The consistency test of store() under MOJ_DEBUG never fails.
THEOREM Agreement == Spec => []StoredAndCachedAgree
  <1>1. IInv => StoredAndCachedAgree
    <2> SUFFICES ASSUME IInv, NEW t \in Threads, pc[t] = "store" PROVE disk = allocated
      BY DEF StoredAndCachedAgree
    <2>1. lock = t /\ db = "open"
      BY DEF IInv, TypeOK, MutexHeld, Allocating, ClosedIsQuiet, AllIdle
    <2>2. \A u \in Threads : pc[u] # "publish"
      BY <2>1 DEF IInv, MutexHeld, Allocating
    <2>3. QED
      BY <2>1, <2>2 DEF IInv, DiskStable
  <1>2. QED
    BY <1>1, Invariance, PTL

-----------------------------------------------------------------------------
\* What each call still owes its thread: the substitution of the refinement.
callBar == [t \in Threads |-> IF pc[t] = "idle" THEN Idle ELSE val[t]]

LEMMA ReturnIssues ==
  ASSUME TypeOK, ValuesFresh, NEW t \in Threads, Inside(t), Return(t), UNCHANGED <<val, sync>>
  PROVE  Supply!Issue(t)
  <1> USE IdleAssumption DEF TypeOK
  <1>1. callBar[t] = val[t] /\ val[t] # Idle
    BY DEF callBar, Inside
  <1>2. callBar' = [callBar EXCEPT ![t] = Idle]
    BY DEF callBar, Return
  <1>3. val[t] \in issued' \ issued /\ callBar[t] <= val[t] /\ issued' = issued \cup {val[t]}
    BY <1>1 DEF Return, ValuesFresh, Inside
  <1>4. QED
    BY <1>1, <1>2, <1>3 DEF Supply!Issue, callBar

LEMMA FetchBegins ==
  ASSUME TypeOK, LimitOrder, NEW t \in Threads, FetchAdd(t)
  PROVE  Supply!Begin(t)
  <1> USE IdleAssumption DEF TypeOK
  <1>1. callBar[t] = Idle /\ UNCHANGED <<sync, issued>>
    BY DEF callBar, FetchAdd, limits
  <1>2. callBar' = [callBar EXCEPT ![t] = next] /\ callBar'[t] = next
    BY DEF callBar, FetchAdd
  <1>3. callBar'[t] \in Nat /\ \A v \in issued : v < callBar'[t]
    BY <1>2 DEF LimitOrder, FetchAdd
  <1>4. QED
    BY <1>1, <1>2, <1>3 DEF Supply!Begin, callBar

\* get() hands out numbers as IdSupply does: each once, over all runs of the
\* server, and above everything that was returned when the call began, but for what
\* a power failure takes back where writes are not synced.
THEOREM Refinement == Spec => SupplySpec
  <1>1. Init => Supply!Init
    BY DEF Init, Configure, Supply!Init
  <1>2. IInv /\ [Next]_vars => [Supply!Next]_(Supply!supplyVars)
    <2> SUFFICES ASSUME IInv, [Next]_vars, ~ UNCHANGED <<sync, issued, callBar>>
                 PROVE  Supply!Next
      BY DEF Supply!supplyVars, callBar
    <2> USE DEF IInv, limits
    <2>1. CASE Open \/ Close
      BY <2>1 DEF Open, Recovers, Close, PutOk, PutFail, callBar
    <2>2. CASE Crash
      <3>1. /\ UNCHANGED <<sync, issued>>
            /\ callBar' = [t \in Threads |-> IF t \in Threads THEN Idle ELSE callBar[t]]
        BY <2>2 DEF Crash, Stops, callBar
      <3>2. Supply!Abandon
        BY <3>1 DEF Supply!Abandon, callBar
      <3>3. QED
        BY <3>2 DEF Supply!Next
    <2>3. ASSUME NEW t \in Threads, FetchAdd(t) PROVE Supply!Next
      BY <2>3, FetchBegins DEF Supply!Next
    <2>4. ASSUME NEW t \in Threads, CheckAllocated(t) PROVE Supply!Next
      <3>1. CASE Return(t)
        BY <2>4, <3>1, ReturnIssues DEF CheckAllocated, Inside, Supply!Next
      <3>2. CASE pc' = [pc EXCEPT ![t] = "wait"] /\ UNCHANGED issued
        BY <2>4, <3>2 DEF CheckAllocated, callBar, TypeOK
      <3>3. QED
        BY <2>4, <3>1, <3>2 DEF CheckAllocated
    <2>5. ASSUME NEW t \in Threads, Recheck(t) PROVE Supply!Next
      <3>1. CASE Return(t)
        BY <2>5, <3>1, ReturnIssues DEF Recheck, Inside, Supply!Next
      <3>2. CASE pc' = [pc EXCEPT ![t] = "store"] /\ UNCHANGED issued
        BY <2>5, <3>2 DEF Recheck, callBar, TypeOK
      <3>3. QED
        BY <2>5, <3>1, <3>2 DEF Recheck
    <2>6. ASSUME NEW t \in Threads, StorePut(t) PROVE Supply!Next
      <3>1. CASE Fail(t) /\ UNCHANGED <<sync, val>>
        <4>1. callBar' = [u \in Threads |-> IF u \in {t} THEN Idle ELSE callBar[u]]
          BY <3>1 DEF Fail, callBar, TypeOK
        <4>2. Supply!Abandon
          BY <3>1, <4>1 DEF Fail, Supply!Abandon, callBar
        <4>3. QED
          BY <4>2 DEF Supply!Next
      <3>2. CASE pc' = [pc EXCEPT ![t] = "publish"] /\ UNCHANGED <<issued, val>>
        BY <2>6, <3>2 DEF StorePut, PutOk, PutFail, callBar, TypeOK
      <3>3. QED
        BY <2>6, <3>1, <3>2 DEF StorePut, PutOk, PutFail
    <2>7. ASSUME NEW t \in Threads, Publish(t) PROVE Supply!Next
      BY <2>7, ReturnIssues DEF Publish, Inside, Supply!Next
    <2>8. CASE UNCHANGED vars
      BY <2>8 DEF vars, callBar
    <2>9. CASE PowerFails
      <3>1. PICK r \in survives : issued' = {v \in issued : v < r}
        BY <2>9 DEF PowerFails
      <3>2. UNCHANGED sync /\ callBar' = [t \in Threads |-> Idle] /\ r \in Nat
        BY <2>9 DEF PowerFails, Stops, callBar, TypeOK
      <3>3. CASE sync
        <4>1. UNCHANGED issued
          BY <3>1, <3>3 DEF IssuedIsDurable
        <4>2. callBar' = [t \in Threads |-> IF t \in Threads THEN Idle ELSE callBar[t]]
          BY <3>2
        <4>3. Supply!Abandon
          BY <3>2, <4>1, <4>2 DEF Supply!Abandon, callBar
        <4>4. QED
          BY <4>3 DEF Supply!Next
      <3>4. CASE ~sync
        <4>1. \A v \in issued', w \in issued \ issued' : v < w
          BY <3>1, <3>2 DEF TypeOK
        <4>2. Supply!SetBack
          BY <3>1, <3>2, <3>4, <4>1 DEF Supply!SetBack, callBar
        <4>3. QED
          BY <4>2 DEF Supply!Next
      <3>5. QED
        BY <3>3, <3>4
    <2>10. QED
      BY <2>1, <2>2, <2>3, <2>4, <2>5, <2>6, <2>7, <2>8, <2>9 DEF Next, Get
  <1>3. QED
    BY <1>1, <1>2, Invariance, PTL DEF Spec, SupplySpec, Supply!Spec
-----------------------------------------------------------------------------
(* The lock file.                                                          *)

EnvTypeOK ==
  /\ made \in 0..MaxFiles /\ lockFile \in 0..made /\ raced \in BOOLEAN
  /\ opened \in [Instances -> 0..made]
  /\ envStage \in [Instances -> {"out", "opened", "in", "leaving"}]
  /\ holder \in [1..MaxFiles -> Instances \cup {"nobody"}]

\* An instance that is in or leaving holds the lock of the file it has open, and no other.
FileHeld ==
  /\ \A p \in Instances : envStage[p] = "out" <=> opened[p] = 0
  /\ \A p \in Instances : envStage[p] \in {"in", "leaving"} => holder[opened[p]] = p
  /\ \A f \in 1..MaxFiles, p \in Instances : holder[f] = p => opened[p] = f /\ envStage[p] \in {"in", "leaving"}

\* Unless there was a race, who has the directory or is about to lock it has the file that is there.
SameFile == ~raced => \A p \in Instances : envStage[p] \in {"opened", "in"} => opened[p] = lockFile

EnvIInv == EnvTypeOK /\ FileHeld /\ SameFile

\* Without a race, two that are in are the same.
LEMMA InOnce ==
  ASSUME EnvIInv, ~raced
  PROVE  /\ \A p, q \in Instances : envStage[p] = "in" /\ envStage[q] = "in" => p = q
         /\ OneInstance
<1>1. \A p, q \in Instances : envStage[p] = "in" /\ envStage[q] = "in" => p = q
  BY DEF EnvIInv, FileHeld, SameFile
<1> DEFINE In == {p \in Instances : envStage[p] = "in"}
<1>2. CASE In = {}
  BY <1>2, FS_EmptySet DEF OneInstance
<1>3. ASSUME NEW p \in In PROVE OneInstance
  <2>1. In = {p}
    BY <1>1
  <2>2. Cardinality({p}) = 1
    BY FS_Singleton
  <2>3. Cardinality(In) <= 1
    BY ONLY <2>1, <2>2
  <2> QED BY <2>3 DEF OneInstance
<1> QED BY <1>1, <1>2, <1>3

\* lockDir opens the file that is there, or makes one; then nobody else has one open.
LEMMA OpenFileKeeps == ASSUME EnvIInv, NEW p \in Instances, OpenFile(p) PROVE EnvIInv'
<1> USE EnvAssumption DEF EnvIInv
<1>1. /\ envStage[p] = "out" /\ (lockFile # 0 \/ made < MaxFiles)
      /\ made' = (IF lockFile = 0 THEN made + 1 ELSE made) /\ lockFile' = (IF lockFile = 0 THEN made' ELSE lockFile)
      /\ opened' = [opened EXCEPT ![p] = lockFile'] /\ envStage' = [envStage EXCEPT ![p] = "opened"]
      /\ UNCHANGED <<holder, raced>>
  BY DEF OpenFile
<1>2. /\ made \in Nat /\ made' \in 0..MaxFiles /\ made <= made' /\ lockFile' \in 1..made'
  BY <1>1 DEF EnvTypeOK
<1>3. EnvTypeOK'
  BY <1>1, <1>2 DEF EnvTypeOK
<1>4. FileHeld'
  BY <1>1, <1>2 DEF EnvTypeOK, FileHeld
<1>5. SameFile'
  BY <1>1, <1>2 DEF EnvTypeOK, FileHeld, SameFile
<1> QED BY <1>3, <1>4, <1>5

\* lockDir takes the lock if nobody holds it.
LEMMA LockFileKeeps == ASSUME EnvIInv, NEW p \in Instances, LockFile(p) PROVE EnvIInv'
<1> USE EnvAssumption DEF EnvIInv
<1>1. /\ envStage[p] = "opened" /\ opened[p] \in 1..MaxFiles /\ UNCHANGED <<lockFile, made, raced>>
      /\ opened[p] \in 0..made
  BY DEF LockFile, EnvTypeOK, FileHeld
<1>2. CASE holder[opened[p]] = "nobody"
  <2>1. /\ holder' = [holder EXCEPT ![opened[p]] = p] /\ envStage' = [envStage EXCEPT ![p] = "in"]
        /\ opened' = opened
    BY <1>2 DEF LockFile
  <2>2. EnvTypeOK'
    BY <1>1, <2>1 DEF EnvTypeOK
  <2>3. FileHeld'
    BY <1>1, <1>2, <2>1 DEF EnvTypeOK, FileHeld
  <2>4. SameFile'
    BY <1>1, <2>1 DEF EnvTypeOK, SameFile
  <2> QED BY <2>2, <2>3, <2>4
<1>3. CASE holder[opened[p]] # "nobody"
  <2>1. /\ holder' = holder /\ envStage' = [envStage EXCEPT ![p] = "out"]
        /\ opened' = [opened EXCEPT ![p] = 0]
    BY <1>3 DEF LockFile
  <2>2. EnvTypeOK'
    BY <1>1, <2>1 DEF EnvTypeOK
  <2>3. FileHeld'
    BY <1>1, <2>1 DEF EnvTypeOK, FileHeld
  <2>4. SameFile'
    BY <1>1, <2>1 DEF EnvTypeOK, SameFile
  <2> QED BY <2>2, <2>3, <2>4
<1> QED BY <1>2, <1>3

\* unlockDir deletes the file while it holds its lock.
LEMMA UnlinkKeeps ==
  ASSUME EnvIInv, NEW p \in Instances, envStage[p] = "in", UnlinkPath(p),
         envStage' = [envStage EXCEPT ![p] = "leaving"], UNCHANGED <<opened, holder, made>>
  PROVE  EnvIInv'
<1> USE EnvAssumption DEF EnvIInv
<1>1. lockFile' = 0 /\ (raced' <=> raced \/ \E q \in Instances \ {p} : envStage[q] = "opened") /\ raced' \in BOOLEAN
  BY DEF UnlinkPath, EnvTypeOK
<1>2. EnvTypeOK'
  BY <1>1 DEF EnvTypeOK
<1>3. FileHeld'
  BY DEF EnvTypeOK, FileHeld
<1>4. SameFile'
  <2> SUFFICES ASSUME ~raced', NEW q \in Instances, envStage'[q] \in {"opened", "in"} PROVE FALSE
    BY DEF SameFile
  <2>1. q # p /\ envStage[q] = "in" /\ ~raced
    BY <1>1 DEF EnvTypeOK
  <2> QED BY <2>1, InOnce
<1> QED BY <1>2, <1>3, <1>4

\* Closing the file, or the end of the process, gives up the lock.
LEMMA CloseKeeps ==
  ASSUME EnvIInv, NEW p \in Instances, CloseFile(p), envStage' = [envStage EXCEPT ![p] = "out"],
         UNCHANGED <<lockFile, made, raced>>
  PROVE  EnvIInv'
<1> USE EnvAssumption DEF EnvIInv
<1>1. /\ holder' = [f \in 1..MaxFiles |-> IF holder[f] = p THEN "nobody" ELSE holder[f]]
      /\ opened' = [opened EXCEPT ![p] = 0]
  BY DEF CloseFile, EnvTypeOK
<1>2. EnvTypeOK'
  BY <1>1 DEF EnvTypeOK
<1>3. \A q \in Instances : q # p => opened'[q] = opened[q] /\ envStage'[q] = envStage[q]
  BY <1>1 DEF EnvTypeOK
<1>4. opened'[p] = 0 /\ envStage'[p] = "out"
  BY <1>1 DEF EnvTypeOK
<1>5. FileHeld'
  BY <1>1, <1>3, <1>4 DEF EnvTypeOK, FileHeld
<1>6. SameFile'
  BY <1>3, <1>4 DEF SameFile
<1> QED BY <1>2, <1>5, <1>6

\* The invariant of the lock file.
LEMMA EnvStep == ASSUME EnvIInv, [EnvNext]_envVars PROVE EnvIInv'
<1>1. CASE UNCHANGED envVars
  BY <1>1 DEF envVars, EnvIInv, EnvTypeOK, FileHeld, SameFile
<1>2. ASSUME NEW p \in Instances, UnlockDir(p) PROVE EnvIInv'
  BY <1>2, UnlinkKeeps, CloseKeeps DEF UnlockDir
<1>3. ASSUME NEW p \in Instances, Die(p) PROVE EnvIInv'
  BY <1>3, CloseKeeps DEF Die
<1> QED BY <1>1, <1>2, <1>3, OpenFileKeeps, LockFileKeeps DEF EnvNext

\* Two instances never have the directory at once, though each deletes the file as it leaves
\* and may die at any point, unless one deletes it while another has it open and not locked
\* (MojDbSandwichEnv::lockDir and unlockDir).
THEOREM DirectoryLocked == EnvInit /\ [][EnvNext]_envVars => []OneInstanceUnraced
<1>1. EnvInit => EnvIInv
  <2> SUFFICES ASSUME EnvInit PROVE EnvIInv
    OBVIOUS
  <2>1. EnvTypeOK
    <3>1. made = 0 /\ lockFile = 0 /\ made \in 0..MaxFiles /\ lockFile \in 0..made
      BY EnvAssumption DEF EnvInit
    <3>2. raced \in BOOLEAN
      BY DEF EnvInit
    <3>3. /\ opened \in [Instances -> 0..made]
          /\ envStage \in [Instances -> {"out", "opened", "in", "leaving"}]
          /\ holder \in [1..MaxFiles -> Instances \cup {"nobody"}]
      BY <3>1 DEF EnvInit
    <3> QED BY <3>1, <3>2, <3>3 DEF EnvTypeOK
  <2>2. FileHeld /\ SameFile
    BY EnvAssumption DEF EnvInit, FileHeld, SameFile
  <2> QED BY <2>1, <2>2 DEF EnvIInv
<1>2. EnvIInv => OneInstanceUnraced
  BY InOnce DEF OneInstanceUnraced
<1> QED BY <1>1, <1>2, EnvStep, PTL
=============================================================================
