-------------------------- MODULE MojDbEnginesProofs --------------------------
(***************************************************************************)
(* Proofs about what the requests of a database share besides its objects, *)
(* for any kinds, callers, requests, readers, tables and crashes: the      *)
(* permissions in memory and stored (MojDbPermissionEngine), the locale    *)
(* that kinds are sorted by (MojDbLifecycle), the tokens of names          *)
(* (MojDbKindState) and the sums of quotas (MojDbQuotaEngine).  Each has   *)
(* an inductive invariant of its own; at the end they are put together.    *)
(***************************************************************************)
EXTENDS MojDbEngines, FiniteSetTheorems, SequenceTheorems, NaturalsInduction, TLAPS

(* Permissions.                                                            *)

PermMap == [PermKinds -> [Names -> Entries]]

PermTypeOK ==
  /\ permKinds \subseteq PermKinds
  /\ m_types \in PermMap
  /\ permObjs \in PermMap
  /\ putReq \in [pc : {"idle", "put", "delKind", "not open"}, kind : PermKinds \cup {"none"},
                 objs : PermMap \cup {NoPut.objs}, wrote : SUBSET (PermKinds \X Names)]
  /\ putReq.pc = "put" => putReq.objs \in PermMap
  /\ putReq.pc # "put" => putReq.wrote = {}
  /\ putReq.pc = "delKind" => putReq.kind \in PermKinds

\* The transaction of a put holds what was stored, and what memory was given for it.
InTransaction ==
  putReq.pc = "put" => \A k \in PermKinds, n \in Names :
    IF <<k, n>> \in putReq.wrote
    THEN m_types[k][n] = putReq.objs[k][n] /\ putReq.objs[k][n] # Undefined
    ELSE putReq.objs[k][n] = permObjs[k][n]

\* Memory is what an open would leave, except for what is being put and what is stale.
MemoryAsOpened ==
  putReq.pc # "not open" => \A k \in PermKinds, n \in Names :
    <<k, n>> \notin stale \cup putReq.wrote => m_types[k][n] = Opened(permObjs)[k][n]

\* Permissions of a kind that is not registered are those of a deletion not ended.
Orphans ==
  /\ \A k \in PermKinds \ permKinds : permObjs[k] # NoObjs[k] =>
       k \in cutOff \/ (putReq.pc = "delKind" /\ putReq.kind = k)
  /\ putReq.pc = "put" => \A k \in PermKinds \ permKinds : putReq.objs[k] = permObjs[k]
  /\ OpensAgain

PermIInv == PermTypeOK /\ InTransaction /\ MemoryAsOpened /\ Orphans

\* What open leaves in memory is a map of entries.
LEMMA OpenedType == ASSUME NEW objs \in PermMap PROVE Opened(objs) \in PermMap
BY PermAssumption DEF PermMap, Opened

\* A kind without permission objects.
LEMMA NoObjsType ==
  /\ NoObjs \in PermMap
  /\ \A k \in PermKinds : NoObjs[k] = [n \in Names |-> Undefined]
  /\ \A ops \in Operations : ops \in Entries /\ ops # Undefined
<1>1. \A ops \in Operations : DOMAIN ops = Ops /\ "read" \in Ops
  BY PermAssumption DEF Ops
<1>2. DOMAIN Undefined = {}
  BY DEF Undefined
<1>3. \A ops \in Operations : ops \in Entries /\ ops # Undefined
  BY <1>1, <1>2, PermAssumption DEF Entries
<1> QED BY <1>3 DEF NoObjs, PermMap, Entries

\* The invariant of the permissions holds at first.
LEMMA PermInitial == PermInit => PermIInv
<1> SUFFICES ASSUME PermInit PROVE PermIInv
  OBVIOUS
<1>1. Opened(NoObjs) \in PermMap /\ NoObjs \in PermMap
  BY OpenedType, NoObjsType
<1>2. PermTypeOK
  BY <1>1 DEF PermInit, PermTypeOK, NoPut
<1> QED
  BY <1>2 DEF PermInit, PermIInv, InTransaction, MemoryAsOpened, Orphans, OpensAgain, NoPut
\* Putting permissions: each entry goes to the transaction and to memory.
LEMMA PutKeeps ==
  ASSUME PermIInv, NEW k \in PermKinds, NEW n \in Names, NEW ops \in Operations, NEW c \in Callers,
         PutPermission(k, n, ops, c)
  PROVE  PermIInv'
<1>1. ops \in Entries /\ ops # Undefined
  BY NoObjsType
<1>2. /\ putReq.pc = "put" /\ putReq.objs \in PermMap /\ k \in permKinds
      /\ m_types' = [m_types EXCEPT ![k][n] = ops]
      /\ putReq' = [putReq EXCEPT !.objs[k][n] = ops, !.wrote = @ \cup {<<k, n>>}]
      /\ UNCHANGED <<permKinds, permObjs, stale, cutOff>>
  BY DEF PutPermission, PermIInv, PermTypeOK
<1>3. /\ putReq'.pc = "put" /\ putReq'.kind = putReq.kind
      /\ putReq'.wrote = putReq.wrote \cup {<<k, n>>}
      /\ putReq'.objs = [putReq.objs EXCEPT ![k][n] = ops]
      /\ putReq' = [pc |-> putReq'.pc, kind |-> putReq'.kind, objs |-> putReq'.objs, wrote |-> putReq'.wrote]
  BY <1>2 DEF PermIInv, PermTypeOK
<1> /\ UNCHANGED <<permKinds, permObjs, stale, cutOff>> /\ putReq.pc = "put" /\ k \in permKinds
    /\ putReq'.pc = "put" /\ putReq'.wrote = putReq.wrote \cup {<<k, n>>}
  BY <1>2, <1>3
<1>4. m_types' \in PermMap /\ putReq'.objs \in PermMap
  BY <1>1, <1>2, <1>3 DEF PermIInv, PermTypeOK, PermMap
<1>5. PermTypeOK'
  <2> putReq.wrote \in SUBSET (PermKinds \X Names) /\ putReq.kind \in PermKinds \cup {"none"}
    BY DEF PermIInv, PermTypeOK
  <2>1. putReq'.wrote \in SUBSET (PermKinds \X Names) /\ putReq'.kind \in PermKinds \cup {"none"}
    <3>1. putReq'.kind = putReq.kind
      BY <1>3
    <3>2. <<k, n>> \in PermKinds \X Names
      OBVIOUS
    <3> QED BY <3>1, <3>2
  <2>2. putReq' \in [pc : {"idle", "put", "delKind", "not open"}, kind : PermKinds \cup {"none"},
                     objs : PermMap \cup {NoPut.objs}, wrote : SUBSET (PermKinds \X Names)]
    BY <2>1, <1>3, <1>4
  <2> QED BY <2>2, <1>4 DEF PermIInv, PermTypeOK
<1>6. ASSUME NEW a \in PermKinds, NEW b \in Names
      PROVE  /\ m_types'[a][b] = IF a = k /\ b = n THEN ops ELSE m_types[a][b]
             /\ putReq'.objs[a][b] = IF a = k /\ b = n THEN ops ELSE putReq.objs[a][b]
             /\ <<a, b>> \in putReq'.wrote <=> (a = k /\ b = n) \/ <<a, b>> \in putReq.wrote
  <2>1. m_types \in [PermKinds -> [Names -> Entries]] /\ putReq.objs \in [PermKinds -> [Names -> Entries]]
    BY DEF PermIInv, PermTypeOK, PermMap
  <2>2. m_types'[a][b] = IF a = k /\ b = n THEN ops ELSE m_types[a][b]
    BY ONLY <1>2, <2>1, k \in PermKinds, n \in Names, a \in PermKinds, b \in Names
  <2>3. putReq'.objs = [putReq.objs EXCEPT ![k][n] = ops] /\ putReq'.wrote = putReq.wrote \cup {<<k, n>>}
    BY <1>3
  <2>4. putReq'.objs[a][b] = IF a = k /\ b = n THEN ops ELSE putReq.objs[a][b]
    BY ONLY <2>1, <2>3, k \in PermKinds, n \in Names, a \in PermKinds, b \in Names
  <2>5. <<a, b>> \in putReq'.wrote <=> (a = k /\ b = n) \/ <<a, b>> \in putReq.wrote
    BY ONLY <2>3
  <2> QED BY <2>2, <2>4, <2>5
<1>7. InTransaction'
  <2> SUFFICES ASSUME NEW a \in PermKinds, NEW b \in Names
               PROVE  IF <<a, b>> \in putReq'.wrote
                      THEN m_types'[a][b] = putReq'.objs[a][b] /\ putReq'.objs[a][b] # Undefined
                      ELSE putReq'.objs[a][b] = permObjs[a][b]
    BY DEF InTransaction
  <2> QED BY <1>1, <1>6 DEF PermIInv, InTransaction
<1>8. MemoryAsOpened'
  <2> SUFFICES ASSUME NEW a \in PermKinds, NEW b \in Names, <<a, b>> \notin stale \cup putReq'.wrote
               PROVE  m_types'[a][b] = Opened(permObjs)[a][b]
    BY DEF MemoryAsOpened
  <2>1. m_types'[a][b] = m_types[a][b] /\ <<a, b>> \notin stale \cup putReq.wrote
    BY <1>6
  <2> QED BY <2>1 DEF PermIInv, MemoryAsOpened
<1>9. \A a \in PermKinds \ permKinds : putReq'.objs[a] = putReq.objs[a]
  BY <1>2, <1>3 DEF PermMap
<1>10. Orphans'
  BY <1>2, <1>3, <1>9 DEF PermIInv, Orphans, OpensAgain
<1> QED BY <1>5, <1>7, <1>8, <1>10 DEF PermIInv

\* The request begins with what is stored, and its end stores what it put.
LEMMA PutRequestKeeps ==
  ASSUME PermIInv, BeginPut \/ EndPut \/ AbortPut
  PROVE  PermIInv'
<1>1. CASE BeginPut
  <2>1. /\ putReq.pc = "idle" /\ putReq' = [pc |-> "put", kind |-> "none", objs |-> permObjs, wrote |-> {}]
        /\ putReq.wrote = {} /\ permObjs \in PermMap
        /\ UNCHANGED <<permKinds, m_types, permObjs, stale, cutOff>>
    BY <1>1 DEF BeginPut, PermIInv, PermTypeOK, NoPut
  <2> QED
    BY <2>1 DEF PermIInv, PermTypeOK, InTransaction, MemoryAsOpened, Orphans, OpensAgain
<1>2. CASE EndPut
  <2>1. /\ putReq.pc = "put" /\ permObjs' = putReq.objs /\ putReq.objs \in PermMap
        /\ putReq' = NoPut /\ putReq'.pc = "idle" /\ putReq'.wrote = {}
        /\ stale' = stale \ putReq.wrote
        /\ UNCHANGED <<permKinds, m_types, cutOff>>
    BY <1>2 DEF EndPut, PermIInv, PermTypeOK, NoPut
  <2>2. PermTypeOK'
    BY <2>1 DEF PermIInv, PermTypeOK, NoPut
  <2>3. ASSUME NEW k \in PermKinds, NEW n \in Names, <<k, n>> \notin stale \ putReq.wrote
        PROVE  m_types[k][n] = Opened(putReq.objs)[k][n]
    BY <2>1, <2>3 DEF PermIInv, InTransaction, MemoryAsOpened, Opened
  <2>4. MemoryAsOpened'
    BY <2>1, <2>3 DEF MemoryAsOpened
  <2> QED BY <2>1, <2>2, <2>4 DEF PermIInv, InTransaction, Orphans, OpensAgain
<1>3. CASE AbortPut
  <2>1. /\ putReq.pc = "put"
        /\ putReq' = NoPut /\ putReq'.pc = "idle" /\ putReq'.wrote = {}
        /\ stale' = stale \cup putReq.wrote
        /\ UNCHANGED <<permKinds, m_types, permObjs, cutOff>>
    BY <1>3 DEF AbortPut, NoPut
  <2>2. PermTypeOK'
    BY <2>1 DEF PermIInv, PermTypeOK, NoPut
  <2> QED BY <2>1, <2>2 DEF PermIInv, InTransaction, MemoryAsOpened, Orphans, OpensAgain
<1> QED BY <1>1, <1>2, <1>3

\* Deleting the permission objects of a kind.
LEMMA DeletedObjs ==
  ASSUME PermIInv, NEW k \in PermKinds, DelPermissions(k)
  PROVE  /\ permObjs' \in PermMap /\ permObjs'[k] = NoObjs[k]
         /\ \A a \in PermKinds \ {k} : permObjs'[a] = permObjs[a]
         /\ \A a \in PermKinds, n \in Names :
              <<a, n>> \notin stale' => <<a, n>> \notin stale /\ Opened(permObjs')[a][n] = Opened(permObjs)[a][n]
<1>1. /\ permObjs' = [permObjs EXCEPT ![k] = [n \in Names |-> Undefined]]
      /\ stale' = stale \cup {<<k, n>> : n \in Names} /\ permObjs \in PermMap
  BY DEF DelPermissions, PermIInv, PermTypeOK
<1>2. [n \in Names |-> Undefined] \in [Names -> Entries] /\ NoObjs[k] = [n \in Names |-> Undefined]
  BY DEF Entries, NoObjs
<1>3. /\ permObjs' \in PermMap /\ permObjs'[k] = NoObjs[k]
      /\ \A a \in PermKinds \ {k} : permObjs'[a] = permObjs[a]
  BY <1>1, <1>2 DEF PermMap
<1>4. ASSUME NEW a \in PermKinds, NEW n \in Names, <<a, n>> \notin stale'
      PROVE  <<a, n>> \notin stale /\ Opened(permObjs')[a][n] = Opened(permObjs)[a][n]
  <2>1. a # k
    BY <1>1, <1>4
  <2> QED BY <1>1, <1>3, <1>4, <2>1 DEF Opened
<1> QED BY <1>3, <1>4

\* Registering and deleting kinds.
LEMMA KindChangesKeep ==
  ASSUME PermIInv, NEW k \in PermKinds, RegisterKind(k) \/ DelKindBatch(k) \/ DelSmallKind(k)
  PROVE  PermIInv'
<1>1. CASE RegisterKind(k)
  <2>1. /\ putReq.pc = "idle" /\ permKinds' = permKinds \cup {k} /\ cutOff' = cutOff \ {k}
        /\ UNCHANGED <<m_types, permObjs, putReq, stale>>
    BY <1>1 DEF RegisterKind
  <2> QED BY <2>1 DEF PermIInv, PermTypeOK, InTransaction, MemoryAsOpened, Orphans, OpensAgain
<1>2. CASE DelKindBatch(k)
  <2>1. /\ putReq.pc = "idle" /\ permKinds' = permKinds \ {k}
        /\ putReq' = [pc |-> "delKind", kind |-> k, objs |-> NoPut.objs, wrote |-> {}]
        /\ putReq.wrote = {}
        /\ UNCHANGED <<m_types, permObjs, stale, cutOff>>
    BY <1>2 DEF DelKindBatch, Deletable, NoPut, PermIInv, PermTypeOK
  <2> QED BY <2>1 DEF PermIInv, PermTypeOK, InTransaction, MemoryAsOpened, Orphans, OpensAgain
<1>3. CASE DelSmallKind(k)
  <2>1. /\ putReq.pc = "idle" /\ permKinds' = permKinds \ {k} /\ DelPermissions(k)
        /\ UNCHANGED <<m_types, putReq, cutOff>>
    BY <1>3 DEF DelSmallKind, Deletable, DelPermissions
  <2>2. PermTypeOK' /\ InTransaction'
    BY <2>1, DeletedObjs DEF PermIInv, PermTypeOK, InTransaction
  <2>3. MemoryAsOpened'
    BY ZenonT(40), <2>1, DeletedObjs DEF PermIInv, MemoryAsOpened
  <2>4. Orphans'
    BY <2>1, DeletedObjs DEF PermIInv, Orphans, OpensAgain, NoObjs
  <2> QED BY <2>2, <2>3, <2>4 DEF PermIInv
<1> QED BY <1>1, <1>2, <1>3

\* The deletion of a large kind ends with its permissions.
LEMMA DelKindEndKeeps == ASSUME PermIInv, DelKindEnd PROVE PermIInv'
<1> DEFINE k == putReq.kind
<1>1. /\ putReq.pc = "delKind" /\ k \in PermKinds /\ DelPermissions(k)
      /\ putReq' = NoPut /\ putReq'.pc = "idle" /\ putReq'.wrote = {} /\ putReq.wrote = {}
      /\ UNCHANGED <<permKinds, m_types, cutOff>>
  BY DEF DelKindEnd, DelPermissions, PermIInv, PermTypeOK, NoPut
<1> HIDE DEF k
<1>2. PermTypeOK' /\ InTransaction'
  BY <1>1, DeletedObjs DEF PermIInv, PermTypeOK, InTransaction, NoPut
<1>3. MemoryAsOpened'
  BY <1>1, DeletedObjs DEF PermIInv, MemoryAsOpened
<1>4. Orphans'
  BY <1>1, DeletedObjs DEF PermIInv, Orphans, OpensAgain, NoObjs, k
<1> QED BY <1>2, <1>3, <1>4 DEF PermIInv

\* A restart loads what is stored, or finds what a deletion left.
LEMMA ReopenKeeps == ASSUME PermIInv, Reopen PROVE PermIInv'
<1>1. /\ cutOff' = cutOff \cup ({putReq.kind} \ {"none"})
      /\ putReq' = [NoPut EXCEPT !.pc = IF CanOpen THEN "idle" ELSE "not open"]
      /\ m_types' = IF CanOpen THEN Opened(permObjs) ELSE m_types
      /\ UNCHANGED <<permKinds, permObjs>>
  BY DEF Reopen
<1>2. /\ putReq'.wrote = {} /\ putReq'.pc = IF CanOpen THEN "idle" ELSE "not open"
      /\ putReq' = [pc |-> putReq'.pc, kind |-> "none", objs |-> NoPut.objs, wrote |-> {}]
  BY <1>1 DEF NoPut
<1>3. PermTypeOK' /\ InTransaction'
  BY <1>1, <1>2, OpenedType DEF PermIInv, PermTypeOK, InTransaction
<1>4. MemoryAsOpened'
  BY <1>1, <1>2 DEF MemoryAsOpened
<1>5. \A k \in PermKinds \ permKinds : permObjs[k] # NoObjs[k] => k \in cutOff'
  BY <1>1, PermAssumption DEF PermIInv, Orphans
<1>6. Orphans'
  BY <1>1, <1>2, <1>5 DEF Orphans, OpensAgain, CanOpen, NoObjs
<1> QED BY <1>3, <1>4, <1>6 DEF PermIInv

\* Every step keeps the invariant.
LEMMA PermStepKeeps == PermIInv /\ [PermNext]_permVars => PermIInv'
<1> SUFFICES ASSUME PermIInv, [PermNext]_permVars PROVE PermIInv'
  OBVIOUS
<1>1. CASE BeginPut \/ EndPut \/ AbortPut
  BY <1>1, PutRequestKeeps
<1>2. CASE DelKindEnd
  BY <1>2, DelKindEndKeeps
<1>3. CASE Reopen
  BY <1>3, ReopenKeeps
<1>4. ASSUME NEW key \in PutKeys, NEW ops \in Operations, NEW c \in Callers,
             PutPermission(key[1], key[2], ops, c)
      PROVE  PermIInv'
  BY <1>4, PutKeeps, PermAssumption
<1>5. ASSUME NEW k \in PermKinds, RegisterKind(k) \/ DelKindBatch(k) \/ DelSmallKind(k)
      PROVE  PermIInv'
  BY <1>5, KindChangesKeep
<1>6. CASE UNCHANGED permVars
  BY <1>6 DEF permVars, PermIInv, PermTypeOK, InTransaction, MemoryAsOpened, Orphans, OpensAgain
<1> QED BY <1>1, <1>2, <1>3, <1>4, <1>5, <1>6 DEF PermNext

\* What is decided of a kind rests on its entries and on those of its super kind.
LEMMA SameDecision ==
  ASSUME NEW t \in PermMap, NEW u \in PermMap, NEW k \in PermKinds, NEW c, NEW op,
         t[k] = u[k], SuperOf[k] # "none" => t[SuperOf[k]] = u[SuperOf[k]]
  PROVE  Allows(t, k, c, op) = Allows(u, k, c, op)
<1>1. ASSUME NEW a, t[a] = u[a] PROVE Check(t, a, c, op) = Check(u, a, c, op)
  BY <1>1 DEF Check, Match, Entry
<1>2. ObjectPermission(t, k, c, op) = ObjectPermission(u, k, c, op)
  BY <1>1 DEF ObjectPermission
<1> QED BY <1>2 DEF Allows

\* Decisions of an idle database are those of the next open, where nothing is stale.
LEMMA IdleDecides == PermIInv => RestartKeepsDecisions
<1> SUFFICES ASSUME PermIInv, putReq.pc = "idle",
                    NEW k \in PermKinds, NEW c \in Callers, NEW op \in Ops,
                    \A n \in Names : <<k, n>> \notin stale /\ <<SuperOf[k], n>> \notin stale
             PROVE  Allows(m_types, k, c, op) = Allows(Opened(permObjs), k, c, op)
  BY DEF RestartKeepsDecisions
<1>1. m_types \in PermMap /\ Opened(permObjs) \in PermMap /\ putReq.wrote = {}
  BY OpenedType DEF PermIInv, PermTypeOK
<1>2. ASSUME NEW a \in PermKinds, \A n \in Names : <<a, n>> \notin stale
      PROVE  m_types[a] = Opened(permObjs)[a]
  <2>1. \A n \in Names : m_types[a][n] = Opened(permObjs)[a][n]
    BY <1>1, <1>2 DEF PermIInv, MemoryAsOpened
  <2> QED BY <1>1, <2>1 DEF PermMap
<1>3. m_types[k] = Opened(permObjs)[k]
  BY <1>2
<1>4. SuperOf[k] # "none" => m_types[SuperOf[k]] = Opened(permObjs)[SuperOf[k]]
  BY <1>2, PermAssumption
<1> HIDE DEF Opened
<1> QED BY <1>1, <1>3, <1>4, SameDecision

\* The lookup finds the most specific of the entries that apply.
LEMMA SpecificFound ==
  ASSUME NEW k \in PermKinds, NEW n \in Entry(m_types, k), NEW c, AppliesTo(n, c),
         \A w \in Entry(m_types, k) \ {n} : AppliesTo(w, c) => Outranks(n, w, c)
  PROVE  Match(m_types, k, c) = {n}
<1>1. \A w \in Entry(m_types, k) : Len(w) \in Nat
  BY PermAssumption DEF Entry
<1>2. CASE c \in Entry(m_types, k)
  BY <1>2 DEF Match, AppliesTo, Outranks
<1>3. CASE c \notin Entry(m_types, k)
  BY <1>1, <1>3 DEF Match, AppliesTo, Outranks
<1> QED BY <1>2, <1>3

\* Whatever else applies, what the most specific entry denies is denied.
LEMMA SpecificDecides == MostSpecificDecides
<1> SUFFICES ASSUME NEW k \in PermKinds, NEW n \in Entry(m_types, k), NEW op \in Ops, NEW c \in Callers,
                    m_types[k][n][op] = "deny", AppliesTo(n, c),
                    \A w \in Entry(m_types, k) \ {n} : AppliesTo(w, c) => Outranks(n, w, c),
                    Allows(m_types, k, c, op)
             PROVE  HasOwnerPermission(k, c)
  BY DEF MostSpecificDecides
<1>1. Match(m_types, k, c) = {n}
  BY SpecificFound
<1>2. Check(m_types, k, c, op) = "deny"
  BY <1>1 DEF Check
<1> QED BY <1>2 DEF Allows, ObjectPermission

\* Whatever requests put, are refused and delete, and wherever a crash falls: a restart changes no
\* decision that is not excused, the most specific name decides, and the database opens again
\* (MojDbPermissionEngine::put and check, MojDbPutHandler::open, MojDb::delKind).
LEMMA PermissionsRestored == PermInit /\ [][PermNext]_permVars => []PermissionsKept
<1>1. PermIInv => PermissionsKept
  BY IdleDecides, SpecificDecides DEF PermissionsKept, PermIInv, Orphans
<1> QED BY <1>1, PermInitial, PermStepKeeps, PTL
-----------------------------------------------------------------------------
(* Opening, closing and changing the locale.                               *)

\* Where the main thread holds the schema lock.
Holding == {"objDb", "idSeq", "kinds", "permissions", "quotas", "end", "locale", "locale end", "reopen"}
\* Where the kinds are open for the locale that is stored.
KindsReady == {"permissions", "quotas", "end", "open", "locale end"}

LifeTypeOK ==
  /\ mainPc \in Holding \cup Windows \cup {"closed", "failed", "check version", "new version", "rename",
                                         "storage", "begin", "open"}
  /\ readerPc \in [Readers -> {"idle", "begin", "read"}]
  /\ schemaLock \subseteq Readers \cup {"main"}

\* The schema lock has the readers that read, or the main thread alone.
LockHeld ==
  /\ \A r \in Readers : r \in schemaLock <=> readerPc[r] = "read"
  /\ HoldsWrite <=> mainPc \in Holding
  /\ HoldsWrite => schemaLock = {"main"}

\* Requests come only to a database that is open.
NoneBeforeOpen == ~Serving => \A r \in Readers : readerPc[r] = "idle"

KindsSorted == "kinds" \in opened /\ \A k \in LocKinds : kindLocale[k] = storedLocale

LocaleKept ==
  ~reopenFailed => /\ mainPc \in KindsReady => KindsSorted
                   /\ mainPc = "locale" => "kinds" \in opened

LifeIInv == LifeTypeOK /\ LockHeld /\ NoneBeforeOpen /\ LocaleKept

\* The order in which open opens the parts.
LEMMA PartsOrder ==
  /\ Len(Parts) = 5
  /\ After("objDb") = "idSeq" /\ After("idSeq") = "kinds" /\ After("kinds") = "permissions"
  /\ After("permissions") = "quotas" /\ After("quotas") = "end"
  /\ \A i \in 1..5 : Parts[i] \in {"objDb", "idSeq", "kinds", "permissions", "quotas"}
  /\ Parts[1] = "objDb"
  /\ Openings = {"check version", "new version", "rename", "storage", "begin", "objDb", "idSeq", "kinds",
                 "permissions", "quotas", "end"}
<1>1. /\ Len(Parts) = 5 /\ Parts[1] = "objDb" /\ Parts[2] = "idSeq" /\ Parts[3] = "kinds"
      /\ Parts[4] = "permissions" /\ Parts[5] = "quotas"
  BY DEF Parts
<1> HIDE DEF Parts
<1>2. ASSUME NEW i \in 1..5 PROVE i = 1 \/ i = 2 \/ i = 3 \/ i = 4 \/ i = 5
  OBVIOUS
<1>3. ASSUME NEW i \in 1..5 PROVE (CHOOSE j \in 1..5 : Parts[j] = Parts[i]) = i
  BY <1>1, <1>2
<1>4. ASSUME NEW i \in 1..5 PROVE After(Parts[i]) = IF i = 5 THEN "end" ELSE Parts[i + 1]
  BY <1>1, <1>3 DEF After
<1>5. /\ After("objDb") = "idSeq" /\ After("idSeq") = "kinds" /\ After("kinds") = "permissions"
      /\ After("permissions") = "quotas" /\ After("quotas") = "end"
  BY <1>1, <1>4
<1>6. {Parts[i] : i \in 1..5} = {"objDb", "idSeq", "kinds", "permissions", "quotas"}
  BY <1>1, <1>2
<1> QED BY <1>1, <1>5, <1>6 DEF Openings

\* The invariant of the lifecycle holds at first.
LEMMA LifeInitial == LifeInit => LifeIInv
BY LifeAssumption DEF LifeInit, LifeIInv, LifeTypeOK, LockHeld, HoldsWrite, NoneBeforeOpen, Serving,
   LocaleKept, Holding, KindsReady, Windows

\* Opening and closing.
LEMMA OpeningKeeps ==
  ASSUME LifeIInv, OpenBegin \/ OpenStep \/ OpenFails \/ Close \/ Drop \/ LifeCrash
  PROVE  LifeIInv'
<1> USE LifeAssumption, PartsOrder DEF LifeIInv, LifeTypeOK, LockHeld, HoldsWrite, NoneBeforeOpen, Serving,
      LocaleKept, Holding, KindsReady, Windows, unchangedStore, unchangedLocale, TakeWrite, ReleaseWrite, KindsSorted
<1> HIDE DEF After, Parts, Openings
<1>1a. CASE OpenBegin
  BY <1>1a DEF OpenBegin
<1>1b. CASE CheckVersion
  BY <1>1b DEF CheckVersion
<1>1c. CASE WriteTemporary
  BY <1>1c DEF WriteTemporary
<1>1d. CASE RenameVersion
  BY <1>1d DEF RenameVersion
<1>1e. CASE OpenStorage
  BY <1>1e DEF OpenStorage
<1>2. CASE BeginOpenReq
  BY ZenonT(40), <1>2 DEF BeginOpenReq
<1>3. ASSUME NEW i \in 1..5, OpenPart(Parts[i]) PROVE LifeIInv'
  BY <1>3 DEF OpenPart
<1>4. CASE EndOpen
  BY <1>4 DEF EndOpen
<1>5. CASE OpenFails
  BY <1>5 DEF OpenFails
<1>6a. CASE Close
  BY <1>6a DEF Close, CloseAll
<1>6b. CASE Drop
  BY <1>6b DEF Drop, CloseAll
<1>6c. CASE LifeCrash
  BY <1>6c DEF LifeCrash
<1>7. CASE OpenStep
  BY <1>7, <1>1b, <1>1c, <1>1d, <1>1e, <1>2, <1>3, <1>4 DEF OpenStep
<1> QED BY <1>1a, <1>5, <1>6a, <1>6b, <1>6c, <1>7

\* A change of locale, and the kinds closed and opened again after one that fails.
LEMMA LocaleKeeps ==
  ASSUME LifeIInv,
         \/ \E l \in Locales : LocaleBegin(l)
         \/ \E k \in LocKinds : UpdateKindLocale(k)
         \/ LocaleCommit \/ LocaleEnd \/ LocaleFails \/ CloseKinds \/ ReopenBegin \/ ReopenKinds \/ ReopenFails
  PROVE  LifeIInv'
<1> USE LifeAssumption, PartsOrder DEF LifeIInv, LifeTypeOK, LockHeld, HoldsWrite, NoneBeforeOpen, Serving,
      LocaleKept, Holding, KindsReady, Windows, unchangedStore, unchangedLocale, TakeWrite, ReleaseWrite, KindsSorted
<1> HIDE DEF After, Parts, Openings
<1>1. ASSUME NEW l \in Locales, LocaleBegin(l) PROVE LifeIInv'
  BY ZenonT(40), <1>1 DEF LocaleBegin
<1>2. ASSUME NEW k \in LocKinds, UpdateKindLocale(k) PROVE LifeIInv'
  BY <1>2 DEF UpdateKindLocale
<1>3. CASE LocaleCommit
  BY <1>3 DEF LocaleCommit
<1>4. CASE LocaleEnd \/ LocaleFails
  BY ZenonT(40), <1>4 DEF LocaleEnd, LocaleFails
<1>5a. CASE CloseKinds
  BY <1>5a DEF CloseKinds
<1>5b. CASE ReopenBegin
  <2>1. LifeTypeOK'
    BY <1>5b DEF ReopenBegin
  <2>2. LockHeld'
    <3>1. /\ schemaLock = {} /\ schemaLock' = {"main"} /\ mainPc' = "reopen" /\ readerPc' = readerPc
          /\ \A r \in Readers : readerPc[r] # "read"
      BY <1>5b DEF ReopenBegin
    <3>2. HoldsWrite' /\ mainPc' \in Holding
      BY ONLY <3>1 DEF HoldsWrite, Holding
    <3> QED BY ONLY <3>1, <3>2, LifeAssumption DEF LockHeld
  <2>3. NoneBeforeOpen'
    BY <1>5b DEF ReopenBegin
  <2>4. LocaleKept'
    BY <1>5b DEF ReopenBegin
  <2> QED BY <2>1, <2>2, <2>3, <2>4 DEF LifeIInv
<1>6a. CASE ReopenKinds
  BY <1>6a DEF ReopenKinds
<1>6b. CASE ReopenFails
  BY <1>6b DEF ReopenFails
<1> QED BY <1>1, <1>2, <1>3, <1>4, <1>5a, <1>5b, <1>6a, <1>6b

\* Requests that read.
LEMMA ReaderKeeps ==
  ASSUME LifeIInv, NEW r \in Readers, RequireOpen(r) \/ ReadLock(r) \/ ReadEnd(r)
  PROVE  LifeIInv'
<1> USE LifeAssumption, PartsOrder DEF LifeIInv, LifeTypeOK, LockHeld, HoldsWrite, NoneBeforeOpen, Serving,
      LocaleKept, Holding, KindsReady, Windows, unchangedStore, unchangedLocale, KindsSorted
<1> HIDE DEF After, Parts, Openings
<1>1. CASE RequireOpen(r)
  <2>1. LifeTypeOK'
    BY <1>1 DEF RequireOpen
  <2>2. LockHeld'
    <3>1. /\ readerPc[r] = "idle" /\ readerPc' = [readerPc EXCEPT ![r] = "begin"]
          /\ UNCHANGED <<mainPc, schemaLock>> /\ readerPc \in [Readers -> {"idle", "begin", "read"}]
      BY <1>1 DEF RequireOpen
    <3>2. \A a \in Readers : readerPc'[a] = "read" <=> readerPc[a] = "read"
      BY ONLY <3>1
    <3>3. LockHeld
      OBVIOUS
    <3> QED BY ONLY <3>1, <3>2, <3>3 DEF LockHeld, HoldsWrite
  <2>3. NoneBeforeOpen'
    BY <1>1 DEF RequireOpen
  <2>4. LocaleKept'
    BY <1>1 DEF RequireOpen
  <2> QED BY <2>1, <2>2, <2>3, <2>4 DEF LifeIInv
<1>2. CASE ReadLock(r)
  BY <1>2 DEF ReadLock
<1>3. CASE ReadEnd(r)
  BY <1>3 DEF ReadEnd
<1> QED BY <1>1, <1>2, <1>3

\* Whoever reads the kinds sorts by the locale that is stored, or in the windows that are named: while
\* the kinds are closed after a change that failed, or could not be opened again (MojDb::updateLocale).
THEOREM ReadersSorted == LifeInit /\ [][LifeNext]_lifeVars => []SortedAsStored
<1>1. LifeIInv /\ [LifeNext]_lifeVars => LifeIInv'
  <2> SUFFICES ASSUME LifeIInv, [LifeNext]_lifeVars PROVE LifeIInv'
    OBVIOUS
  <2>1. CASE UNCHANGED lifeVars
    BY <2>1 DEF lifeVars, LifeIInv, LifeTypeOK, LockHeld, HoldsWrite, NoneBeforeOpen, Serving, LocaleKept, KindsSorted
  <2> QED BY <2>1, OpeningKeeps, LocaleKeeps, ReaderKeeps DEF LifeNext
<1>2. LifeIInv => SortedAsStored
  BY LifeAssumption, PartsOrder DEF LifeIInv, LifeTypeOK, LockHeld, HoldsWrite, NoneBeforeOpen, Serving,
     LocaleKept, Holding, KindsReady, Windows, KindsSorted, SortedAsStored
<1> QED BY <1>1, <1>2, LifeInitial, PTL
-----------------------------------------------------------------------------
(* The tokens of property names.                                           *)

NatLess == {ss \in Nat \X Nat : ss[1] < ss[2]}

\* A set of naturals that is not empty has a least member.
LEMMA LeastNat ==
  ASSUME NEW T, T \subseteq Nat, T # {}
  PROVE  \E x \in T : \A y \in T : x <= y
<1>1. IsWellFoundedOn(NatLess, Nat)
  BY NatLessThanWellFounded, Zenon DEF OpToRel, NatLess
<1>2. PICK x \in T : \A y \in T : <<y, x>> \notin NatLess
  BY <1>1, WFMin, Zenon
<1>3. \A a, b \in Nat : a < b => <<a, b>> \in NatLess
  BY DEF NatLess
<1>4. ASSUME NEW y \in T PROVE x <= y
  <2>1. x \in Nat /\ y \in Nat
    BY <1>4
  <2>2. ~ y < x
    BY <2>1, <1>2, <1>3, Zenon
  <2> QED BY <2>1, <2>2
<1> QED BY <1>4

\* One that is bounded has a greatest.
LEMMA GreatestNat ==
  ASSUME NEW n \in Nat, NEW T, T \subseteq 1..n, T # {}
  PROVE  \E x \in T : \A y \in T : y <= x
<1> DEFINE bounds == {b \in Nat : \A y \in T : y <= b}
<1>1. n \in bounds
  OBVIOUS
<1>2. PICK b \in bounds : \A c \in bounds : b <= c
  BY <1>1, LeastNat
<1>3. CASE b \in T
  BY <1>2, <1>3
<1>4. CASE b \notin T
  <2>1. \A y \in T : y < b /\ y >= 1
    BY <1>2, <1>4
  <2>2. b >= 1
    <3>1. PICK y \in T : y \in 1..n
      OBVIOUS
    <3> QED BY <3>1, <2>1
  <2>3. b - 1 \in bounds
    BY <2>1, <2>2
  <2> QED BY <1>2, <2>2, <2>3
<1> QED BY <1>3, <1>4

\* A sequence with one more element, of any kind.
LEMMA Longer ==
  ASSUME NEW S, NEW s \in Seq(S), NEW e
  PROVE  /\ Append(s, e) \in Seq(S \cup {e})
         /\ Len(Append(s, e)) = Len(s) + 1 /\ Len(s) \in Nat
         /\ \A i \in 1..Len(s) : Append(s, e)[i] = s[i]
         /\ Append(s, e)[Len(s) + 1] = e
<1>1. s \in Seq(S \cup {e})
  BY SeqMonotonic
<1> QED BY <1>1

\* A table of tokens and its vector: the names are distinct, each has its place for a token.
Matches(f, vec) ==
  /\ vec \in Seq(DOMAIN f)
  /\ f \in [DOMAIN f -> 1..Len(vec)]
  /\ \A p \in DOMAIN f : vec[f[p]] = p
  /\ \A i \in 1..Len(vec) : f[vec[i]] = i

Extends(f, g) == \A p \in DOMAIN f : p \in DOMAIN g /\ g[p] = f[p]

\* initTokens makes the vector again from the table.
LEMMA VecMade ==
  ASSUME NEW f, NEW vec, Matches(f, vec)
  PROVE  VecOf(f) = vec /\ Loads(f) /\ Matches(f, VecOf(f))
<1> DEFINE n == Len(vec)
<1>1. n \in Nat /\ \A i \in 1..n : vec[i] \in DOMAIN f /\ f[vec[i]] = i
  BY DEF Matches
<1>2. f \in Bijection(DOMAIN f, 1..n)
  <2>1. f \in Injection(DOMAIN f, 1..n)
    BY DEF Matches, Injection, IsInjective
  <2>2. f \in Surjection(DOMAIN f, 1..n)
    BY <1>1 DEF Matches, Surjection
  <2> QED BY <2>1, <2>2 DEF Bijection
<1>3. IsFiniteSet(1..n) /\ Cardinality(1..n) = n
  BY <1>1, FS_Interval
<1>4. Cardinality(DOMAIN f) = n
  BY <1>2, <1>3, FS_Injection DEF Bijection
<1>5. ASSUME NEW i \in 1..n PROVE VecOf(f)[i] = vec[i]
  <2>1. \A p \in DOMAIN f : f[p] = i => p = vec[i]
    BY DEF Matches
  <2> QED BY <1>1, <1>4, <2>1 DEF VecOf
<1>6. vec = [i \in 1..n |-> vec[i]]
  BY DEF Matches
<1>7. VecOf(f) = [i \in 1..n |-> VecOf(f)[i]]
  BY <1>4 DEF VecOf
<1>8. VecOf(f) = vec
  BY <1>5, <1>6, <1>7
<1> QED BY <1>4, <1>8 DEF Loads, Matches

\* The table without names.
LEMMA NoTokensMatch == Matches(NoTokens, <<>>) /\ \A g : Extends(NoTokens, g)
BY DEF Matches, NoTokens, Extends

\* The state of a kind whose table is in order.
StateOK(s) ==
  /\ s = [tokens |-> s.tokens, vec |-> s.vec, kind |-> s.kind]
  /\ Matches(s.tokens, s.vec)

Grown(s, u) == StateOK(u) /\ Extends(s.tokens, u.tokens) /\ u.kind = s.kind

\* addPropImpl gives a name its token and keeps those of the others.
LEMMA TokenGrows ==
  ASSUME NEW s, StateOK(s), NEW p, p \notin DOMAIN s.tokens
  PROVE  Grown(s, WithToken(s, p)) /\ p \in DOMAIN WithToken(s, p).tokens
<1> DEFINE u == WithToken(s, p)
           n == Len(s.vec)
<1>1. /\ u = [tokens |-> u.tokens, vec |-> u.vec, kind |-> s.kind]
      /\ u.vec = Append(s.vec, p)
      /\ u.tokens = [q \in DOMAIN s.tokens \cup {p} |-> IF q = p THEN n + 1 ELSE s.tokens[q]]
  BY DEF WithToken
<1>2. /\ u.vec \in Seq(DOMAIN s.tokens \cup {p}) /\ Len(u.vec) = n + 1 /\ n \in Nat
      /\ \A i \in 1..n : u.vec[i] = s.vec[i]
      /\ u.vec[n + 1] = p
  BY <1>1, Longer DEF StateOK, Matches
<1> HIDE DEF u
<1>3. /\ DOMAIN u.tokens = DOMAIN s.tokens \cup {p} /\ u.tokens[p] = n + 1
      /\ \A q \in DOMAIN s.tokens : u.tokens[q] = s.tokens[q] /\ s.tokens[q] \in 1..n /\ s.vec[s.tokens[q]] = q
      /\ \A i \in 1..n : s.vec[i] \in DOMAIN s.tokens /\ s.tokens[s.vec[i]] = i
  BY <1>1 DEF StateOK, Matches
<1>4. u.tokens \in [DOMAIN u.tokens -> 1..(n + 1)]
  <2>1. \A q \in DOMAIN u.tokens : u.tokens[q] \in 1..(n + 1)
    BY <1>2, <1>3
  <2>2. u.tokens = [q \in DOMAIN u.tokens |-> u.tokens[q]]
    BY <1>1
  <2> QED BY <2>1, <2>2
<1>5. \A q \in DOMAIN u.tokens : u.vec[u.tokens[q]] = q
  BY <1>2, <1>3
<1>6. ASSUME NEW i \in 1..(n + 1) PROVE u.tokens[u.vec[i]] = i
  <2>1. CASE i = n + 1
    BY <2>1, <1>2, <1>3
  <2>2. CASE i \in 1..n
    BY <2>2, <1>2, <1>3
  <2> QED BY <2>1, <2>2, <1>2
<1>7. Matches(u.tokens, u.vec)
  BY <1>2, <1>3, <1>4, <1>5, <1>6 DEF Matches
<1> QED BY <1>1, <1>3, <1>7 DEF Grown, StateOK, Extends, u

\* So does the loop of initTokens, a name at a time.
LEMMA StringGrows ==
  ASSUME NEW s, NEW u, Grown(s, u), NEW p
  PROVE  Grown(s, AddString(u, p))
<1>1. CASE p \in DOMAIN u.tokens \/ ~HasRoom(u)
  BY <1>1 DEF AddString
<1>2. CASE ~(p \in DOMAIN u.tokens \/ ~HasRoom(u))
  <2>1. Grown(u, WithToken(u, p))
    BY <1>2, TokenGrows DEF Grown
  <2>2. AddString(u, p) = WithToken(u, p)
    BY <1>2 DEF AddString
  <2> QED BY <2>1, <2>2 DEF Grown, Extends
<1> QED BY <1>1, <1>2
\* The loop over the missing names, up to the n-th.
LoopTo(after, s, names, n) ==
  after = [i \in 0..n |-> IF i = 0 THEN s ELSE AddString(after[i - 1], Nth(names, i))]

\* There is such a function for each number of names.
LEMMA LoopExists ==
  ASSUME NEW s, NEW names, NEW n \in Nat
  PROVE  \E after : LoopTo(after, s, names, n)
<1> DEFINE T == {k \in Nat : ~ \E after : LoopTo(after, s, names, k)}
<1> SUFFICES ASSUME T # {} PROVE FALSE
  OBVIOUS
<1>1. PICK k \in T : \A j \in T : k <= j
  BY LeastNat
<1>2. CASE k = 0
  <2>1. LoopTo([i \in 0..0 |-> s], s, names, 0)
    BY DEF LoopTo
  <2> QED BY <1>2, <2>1
<1>3. CASE k # 0
  <2>1. k \in Nat /\ k - 1 \in Nat /\ k - 1 \notin T
    BY <1>1, <1>3
  <2>2. PICK f : LoopTo(f, s, names, k - 1)
    BY <2>1
  <2> DEFINE g == [i \in 0..k |-> IF i <= k - 1 THEN f[i] ELSE AddString(f[k - 1], Nth(names, k))]
  <2>3. ASSUME NEW i \in 0..k PROVE g[i] = IF i = 0 THEN s ELSE AddString(g[i - 1], Nth(names, i))
    <3>1. CASE i <= k - 1
      <4>1. g[i] = f[i] /\ f[i] = IF i = 0 THEN s ELSE AddString(f[i - 1], Nth(names, i))
        BY <2>1, <2>2, <3>1 DEF LoopTo
      <4>2. i # 0 => g[i - 1] = f[i - 1]
        BY <2>1, <3>1
      <4> QED BY <4>1, <4>2
    <3>2. CASE i = k
      <4>1. g[i] = AddString(f[k - 1], Nth(names, k)) /\ g[i - 1] = f[k - 1]
        BY <2>1, <3>2
      <4> QED BY <4>1, <3>2, <1>3
    <3> QED BY <3>1, <3>2, <2>1
  <2>4. g = [i \in 0..k |-> g[i]]
    OBVIOUS
  <2> HIDE DEF g
  <2>5. LoopTo(g, s, names, k)
    BY <2>3, <2>4 DEF LoopTo
  <2> QED BY <2>5, <1>1
<1> QED BY <1>2, <1>3

\* initTokens keeps the tokens that were loaded, and changes nothing when no name is missing.
LEMMA StringsGrow ==
  ASSUME NEW s, StateOK(s), NEW strings, IsFiniteSet(strings)
  PROVE  /\ Grown(s, AddStrings(s, strings))
         /\ strings \ DOMAIN s.tokens = {} => AddStrings(s, strings) = s
<1> DEFINE missing == strings \ DOMAIN s.tokens
           n == Cardinality(missing)
<1>1. n \in Nat /\ (missing = {} => n = 0)
  BY FS_Subset, FS_CardinalityType, FS_EmptySet
<1>2. PICK a : LoopTo(a, s, missing, n)
  BY <1>1, LoopExists
<1> DEFINE after == CHOOSE f : LoopTo(f, s, missing, n)
<1>3. LoopTo(after, s, missing, n)
  BY <1>2
<1>4. AddStrings(s, strings) = after[n]
  BY DEF AddStrings, LoopTo
<1> HIDE DEF after
<1>5. after[0] = s
  BY <1>1, <1>3 DEF LoopTo
<1>6. ASSUME NEW i \in 1..n PROVE after[i] = AddString(after[i - 1], Nth(missing, i))
  <2>1. i \in 0..n /\ i # 0
    BY <1>1
  <2> HIDE DEF n, missing
  <2> QED BY <1>3, <2>1 DEF LoopTo
<1> DEFINE T == {i \in 0..n : ~Grown(s, after[i])}
<1>7. T = {}
  <2> SUFFICES ASSUME T # {} PROVE FALSE
    OBVIOUS
  <2> T \subseteq Nat
    BY <1>1
  <2>1. PICK i \in T : \A j \in T : i <= j
    <3> HIDE DEF T
    <3> QED BY LeastNat
  <2>2. i # 0
    BY <1>5, <2>1 DEF Grown, Extends
  <2>3. i - 1 \in 0..n /\ i - 1 \notin T
    BY <1>1, <2>1, <2>2
  <2>4. Grown(s, AddString(after[i - 1], Nth(missing, i)))
    BY <2>3, StringGrows
  <2> QED BY <1>1, <1>6, <2>1, <2>2, <2>4
<1>8. Grown(s, after[n])
  BY <1>1, <1>7
<1> QED BY <1>1, <1>4, <1>5, <1>8

-----------------------------------------------------------------------------
(* What is written, and what a crash leaves of it.                         *)

Is(log, i, what) == i \in 1..Len(log) /\ log[i].what = what

\* readObj finds the last write of a kind, or nothing.
LEMMA LastFound ==
  ASSUME NEW log, Len(log) \in Nat, NEW what, NEW default
  PROVE  \/ LastOf(log, what, default) = default /\ \A i : ~Is(log, i, what)
         \/ \E m : /\ Is(log, m, what) /\ LastOf(log, what, default) = log[m]
                   /\ \A i : Is(log, i, what) => i <= m
<1> DEFINE at == {i \in 1..Len(log) : log[i].what = what}
<1>1. \A i : i \in at <=> Is(log, i, what)
  BY DEF Is
<1>2. CASE at = {}
  BY <1>1, <1>2 DEF LastOf
<1>3. CASE at # {}
  <2>1. \E m \in at : \A i \in at : i <= m
    BY <1>3, GreatestNat
  <2> DEFINE m == CHOOSE i \in at : \A j \in at : j <= i
  <2>2. m \in at /\ \A i \in at : i <= m
    BY <2>1
  <2>3. LastOf(log, what, default) = log[m]
    BY <1>3 DEF LastOf
  <2> QED BY <1>1, <2>2, <2>3
<1> QED BY <1>2, <1>3

\* Tables in the log are in order, each extends the earlier ones; the kind is written once.
LogOK(log) ==
  /\ \A i : Is(log, i, "tokens") => Matches(log[i].val, VecOf(log[i].val))
  /\ \A i, j : Is(log, i, "tokens") /\ Is(log, j, "tokens") /\ i <= j => Extends(log[i].val, log[j].val)
  /\ \A i : Is(log, i, "kind") => log[i].kind # NoToken
  /\ \A i, j : Is(log, i, "kind") /\ Is(log, j, "kind") => i = j

\* The tokens of an object, and of its kind, were written before it.
ObjOK(log, i) ==
  /\ \A p \in DOMAIN log[i].val : log[i].val[p] # NoToken =>
       \E j : /\ Is(log, j, "tokens") /\ j <= i
             /\ p \in DOMAIN log[j].val /\ log[j].val[p] = log[i].val[p]
  /\ \E j : Is(log, j, "kind") /\ j <= i /\ log[j].kind = log[i].kind

\* What is loaded from a log in order.
LEMMA StoredOK ==
  ASSUME NEW log, Len(log) \in Nat, LogOK(log)
  PROVE  /\ Matches(StoredTokens(log), VecOf(StoredTokens(log)))
         /\ \A i : Is(log, i, "tokens") => Extends(log[i].val, StoredTokens(log))
         /\ \A p \in DOMAIN StoredTokens(log) :
              \E m : Is(log, m, "tokens") /\ p \in DOMAIN log[m].val /\ log[m].val[p] = StoredTokens(log)[p]
         /\ StoredKind(log) = NoToken => \A i : ~Is(log, i, "kind")
         /\ StoredKind(log) # NoToken => \E m : Is(log, m, "kind") /\ log[m].kind = StoredKind(log)
         /\ \A i : Is(log, i, "kind") => log[i].kind = StoredKind(log)
<1>1. \/ StoredTokens(log) = NoTokens /\ \A i : ~Is(log, i, "tokens")
      \/ \E m : /\ Is(log, m, "tokens") /\ StoredTokens(log) = log[m].val
                /\ \A i : Is(log, i, "tokens") => i <= m
  <2>1. TokensWrite(NoTokens).val = NoTokens
    BY DEF TokensWrite
  <2> QED BY <2>1, LastFound DEF StoredTokens
<1>2. \/ StoredKind(log) = NoToken /\ \A i : ~Is(log, i, "kind")
      \/ \E m : Is(log, m, "kind") /\ StoredKind(log) = log[m].kind
  <2>1. KindWrite(NoToken).kind = NoToken
    BY DEF KindWrite
  <2> QED BY <2>1, LastFound DEF StoredKind
<1>3. Matches(NoTokens, VecOf(NoTokens)) /\ DOMAIN NoTokens = {}
  BY NoTokensMatch, VecMade DEF NoTokens
<1> QED BY <1>1, <1>2, <1>3 DEF LogOK

\* A crash leaves a prefix, which is in order like the whole.
LEMMA PrefixOK ==
  ASSUME NEW S, NEW log \in Seq(S), NEW n \in 0..Len(log)
  PROVE  /\ SubSeq(log, 1, n) \in Seq(S) /\ Len(SubSeq(log, 1, n)) = n
         /\ \A i, what : Is(SubSeq(log, 1, n), i, what) <=> i <= n /\ Is(log, i, what)
         /\ \A i \in 1..n : SubSeq(log, 1, n)[i] = log[i]
         /\ LogOK(log) => LogOK(SubSeq(log, 1, n))
         /\ \A i \in 1..n : ObjOK(log, i) => ObjOK(SubSeq(log, 1, n), i)
<1> DEFINE left == SubSeq(log, 1, n)
<1>1. left \in Seq(S) /\ Len(left) = n /\ \A i \in 1..n : left[i] = log[i]
  OBVIOUS
<1> HIDE DEF left
<1>2. \A i, what : Is(left, i, what) <=> i <= n /\ Is(log, i, what)
  BY <1>1 DEF Is
<1>3. LogOK(log) => LogOK(left)
  BY <1>1, <1>2 DEF LogOK, Is
<1>4. ASSUME NEW i \in 1..n, ObjOK(log, i) PROVE ObjOK(left, i)
  BY <1>1, <1>2, <1>4 DEF ObjOK, Is
<1> QED BY <1>1, <1>2, <1>3, <1>4 DEF left

\* With a log in order the tokens of an object resolve, by what is stored and by what extends it.
LEMMA ObjResolves ==
  ASSUME NEW log, Len(log) \in Nat, LogOK(log), NEW i, ObjOK(log, i),
         NEW f, NEW vec, Matches(f, vec), \A j : Is(log, j, "tokens") => Extends(log[j].val, f)
  PROVE  Resolves(log, i, f, vec)
<1> SUFFICES ASSUME NEW p \in DOMAIN log[i].val, log[i].val[p] # NoToken
             PROVE  /\ log[i].val[p] <= Len(vec) /\ vec[log[i].val[p]] = p
                    /\ f[p] = log[i].val[p]
  BY DEF Resolves
<1>1. p \in DOMAIN f /\ f[p] = log[i].val[p]
  BY DEF ObjOK, Extends
<1> QED BY <1>1 DEF Matches
\* One more write: the others stay.
LEMMA OneMore ==
  ASSUME NEW S, NEW log \in Seq(S), NEW w, NEW l, NEW what, l = Append(log, w)
  PROVE  \A i : Is(l, i, what) <=> Is(log, i, what) \/ (i = Len(log) + 1 /\ w.what = what)
BY Longer DEF Is

\* The objects written before still have their tokens written.
LEMMA ObjStays ==
  ASSUME NEW S, NEW log \in Seq(S), NEW w, NEW l, NEW i \in 1..Len(log), l = Append(log, w), ObjOK(log, i)
  PROVE  ObjOK(l, i)
<1>1. \A k \in 1..Len(log) : l[k] = log[k]
  BY Longer
<1>2. \A j, what : Is(log, j, what) => Is(l, j, what) /\ l[j] = log[j]
  BY Longer DEF Is
<1> QED BY ONLY <1>1, <1>2, ObjOK(log, i), i \in 1..Len(log) DEF ObjOK

\* The last write of its kind is that one, the last of another kind stays.
LEMMA LastStays ==
  ASSUME NEW S, NEW log \in Seq(S), NEW w, NEW what, NEW default
  PROVE  /\ w.what = what => LastOf(Append(log, w), what, default) = w
         /\ w.what # what => LastOf(Append(log, w), what, default) = LastOf(log, what, default)
<1> DEFINE l == Append(log, w)
<1>1. /\ Len(l) = Len(log) + 1 /\ Len(log) \in Nat
      /\ \A i \in 1..Len(log) : l[i] = log[i]
      /\ l[Len(log) + 1] = w
  BY Longer
<1>2. \A i : Is(l, i, what) <=> Is(log, i, what) \/ (i = Len(log) + 1 /\ w.what = what)
  BY OneMore
<1> HIDE DEF l
<1>3. ASSUME w.what = what PROVE LastOf(l, what, default) = w
  <2>1. Is(l, Len(log) + 1, what)
    BY <1>2, <1>3
  <2>2. PICK m : Is(l, m, what) /\ LastOf(l, what, default) = l[m] /\ \A i : Is(l, i, what) => i <= m
    BY ONLY <1>1, <2>1, LastFound
  <2>3. m = Len(log) + 1
    BY <1>1, <2>1, <2>2 DEF Is
  <2> QED BY <1>1, <1>3, <2>2, <2>3
<1>4. ASSUME w.what # what PROVE LastOf(l, what, default) = LastOf(log, what, default)
  <2>1. \A i : Is(l, i, what) <=> Is(log, i, what)
    BY <1>2, <1>4
  <2>2. CASE \A i : ~Is(log, i, what)
    BY ONLY <1>1, <1>4, <2>1, <2>2, LastFound
  <2>3. CASE \E i : Is(log, i, what)
    <3>1. PICK m : Is(l, m, what) /\ LastOf(l, what, default) = l[m] /\ \A i : Is(l, i, what) => i <= m
      BY ONLY <1>1, <2>1, <2>3, LastFound
    <3>2. PICK n : Is(log, n, what) /\ LastOf(log, what, default) = log[n] /\ \A i : Is(log, i, what) => i <= n
      BY ONLY <1>1, <2>3, LastFound
    <3>3. m = n /\ n \in 1..Len(log)
      BY <1>1, <2>1, <3>1, <3>2 DEF Is
    <3> QED BY <1>1, <1>4, <3>1, <3>2, <3>3
  <2> QED BY <2>2, <2>3
<1> QED BY <1>3, <1>4 DEF l

\* The log, with the objects that are not excused.
LogInv(log, excused) ==
  /\ \E S : log \in Seq(S)
  /\ LogOK(log)
  /\ \A i : Is(log, i, "object") /\ i \notin excused => ObjOK(log, i)

\* writeTokens: the table extends what was stored.
LEMMA TokensWritten ==
  ASSUME NEW log, NEW excused, LogInv(log, excused), NEW f, Matches(f, VecOf(f)),
         \A i : Is(log, i, "tokens") => Extends(log[i].val, f)
  PROVE  /\ LogInv(Append(log, TokensWrite(f)), excused)
         /\ StoredTokens(Append(log, TokensWrite(f))) = f /\ StoredKind(Append(log, TokensWrite(f))) = StoredKind(log)
         /\ \A i : Is(Append(log, TokensWrite(f)), i, "tokens") => Extends(Append(log, TokensWrite(f))[i].val, f)
         /\ \A i : Is(Append(log, TokensWrite(f)), i, "kind") <=> Is(log, i, "kind")
<1> DEFINE w == TokensWrite(f)
           l == Append(log, w)
<1>1. w.what = "tokens" /\ w.val = f
  BY DEF TokensWrite
<1>2. PICK S : log \in Seq(S)
  BY DEF LogInv
<1>l. l = Append(log, w)
  OBVIOUS
<1> HIDE DEF l, w
<1> DEFINE n == Len(log)
<1>3. /\ l \in Seq(S \cup {w}) /\ n \in Nat
      /\ \A i \in 1..n : l[i] = log[i]
      /\ l[n + 1] = w
  BY ONLY <1>2, <1>l, Longer
<1>a. \A i \in 1..n : ObjOK(log, i) => ObjOK(l, i)
  BY ONLY <1>2, <1>l, ObjStays
<1>b. /\ \A i : Is(l, i, "kind") <=> Is(log, i, "kind") \/ (i = n + 1 /\ w.what = "kind")
      /\ \A i : Is(l, i, "tokens") <=> Is(log, i, "tokens") \/ (i = n + 1 /\ w.what = "tokens")
      /\ \A i : Is(l, i, "object") <=> Is(log, i, "object") \/ (i = n + 1 /\ w.what = "object")
  BY ONLY <1>2, <1>l, OneMore
<1>4. \A i, what : Is(log, i, what) => i \in 1..n /\ l[i] = log[i]
  BY <1>3 DEF Is
<1> HIDE DEF n
<1>5. \A i : Is(l, i, "tokens") => (Is(log, i, "tokens") /\ i \in 1..n /\ l[i] = log[i]) \/ (i = n + 1 /\ l[i].val = f)
  <2>1. \A i : Is(l, i, "tokens") => Is(log, i, "tokens") \/ i = n + 1
    BY <1>b
  <2>2. l[n + 1].val = f
    BY ONLY <1>1, <1>3
  <2>3. \A i : Is(l, i, "tokens") => (Is(log, i, "tokens") /\ i \in 1..n /\ l[i] = log[i]) \/ i = n + 1
    BY ONLY <1>4, <2>1, Zenon
  <2> QED BY ONLY <2>2, <2>3, Zenon
<1>6. \A i : Is(l, i, "kind") <=> Is(log, i, "kind")
  BY <1>1, <1>3, <1>b
<1>7. \A i : Is(l, i, "object") <=> Is(log, i, "object")
  BY <1>1, <1>3, <1>b
<1>8. Extends(f, f)
  BY DEF Extends
<1>9. \A i, j : i \in 1..n /\ j = n + 1 => ~ j <= i
  BY <1>3
<1>10. LogOK(l)
  BY <1>4, <1>5, <1>6, <1>8, <1>9 DEF LogOK, LogInv
<1>11. LogInv(l, excused)
  BY <1>2, <1>3, <1>a, <1>4, <1>7, <1>10 DEF LogInv
<1>12. StoredTokens(l) = f /\ StoredKind(l) = StoredKind(log)
  <2>1. LastOf(l, "tokens", TokensWrite(NoTokens)) = w
    BY ONLY <1>1, <1>2, <1>l, LastStays
  <2>2. LastOf(l, "kind", KindWrite(NoToken)) = LastOf(log, "kind", KindWrite(NoToken))
    BY ONLY <1>1, <1>2, <1>l, LastStays
  <2> QED BY ONLY <1>1, <2>1, <2>2 DEF StoredTokens, StoredKind
<1>13. \A i : Is(l, i, "tokens") => Extends(l[i].val, f)
  BY <1>5, <1>8
<1> QED BY ONLY <1>11, <1>12, <1>13, <1>6 DEF l, w

\* writeIds: the kind has no token yet.
LEMMA KindWritten ==
  ASSUME NEW log, NEW excused, LogInv(log, excused), NEW k, k # NoToken, \A i : ~Is(log, i, "kind")
  PROVE  /\ LogInv(Append(log, KindWrite(k)), excused)
         /\ StoredTokens(Append(log, KindWrite(k))) = StoredTokens(log) /\ StoredKind(Append(log, KindWrite(k))) = k
         /\ \A f : (\A i : Is(log, i, "tokens") => Extends(log[i].val, f))
                   => \A i : Is(Append(log, KindWrite(k)), i, "tokens") => Extends(Append(log, KindWrite(k))[i].val, f)
<1> DEFINE w == KindWrite(k)
           l == Append(log, w)
<1>1. w.what = "kind" /\ w.kind = k
  BY DEF KindWrite
<1>2. PICK S : log \in Seq(S)
  BY DEF LogInv
<1>l. l = Append(log, w)
  OBVIOUS
<1> HIDE DEF l, w
<1> DEFINE n == Len(log)
<1>3. /\ l \in Seq(S \cup {w}) /\ n \in Nat
      /\ \A i \in 1..n : l[i] = log[i]
      /\ l[n + 1] = w
  BY ONLY <1>2, <1>l, Longer
<1>a. \A i \in 1..n : ObjOK(log, i) => ObjOK(l, i)
  BY ONLY <1>2, <1>l, ObjStays
<1>b. /\ \A i : Is(l, i, "kind") <=> Is(log, i, "kind") \/ (i = n + 1 /\ w.what = "kind")
      /\ \A i : Is(l, i, "tokens") <=> Is(log, i, "tokens") \/ (i = n + 1 /\ w.what = "tokens")
      /\ \A i : Is(l, i, "object") <=> Is(log, i, "object") \/ (i = n + 1 /\ w.what = "object")
  BY ONLY <1>2, <1>l, OneMore
<1>4. \A i, what : Is(log, i, what) => i \in 1..n /\ l[i] = log[i]
  BY <1>3 DEF Is
<1> HIDE DEF n
<1>5. \A i : Is(l, i, "kind") <=> i = n + 1
  BY <1>1, <1>3, <1>b
<1>6. \A i : Is(l, i, "tokens") <=> Is(log, i, "tokens")
  BY <1>1, <1>3, <1>b
<1>7. \A i : Is(l, i, "object") <=> Is(log, i, "object")
  BY <1>1, <1>3, <1>b
<1>8. LogOK(l)
  <2>1. LogOK(log) /\ k # NoToken
    BY DEF LogInv
  <2> QED BY ONLY <2>1, <1>1, <1>3, <1>4, <1>5, <1>6 DEF LogOK
<1>9. LogInv(l, excused)
  BY <1>2, <1>3, <1>a, <1>4, <1>7, <1>8 DEF LogInv
<1>10. StoredTokens(l) = StoredTokens(log) /\ StoredKind(l) = k
  <2>1. LastOf(l, "tokens", TokensWrite(NoTokens)) = LastOf(log, "tokens", TokensWrite(NoTokens))
    BY ONLY <1>1, <1>2, <1>l, LastStays
  <2>2. LastOf(l, "kind", KindWrite(NoToken)) = w
    BY ONLY <1>1, <1>2, <1>l, LastStays
  <2> QED BY ONLY <1>1, <2>1, <2>2 DEF StoredTokens, StoredKind
<1>11. \A f : (\A i : Is(log, i, "tokens") => Extends(log[i].val, f))
            => \A i : Is(l, i, "tokens") => Extends(l[i].val, f)
  BY <1>4, <1>6
<1> QED BY ONLY <1>9, <1>10, <1>11 DEF l, w

\* An object is written: with tokens and a kind that are stored, or excused.
LEMMA ObjWritten ==
  ASSUME NEW log, NEW excused, LogInv(log, excused), NEW obj, NEW k, NEW more, excused \subseteq more,
         \/ Len(log) + 1 \in more
         \/ /\ k # NoToken /\ StoredKind(log) = k
            /\ \A p \in DOMAIN obj : obj[p] # NoToken =>
                  p \in DOMAIN StoredTokens(log) /\ StoredTokens(log)[p] = obj[p]
  PROVE  /\ LogInv(Append(log, ObjWrite(obj, k)), more)
         /\ StoredTokens(Append(log, ObjWrite(obj, k))) = StoredTokens(log) /\ StoredKind(Append(log, ObjWrite(obj, k))) = StoredKind(log)
         /\ \A f : (\A i : Is(log, i, "tokens") => Extends(log[i].val, f))
                   => \A i : Is(Append(log, ObjWrite(obj, k)), i, "tokens") => Extends(Append(log, ObjWrite(obj, k))[i].val, f)
<1> DEFINE w == ObjWrite(obj, k)
           l == Append(log, w)
<1>1. w.what = "object" /\ w.val = obj /\ w.kind = k
  BY DEF ObjWrite
<1>2. PICK S : log \in Seq(S)
  BY DEF LogInv
<1>l. l = Append(log, w)
  OBVIOUS
<1> HIDE DEF l, w
<1> DEFINE n == Len(log)
<1>3. /\ l \in Seq(S \cup {w}) /\ n \in Nat
      /\ \A i \in 1..n : l[i] = log[i]
      /\ l[n + 1] = w
  BY ONLY <1>2, <1>l, Longer
<1>a. \A i \in 1..n : ObjOK(log, i) => ObjOK(l, i)
  BY ONLY <1>2, <1>l, ObjStays
<1>b. /\ \A i : Is(l, i, "kind") <=> Is(log, i, "kind") \/ (i = n + 1 /\ w.what = "kind")
      /\ \A i : Is(l, i, "tokens") <=> Is(log, i, "tokens") \/ (i = n + 1 /\ w.what = "tokens")
      /\ \A i : Is(l, i, "object") <=> Is(log, i, "object") \/ (i = n + 1 /\ w.what = "object")
  BY ONLY <1>2, <1>l, OneMore
<1>4. \A i, what : Is(log, i, what) => i \in 1..n /\ i <= n + 1 /\ l[i] = log[i]
  BY <1>3 DEF Is
<1>5. \A i : Is(l, i, "kind") <=> Is(log, i, "kind")
  BY <1>1, <1>3, <1>b
<1>6. \A i : Is(l, i, "tokens") <=> Is(log, i, "tokens")
  BY <1>1, <1>3, <1>b
<1>7. \A i : Is(l, i, "object") <=> Is(log, i, "object") \/ i = n + 1
  BY <1>1, <1>3, <1>b
<1>8. LogOK(l)
  BY <1>4, <1>5, <1>6 DEF LogOK, LogInv
<1>9. n + 1 \in more \/ ObjOK(l, n + 1)
  <2> SUFFICES ASSUME n + 1 \notin more PROVE ObjOK(l, n + 1)
    OBVIOUS
  <2>1. /\ \A p \in DOMAIN StoredTokens(log) :
              \E m : Is(log, m, "tokens") /\ p \in DOMAIN log[m].val /\ log[m].val[p] = StoredTokens(log)[p]
        /\ StoredKind(log) # NoToken => \E m : Is(log, m, "kind") /\ log[m].kind = StoredKind(log)
    BY <1>3, StoredOK DEF LogInv
  <2>2. \E j : Is(l, j, "kind") /\ j <= n + 1 /\ l[j].kind = k
    BY <1>4, <1>5, <2>1
  <2>3. ASSUME NEW p \in DOMAIN obj, obj[p] # NoToken
        PROVE  \E j : Is(l, j, "tokens") /\ j <= n + 1 /\ p \in DOMAIN l[j].val /\ l[j].val[p] = obj[p]
    BY <1>4, <1>6, <2>1, <2>3
  <2> HIDE DEF n
  <2> QED BY ONLY <1>1, <1>3, <2>2, <2>3 DEF ObjOK
<1>10. LogInv(l, more)
  BY <1>2, <1>3, <1>a, <1>4, <1>7, <1>8, <1>9 DEF LogInv
<1>11. StoredTokens(l) = StoredTokens(log) /\ StoredKind(l) = StoredKind(log)
  <2>1. LastOf(l, "tokens", TokensWrite(NoTokens)) = LastOf(log, "tokens", TokensWrite(NoTokens))
    BY ONLY <1>1, <1>2, <1>l, LastStays
  <2>2. LastOf(l, "kind", KindWrite(NoToken)) = LastOf(log, "kind", KindWrite(NoToken))
    BY ONLY <1>1, <1>2, <1>l, LastStays
  <2> QED BY ONLY <1>1, <2>1, <2>2 DEF StoredTokens, StoredKind
<1>12. \A f : (\A i : Is(log, i, "tokens") => Extends(log[i].val, f))
            => \A i : Is(l, i, "tokens") => Extends(l[i].val, f)
  BY <1>4, <1>6
<1> QED BY ONLY <1>10, <1>11, <1>12 DEF l, w
-----------------------------------------------------------------------------
(* The state in memory, and the requests.                                  *)

SharedInv ==
  /\ StateOK(shared)
  /\ \A i : Is(tokenLog, i, "tokens") => Extends(tokenLog[i].val, shared.tokens)
  /\ ~reload => /\ StoredTokens(tokenLog) = shared.tokens
                /\ StoredKind(tokenLog) = shared.kind
                /\ inKinds => shared.kind # NoToken

\* What a request knows and has written of the names is what the shared table says.
PutOK(q, f) ==
  /\ q.pc \in {"idle", "write"}
  /\ q.pc = "write" =>
       /\ Extends(q.tokens, f)
       /\ \A p \in DOMAIN q.obj : q.obj[p] # NoToken => p \in DOMAIN f /\ f[p] = q.obj[p]

PutsInv ==
  /\ puts = [r \in Putters |-> puts[r]]
  /\ \A r \in Putters : PutOK(puts[r], shared.tokens) /\ (puts[r].pc = "write" => inKinds)

KStateIInv == nextKind \in Nat \ {0} /\ LogInv(tokenLog, lapsed) /\ SharedInv /\ PutsInv

\* An empty log has nothing of any kind.
LEMMA EmptyLog ==
  /\ Len(<<>>) = 0 /\ \A i, what : ~Is(<<>>, i, what)
  /\ StoredTokens(<<>>) = NoTokens /\ StoredKind(<<>>) = NoToken
  /\ \A excused : LogInv(<<>>, excused)
<1>1. Len(<<>>) = 0
  OBVIOUS
<1>2. \A i, what : ~Is(<<>>, i, what)
  BY <1>1 DEF Is
<1>3. StoredTokens(<<>>) = NoTokens
  BY <1>1, <1>2, LastFound DEF StoredTokens, TokensWrite
<1>4. StoredKind(<<>>) = NoToken
  BY <1>1, <1>2, LastFound DEF StoredKind, KindWrite
<1>5. LogOK(<<>>)
  BY <1>2 DEF LogOK
<1>6. <<>> \in Seq({})
  OBVIOUS
<1> QED BY <1>1, <1>2, <1>3, <1>4, <1>5, <1>6 DEF LogInv

\* The invariant of the tokens holds at first.
LEMMA KStateInitial == KStateInit => KStateIInv
<1> SUFFICES ASSUME KStateInit PROVE KStateIInv
  OBVIOUS
<1>1. LogInv(tokenLog, lapsed)
  BY EmptyLog DEF KStateInit
<1>2. SharedInv
  <2>1. shared = [tokens |-> NoTokens, vec |-> <<>>, kind |-> NoToken]
    BY DEF KStateInit, Empty
  <2> QED BY <2>1, EmptyLog, NoTokensMatch DEF KStateInit, SharedInv, StateOK
<1>3. PutsInv
  BY DEF KStateInit, PutsInv, PutOK, IdlePut
<1> QED BY <1>1, <1>2, <1>3 DEF KStateIInv, KStateInit

\* What was true of a request stays true when the table grows.
LEMMA PutStays == ASSUME NEW q, NEW f, NEW g, PutOK(q, f), Extends(f, g) PROVE PutOK(q, g)
BY DEF PutOK, Extends

\* A name is written with the token that the table has for it, or without.
LEMMA NameWritten ==
  ASSUME PutsInv, NEW r \in Putters, NEW p, NextProp(r, p), NEW token, NEW tokens, NEW f,
         Extends(shared.tokens, f), Extends(tokens, f), token # NoToken => p \in DOMAIN f /\ f[p] = token,
         Wrote(r, p, token, tokens), shared'.tokens = f, UNCHANGED inKinds
  PROVE  PutsInv'
<1>1. puts[r].pc = "write" /\ PutOK(puts[r], shared.tokens) /\ inKinds
  BY DEF NextProp, PutsInv
<1> DEFINE obj == [q \in DOMAIN puts[r].obj \cup {p} |-> IF q = p THEN token ELSE puts[r].obj[q]]
<1>2. puts' = [puts EXCEPT ![r] = [pc |-> "write", tokens |-> tokens, todo |-> puts[r].todo \ {p}, obj |-> obj]]
  BY DEF Wrote
<1> HIDE DEF obj
<1>3. puts' = [a \in Putters |-> puts'[a]] /\ \A a \in Putters : a # r => puts'[a] = puts[a]
  BY <1>2 DEF PutsInv
<1>4. puts'[r].pc = "write" /\ puts'[r].tokens = tokens /\ puts'[r].obj = obj
  BY <1>2 DEF PutsInv
<1>5. \A q \in DOMAIN obj : obj[q] # NoToken => q \in DOMAIN f /\ f[q] = obj[q]
  BY <1>1 DEF obj, PutOK, Extends
<1>6. PutOK(puts'[r], f)
  BY <1>4, <1>5 DEF PutOK
<1>7. ASSUME NEW a \in Putters, a # r PROVE PutOK(puts'[a], f) /\ (puts'[a].pc = "write" => inKinds)
  BY <1>3, <1>7, PutStays DEF PutsInv
<1> QED BY <1>1, <1>3, <1>6, <1>7 DEF PutsInv

\* Putting an object: names that are known, shared or new.
LEMMA NamesKeep ==
  ASSUME KStateIInv, NEW r \in Putters, NEW p \in Props, KnownProp(r, p) \/ SharedProp(r, p)
  PROVE  KStateIInv'
<1>1. UNCHANGED <<shared, inKinds, tokenLog, nextKind, reload, lapsed>> /\ NextProp(r, p)
  BY DEF KnownProp, SharedProp, Unknown
<1>2. PutOK(puts[r], shared.tokens) /\ puts[r].pc = "write"
  BY <1>1 DEF KStateIInv, PutsInv, NextProp
<1>3. Extends(shared.tokens, shared.tokens)
  BY DEF Extends
<1>4. CASE KnownProp(r, p)
  <2>1. Wrote(r, p, puts[r].tokens[p], puts[r].tokens) /\ p \in DOMAIN puts[r].tokens
    BY <1>4 DEF KnownProp
  <2>2. Extends(puts[r].tokens, shared.tokens)
    BY <1>2 DEF PutOK
  <2>3. p \in DOMAIN shared.tokens /\ shared.tokens[p] = puts[r].tokens[p]
    BY <2>1, <2>2 DEF Extends
  <2>4. PutsInv'
    BY <1>1, <1>3, <2>1, <2>2, <2>3, NameWritten DEF KStateIInv
  <2> QED BY <1>1, <2>4 DEF KStateIInv, LogInv, SharedInv
<1>5. CASE SharedProp(r, p)
  <2> DEFINE t == IF p \in DOMAIN shared.tokens THEN shared.tokens[p] ELSE NoToken
  <2>1. Wrote(r, p, t, NoTokens)
    BY <1>5 DEF SharedProp
  <2>2. t # NoToken => p \in DOMAIN shared.tokens /\ shared.tokens[p] = t
    OBVIOUS
  <2> HIDE DEF t
  <2>3. PutsInv'
    BY <1>1, <1>3, <2>1, <2>2, NoTokensMatch, NameWritten DEF KStateIInv
  <2> QED BY <1>1, <2>3 DEF KStateIInv, LogInv, SharedInv
<1> QED BY <1>4, <1>5

\* A new token is stored before the object that needs it.
LEMMA AddTokenKeeps ==
  ASSUME KStateIInv, NEW r \in Putters, NEW p \in Props, AddToken(r, p)
  PROVE  KStateIInv'
<1>1. /\ shared' = WithToken(shared, p) /\ p \notin DOMAIN shared.tokens
      /\ tokenLog' = Append(tokenLog, TokensWrite(shared'.tokens))
      /\ UNCHANGED <<inKinds, nextKind, reload, lapsed>>
      /\ Wrote(r, p, shared'.tokens[p], shared'.tokens) /\ NextProp(r, p)
  BY DEF AddToken, Write, Unknown
<1>2. Grown(shared, shared') /\ p \in DOMAIN shared'.tokens
  BY <1>1, TokenGrows DEF KStateIInv, SharedInv
<1>3. /\ Extends(shared.tokens, shared'.tokens) /\ shared'.kind = shared.kind
      /\ Matches(shared'.tokens, VecOf(shared'.tokens))
      /\ StateOK(shared') /\ Extends(shared'.tokens, shared'.tokens)
  BY <1>2, VecMade DEF Grown, StateOK, Extends
<1>4. \A i : Is(tokenLog, i, "tokens") => Extends(tokenLog[i].val, shared'.tokens)
  BY <1>3 DEF KStateIInv, SharedInv, Extends
<1>5. /\ LogInv(tokenLog', lapsed)
      /\ StoredTokens(tokenLog') = shared'.tokens /\ StoredKind(tokenLog') = StoredKind(tokenLog)
      /\ \A i : Is(tokenLog', i, "tokens") => Extends(tokenLog'[i].val, shared'.tokens)
  BY <1>1, <1>3, <1>4, TokensWritten DEF KStateIInv
<1>6. SharedInv'
  BY <1>1, <1>3, <1>5 DEF KStateIInv, SharedInv
<1>7. PutsInv'
  BY <1>1, <1>2, <1>3, NameWritten DEF KStateIInv
<1> QED BY <1>1, <1>5, <1>6, <1>7 DEF KStateIInv

\* A request begins with a copy of the shared table, or gives up.
LEMMA BeginAbortKeep ==
  ASSUME KStateIInv, NEW r \in Putters, AbortObj(r) \/ \E props \in Objects : BeginObj(r, props)
  PROVE  KStateIInv'
<1>1. UNCHANGED <<shared, inKinds, tokenLog, nextKind, reload, lapsed>>
  BY DEF AbortObj, BeginObj
<1>2. ASSUME NEW new, PutOK(new, shared.tokens), new.pc = "write" => inKinds, puts' = [puts EXCEPT ![r] = new]
      PROVE  PutsInv'
  <2>1. puts' = [a \in Putters |-> puts'[a]] /\ puts'[r] = new /\ \A a \in Putters : a # r => puts'[a] = puts[a]
    BY <1>2 DEF KStateIInv, PutsInv
  <2> QED BY <1>1, <1>2, <2>1 DEF KStateIInv, PutsInv
<1>3. CASE AbortObj(r)
  <2>1. PutOK(IdlePut, shared.tokens) /\ IdlePut.pc # "write"
    BY DEF PutOK, IdlePut
  <2>2. puts' = [puts EXCEPT ![r] = IdlePut]
    BY <1>3 DEF AbortObj
  <2>3. PutsInv'
    BY ONLY <1>2, <2>1, <2>2
  <2> QED BY <1>1, <2>3 DEF KStateIInv, LogInv, SharedInv
<1>4. ASSUME NEW props \in Objects, BeginObj(r, props) PROVE KStateIInv'
  <2> DEFINE new == [pc |-> "write", tokens |-> shared.tokens, todo |-> props, obj |-> NoTokens]
  <2>1. puts' = [puts EXCEPT ![r] = new] /\ inKinds
    BY <1>4 DEF BeginObj
  <2>2. PutOK(new, shared.tokens)
    BY DEF PutOK, Extends, NoTokens
  <2> HIDE DEF new
  <2>3. PutsInv'
    BY <1>2, <2>1, <2>2
  <2> QED BY <1>1, <2>3 DEF KStateIInv, LogInv, SharedInv
<1> QED BY <1>3, <1>4

\* An object is written after its tokens; while a reload is due it is excused.
LEMMA CommitKeeps ==
  ASSUME KStateIInv, NEW r \in Putters, CommitObj(r)
  PROVE  KStateIInv'
<1> DEFINE obj == puts[r].obj
           l == Append(tokenLog, ObjWrite(obj, shared.kind))
<1>1. /\ tokenLog' = l /\ puts[r].pc = "write"
      /\ puts' = [puts EXCEPT ![r] = IdlePut]
      /\ UNCHANGED <<shared, inKinds, nextKind, reload>>
  BY DEF CommitObj, Write
<1>2. PICK S : tokenLog \in Seq(S)
  BY DEF KStateIInv, LogInv
<1>3. Len(l) = Len(tokenLog) + 1
  BY <1>2, Longer
<1>4. PutOK(puts[r], shared.tokens) /\ inKinds
  BY <1>1 DEF KStateIInv, PutsInv
<1>5. lapsed \subseteq lapsed' /\ (reload => Len(tokenLog) + 1 \in lapsed')
  BY <1>1, <1>3 DEF CommitObj
<1>6. ~reload => /\ shared.kind # NoToken /\ StoredKind(tokenLog) = shared.kind
                 /\ StoredTokens(tokenLog) = shared.tokens
  BY <1>4 DEF KStateIInv, SharedInv
<1>7. \A p \in DOMAIN obj : obj[p] # NoToken => p \in DOMAIN shared.tokens /\ shared.tokens[p] = obj[p]
  BY <1>1, <1>4 DEF PutOK
<1>8. \/ Len(tokenLog) + 1 \in lapsed'
      \/ /\ shared.kind # NoToken /\ StoredKind(tokenLog) = shared.kind
         /\ \A p \in DOMAIN obj : obj[p] # NoToken =>
              p \in DOMAIN StoredTokens(tokenLog) /\ StoredTokens(tokenLog)[p] = obj[p]
  BY <1>5, <1>6, <1>7
<1>9. LogInv(tokenLog, lapsed)
  BY DEF KStateIInv
<1> HIDE DEF obj
<1>10. /\ LogInv(l, lapsed')
       /\ StoredTokens(l) = StoredTokens(tokenLog) /\ StoredKind(l) = StoredKind(tokenLog)
       /\ \A f : (\A i : Is(tokenLog, i, "tokens") => Extends(tokenLog[i].val, f))
                 => \A i : Is(l, i, "tokens") => Extends(l[i].val, f)
  BY ONLY <1>5, <1>8, <1>9, ObjWritten
<1> HIDE DEF l
<1>11. SharedInv'
  <2>1. \A i : Is(l, i, "tokens") => Extends(l[i].val, shared.tokens)
    BY <1>10 DEF KStateIInv, SharedInv
  <2> QED BY <1>1, <1>10, <2>1 DEF KStateIInv, SharedInv
<1>12. PutsInv'
  <2>1. /\ puts' = [a \in Putters |-> puts'[a]] /\ puts'[r] = IdlePut
        /\ \A a \in Putters : a # r => puts'[a] = puts[a]
    BY <1>1 DEF KStateIInv, PutsInv
  <2> QED BY <1>1, <2>1 DEF KStateIInv, PutsInv, PutOK, IdlePut
<1> QED BY <1>1, <1>10, <1>11, <1>12 DEF KStateIInv

\* What a log in order is loaded as.
LEMMA LoadedOK ==
  ASSUME NEW log, NEW excused, LogInv(log, excused), NEW k
  PROVE  /\ StateOK(Loaded(log, k)) /\ Loaded(log, k).tokens = StoredTokens(log) /\ Loaded(log, k).kind = k
         /\ \A i : Is(log, i, "tokens") => Extends(log[i].val, StoredTokens(log))
<1>1. Len(log) \in Nat /\ LogOK(log)
  BY DEF LogInv
<1>2. /\ Matches(StoredTokens(log), VecOf(StoredTokens(log)))
      /\ \A i : Is(log, i, "tokens") => Extends(log[i].val, StoredTokens(log))
  BY <1>1, StoredOK
<1> QED BY <1>2 DEF StateOK, Loaded

\* No request is under way: the shared state may be replaced.
LEMMA IdlePuts == ASSUME PutsInv, Exclusive, UNCHANGED puts PROVE PutsInv'
BY DEF PutsInv, Exclusive, PutOK

\* The state is made again from what is stored.
LEMMA ReloadKeeps == ASSUME KStateIInv, ReloadKind PROVE KStateIInv'
<1>1. /\ shared' = Loaded(tokenLog, StoredKind(tokenLog)) /\ ~reload' /\ Exclusive
      /\ inKinds' = (StoredKind(tokenLog) # NoToken)
      /\ UNCHANGED <<puts, tokenLog, nextKind, lapsed>>
  BY DEF ReloadKind
<1>2. LogInv(tokenLog, lapsed)
  BY DEF KStateIInv
<1>3. SharedInv'
  BY <1>1, <1>2, LoadedOK DEF SharedInv
<1>4. PutsInv'
  BY <1>1, IdlePuts DEF KStateIInv
<1> QED BY <1>1, <1>2, <1>3, <1>4 DEF KStateIInv

\* A crash leaves a prefix of what was written.
LEMMA CrashKeeps ==
  ASSUME KStateIInv, NEW n \in 0..Len(tokenLog), CrashAndOpen(n)
  PROVE  KStateIInv'
<1> DEFINE left == SubSeq(tokenLog, 1, n)
<1>1. /\ tokenLog' = left /\ shared' = Loaded(left, StoredKind(left)) /\ ~reload'
      /\ inKinds' = (StoredKind(left) # NoToken)
      /\ puts' = [r \in Putters |-> IdlePut] /\ lapsed' = lapsed \cap 1..n /\ nextKind' = nextKind
  BY DEF CrashAndOpen
<1>2. PICK S : tokenLog \in Seq(S)
  BY DEF KStateIInv, LogInv
<1>3. /\ left \in Seq(S) /\ Len(left) = n
      /\ \A i, what : Is(left, i, what) <=> i <= n /\ Is(tokenLog, i, what)
      /\ LogOK(left)
      /\ \A i \in 1..n : ObjOK(tokenLog, i) => ObjOK(left, i)
  BY <1>2, PrefixOK DEF KStateIInv, LogInv
<1> HIDE DEF left
<1>4. LogInv(left, lapsed \cap 1..n)
  <2>1. ASSUME NEW i, Is(left, i, "object"), i \notin lapsed \cap 1..n PROVE ObjOK(left, i)
    BY <1>3, <2>1 DEF KStateIInv, LogInv, Is
  <2> QED BY <1>3, <2>1 DEF LogInv
<1>5. SharedInv'
  BY <1>1, <1>4, LoadedOK DEF SharedInv
<1>6. PutsInv'
  BY <1>1 DEF PutsInv, PutOK, IdlePut
<1> QED BY <1>1, <1>4, <1>5, <1>6 DEF KStateIInv

\* init makes the state from what is stored and the strings of the schema.
LEMMA InitStateOK ==
  ASSUME KStateIInv, NEW strings \in Schemas, NEW u, u = InitState(strings)
  PROVE  /\ StateOK(u) /\ u.kind = KindToken(tokenLog) /\ u.kind # NoToken
         /\ Extends(StoredTokens(tokenLog), u.tokens)
         /\ ~Missing(strings) => u.tokens = StoredTokens(tokenLog)
         /\ \A i : Is(tokenLog, i, "tokens") => Extends(tokenLog[i].val, u.tokens)
<1> DEFINE s == Loaded(tokenLog, KindToken(tokenLog))
<1>1. LogInv(tokenLog, lapsed) /\ IsFiniteSet(strings)
  BY KindStateAssumption DEF KStateIInv
<1>2. /\ StateOK(s) /\ s.tokens = StoredTokens(tokenLog) /\ s.kind = KindToken(tokenLog)
      /\ \A i : Is(tokenLog, i, "tokens") => Extends(tokenLog[i].val, StoredTokens(tokenLog))
  BY <1>1, LoadedOK
<1> HIDE DEF s
<1>3. Grown(s, AddStrings(s, strings)) /\ (strings \ DOMAIN s.tokens = {} => AddStrings(s, strings) = s)
  BY <1>1, <1>2, StringsGrow
<1>4. u = AddStrings(s, strings)
  BY DEF InitState, s
<1>5. KindToken(tokenLog) # NoToken
  BY DEF KindToken, KStateIInv, NoToken
<1>6. Extends(StoredTokens(tokenLog), u.tokens) /\ StateOK(u) /\ u.kind = KindToken(tokenLog)
  BY <1>2, <1>3, <1>4 DEF Grown
<1>7. \A i : Is(tokenLog, i, "tokens") => Extends(tokenLog[i].val, u.tokens)
  BY <1>2, <1>6 DEF Extends
<1> QED BY <1>2, <1>3, <1>4, <1>5, <1>6, <1>7 DEF Missing

\* The tokens that init added are stored together.
WithStrings(strings, u) ==
  tokenLog \o (IF Missing(strings) THEN <<TokensWrite(u.tokens)>> ELSE <<>>)

\* They extend what was stored, and do not touch the rest.
LEMMA StringsWritten ==
  ASSUME KStateIInv, NEW strings \in Schemas, NEW u, u = InitState(strings)
  PROVE  /\ LogInv(WithStrings(strings, u), lapsed)
         /\ StoredTokens(WithStrings(strings, u)) = u.tokens
         /\ StoredKind(WithStrings(strings, u)) = StoredKind(tokenLog)
         /\ \A i : Is(WithStrings(strings, u), i, "tokens") => Extends(WithStrings(strings, u)[i].val, u.tokens)
<1> DEFINE l == WithStrings(strings, u)
<1>l. l = tokenLog \o (IF Missing(strings) THEN <<TokensWrite(u.tokens)>> ELSE <<>>)
  BY DEF WithStrings
<1> SUFFICES /\ LogInv(l, lapsed) /\ StoredTokens(l) = u.tokens /\ StoredKind(l) = StoredKind(tokenLog)
             /\ \A i : Is(l, i, "tokens") => Extends(l[i].val, u.tokens)
  OBVIOUS
<1> HIDE DEF l
<1>1. PICK S : tokenLog \in Seq(S)
  BY DEF KStateIInv, LogInv
<1>2. LogInv(tokenLog, lapsed)
  BY DEF KStateIInv
<1>3. /\ StateOK(u)
      /\ ~Missing(strings) => u.tokens = StoredTokens(tokenLog)
      /\ \A i : Is(tokenLog, i, "tokens") => Extends(tokenLog[i].val, u.tokens)
  BY InitStateOK
<1>4. Matches(u.tokens, VecOf(u.tokens))
  BY <1>3, VecMade DEF StateOK
<1>5. CASE Missing(strings)
  <2> DEFINE w == TokensWrite(u.tokens)
  <2>1. l = tokenLog \o <<w>>
    BY <1>5, <1>l
  <2>2. l = Append(tokenLog, w)
    <3> HIDE DEF w
    <3>1. tokenLog \in Seq(S \cup {w}) /\ w \in S \cup {w}
      BY <1>1, SeqMonotonic
    <3> QED BY ONLY <2>1, <3>1
  <2> QED BY ONLY <1>2, <1>3, <1>4, <2>2, TokensWritten
<1>6. CASE ~Missing(strings)
  <2>1. l = tokenLog
    BY <1>1, <1>6, <1>l
  <2> QED BY ONLY <1>2, <1>3, <1>6, <2>1
<1> QED BY <1>5, <1>6

\* Putting the kind, with its transaction committed, aborted, or its tokens not stored.
LEMMA ConfigureKeeps ==
  ASSUME KStateIInv, NEW strings \in Schemas,
         ConfigureKind(strings) \/ ConfigureAborted(strings) \/ ConfigureFails(strings)
  PROVE  KStateIInv'
<1> DEFINE mid == WithStrings(strings, shared')
<1>1. /\ shared' = InitState(strings) /\ Exclusive /\ ~reload
      /\ UNCHANGED <<puts, lapsed>>
  BY DEF ConfigureKind, ConfigureAborted, ConfigureFails
<1>2. nextKind' \in Nat \ {0}
  <2>1. nextKind' = nextKind \/ nextKind' = nextKind + 1
    BY DEF ConfigureKind, ConfigureAborted, ConfigureFails, DrawKind
  <2>2. nextKind \in Nat \ {0}
    BY DEF KStateIInv
  <2> QED BY ONLY <2>1, <2>2
<1>3. PutsInv'
  BY <1>1, IdlePuts DEF KStateIInv
<1>4. /\ StateOK(shared') /\ shared'.kind = KindToken(tokenLog) /\ shared'.kind # NoToken
      /\ \A i : Is(tokenLog, i, "tokens") => Extends(tokenLog[i].val, shared'.tokens)
  BY <1>1, InitStateOK
<1>5. /\ LogInv(mid, lapsed) /\ StoredTokens(mid) = shared'.tokens /\ StoredKind(mid) = StoredKind(tokenLog)
      /\ \A i : Is(mid, i, "tokens") => Extends(mid[i].val, shared'.tokens)
  BY ONLY KStateIInv, strings \in Schemas, <1>1, StringsWritten
<1> HIDE DEF mid
<1>6. CASE ConfigureFails(strings)
  <2>1. UNCHANGED tokenLog /\ reload'
    BY <1>6 DEF ConfigureFails
  <2> QED BY <1>1, <1>2, <1>3, <1>4, <2>1 DEF KStateIInv, SharedInv
<1>7. CASE ConfigureAborted(strings)
  <2>1. tokenLog' = mid /\ reload'
    BY <1>7 DEF ConfigureAborted, mid, WithStrings
  <2> QED BY <1>1, <1>2, <1>3, <1>4, <1>5, <2>1 DEF KStateIInv, SharedInv
<1>8. CASE ConfigureKind(strings)
  <2>1. ~reload' /\ tokenLog' = mid \o (IF StoredKind(tokenLog) = NoToken THEN <<KindWrite(shared'.kind)>> ELSE <<>>)
    BY <1>8 DEF ConfigureKind, mid, WithStrings
  <2>2. PICK S : mid \in Seq(S)
    BY <1>5 DEF LogInv
  <2>3. CASE StoredKind(tokenLog) = NoToken
    <3> DEFINE w == KindWrite(shared'.kind)
    <3>1. tokenLog' = mid \o <<w>>
      BY <2>1, <2>3
    <3>2. tokenLog' = Append(mid, w)
      <4> HIDE DEF w
      <4>1. mid \in Seq(S \cup {w}) /\ w \in S \cup {w}
        BY <2>2, SeqMonotonic
      <4> QED BY ONLY <3>1, <4>1
    <3>3. \A i : ~Is(mid, i, "kind")
      <4>1. Len(mid) \in Nat /\ LogOK(mid)
        BY <1>5, <2>2 DEF LogInv
      <4> QED BY <4>1, <1>5, <2>3, StoredOK
    <3>4. /\ LogInv(tokenLog', lapsed)
          /\ StoredTokens(tokenLog') = StoredTokens(mid) /\ StoredKind(tokenLog') = shared'.kind
          /\ \A f : (\A i : Is(mid, i, "tokens") => Extends(mid[i].val, f))
                    => \A i : Is(tokenLog', i, "tokens") => Extends(tokenLog'[i].val, f)
      BY ONLY <1>4, <1>5, <3>2, <3>3, KindWritten
    <3>5. \A i : Is(tokenLog', i, "tokens") => Extends(tokenLog'[i].val, shared'.tokens)
      BY <1>5, <3>4
    <3> QED BY <1>1, <1>2, <1>3, <1>4, <1>5, <2>1, <3>4, <3>5 DEF KStateIInv, SharedInv
  <2>4. CASE StoredKind(tokenLog) # NoToken
    <3>1. tokenLog' = mid
      BY <2>1, <2>2, <2>4
    <3>2. StoredKind(mid) = shared'.kind
      BY <1>4, <1>5, <2>4 DEF KindToken
    <3> QED BY <1>1, <1>2, <1>3, <1>4, <1>5, <2>1, <3>1, <3>2 DEF KStateIInv, SharedInv
  <2> QED BY <2>3, <2>4
<1> QED BY <1>6, <1>7, <1>8

\* Every step keeps the invariant of the tokens.
LEMMA KStateStepKeeps == KStateIInv /\ [KStateNext]_kstateVars => KStateIInv'
<1> SUFFICES ASSUME KStateIInv, [KStateNext]_kstateVars PROVE KStateIInv'
  OBVIOUS
<1>1. CASE UNCHANGED kstateVars
  BY <1>1 DEF kstateVars, KStateIInv, LogInv, SharedInv, PutsInv
<1>2. ASSUME NEW r \in Putters,
             \/ AbortObj(r) \/ CommitObj(r) \/ \E props \in Objects : BeginObj(r, props)
             \/ \E p \in Props : KnownProp(r, p) \/ SharedProp(r, p) \/ AddToken(r, p)
      PROVE  KStateIInv'
  BY <1>2, BeginAbortKeep, CommitKeeps, NamesKeep, AddTokenKeeps
<1>3. ASSUME NEW strings \in Schemas,
             ConfigureKind(strings) \/ ConfigureAborted(strings) \/ ConfigureFails(strings)
      PROVE  KStateIInv'
  BY <1>3, ConfigureKeeps
<1>4. CASE ReloadKind
  BY <1>4, ReloadKeeps
<1>5. ASSUME NEW n \in 0..Len(tokenLog), CrashAndOpen(n) PROVE KStateIInv'
  BY <1>5, CrashKeeps
<1> QED BY <1>1, <1>2, <1>3, <1>4, <1>5 DEF KStateNext

\* The invariant says what resolves, now and after a crash.
LEMMA TokensThere == KStateIInv => EveryTokenResolves
<1> SUFFICES ASSUME KStateIInv, NEW i \in 1..Len(tokenLog), tokenLog[i].what = "object", i \notin lapsed
             PROVE  /\ Resolves(tokenLog, i, shared.tokens, shared.vec)
                    /\ \A n \in i..Len(tokenLog) :
                         LET left == SubSeq(tokenLog, 1, n) IN
                         /\ Loads(StoredTokens(left))
                         /\ Resolves(left, i, StoredTokens(left), VecOf(StoredTokens(left)))
                         /\ StoredKind(left) = tokenLog[i].kind
  BY DEF EveryTokenResolves
<1>1. PICK S : tokenLog \in Seq(S)
  BY DEF KStateIInv, LogInv
<1>2. LogOK(tokenLog) /\ ObjOK(tokenLog, i) /\ Len(tokenLog) \in Nat
  BY <1>1 DEF KStateIInv, LogInv, Is
<1>3. Resolves(tokenLog, i, shared.tokens, shared.vec)
  <2>1. Matches(shared.tokens, shared.vec)
        /\ \A j : Is(tokenLog, j, "tokens") => Extends(tokenLog[j].val, shared.tokens)
    BY DEF KStateIInv, SharedInv, StateOK
  <2> QED BY <1>2, <2>1, ObjResolves
<1>4. ASSUME NEW n \in i..Len(tokenLog), NEW left, left = SubSeq(tokenLog, 1, n)
      PROVE  /\ Loads(StoredTokens(left))
             /\ Resolves(left, i, StoredTokens(left), VecOf(StoredTokens(left)))
             /\ StoredKind(left) = tokenLog[i].kind
  <2>1. n \in 0..Len(tokenLog) /\ i \in 1..n
    BY <1>2
  <2>2. /\ Len(left) = n /\ left[i] = tokenLog[i]
        /\ LogOK(left) /\ ObjOK(left, i)
    BY <1>1, <1>2, <1>4, <2>1, PrefixOK
  <2>3. /\ Matches(StoredTokens(left), VecOf(StoredTokens(left)))
        /\ \A j : Is(left, j, "tokens") => Extends(left[j].val, StoredTokens(left))
        /\ \A j : Is(left, j, "kind") => left[j].kind = StoredKind(left)
    BY <2>1, <2>2, StoredOK
  <2>4. Loads(StoredTokens(left))
    BY <2>3, VecMade
  <2>5. Resolves(left, i, StoredTokens(left), VecOf(StoredTokens(left)))
    BY <2>1, <2>2, <2>3, ObjResolves
  <2>6. StoredKind(left) = tokenLog[i].kind
    BY <2>2, <2>3 DEF ObjOK
  <2> QED BY <2>4, <2>5, <2>6
<1> QED BY <1>3, <1>4

\* Every stored object can be read with the tokens in memory, and after a crash with those that it
\* left (MojDbKindState writes new tokens in a transaction of its own, before the object).
THEOREM TokensResolve == KStateInit /\ [][KStateNext]_kstateVars => []EveryTokenResolves
<1>1. KStateInit /\ [][KStateNext]_kstateVars => []KStateIInv
  BY KStateInitial, KStateStepKeeps, PTL
<1> QED BY <1>1, TokensThere, PTL

-----------------------------------------------------------------------------
(* Sums over finite sets: Total adds the elements in the order of CHOOSE.  *)

First(s) == CHOOSE x \in s : TRUE
Added(it, f, s) == IF s = {} THEN 0 ELSE f[First(s)] + it[s \ {First(s)}]
Few(S, n) == {s \in SUBSET S : Cardinality(s) <= n}
AddsTo(it, f, S, n) == it = [s \in Few(S, n) |-> Added(it, f, s)]
Adds(it, f, S) == it = [s \in SUBSET S |-> Added(it, f, s)]

\* The function that Total is defined by.
LEMMA TotalIs == ASSUME NEW f, NEW S PROVE Total(f, S) = (CHOOSE it : Adds(it, f, S))[S]
BY DEF Total, MapThenSumSet, MapThenFoldSet, Adds, Added, First

\* What is left of a finite set without its first element.
LEMMA Rest ==
  ASSUME NEW S, IsFiniteSet(S)
  PROVE  /\ Cardinality(S) \in Nat
         /\ \A s \in SUBSET S : IsFiniteSet(s) /\ Cardinality(s) \in Nat /\ Cardinality(s) <= Cardinality(S)
         /\ \A s \in SUBSET S : s # {} => /\ First(s) \in s
                                          /\ s \ {First(s)} \in SUBSET S
                                          /\ Cardinality(s \ {First(s)}) = Cardinality(s) - 1
         /\ \A s \in SUBSET S : s # {} => Cardinality(s) >= 1
<1>1. Cardinality(S) \in Nat
  BY FS_CardinalityType
<1>2. ASSUME NEW s \in SUBSET S
      PROVE  IsFiniteSet(s) /\ Cardinality(s) \in Nat /\ Cardinality(s) <= Cardinality(S)
  BY FS_Subset, FS_CardinalityType
<1>3. ASSUME NEW s \in SUBSET S, s # {}
      PROVE  /\ First(s) \in s /\ s \ {First(s)} \in SUBSET S
             /\ Cardinality(s \ {First(s)}) = Cardinality(s) - 1
             /\ Cardinality(s) >= 1
  <2>1. First(s) \in s
    BY <1>3 DEF First
  <2>2. Cardinality(s \ {First(s)}) = Cardinality(s) - 1
    BY <1>2, <2>1, FS_RemoveElement
  <2>3. Cardinality(s) # 0
    BY <1>2, <1>3, FS_EmptySet
  <2> QED BY <1>2, <2>1, <2>2, <2>3
<1> QED BY <1>1, <1>2, <1>3

\* There is such a function for the sets of up to n elements.
LEMMA AddsToExists ==
  ASSUME NEW f, NEW S, IsFiniteSet(S), NEW n \in Nat
  PROVE  \E it : AddsTo(it, f, S, n)
<1> DEFINE T == {k \in Nat : ~ \E it : AddsTo(it, f, S, k)}
<1> SUFFICES ASSUME T # {} PROVE FALSE
  OBVIOUS
<1>1. PICK k \in T : \A j \in T : k <= j
  BY LeastNat
<1>2. CASE k = 0
  <2> DEFINE g == [s \in Few(S, 0) |-> 0]
  <2>1. ASSUME NEW s \in Few(S, 0) PROVE g[s] = Added(g, f, s)
    <3>1. s = {}
      BY Rest DEF Few
    <3> QED BY <3>1 DEF Added
  <2>2. g = [s \in Few(S, 0) |-> g[s]]
    OBVIOUS
  <2> HIDE DEF g
  <2>3. AddsTo(g, f, S, 0)
    BY <2>1, <2>2 DEF AddsTo
  <2> QED BY <1>2, <2>3
<1>3. CASE k # 0
  <2>1. k \in Nat /\ k - 1 \in Nat /\ k - 1 \notin T
    BY <1>1, <1>3
  <2>2. PICK h : AddsTo(h, f, S, k - 1)
    BY <2>1
  <2> DEFINE g == [s \in Few(S, k) |-> IF s \in Few(S, k - 1) THEN h[s] ELSE Added(h, f, s)]
  <2>a. \A s \in Few(S, k - 1) : h[s] = Added(h, f, s)
    BY <2>2 DEF AddsTo
  <2>3. ASSUME NEW s \in Few(S, k) PROVE g[s] = Added(g, f, s)
    <3>1. g[s] = Added(h, f, s)
      BY <2>a
    <3>2. CASE s # {}
      <4>1. s \ {First(s)} \in Few(S, k - 1) /\ s \ {First(s)} \in Few(S, k)
        BY <2>1, <3>2, Rest DEF Few
      <4>2. g[s \ {First(s)}] = h[s \ {First(s)}]
        BY <4>1
      <4> HIDE DEF g
      <4> QED BY <3>1, <4>2 DEF Added
    <3>3. CASE s = {}
      BY <3>1, <3>3 DEF Added
    <3> QED BY <3>2, <3>3
  <2>4. g = [s \in Few(S, k) |-> g[s]]
    OBVIOUS
  <2> HIDE DEF g
  <2>5. AddsTo(g, f, S, k)
    BY <2>3, <2>4 DEF AddsTo
  <2> QED BY <1>1, <2>5
<1> QED BY <1>2, <1>3

\* So there is one for all the subsets of a finite set.
LEMMA AddsExists ==
  ASSUME NEW f, NEW S, IsFiniteSet(S)
  PROVE  \E it : Adds(it, f, S)
<1>1. PICK it : AddsTo(it, f, S, Cardinality(S))
  BY Rest, AddsToExists
<1>2. Few(S, Cardinality(S)) = SUBSET S
  BY Rest DEF Few
<1> QED BY <1>1, <1>2 DEF AddsTo, Adds

\* Two such functions agree, also those of different sets.
LEMMA AddsUnique ==
  ASSUME NEW f, NEW S, IsFiniteSet(S), NEW D \in SUBSET S,
         NEW a, NEW b, Adds(a, f, S), Adds(b, f, D)
  PROVE  \A s \in SUBSET D : a[s] = b[s]
<1> DEFINE T == {n \in Nat : \E s \in SUBSET D : Cardinality(s) = n /\ a[s] # b[s]}
<1>1. \A s \in SUBSET D : s \in SUBSET S /\ Cardinality(s) \in Nat
  BY Rest
<1>2. CASE T = {}
  BY <1>1, <1>2
<1>3. CASE T # {}
  <2>1. PICK n \in T : \A j \in T : n <= j
    BY <1>3, LeastNat
  <2>2. PICK s \in SUBSET D : Cardinality(s) = n /\ a[s] # b[s]
    BY <2>1
  <2>3. a[s] = Added(a, f, s) /\ b[s] = Added(b, f, s)
    BY <1>1 DEF Adds
  <2>4. s # {}
    BY <2>2, <2>3 DEF Added
  <2>5. /\ s \ {First(s)} \in SUBSET D
        /\ Cardinality(s \ {First(s)}) = n - 1 /\ n - 1 \in Nat
    BY <1>1, <2>2, <2>4, Rest
  <2>6. a[s \ {First(s)}] = b[s \ {First(s)}]
    BY <2>1, <2>5
  <2> QED BY <2>2, <2>3, <2>4, <2>6 DEF Added
<1> QED BY <1>2, <1>3

\* Total is such a function: of nothing it is zero, of a set what its first element adds.
LEMMA TotalStep ==
  ASSUME NEW f, NEW S, IsFiniteSet(S)
  PROVE  /\ S = {} => Total(f, S) = 0
         /\ S # {} => Total(f, S) = f[First(S)] + Total(f, S \ {First(S)})
<1> DEFINE it(s) == CHOOSE i : Adds(i, f, s)
<1>1. \A s \in SUBSET S : Adds(it(s), f, s) /\ Total(f, s) = it(s)[s]
  BY Rest, AddsExists, TotalIs
<1> HIDE DEF it
<1>2. Total(f, S) = Added(it(S), f, S)
  BY <1>1 DEF Adds
<1>3. CASE S # {}
  <2> DEFINE R == S \ {First(S)}
  <2>1. it(S)[R] = it(R)[R]
    BY <1>1, <1>3, AddsUnique
  <2> QED BY <1>1, <1>2, <1>3, <2>1 DEF Added
<1>4. CASE S = {}
  BY <1>2, <1>4 DEF Added
<1> QED BY <1>3, <1>4

\* The smallest subset that has not what all should have.
Smallest(s, odd) == s \in odd /\ \A u \in odd : Cardinality(s) <= Cardinality(u)

\* There is one when any is odd.
LEMMA SmallestIs ==
  ASSUME NEW S, IsFiniteSet(S), NEW odd \in SUBSET (SUBSET S), odd # {}
  PROVE  \E s \in odd : Smallest(s, odd)
<1> DEFINE T == {Cardinality(s) : s \in odd}
<1>1. T \in SUBSET Nat /\ T # {}
  BY Rest
<1>2. PICK n \in T : \A j \in T : n <= j
  BY <1>1, LeastNat
<1> QED BY <1>2 DEF Smallest

\* Sums of integers are integers.
LEMMA TotalInt ==
  ASSUME NEW f, NEW S, IsFiniteSet(S), \A x \in S : f[x] \in Int
  PROVE  \A s \in SUBSET S : Total(f, s) \in Int
<1> DEFINE odd == {s \in SUBSET S : Total(f, s) \notin Int}
<1> SUFFICES ASSUME odd # {} PROVE FALSE
  OBVIOUS
<1>1. PICK s \in odd : Smallest(s, odd)
  BY SmallestIs
<1>2. IsFiniteSet(s)
  BY Rest
<1>3. s # {}
  <2>1. s = {} => Total(f, s) = 0
    BY <1>2, TotalStep
  <2> QED BY <2>1
<1>4. First(s) \in s /\ s \ {First(s)} \in SUBSET S /\ s \ {First(s)} \notin odd
  BY <1>1, <1>3, Rest DEF Smallest
<1> QED BY <1>2, <1>3, <1>4, TotalStep

\* Any element may be the one that is added.
LEMMA TotalAny ==
  ASSUME NEW f, NEW S, IsFiniteSet(S), \A x \in S : f[x] \in Int
  PROVE  \A s \in SUBSET S : \A x \in s : Total(f, s) = f[x] + Total(f, s \ {x})
<1> DEFINE odd == {s \in SUBSET S : \E x \in s : Total(f, s) # f[x] + Total(f, s \ {x})}
<1> SUFFICES ASSUME odd # {} PROVE FALSE
  OBVIOUS
<1>1. PICK s \in odd : Smallest(s, odd)
  BY SmallestIs
<1>2. PICK x \in s : Total(f, s) # f[x] + Total(f, s \ {x})
  BY <1>1
<1> DEFINE c == First(s)
<1>3. IsFiniteSet(s) /\ s \in SUBSET S /\ c \in s /\ Cardinality(s) \in Nat
  BY <1>2, Rest
<1> HIDE DEF c
<1>4. Total(f, s) = f[c] + Total(f, s \ {c})
  BY <1>3, TotalStep DEF c
<1>5. x # c
  BY <1>2, <1>4
<1>6. ASSUME NEW y \in s PROVE s \ {y} \in SUBSET S /\ s \ {y} \notin odd
  <2>1. Cardinality(s \ {y}) = Cardinality(s) - 1 /\ s \ {y} \in SUBSET S
    BY <1>3, FS_RemoveElement
  <2> QED BY <1>1, <1>3, <2>1 DEF Smallest
<1>7. Total(f, s \ {c}) = f[x] + Total(f, (s \ {c}) \ {x})
  BY <1>3, <1>5, <1>6
<1>8. Total(f, s \ {x}) = f[c] + Total(f, (s \ {x}) \ {c})
  BY <1>3, <1>5, <1>6
<1>9. (s \ {x}) \ {c} = (s \ {c}) \ {x}
  OBVIOUS
<1>10. Total(f, (s \ {c}) \ {x}) \in Int /\ f[x] \in Int /\ f[c] \in Int
  BY <1>3, TotalInt
<1> DEFINE q == (s \ {c}) \ {x}
<1>11. /\ Total(f, s) = f[c] + Total(f, s \ {c}) /\ Total(f, s \ {c}) = f[x] + Total(f, q)
       /\ Total(f, s \ {x}) = f[c] + Total(f, q)
       /\ Total(f, q) \in Int /\ f[x] \in Int /\ f[c] \in Int
  BY ONLY <1>4, <1>7, <1>8, <1>9, <1>10
<1> HIDE DEF q, odd
<1>12. Total(f, s) = f[x] + Total(f, s \ {x})
  BY ONLY <1>11
<1> QED BY ONLY <1>2, <1>12

\* A table that is the sum of two.
LEMMA TotalOfTwo ==
  ASSUME NEW f, NEW g, NEW h, NEW S, IsFiniteSet(S),
         \A x \in S : f[x] \in Int /\ g[x] \in Int /\ h[x] = f[x] + g[x]
  PROVE  \A s \in SUBSET S : Total(h, s) = Total(f, s) + Total(g, s)
<1> DEFINE odd == {s \in SUBSET S : Total(h, s) # Total(f, s) + Total(g, s)}
<1> SUFFICES ASSUME odd # {} PROVE FALSE
  OBVIOUS
<1>1. PICK s \in odd : Smallest(s, odd)
  BY SmallestIs
<1>2. IsFiniteSet(s)
  BY Rest
<1>3. s # {}
  <2>1. s = {} => Total(f, s) = 0 /\ Total(g, s) = 0 /\ Total(h, s) = 0
    BY <1>2, TotalStep
  <2> QED BY <2>1
<1> DEFINE c == First(s)
           r == s \ {c}
<1>4. c \in s /\ r \in SUBSET S /\ r \notin odd
  BY <1>1, <1>3, Rest DEF Smallest
<1>5. /\ Total(f, s) = f[c] + Total(f, r)
      /\ Total(g, s) = g[c] + Total(g, r)
      /\ Total(h, s) = h[c] + Total(h, r)
  BY <1>2, <1>3, TotalStep
<1>6. Total(f, r) \in Int /\ Total(g, r) \in Int
  BY <1>4, TotalInt
<1> HIDE DEF c, r
<1>7. Total(h, r) = Total(f, r) + Total(g, r)
  BY <1>4
<1> QED BY <1>1, <1>4, <1>5, <1>6, <1>7

\* Tables that agree, and elements that add nothing.
LEMMA TotalSame ==
  ASSUME NEW f, NEW g, NEW S, IsFiniteSet(S), \A x \in S : f[x] \in Int /\ g[x] = f[x]
  PROVE  Total(g, S) = Total(f, S)
<1> DEFINE odd == {s \in SUBSET S : Total(g, s) # Total(f, s)}
<1> SUFFICES ASSUME odd # {} PROVE FALSE
  OBVIOUS
<1>1. PICK s \in odd : Smallest(s, odd)
  BY SmallestIs
<1>2. IsFiniteSet(s)
  BY Rest
<1>3. s # {}
  BY <1>2, TotalStep
<1>4. First(s) \in s /\ s \ {First(s)} \in SUBSET S /\ s \ {First(s)} \notin odd
  BY <1>1, <1>3, Rest DEF Smallest
<1> QED BY <1>2, <1>3, <1>4, TotalStep

\* Elements that add nothing may be left out.
LEMMA TotalMore ==
  ASSUME NEW f, NEW D, IsFiniteSet(D), NEW S \in SUBSET D, \A x \in D : f[x] \in Int,
         \A x \in D \ S : f[x] = 0
  PROVE  Total(f, D) = Total(f, S)
<1> DEFINE odd == {s \in SUBSET D : S \subseteq s /\ Total(f, s) # Total(f, S)}
<1> SUFFICES ASSUME odd # {} PROVE FALSE
  OBVIOUS
<1>1. PICK s \in odd : Smallest(s, odd)
  BY SmallestIs
<1>2. PICK x \in s : x \notin S
  OBVIOUS
<1>3. /\ Cardinality(s \ {x}) = Cardinality(s) - 1 /\ Cardinality(s) \in Nat
      /\ s \ {x} \in SUBSET D /\ S \subseteq s \ {x}
  BY <1>2, Rest, FS_RemoveElement
<1>4. s \ {x} \notin odd
  BY <1>1, <1>3 DEF Smallest
<1>5. Total(f, s) = f[x] + Total(f, s \ {x})
  BY TotalAny
<1>6. f[x] = 0 /\ Total(f, s \ {x}) \in Int
  BY <1>2, <1>3, TotalInt
<1> QED BY <1>1, <1>3, <1>4, <1>5, <1>6

\* One element that changes.
LEMMA TotalChange ==
  ASSUME NEW f, NEW g, NEW S, IsFiniteSet(S), NEW r \in S,
         \A x \in S : f[x] \in Int /\ g[x] \in Int, \A x \in S \ {r} : g[x] = f[x]
  PROVE  Total(g, S) = Total(f, S) - f[r] + g[r]
<1>1. IsFiniteSet(S \ {r})
  BY FS_Subset
<1>2. Total(g, S \ {r}) = Total(f, S \ {r})
  BY <1>1, TotalSame
<1>3. Total(f, S) = f[r] + Total(f, S \ {r}) /\ Total(g, S) = g[r] + Total(g, S \ {r})
  BY TotalAny
<1>4. Total(f, S \ {r}) \in Int
  BY TotalInt
<1> QED BY <1>2, <1>3, <1>4

\* Nothing but zeros.
LEMMA TotalZero ==
  ASSUME NEW f, NEW S, IsFiniteSet(S), \A x \in S : f[x] = 0
  PROVE  Total(f, S) = 0
<1>1. Total(f, S) = Total(f, {})
  BY TotalMore
<1> QED BY <1>1, FS_EmptySet, TotalStep

-----------------------------------------------------------------------------
(* Quotas: what holds between the steps of requests.                       *)

RequestSet ==
  [pc : {"idle", "open", "usage", "stored", "post"}, writer : BOOLEAN, touched : SUBSET Kinds,
   off : [Kinds -> Int], quota : [Kinds -> QuotaOwners \cup {NoQuota}], next : [Kinds -> Int],
   size : [QuotaOwners -> Int], adds : SUBSET Kinds, overlapped : BOOLEAN]

QuotaTypeOK ==
  /\ registered \subseteq Kinds
  /\ m_quotas \in [QuotaOwners -> [size : Int, usage : Int]]
  /\ quotaObjs \in [QuotaOwners -> Int]
  /\ usage \in [Kinds -> Int] /\ bytes \in [Kinds -> Int]
  /\ request \in [Requests -> RequestSet]
  /\ hist \in [stale : BOOLEAN, drifted : SUBSET Kinds]

Sized(r) == request[r].size # NoRequest.size
Late(r) == request[r].pc \in {"stored", "post"}

\* A writer is alone, and only writers put quotas or kinds, never both.
WritersAlone ==
  /\ \A r \in Requests : request[r].pc = "idle" => request[r] = NoRequest
  /\ \A r, s \in Active : r # s => ~request[r].writer /\ request[r].overlapped
  /\ \A r \in Requests : Sized(r) \/ request[r].adds # {} => request[r].writer
  /\ \A r \in Requests : Sized(r) => request[r].adds = {}

\* The offsets of a request are of kinds that are registered.
OffsetsTouched ==
  \A r \in Requests :
    /\ request[r].touched \subseteq registered
    /\ \A k \in Kinds \ request[r].touched : request[r].off[k] = 0

\* A usage record that was read for update is what the transaction that will write it has read.
UsageRead ==
  /\ UsageExact
  /\ \A r \in Requests : request[r].pc = "usage" =>
       \A k \in request[r].touched \ hist.drifted : request[r].next[k] = NextUsage(r, k)
  /\ \A r, s \in Requests : r # s /\ request[r].pc = "usage" /\ request[s].pc = "usage" =>
       request[r].touched \cap request[s].touched \subseteq hist.drifted

\* Offsets are noted for the quota that a kind still has, unless the request changes quotas.
QuotaCurrent ==
  \A r \in Requests : ~Sized(r) => \A k \in request[r].touched : request[r].quota[k] = QuotaForKind(k)

\* The sizes in memory are those that are stored, once they have been put in memory.
SizesStored ==
  ~hist.stale =>
    /\ (\A r \in Requests : request[r].pc = "stored" => ~Sized(r)) =>
         \A q \in QuotaOwners : quotaObjs[q] = m_quotas[q].size
    /\ \A r \in Requests : request[r].pc = "stored" =>
         \A q \in QuotaOwners :
           quotaObjs[q] = IF request[r].size[q] # None THEN request[r].size[q] ELSE m_quotas[q].size

\* The sums in memory and what commits that are half done will add, against the usage records.
Base == {k \in registered : \A r \in Requests : k \notin request[r].adds}
Owed(q) == [r \in Requests |-> IF Late(r) /\ ~Sized(r) THEN OffsetOf(r, q) ELSE 0]
Given(q) == IF Put(q) THEN Total(usage, {k \in Base : QuotaForKind(k) = q}) ELSE 0
Unsettled(r) == (request[r].pc = "stored" /\ Sized(r)) \/ (Late(r) /\ request[r].adds # {})
SumsAgree ==
  ~hist.stale /\ hist.drifted = {} /\ (\A r \in Requests : ~Unsettled(r)) =>
    \A q \in QuotaOwners : m_quotas[q].usage + Total(Owed(q), Requests) = Given(q)

\* A request that ran alone asks of each kind no more than its quota has.
WithinQuota ==
  \A r \in Active : ~request[r].overlapped /\ ~request[r].writer =>
    \A k \in request[r].touched : request[r].quota[k] # NoQuota =>
      request[r].off[k] <= Available(request[r].quota[k])

QuotaIInv ==
  /\ QuotaTypeOK /\ WritersAlone /\ OffsetsTouched /\ UsageRead /\ QuotaCurrent
  /\ SizesStored /\ SumsAgree /\ WithinQuota

\* quotaForKind finds a quota that is put, or none.
LEMMA QuotaFound ==
  ASSUME NEW k, NEW known \in SUBSET QuotaOwners
  PROVE  QuotaAmong(k, known) \in known \cup {NoQuota}
<1>1. ASSUME NEW j PROVE OwnQuota(j, known) \in known \cup {NoQuota}
  <2> DEFINE exact == {q \in known : q = KindOwner[j]}
             wild == {q \in known : <<q, KindOwner[j]>> \in Covers}
  <2>1. exact # {} => (CHOOSE q \in exact : TRUE) \in known
    OBVIOUS
  <2>2. wild # {} => (CHOOSE q \in wild : TRUE) \in known
    OBVIOUS
  <2> QED BY <2>1, <2>2 DEF OwnQuota
<1> QED BY <1>1 DEF QuotaAmong

\* The quota of a kind depends on which quotas are put.
LEMMA SameQuotas ==
  ASSUME \A q \in QuotaOwners : m_quotas'[q].size = m_quotas[q].size
  PROVE  /\ \A q \in QuotaOwners : Put(q)' <=> Put(q)
         /\ \A k : QuotaForKind(k)' = QuotaForKind(k)
<1>1. ASSUME NEW q \in QuotaOwners PROVE Put(q)' <=> Put(q)
  BY DEF Put
<1>2. {q \in QuotaOwners : Put(q)'} = {q \in QuotaOwners : Put(q)}
  BY <1>1
<1>3. ASSUME NEW k PROVE QuotaForKind(k)' = QuotaForKind(k)
  BY <1>2 DEF QuotaForKind
<1> QED BY <1>1, <1>3

\* A request that is not under way.
LEMMA NoRequestType ==
  /\ NoRequest \in RequestSet /\ NoRequest.pc = "idle" /\ ~NoRequest.writer
  /\ NoRequest.touched = {} /\ NoRequest.adds = {} /\ \A k \in Kinds : NoRequest.off[k] = 0
  /\ NoRequest.size \in [QuotaOwners -> Int] /\ NoRequest.next \in [Kinds -> Int]
BY DEF NoRequest, RequestSet, None

\* The sum of the offsets of a request under a quota.
LEMMA OffsetInt ==
  ASSUME QuotaTypeOK, NEW r \in Requests, NEW q
  PROVE  /\ OffsetOf(r, q) \in Int
         /\ \A k \in request[r].touched : k \in Kinds /\ request[r].off[k] \in Int
         /\ IsFiniteSet({k \in request[r].touched : request[r].quota[k] = q})
<1> DEFINE S == {k \in request[r].touched : request[r].quota[k] = q}
<1>1. \A k \in request[r].touched : k \in Kinds /\ request[r].off[k] \in Int
  BY DEF QuotaTypeOK, RequestSet
<1>2. IsFiniteSet(S)
  BY <1>1, QuotaAssumption, FS_Subset
<1>3. Total(request[r].off, S) \in Int
  BY <1>1, <1>2, TotalInt
<1> QED BY <1>1, <1>2, <1>3 DEF OffsetOf

\* The invariant of the quotas holds at first.
LEMMA QuotaInitial == QuotaInit => QuotaIInv
<1> SUFFICES ASSUME QuotaInit PROVE QuotaIInv
  OBVIOUS
<1>1. \A r \in Requests : request[r] = NoRequest
  BY DEF QuotaInit
<1>2. QuotaTypeOK
  <2>1. \A k \in Kinds : bytes[k] \in Int /\ bytes \in [Kinds -> 0..1]
    BY DEF QuotaInit
  <2> QED BY <2>1, NoRequestType, QuotaAssumption DEF QuotaInit, QuotaTypeOK, None
<1>3. WritersAlone /\ OffsetsTouched /\ UsageRead /\ QuotaCurrent /\ WithinQuota /\ SizesStored
  BY <1>1, NoRequestType DEF QuotaInit, WritersAlone, OffsetsTouched, UsageRead, UsageExact,
     QuotaCurrent, WithinQuota, SizesStored, Active, Sized
<1>4. SumsAgree
  <2> SUFFICES ASSUME NEW q \in QuotaOwners PROVE m_quotas[q].usage + Total(Owed(q), Requests) = Given(q)
    BY DEF SumsAgree
  <2>1. \A r \in Requests : Owed(q)[r] = 0
    BY <1>1, NoRequestType DEF Owed, Late
  <2>2. Total(Owed(q), Requests) = 0
    BY <2>1, TotalZero, QuotaAssumption
  <2> QED BY <2>2 DEF Given, Put, QuotaInit
<1> QED BY <1>2, <1>3, <1>4 DEF QuotaIInv

\* What a request does before its transaction is written touches no sum.
LEMMA EarlyKeeps ==
  ASSUME QuotaIInv, UNCHANGED <<m_quotas, quotaObjs, usage>>, Base' = Base,
         hist'.stale = hist.stale, hist.drifted \subseteq hist'.drifted,
         \A s \in Requests : Late(s)' <=> Late(s),
         \A s \in Requests : Late(s) =>
           /\ request'[s].pc = request[s].pc /\ request'[s].size = request[s].size
           /\ request'[s].adds = request[s].adds /\ request'[s].touched = request[s].touched
           /\ request'[s].off = request[s].off /\ request'[s].quota = request[s].quota
  PROVE  SizesStored' /\ SumsAgree'
<1>1. \A s \in Requests : (request'[s].pc = "stored") <=> (request[s].pc = "stored")
  BY DEF Late
<1>2. \A s \in Requests : request[s].pc = "stored" => Late(s)
  BY DEF Late
<1>3. SizesStored'
  BY <1>1, <1>2 DEF SizesStored, QuotaIInv, Sized
<1>4. ASSUME NEW q PROVE Owed(q)' = Owed(q)
  BY DEF Owed, Late, Sized, OffsetOf
<1>5. \A k : QuotaForKind(k)' = QuotaForKind(k)
  BY SameQuotas
<1>6. ASSUME NEW q \in QuotaOwners PROVE Given(q)' = Given(q)
  BY <1>5 DEF Given, Put
<1>7. \A s \in Requests : Unsettled(s)' <=> Unsettled(s)
  BY <1>1 DEF Unsettled, Late, Sized
<1>8. SumsAgree'
  <2> SUFFICES ASSUME ~hist.stale, hist.drifted = {}, \A r \in Requests : ~Unsettled(r),
                      NEW q \in QuotaOwners
               PROVE  m_quotas'[q].usage + Total(Owed(q)', Requests) = Given(q)'
    BY <1>7 DEF SumsAgree
  <2> QED BY <1>4, <1>6 DEF QuotaIInv, SumsAgree
<1> QED BY <1>3, <1>8

\* A step of one request.
LEMMA OneRequest ==
  ASSUME QuotaTypeOK, NEW r \in Requests, NEW new, request' = [request EXCEPT ![r] = new]
  PROVE  request'[r] = new /\ \A s \in Requests : s # r => request'[s] = request[s]
BY DEF QuotaTypeOK

\* A request that goes on stays what it was to the others.
LEMMA GoesOn ==
  ASSUME QuotaIInv, NEW r \in Active, NEW new, request' = [request EXCEPT ![r] = new],
         new.pc # "idle", new.writer = request[r].writer, new.overlapped = request[r].overlapped,
         new.size # NoRequest.size \/ new.adds # {} => new.writer, new.size # NoRequest.size => new.adds = {}
  PROVE  WritersAlone' /\ r \in Requests
<1>1. r \in Requests /\ request[r].pc # "idle"
  BY DEF Active
<1>2. request'[r] = new /\ \A s \in Requests : s # r => request'[s] = request[s]
  BY <1>1, OneRequest DEF QuotaIInv
<1>3. Active' = Active
  BY <1>1, <1>2 DEF Active
<1>4. \A a, b \in Active : a # b => ~request'[a].writer /\ request'[a].overlapped
  BY <1>2 DEF QuotaIInv, WritersAlone, Active
<1>5. \A s \in Requests : Sized(s)' \/ request'[s].adds # {} => request'[s].writer
  BY <1>2 DEF QuotaIInv, WritersAlone, Sized
<1>6. \A s \in Requests : Sized(s)' => request'[s].adds = {}
  BY <1>2 DEF QuotaIInv, WritersAlone, Sized
<1>7. \A s \in Requests : request'[s].pc = "idle" => request'[s] = NoRequest
  BY <1>2 DEF QuotaIInv, WritersAlone
<1> QED BY <1>1, <1>3, <1>4, <1>5, <1>6, <1>7 DEF WritersAlone

\* One that ends leaves the others as they are.
LEMMA Ends ==
  ASSUME QuotaIInv, NEW r \in Requests, request' = [request EXCEPT ![r] = NoRequest]
  PROVE  /\ WritersAlone' /\ request' \in [Requests -> RequestSet]
         /\ request'[r] = NoRequest /\ \A s \in Requests : s # r => request'[s] = request[s]
<1>1. request'[r] = NoRequest /\ \A s \in Requests : s # r => request'[s] = request[s]
  BY OneRequest DEF QuotaIInv
<1>2. Active' \subseteq Active /\ r \notin Active'
  BY <1>1, NoRequestType DEF Active
<1>3. \A a, b \in Active' : a # b => ~request'[a].writer /\ request'[a].overlapped
  BY <1>1, <1>2 DEF QuotaIInv, WritersAlone, Active
<1>4. \A s \in Requests : Sized(s)' \/ request'[s].adds # {} => request'[s].writer
  BY <1>1, NoRequestType DEF QuotaIInv, WritersAlone, Sized
<1>5. \A s \in Requests : Sized(s)' => request'[s].adds = {}
  BY <1>1, NoRequestType DEF QuotaIInv, WritersAlone, Sized
<1>6. \A s \in Requests : request'[s].pc = "idle" => request'[s] = NoRequest
  BY <1>1 DEF QuotaIInv, WritersAlone
<1>7. request' \in [Requests -> RequestSet]
  BY NoRequestType DEF QuotaIInv, QuotaTypeOK
<1> QED BY <1>1, <1>3, <1>4, <1>5, <1>6, <1>7 DEF WritersAlone

\* A request begins, and runs beside those that are under way.
LEMMA BeginRequestKeeps ==
  ASSUME QuotaIInv, NEW r \in Requests, NEW writer \in BOOLEAN, BeginRequest(r, writer)
  PROVE  QuotaIInv'
<1> DEFINE new == [NoRequest EXCEPT !.pc = "open", !.writer = writer, !.overlapped = Active # {}]
<1>1. /\ r \notin Active /\ \A s \in Active : ~writer /\ ~request[s].writer
      /\ request' = [s \in Requests |-> IF s = r THEN new
            ELSE IF s \in Active THEN [request[s] EXCEPT !.overlapped = TRUE] ELSE request[s]]
      /\ UNCHANGED <<locking, registered, m_quotas, quotaObjs, usage, bytes, hist>>
  BY DEF BeginRequest
<1>2. /\ new \in RequestSet /\ new.pc = "open" /\ new.writer = writer /\ new.overlapped = (Active # {})
      /\ new.touched = {} /\ new.adds = {} /\ new.size = NoRequest.size /\ \A k \in Kinds : new.off[k] = 0
  BY NoRequestType DEF NoRequest, RequestSet
<1> HIDE DEF new
<1>3. request' \in [Requests -> RequestSet] /\ request'[r] = new
  BY ZenonT(40), <1>1, <1>2 DEF QuotaIInv, QuotaTypeOK, RequestSet
<1>4. ASSUME NEW s \in Requests, s # r
      PROVE  /\ request'[s].pc = request[s].pc /\ request'[s].size = request[s].size
             /\ request'[s].adds = request[s].adds /\ request'[s].touched = request[s].touched
             /\ request'[s].off = request[s].off /\ request'[s].quota = request[s].quota
             /\ request'[s].next = request[s].next /\ request'[s].writer = request[s].writer
             /\ request'[s].overlapped = (s \in Active \/ request[s].overlapped)
             /\ s \notin Active => request'[s] = request[s]
  BY ZenonT(40), <1>1, <1>4 DEF QuotaIInv, QuotaTypeOK, RequestSet
<1>5. request[r] = NoRequest
  BY <1>1 DEF QuotaIInv, WritersAlone, Active
<1>6. QuotaTypeOK'
  BY <1>1, <1>3 DEF QuotaIInv, QuotaTypeOK
<1>7. WritersAlone'
  <2>1. Active' = Active \cup {r}
    BY <1>2, <1>3, <1>4 DEF Active
  <2>2. \A a, b \in Active' : a # b => ~request'[a].writer /\ request'[a].overlapped
    BY <1>1, <1>2, <1>3, <1>4, <2>1 DEF Active
  <2>3. \A s \in Requests : Sized(s)' \/ request'[s].adds # {} => request'[s].writer
    BY <1>2, <1>3, <1>4 DEF QuotaIInv, WritersAlone, Sized
  <2>4. \A s \in Requests : Sized(s)' => request'[s].adds = {}
    BY <1>2, <1>3, <1>4 DEF QuotaIInv, WritersAlone, Sized
  <2>5. \A s \in Requests : request'[s].pc = "idle" => request'[s] = NoRequest
    BY <1>2, <1>3, <1>4 DEF QuotaIInv, WritersAlone, Active
  <2> QED BY <2>2, <2>3, <2>4, <2>5 DEF WritersAlone
<1>8. OffsetsTouched'
  BY <1>1, <1>2, <1>3, <1>4 DEF QuotaIInv, OffsetsTouched
<1>9. UsageRead'
  BY <1>1, <1>2, <1>3, <1>4 DEF QuotaIInv, UsageRead, UsageExact, NextUsage
<1>10. QuotaCurrent'
  <2>1. \A k : QuotaForKind(k)' = QuotaForKind(k)
    BY <1>1, SameQuotas
  <2> QED BY <1>2, <1>3, <1>4, <2>1 DEF QuotaIInv, QuotaCurrent, Sized
<1>11. WithinQuota'
  BY <1>1, <1>2, <1>3, <1>4 DEF QuotaIInv, WithinQuota, Active, Available
<1>12. SizesStored' /\ SumsAgree'
  <2>1. Base' = Base
    BY <1>1, <1>2, <1>3, <1>4, <1>5, NoRequestType DEF Base
  <2>2. \A s \in Requests : Late(s)' <=> Late(s)
    BY <1>2, <1>3, <1>4, <1>5, NoRequestType DEF Late
  <2>3. \A s \in Requests : Late(s) => s # r
    BY <1>5, NoRequestType DEF Late
  <2> QED BY <1>1, <1>4, <2>1, <2>2, <2>3, EarlyKeeps
<1> QED BY <1>6, <1>7, <1>8, <1>9, <1>10, <1>11, <1>12 DEF QuotaIInv

\* A step of a request before its transaction is written.
LEMMA OwnEarly ==
  ASSUME QuotaIInv, NEW r \in Requests, request[r].pc \in {"open", "usage"},
         NEW new, request' = [request EXCEPT ![r] = new], new.pc \in {"idle", "open", "usage"},
         UNCHANGED <<m_quotas, quotaObjs, usage>>, Base' = Base,
         hist'.stale = hist.stale, hist.drifted \subseteq hist'.drifted
  PROVE  SizesStored' /\ SumsAgree'
<1>1. request'[r] = new /\ \A s \in Requests : s # r => request'[s] = request[s]
  BY OneRequest DEF QuotaIInv
<1>2. \A s \in Requests : Late(s)' <=> Late(s)
  BY <1>1 DEF Late
<1>3. \A s \in Requests : Late(s) => s # r
  BY DEF Late
<1> QED BY <1>1, <1>2, <1>3, EarlyKeeps

\* What an offset changes of a request.
LEMMA OffsetFields ==
  ASSUME QuotaTypeOK, NEW req \in RequestSet, NEW k \in Kinds, NEW n \in Int, NEW new, new = WithOffset(req, k, n)
  PROVE  /\ new \in RequestSet /\ new.pc = req.pc /\ new.writer = req.writer /\ new.overlapped = req.overlapped
         /\ new.size = req.size /\ new.adds = req.adds /\ new.next = req.next
         /\ new.touched = req.touched \cup {k}
         /\ new.off[k] = req.off[k] + n /\ \A j \in Kinds \ {k} : new.off[j] = req.off[j]
         /\ new.quota[k] = QuotaForKind(k) /\ \A j \in Kinds \ {k} : new.quota[j] = req.quota[j]
<1>1. QuotaForKind(k) \in QuotaOwners \cup {NoQuota}
  BY QuotaFound DEF QuotaForKind
<1> DEFINE off == [req.off EXCEPT ![k] = @ + n]
           quota == [req.quota EXCEPT ![k] = QuotaForKind(k)]
<1>2. /\ off \in [Kinds -> Int] /\ off[k] = req.off[k] + n /\ \A j \in Kinds \ {k} : off[j] = req.off[j]
      /\ quota \in [Kinds -> QuotaOwners \cup {NoQuota}]
      /\ quota[k] = QuotaForKind(k) /\ \A j \in Kinds \ {k} : quota[j] = req.quota[j]
  BY <1>1 DEF RequestSet
<1>3. new = [req EXCEPT !.off = off, !.quota = quota, !.touched = @ \cup {k}]
  BY DEF WithOffset, RequestSet
<1> HIDE DEF off, quota
<1>4. /\ new.off = off /\ new.quota = quota /\ new.touched = req.touched \cup {k}
      /\ new.pc = req.pc /\ new.writer = req.writer /\ new.overlapped = req.overlapped
      /\ new.size = req.size /\ new.adds = req.adds /\ new.next = req.next
  BY <1>3 DEF RequestSet
<1>5. new \in RequestSet
  <2>1. new = [pc |-> req.pc, writer |-> req.writer, touched |-> req.touched \cup {k}, off |-> off,
               quota |-> quota, next |-> req.next, size |-> req.size, adds |-> req.adds,
               overlapped |-> req.overlapped]
    BY <1>3 DEF RequestSet
  <2>2. req.touched \cup {k} \in SUBSET Kinds
    BY DEF RequestSet
  <2> QED BY <1>2, <2>1, <2>2 DEF RequestSet
<1> QED BY <1>2, <1>4, <1>5

\* An offset within the quota keeps the invariant, also with the size of a quota.
LEMMA OffsetKeeps ==
  ASSUME QuotaIInv, NEW r \in Requests, request[r].pc = "open", NEW k, NEW n \in Int, Allowed(r, k, n),
         NEW mid, mid = WithOffset(request[r], k, n),
         NEW new \in RequestSet, new.pc = mid.pc, new.writer = mid.writer, new.overlapped = mid.overlapped,
         new.adds = mid.adds, new.touched = mid.touched, new.off = mid.off, new.quota = mid.quota,
         \/ new.size = mid.size
         \/ new.writer /\ new.adds = {} /\ new.size # NoRequest.size,
         request' = [request EXCEPT ![r] = new],
         UNCHANGED <<locking, registered, m_quotas, quotaObjs, usage, bytes, hist>>
  PROVE  QuotaIInv'
<1>1. k \in registered /\ k \in Kinds
      /\ (QuotaForKind(k) # NoQuota => request[r].off[k] + n <= Available(QuotaForKind(k)))
  BY DEF Allowed, QuotaIInv, QuotaTypeOK
<1>2. request[r] \in RequestSet /\ r \in Active
  BY DEF QuotaIInv, QuotaTypeOK, Active
<1>3. /\ mid.pc = "open" /\ mid.writer = request[r].writer /\ mid.overlapped = request[r].overlapped
      /\ mid.size = request[r].size /\ mid.adds = request[r].adds
      /\ mid.touched = request[r].touched \cup {k}
      /\ mid.off[k] = request[r].off[k] + n /\ \A j \in Kinds \ {k} : mid.off[j] = request[r].off[j]
      /\ mid.quota[k] = QuotaForKind(k) /\ \A j \in Kinds \ {k} : mid.quota[j] = request[r].quota[j]
  BY <1>1, <1>2, OffsetFields DEF QuotaIInv
<1>4. request'[r] = new /\ \A s \in Requests : s # r => request'[s] = request[s]
  BY OneRequest DEF QuotaIInv
<1>5. QuotaTypeOK'
  BY DEF QuotaIInv, QuotaTypeOK
<1>6. WritersAlone'
  <2>1. Sized(r) \/ request[r].adds # {} => request[r].writer
    BY DEF QuotaIInv, WritersAlone
  <2>2. Sized(r) => request[r].adds = {}
    BY DEF QuotaIInv, WritersAlone
  <2>3. new.size # NoRequest.size \/ new.adds # {} => new.writer
    BY <1>3, <2>1 DEF Sized
  <2>4. new.size # NoRequest.size => new.adds = {}
    BY <1>3, <2>2 DEF Sized
  <2>5. new.pc # "idle" /\ new.writer = request[r].writer /\ new.overlapped = request[r].overlapped
    BY <1>3
  <2> QED BY ONLY QuotaIInv, <1>2, <2>3, <2>4, <2>5, request' = [request EXCEPT ![r] = new], GoesOn
<1>7. OffsetsTouched'
  BY <1>1, <1>3, <1>4 DEF QuotaIInv, OffsetsTouched
<1>8. UsageRead'
  BY <1>3, <1>4 DEF QuotaIInv, UsageRead, UsageExact, NextUsage
<1>9. QuotaCurrent'
  <2>1. \A j : QuotaForKind(j)' = QuotaForKind(j)
    BY SameQuotas
  <2>2. ~Sized(r)' => ~Sized(r)
    <3>1. ASSUME new.size = NoRequest.size, Sized(r) PROVE FALSE
      BY <3>1, <1>3 DEF Sized
    <3> QED BY <3>1, <1>4 DEF Sized
  <2>3. \A j \in request[r].touched : j \in Kinds
    BY <1>2 DEF RequestSet
  <2>4. ~Sized(r)' => \A j \in new.touched : new.quota[j] = QuotaForKind(j)
    BY <1>3, <2>2, <2>3 DEF QuotaIInv, QuotaCurrent
  <2> QED BY <1>4, <2>1, <2>4 DEF QuotaIInv, QuotaCurrent, Sized
<1>10. WithinQuota'
  <2>1. ~request[r].overlapped /\ ~request[r].writer =>
          \A j \in new.touched : new.quota[j] # NoQuota => new.off[j] <= Available(new.quota[j])
    <3>1. \A j \in request[r].touched : j \in Kinds
      BY <1>2 DEF RequestSet
    <3> QED BY <1>1, <1>2, <1>3, <3>1 DEF QuotaIInv, WithinQuota
  <2> QED BY <1>2, <1>3, <1>4, <2>1 DEF QuotaIInv, WithinQuota, Active, Available
<1>11. Base' = Base
  BY <1>3, <1>4 DEF Base
<1>12. SizesStored' /\ SumsAgree'
  BY <1>3, <1>11, OwnEarly
<1> QED BY <1>5, <1>6, <1>7, <1>8, <1>9, <1>10, <1>12 DEF QuotaIInv

\* Offsets of kinds, and quotas that are put.
LEMMA ChangesKeep ==
  ASSUME QuotaIInv, NEW r \in Requests,
         \/ \E k \in Kinds, n \in {-1, 1} : ApplyOffset(r, k, n)
         \/ \E q \in QuotaOwners, size \in Sizes : PutQuota(r, q, size)
  PROVE  QuotaIInv'
<1>1. request[r] \in RequestSet
  BY DEF QuotaIInv, QuotaTypeOK
<1>2. ASSUME NEW k \in Kinds, NEW n \in {-1, 1}, ApplyOffset(r, k, n) PROVE QuotaIInv'
  <2> DEFINE mid == WithOffset(request[r], k, n)
  <2>1. /\ request[r].pc = "open" /\ Allowed(r, k, n) /\ request' = [request EXCEPT ![r] = mid]
        /\ UNCHANGED <<locking, registered, m_quotas, quotaObjs, usage, bytes, hist>>
    BY <1>2 DEF ApplyOffset
  <2>2. mid \in RequestSet
    BY <1>1, OffsetFields DEF QuotaIInv
  <2> HIDE DEF mid
  <2>3. mid = WithOffset(request[r], k, n) /\ n \in Int
    BY DEF mid
  <2> QED BY <2>1, <2>2, <2>3, OffsetKeeps
<1>3. ASSUME NEW q \in QuotaOwners, NEW size \in Sizes, PutQuota(r, q, size) PROVE QuotaIInv'
  <2>1. PICK n \in {0, 1} :
          /\ request[r].pc = "open" /\ request[r].writer /\ request[r].adds = {}
          /\ Allowed(r, QuotaKind, n)
          /\ request' = [request EXCEPT ![r] = [WithOffset(@, QuotaKind, n) EXCEPT !.size[q] = size]]
          /\ UNCHANGED <<locking, registered, m_quotas, quotaObjs, usage, bytes, hist>>
    BY <1>3 DEF PutQuota
  <2> DEFINE mid == WithOffset(request[r], QuotaKind, n)
             new == [mid EXCEPT !.size[q] = size]
  <2>2. request' = [request EXCEPT ![r] = new]
    BY <2>1
  <2>3. QuotaKind \in Kinds
    BY <2>1 DEF Allowed, QuotaIInv, QuotaTypeOK
  <2> HIDE DEF mid
  <2>4. mid = WithOffset(request[r], QuotaKind, n) /\ n \in Int
    BY DEF mid
  <2>5. mid \in RequestSet /\ mid.writer /\ mid.adds = {}
    BY <1>1, <2>1, <2>3, <2>4, OffsetFields DEF QuotaIInv
  <2>6. /\ new \in RequestSet /\ new.pc = mid.pc /\ new.writer = mid.writer
        /\ new.overlapped = mid.overlapped /\ new.adds = mid.adds /\ new.touched = mid.touched
        /\ new.off = mid.off /\ new.quota = mid.quota
    BY <2>5, QuotaAssumption DEF RequestSet
  <2>7. new.size # NoRequest.size
    <3>1. new.size[q] = size /\ size # None
      BY <2>5, QuotaAssumption DEF RequestSet
    <3> QED BY <3>1 DEF NoRequest
  <2> HIDE DEF new
  <2>8. new.writer /\ new.adds = {} /\ new.size # NoRequest.size
    BY <2>5, <2>6, <2>7
  <2>9. request[r].pc = "open" /\ Allowed(r, QuotaKind, n) /\ n \in Int
    BY <2>1
  <2>10. UNCHANGED <<locking, registered, m_quotas, quotaObjs, usage, bytes, hist>>
    BY <2>1
  <2>11. mid = WithOffset(request[r], QuotaKind, n)
    BY <2>4
  <2> QED BY ONLY QuotaIInv, r \in Requests, <2>2, <2>6, <2>8, <2>9, <2>10, <2>11, OffsetKeeps
<1> QED BY <1>2, <1>3

\* A kind is put: the engine has it at once, the sums are without it until they are made again.
LEMMA PutKindKeeps ==
  ASSUME QuotaIInv, NEW r \in Requests, NEW k \in Kinds, PutKind(r, k)
  PROVE  QuotaIInv'
<1> DEFINE new == [request[r] EXCEPT !.adds = @ \cup {k}]
<1>1. /\ request[r].pc = "open" /\ request[r].writer /\ request[r].size = NoRequest.size
      /\ k \notin registered /\ request' = [request EXCEPT ![r] = new]
      /\ registered' = registered \cup {k}
      /\ UNCHANGED <<locking, m_quotas, quotaObjs, usage, bytes, hist>>
  BY DEF PutKind
<1>2. request[r] \in RequestSet /\ r \in Active
  BY <1>1 DEF QuotaIInv, QuotaTypeOK, Active
<1>3. /\ new \in RequestSet /\ new.pc = "open" /\ new.writer = request[r].writer
      /\ new.overlapped = request[r].overlapped /\ new.size = request[r].size
      /\ new.adds = request[r].adds \cup {k} /\ new.touched = request[r].touched
      /\ new.off = request[r].off /\ new.quota = request[r].quota
  BY <1>1, <1>2 DEF RequestSet
<1> HIDE DEF new
<1>4. request'[r] = new /\ \A s \in Requests : s # r => request'[s] = request[s]
  BY <1>1, OneRequest DEF QuotaIInv
<1>5. QuotaTypeOK'
  BY <1>1, <1>3 DEF QuotaIInv, QuotaTypeOK
<1>6. WritersAlone'
  <2>1. new.pc # "idle" /\ (new.size # NoRequest.size \/ new.adds # {} => new.writer)
        /\ (new.size # NoRequest.size => new.adds = {})
    BY <1>1, <1>3
  <2> QED BY ONLY QuotaIInv, <1>1, <1>2, <1>3, <2>1, GoesOn
<1>7. OffsetsTouched'
  BY <1>1, <1>3, <1>4 DEF QuotaIInv, OffsetsTouched
<1>8. UsageRead'
  BY <1>1, <1>3, <1>4 DEF QuotaIInv, UsageRead, UsageExact, NextUsage
<1>9. QuotaCurrent'
  <2>1. \A j : QuotaForKind(j)' = QuotaForKind(j)
    BY <1>1, SameQuotas
  <2> QED BY <1>1, <1>3, <1>4, <2>1 DEF QuotaIInv, QuotaCurrent, Sized
<1>10. WithinQuota'
  <2>1. \A s \in Active' : ~request'[s].writer => s \in Active /\ request'[s] = request[s]
    BY <1>1, <1>3, <1>4 DEF Active
  <2>2. \A q : Available(q)' = Available(q)
    BY <1>1 DEF Available
  <2> QED BY <2>1, <2>2 DEF QuotaIInv, WithinQuota
<1>11. Base' = Base
  BY <1>1, <1>3, <1>4 DEF Base
<1>12. SizesStored' /\ SumsAgree'
  BY <1>1, <1>3, <1>11, OwnEarly
<1> QED BY <1>5, <1>6, <1>7, <1>8, <1>9, <1>10, <1>12 DEF QuotaIInv

\* The usage records are read for update: a record that two read drifts.
LEMMA ApplyUsageKeeps ==
  ASSUME QuotaIInv, NEW r \in Requests, ApplyUsage(r)
  PROVE  QuotaIInv'
<1> DEFINE others == {s \in Active \ {r} : request[s].pc = "usage"}
           both == {k \in request[r].touched : \E s \in others : k \in request[s].touched}
           next == [k \in Kinds |-> IF k \in request[r].touched THEN NextUsage(r, k) ELSE 0]
           new == [request[r] EXCEPT !.pc = "usage", !.next = next]
<1>1. /\ request[r].pc = "open" /\ request' = [request EXCEPT ![r] = new]
      /\ hist' = [hist EXCEPT !.drifted = @ \cup both]
      /\ UNCHANGED <<locking, registered, m_quotas, quotaObjs, usage, bytes>>
  BY DEF ApplyUsage
<1>2. request[r] \in RequestSet /\ r \in Active
  BY <1>1 DEF QuotaIInv, QuotaTypeOK, Active
<1>3. next \in [Kinds -> Int]
  BY <1>2 DEF QuotaIInv, QuotaTypeOK, NextUsage, RequestSet
<1>4. \A k \in request[r].touched : k \in Kinds /\ next[k] = NextUsage(r, k)
  BY <1>2 DEF RequestSet
<1>5. /\ both \subseteq Kinds
      /\ \A s \in Requests : s # r /\ request[s].pc = "usage" => request[r].touched \cap request[s].touched \subseteq both
  BY <1>4 DEF Active
<1> HIDE DEF next, both
<1>6. /\ new \in RequestSet /\ new.pc = "usage" /\ new.writer = request[r].writer
      /\ new.overlapped = request[r].overlapped /\ new.size = request[r].size
      /\ new.adds = request[r].adds /\ new.touched = request[r].touched
      /\ new.off = request[r].off /\ new.quota = request[r].quota /\ new.next = next
  BY <1>2, <1>3 DEF RequestSet
<1> HIDE DEF new
<1>7. request'[r] = new /\ \A s \in Requests : s # r => request'[s] = request[s]
  BY <1>1, OneRequest DEF QuotaIInv
<1>8. hist' \in [stale : BOOLEAN, drifted : SUBSET Kinds] /\ hist'.stale = hist.stale /\ hist'.drifted = hist.drifted \cup both
  BY <1>1, <1>5 DEF QuotaIInv, QuotaTypeOK
<1>9. QuotaTypeOK'
  BY <1>1, <1>6, <1>8 DEF QuotaIInv, QuotaTypeOK
<1>10. WritersAlone'
  <2>1. new.pc # "idle" /\ (new.size # NoRequest.size \/ new.adds # {} => new.writer)
        /\ (new.size # NoRequest.size => new.adds = {})
    BY <1>6 DEF QuotaIInv, WritersAlone, Sized
  <2> QED BY ONLY QuotaIInv, <1>1, <1>2, <1>6, <2>1, GoesOn
<1>11. OffsetsTouched'
  BY <1>1, <1>6, <1>7 DEF QuotaIInv, OffsetsTouched
<1>12. UsageRead'
  <2>1. UsageExact'
    BY <1>1, <1>8 DEF QuotaIInv, UsageRead, UsageExact
  <2>2. \A k \in request[r].touched : NextUsage(r, k)' = NextUsage(r, k)
    BY <1>1, <1>6, <1>7 DEF NextUsage
  <2>3. ASSUME NEW s \in Requests, request'[s].pc = "usage"
        PROVE  \A k \in request'[s].touched \ hist'.drifted : request'[s].next[k] = NextUsage(s, k)'
    <3>1. CASE s = r
      BY <1>4, <1>6, <1>7, <2>2, <3>1
    <3>2. CASE s # r
      BY <1>1, <1>7, <1>8, <2>3, <3>2 DEF QuotaIInv, UsageRead, NextUsage
    <3> QED BY <3>1, <3>2
  <2>4. ASSUME NEW a \in Requests, NEW b \in Requests, a # b, request'[a].pc = "usage", request'[b].pc = "usage"
        PROVE  request'[a].touched \cap request'[b].touched \subseteq hist'.drifted
    <3>1. CASE a # r /\ b # r
      BY <1>7, <1>8, <2>4, <3>1 DEF QuotaIInv, UsageRead
    <3>2. CASE a = r
      BY <1>5, <1>6, <1>7, <1>8, <2>4, <3>2
    <3>3. CASE b = r
      BY <1>5, <1>6, <1>7, <1>8, <2>4, <3>3
    <3> QED BY <3>1, <3>2, <3>3
  <2> QED BY <2>1, <2>3, <2>4 DEF UsageRead
<1>13. QuotaCurrent'
  <2>1. \A j : QuotaForKind(j)' = QuotaForKind(j)
    BY <1>1, SameQuotas
  <2> QED BY <1>6, <1>7, <2>1 DEF QuotaIInv, QuotaCurrent, Sized
<1>14. WithinQuota'
  BY <1>1, <1>2, <1>6, <1>7 DEF QuotaIInv, WithinQuota, Active, Available
<1>15. Base' = Base
  BY <1>1, <1>6, <1>7 DEF Base
<1>16. SizesStored' /\ SumsAgree'
  BY <1>1, <1>6, <1>8, <1>15, OwnEarly
<1> QED BY <1>9, <1>10, <1>11, <1>12, <1>13, <1>14, <1>16 DEF QuotaIInv

\* An error before the write undoes the request and the kinds that it added.
LEMMA AbortRequestKeeps ==
  ASSUME QuotaIInv, NEW r \in Requests, AbortRequest(r)
  PROVE  QuotaIInv'
<1>1. /\ request[r].pc \in {"open", "usage"} /\ request' = [request EXCEPT ![r] = NoRequest]
      /\ registered' = registered \ request[r].adds
      /\ UNCHANGED <<locking, m_quotas, quotaObjs, usage, bytes, hist>>
  BY DEF AbortRequest
<1>2. /\ WritersAlone' /\ request' \in [Requests -> RequestSet]
      /\ request'[r] = NoRequest /\ \A s \in Requests : s # r => request'[s] = request[s]
  BY <1>1, Ends
<1>3. QuotaTypeOK'
  BY <1>1, <1>2 DEF QuotaIInv, QuotaTypeOK
<1>4. OffsetsTouched'
  <2>1. \A s \in Requests : s # r /\ request[s].pc # "idle" => request[r].adds = {}
    BY <1>1 DEF QuotaIInv, WritersAlone, Active
  <2>2. \A s \in Requests : request[s].pc = "idle" => request[s].touched = {}
    BY NoRequestType DEF QuotaIInv, WritersAlone
  <2>3. \A s \in Requests : request'[s].touched \subseteq registered'
    BY <1>1, <1>2, <2>1, <2>2, NoRequestType DEF QuotaIInv, OffsetsTouched
  <2> QED BY <1>2, <2>3, NoRequestType DEF QuotaIInv, OffsetsTouched
<1>5. UsageRead'
  BY <1>1, <1>2, NoRequestType DEF QuotaIInv, UsageRead, UsageExact, NextUsage
<1>6. QuotaCurrent'
  <2>1. \A j : QuotaForKind(j)' = QuotaForKind(j)
    BY <1>1, SameQuotas
  <2> QED BY <1>2, <2>1, NoRequestType DEF QuotaIInv, QuotaCurrent, Sized
<1>7. WithinQuota'
  BY <1>1, <1>2, NoRequestType DEF QuotaIInv, WithinQuota, Active, Available
<1>8. Base' = Base
  BY <1>1, <1>2, NoRequestType DEF Base
<1>9. SizesStored' /\ SumsAgree'
  BY <1>1, <1>8, NoRequestType, OwnEarly
<1> QED BY <1>2, <1>3, <1>4, <1>5, <1>6, <1>7, <1>9 DEF QuotaIInv

\* One after the write leaves the sums in memory as they are: they are stale.
LEMMA FailAfterCommitKeeps ==
  ASSUME QuotaIInv, NEW r \in Requests, FailAfterCommit(r)
  PROVE  QuotaIInv'
<1>1. /\ request' = [request EXCEPT ![r] = NoRequest]
      /\ hist' = [hist EXCEPT !.stale = TRUE]
      /\ UNCHANGED <<locking, registered, m_quotas, quotaObjs, usage, bytes>>
  BY DEF FailAfterCommit
<1>2. /\ WritersAlone' /\ request' \in [Requests -> RequestSet]
      /\ request'[r] = NoRequest /\ \A s \in Requests : s # r => request'[s] = request[s]
  BY <1>1, Ends
<1>3. hist' \in [stale : BOOLEAN, drifted : SUBSET Kinds] /\ hist'.stale /\ hist'.drifted = hist.drifted
  BY <1>1 DEF QuotaIInv, QuotaTypeOK
<1>4. QuotaTypeOK'
  BY <1>1, <1>2, <1>3 DEF QuotaIInv, QuotaTypeOK
<1>5. OffsetsTouched'
  BY <1>1, <1>2, NoRequestType DEF QuotaIInv, OffsetsTouched
<1>6. UsageRead'
  BY <1>1, <1>2, <1>3, NoRequestType DEF QuotaIInv, UsageRead, UsageExact, NextUsage
<1>7. QuotaCurrent'
  <2>1. \A j : QuotaForKind(j)' = QuotaForKind(j)
    BY <1>1, SameQuotas
  <2> QED BY <1>2, <2>1, NoRequestType DEF QuotaIInv, QuotaCurrent, Sized
<1>8. WithinQuota'
  BY <1>1, <1>2, NoRequestType DEF QuotaIInv, WithinQuota, Active, Available
<1> QED BY <1>2, <1>3, <1>4, <1>5, <1>6, <1>7, <1>8 DEF QuotaIInv, SizesStored, SumsAgree

\* What refreshImpl adds up for a quota.
SumFor(quotas, kinds, q) ==
  IF quotas[q].size # None
  THEN Total(usage, {k \in kinds : QuotaAmong(k, {p \in QuotaOwners : quotas[p].size # None}) = q})
  ELSE 0

\* refreshImpl makes the sums again, for the quotas that are put.
LEMMA RefreshedIs ==
  ASSUME QuotaTypeOK, NEW quotas \in [QuotaOwners -> [size : Int, usage : Int]], NEW kinds \in SUBSET Kinds,
         NEW made, made = Refreshed(quotas, kinds, usage)
  PROVE  /\ made \in [QuotaOwners -> [size : Int, usage : Int]]
         /\ \A q \in QuotaOwners : made[q].size = quotas[q].size
         /\ \A q \in QuotaOwners : made[q].usage = SumFor(quotas, kinds, q)
<1> DEFINE under(q) == {k \in kinds : QuotaAmong(k, {p \in QuotaOwners : quotas[p].size # None}) = q}
<1>1. made = [q \in QuotaOwners |-> [size |-> quotas[q].size, usage |-> SumFor(quotas, kinds, q)]]
  BY DEF Refreshed, SumFor
<1>2. ASSUME NEW q \in QuotaOwners PROVE SumFor(quotas, kinds, q) \in Int
  <2>1. IsFiniteSet(under(q)) /\ \A k \in under(q) : usage[k] \in Int
    BY FS_Subset, QuotaAssumption DEF QuotaTypeOK
  <2>2. SumFor(quotas, kinds, q) = IF quotas[q].size # None THEN Total(usage, under(q)) ELSE 0
    BY DEF SumFor
  <2> HIDE DEF under
  <2>3. Total(usage, under(q)) \in Int
    BY <2>1, TotalInt
  <2> QED BY <2>2, <2>3
<1>3. made \in [QuotaOwners -> [size : Int, usage : Int]]
  BY <1>1, <1>2
<1>4. \A q \in QuotaOwners : made[q].size = quotas[q].size /\ made[q].usage = SumFor(quotas, kinds, q)
  BY <1>1
<1> QED BY <1>3, <1>4

\* When the sums are made again nothing is owed.
LEMMA MadeAgain ==
  ASSUME QuotaTypeOK, NEW quotas \in [QuotaOwners -> [size : Int, usage : Int]],
         m_quotas' = Refreshed(quotas, Base', usage), Base' \in SUBSET Kinds, UNCHANGED usage,
         \A s \in Requests : ~(Late(s)' /\ ~Sized(s)')
  PROVE  /\ SumsAgree' /\ m_quotas' \in [QuotaOwners -> [size : Int, usage : Int]]
         /\ \A q \in QuotaOwners : m_quotas'[q].size = quotas[q].size
<1> DEFINE kinds == Base'
           made == m_quotas'
<1>1. /\ made \in [QuotaOwners -> [size : Int, usage : Int]]
      /\ \A q \in QuotaOwners : made[q].size = quotas[q].size
      /\ \A q \in QuotaOwners : made[q].usage = SumFor(quotas, kinds, q)
  <2>1. made = Refreshed(quotas, kinds, usage) /\ kinds \in SUBSET Kinds
    OBVIOUS
  <2> HIDE DEF made, kinds
  <2> QED BY ONLY QuotaTypeOK, quotas \in [QuotaOwners -> [size : Int, usage : Int]], <2>1, RefreshedIs
<1>2. {p \in QuotaOwners : quotas[p].size # None} = {p \in QuotaOwners : Put(p)'}
  BY <1>1 DEF Put
<1>3. \A k : QuotaForKind(k)' = QuotaAmong(k, {p \in QuotaOwners : quotas[p].size # None})
  BY <1>2 DEF QuotaForKind
<1>4. ASSUME NEW q \in QuotaOwners PROVE made[q].usage = Given(q)'
  <2>1. {k \in kinds : QuotaAmong(k, {p \in QuotaOwners : quotas[p].size # None}) = q}
          = {k \in kinds : QuotaForKind(k)' = q}
    BY <1>3
  <2>2. Put(q)' <=> quotas[q].size # None
    BY <1>1 DEF Put
  <2> QED BY <1>1, <2>1, <2>2 DEF Given, SumFor
<1>5. ASSUME NEW q \in QuotaOwners PROVE Total(Owed(q)', Requests) = 0
  <2> DEFINE owed == Owed(q)'
  <2>1. \A s \in Requests : owed[s] = 0
    BY DEF Owed
  <2> HIDE DEF owed
  <2>2. Total(owed, Requests) = 0
    BY <2>1, TotalZero, QuotaAssumption
  <2> QED BY <2>2 DEF owed
<1>6. SumsAgree'
  <2>1. ASSUME NEW q \in QuotaOwners PROVE m_quotas'[q].usage + Total(Owed(q)', Requests) = Given(q)'
    BY <1>1, <1>4, <1>5
  <2> QED BY <2>1 DEF SumsAgree
<1> QED BY <1>1, <1>6

\* open: the database starts again with what is stored.
LEMMA RestartKeeps ==
  ASSUME QuotaIInv, Restart
  PROVE  QuotaIInv'
<1> DEFINE kinds == registered \ UNION {request[r].adds : r \in Uncommitted}
           stored == [q \in QuotaOwners |-> [size |-> quotaObjs[q], usage |-> 0]]
<1>1. /\ registered' = kinds /\ m_quotas' = Refreshed(stored, kinds, usage)
      /\ request' = [r \in Requests |-> NoRequest] /\ hist' = [hist EXCEPT !.stale = FALSE]
      /\ UNCHANGED <<locking, quotaObjs, usage, bytes>>
  BY DEF Restart
<1>2. kinds \in SUBSET Kinds /\ stored \in [QuotaOwners -> [size : Int, usage : Int]]
      /\ \A q \in QuotaOwners : stored[q].size = quotaObjs[q]
  BY DEF QuotaIInv, QuotaTypeOK
<1> HIDE DEF kinds, stored
<1>3. \A r \in Requests : request'[r] = NoRequest
  BY <1>1
<1>4. Base' = kinds
  BY <1>1, <1>3, NoRequestType DEF Base
<1>5. /\ SumsAgree' /\ m_quotas' \in [QuotaOwners -> [size : Int, usage : Int]]
      /\ \A q \in QuotaOwners : m_quotas'[q].size = quotaObjs[q]
  <2>1. \A s \in Requests : ~(Late(s)' /\ ~Sized(s)')
    BY <1>3, NoRequestType DEF Late
  <2> QED BY <1>1, <1>2, <1>4, <2>1, MadeAgain DEF QuotaIInv
<1>6. hist' \in [stale : BOOLEAN, drifted : SUBSET Kinds] /\ hist'.drifted = hist.drifted
  BY <1>1 DEF QuotaIInv, QuotaTypeOK
<1>7. QuotaTypeOK'
  BY <1>1, <1>2, <1>5, <1>6, NoRequestType DEF QuotaIInv, QuotaTypeOK
<1>8. WritersAlone' /\ OffsetsTouched' /\ QuotaCurrent' /\ WithinQuota'
  BY <1>3, NoRequestType DEF WritersAlone, OffsetsTouched, QuotaCurrent, WithinQuota, Active, Sized
<1>9. UsageRead'
  BY <1>1, <1>3, <1>6, NoRequestType DEF QuotaIInv, UsageRead, UsageExact
<1>10. SizesStored'
  BY <1>1, <1>3, <1>5, NoRequestType DEF SizesStored
<1> QED BY <1>5, <1>7, <1>8, <1>9, <1>10 DEF QuotaIInv

\* A kind for which an offset is noted counts for the quota that it is noted under.
LEMMA OffsetCounted ==
  ASSUME QuotaIInv, NEW r \in Requests, ~Sized(r), \A s \in Requests : request[s].adds = {}, NEW q \in QuotaOwners
  PROVE  /\ Put(q) => Total(request[r].off, {k \in Base : QuotaForKind(k) = q}) = OffsetOf(r, q)
         /\ ~Put(q) => OffsetOf(r, q) = 0
<1> DEFINE S == {k \in request[r].touched : request[r].quota[k] = q}
           U == {k \in Base : QuotaForKind(k) = q}
           off == request[r].off
<1>1. \A k \in request[r].touched : k \in Base /\ request[r].quota[k] = QuotaForKind(k)
  BY DEF QuotaIInv, OffsetsTouched, QuotaCurrent, Base
<1>2. U \subseteq Kinds /\ IsFiniteSet(U)
  BY FS_Subset, QuotaAssumption DEF QuotaIInv, QuotaTypeOK, Base
<1>3. \A k \in Kinds : off[k] \in Int
  BY DEF QuotaIInv, QuotaTypeOK, RequestSet
<1>4. S \subseteq U /\ \A k \in U \ S : off[k] = 0
  BY <1>1, <1>2 DEF QuotaIInv, OffsetsTouched
<1>5. OffsetOf(r, q) = Total(off, S)
  BY DEF OffsetOf
<1>6. \A k \in S : QuotaForKind(k) = q
  BY <1>1
<1>7. \A k : QuotaForKind(k) \in {p \in QuotaOwners : Put(p)} \cup {NoQuota}
  BY QuotaFound DEF QuotaForKind
<1> HIDE DEF S, U, off
<1>8. Total(off, U) = Total(off, S)
  BY <1>2, <1>3, <1>4, TotalMore
<1>9. ~Put(q) => S = {}
  BY <1>6, <1>7, QuotaAssumption
<1>10. Total(off, {}) = 0
  BY TotalStep, FS_EmptySet
<1>11. (Put(q) => Total(off, U) = OffsetOf(r, q)) /\ (~Put(q) => OffsetOf(r, q) = 0)
  BY <1>5, <1>8, <1>9, <1>10
<1> QED BY <1>11 DEF U, off

\* The transaction is written, with the usage records that it read.
LEMMA CommitTxnKeeps ==
  ASSUME QuotaIInv, NEW r \in Requests, CommitTxn(r)
  PROVE  QuotaIInv'
<1> DEFINE new == [request[r] EXCEPT !.pc = "stored", !.next = NoRequest.next]
<1>1. /\ request[r].pc = "usage" /\ request' = [request EXCEPT ![r] = new]
      /\ usage' = [k \in Kinds |-> IF k \in request[r].touched THEN request[r].next[k] ELSE usage[k]]
      /\ bytes' = [k \in Kinds |-> bytes[k] + request[r].off[k]]
      /\ quotaObjs' = [q \in QuotaOwners |-> IF request[r].size[q] # None THEN request[r].size[q] ELSE quotaObjs[q]]
      /\ UNCHANGED <<locking, registered, m_quotas, hist>>
  BY DEF CommitTxn, NewSizes
<1>2. request[r] \in RequestSet /\ r \in Active
  BY <1>1 DEF QuotaIInv, QuotaTypeOK, Active
<1>3. /\ new \in RequestSet /\ new.pc = "stored" /\ new.writer = request[r].writer
      /\ new.overlapped = request[r].overlapped /\ new.size = request[r].size
      /\ new.adds = request[r].adds /\ new.touched = request[r].touched
      /\ new.off = request[r].off /\ new.quota = request[r].quota
  BY <1>2, NoRequestType DEF RequestSet
<1> HIDE DEF new
<1>4. request'[r] = new /\ \A s \in Requests : s # r => request'[s] = request[s]
  BY <1>1, OneRequest DEF QuotaIInv
<1>5. QuotaTypeOK'
  BY <1>1, <1>2, <1>3 DEF QuotaIInv, QuotaTypeOK, RequestSet
<1>6. WritersAlone'
  <2>1. new.pc # "idle" /\ (new.size # NoRequest.size \/ new.adds # {} => new.writer)
        /\ (new.size # NoRequest.size => new.adds = {})
    BY <1>3 DEF QuotaIInv, WritersAlone, Sized
  <2> QED BY ONLY QuotaIInv, <1>1, <1>2, <1>3, <2>1, GoesOn
<1>7. OffsetsTouched'
  BY <1>1, <1>3, <1>4 DEF QuotaIInv, OffsetsTouched
<1>8. UsageRead'
  <2>1. ASSUME NEW k \in Kinds \ hist.drifted PROVE usage'[k] = usage[k] + request[r].off[k]
    <3>1. CASE k \in request[r].touched
      <4>1. request[r].next[k] = usage[k] + request[r].off[k]
        BY <1>1, <3>1, <2>1 DEF QuotaIInv, UsageRead, NextUsage
      <4> QED BY <1>1, <3>1, <4>1
    <3>2. CASE k \notin request[r].touched
      <4>1. request[r].off[k] = 0 /\ usage[k] \in Int
        BY <3>2 DEF QuotaIInv, OffsetsTouched, QuotaTypeOK
      <4> QED BY <1>1, <3>2, <4>1
    <3> QED BY <3>1, <3>2
  <2>2. UsageExact'
    BY <1>1, <2>1 DEF QuotaIInv, UsageRead, UsageExact
  <2>3. ASSUME NEW s \in Requests, s # r, request[s].pc = "usage", NEW k \in request[s].touched \ hist.drifted
        PROVE  usage'[k] = usage[k] /\ request[s].next[k] = usage[k] + request[s].off[k]
    <3>1. k \in Kinds /\ k \notin request[r].touched
      BY <1>1, <2>3 DEF QuotaIInv, UsageRead, QuotaTypeOK, RequestSet
    <3> QED BY <1>1, <2>3, <3>1 DEF QuotaIInv, UsageRead, NextUsage
  <2>4. \A s \in Requests : request'[s].pc = "usage" => s # r
    BY <1>3, <1>4
  <2> QED BY <1>1, <1>4, <2>2, <2>3, <2>4 DEF QuotaIInv, UsageRead, NextUsage
<1>9. QuotaCurrent'
  <2>1. \A j : QuotaForKind(j)' = QuotaForKind(j)
    BY <1>1, SameQuotas
  <2> QED BY <1>3, <1>4, <2>1 DEF QuotaIInv, QuotaCurrent, Sized
<1>10. WithinQuota'
  BY <1>1, <1>2, <1>3, <1>4 DEF QuotaIInv, WithinQuota, Active, Available
<1>11. \A s \in Requests : s # r => ~Sized(s) /\ request[s].adds = {}
  BY <1>2, NoRequestType DEF QuotaIInv, WritersAlone, Sized, Active
<1>12. SizesStored'
  <2> SUFFICES ASSUME ~hist.stale PROVE SizesStored'
    BY <1>1 DEF SizesStored
  <2>1. \A q \in QuotaOwners : quotaObjs[q] = m_quotas[q].size
    BY <1>1, <1>11 DEF QuotaIInv, SizesStored
  <2>2. ~Sized(r) => \A q \in QuotaOwners : request[r].size[q] = None
    BY DEF Sized, NoRequest
  <2>3. \A s \in Requests : s # r => \A q \in QuotaOwners : request[s].size[q] = None
    BY <1>11 DEF Sized, NoRequest
  <2>4. Sized(r)' <=> Sized(r)
    BY <1>3, <1>4 DEF Sized
  <2>5. (\A s \in Requests : request'[s].pc = "stored" => ~Sized(s)') =>
          \A q \in QuotaOwners : quotaObjs'[q] = m_quotas'[q].size
    BY <1>1, <1>3, <1>4, <2>1, <2>2, <2>4
  <2>6. ASSUME NEW s \in Requests, request'[s].pc = "stored", NEW q \in QuotaOwners
        PROVE  quotaObjs'[q] = IF request'[s].size[q] # None THEN request'[s].size[q] ELSE m_quotas'[q].size
    <3>1. CASE s = r
      BY <1>1, <1>3, <1>4, <2>1, <3>1
    <3>2. CASE s # r
      <4>1. request[s].pc = "stored" /\ s \in Active
        BY <1>4, <2>6, <3>2 DEF Active
      <4>2. ~Sized(r)
        BY <1>2, <3>2, <4>1 DEF QuotaIInv, WritersAlone
      <4> QED BY <1>1, <1>4, <2>1, <2>2, <2>3, <3>2, <4>2
    <3> QED BY <3>1, <3>2
  <2> QED BY <2>5, <2>6 DEF SizesStored
<1>13. SumsAgree'
  <2> SUFFICES ASSUME ~hist.stale, hist.drifted = {}, \A s \in Requests : ~Unsettled(s)', NEW q \in QuotaOwners
               PROVE  m_quotas'[q].usage + Total(Owed(q)', Requests) = Given(q)'
    BY <1>1 DEF SumsAgree
  <2>1. ~Sized(r) /\ request[r].adds = {}
    BY <1>3, <1>4 DEF Unsettled, Late, Sized
  <2>2. \A s \in Requests : request[s].adds = {} /\ ~Sized(s)
    BY <1>11, <2>1
  <2>3. \A s \in Requests : ~Unsettled(s)
    BY <2>2 DEF Unsettled
  <2>4. m_quotas[q].usage + Total(Owed(q), Requests) = Given(q)
    BY <2>3 DEF QuotaIInv, SumsAgree
  <2> DEFINE owed == Owed(q)
             next == Owed(q)'
  <2>5. /\ \A s \in Requests : s # r => next[s] = owed[s]
        /\ owed[r] = 0 /\ next[r] = OffsetOf(r, q)
        /\ \A s \in Requests : owed[s] \in Int /\ next[s] \in Int
    <3>1. \A s \in Requests : OffsetOf(s, q) \in Int
      BY OffsetInt DEF QuotaIInv
    <3>2. \A s \in Requests : OffsetOf(s, q)' = OffsetOf(s, q)
      BY <1>3, <1>4 DEF OffsetOf
    <3>3. Late(r)' /\ ~Late(r) /\ ~Sized(r)'
      BY <1>1, <1>3, <1>4, <2>1 DEF Late, Sized
    <3>4. \A s \in Requests : s # r => (Late(s)' <=> Late(s)) /\ (Sized(s)' <=> Sized(s))
      BY <1>4 DEF Late, Sized
    <3> QED BY <3>1, <3>2, <3>3, <3>4 DEF Owed
  <2> HIDE DEF owed, next
  <2>6. Total(next, Requests) = Total(owed, Requests) - owed[r] + next[r]
    BY <2>5, QuotaAssumption, TotalChange
  <2>7. Total(owed, Requests) \in Int /\ OffsetOf(r, q) \in Int
    BY <2>5, QuotaAssumption, TotalInt
  <2> DEFINE U == {k \in Base : QuotaForKind(k) = q}
  <2>8. {k \in Base' : QuotaForKind(k)' = q} = U
    <3>1. Base' = Base
      BY <1>1, <1>3, <1>4 DEF Base
    <3>2. \A k : QuotaForKind(k)' = QuotaForKind(k)
      BY <1>1, SameQuotas
    <3> QED BY <3>1, <3>2
  <2>9. U \subseteq Kinds /\ IsFiniteSet(U)
    BY FS_Subset, QuotaAssumption DEF QuotaIInv, QuotaTypeOK, Base
  <2>10. /\ Put(q) => Total(request[r].off, U) = OffsetOf(r, q)
         /\ ~Put(q) => OffsetOf(r, q) = 0
    BY <2>1, <2>2, OffsetCounted
  <2>11. Given(q) = (IF Put(q) THEN Total(usage, U) ELSE 0) /\ Given(q)' = IF Put(q) THEN Total(usage', U) ELSE 0
    <3>1. Put(q)' <=> Put(q)
      BY <1>1 DEF Put
    <3> QED BY <2>8, <3>1 DEF Given
  <2> HIDE DEF U
  <2>12. \A k \in U : usage[k] \in Int /\ request[r].off[k] \in Int /\ usage'[k] = usage[k] + request[r].off[k]
    <3>1. ASSUME NEW k \in Kinds PROVE usage'[k] = usage[k] + request[r].off[k] /\ usage[k] \in Int /\ request[r].off[k] \in Int
      <4>1. usage[k] \in Int /\ request[r].off[k] \in Int
        BY <1>2 DEF QuotaIInv, QuotaTypeOK, RequestSet
      <4>2. k \in request[r].touched => request[r].next[k] = usage[k] + request[r].off[k]
        BY <1>1 DEF QuotaIInv, UsageRead, NextUsage
      <4>3. k \notin request[r].touched => request[r].off[k] = 0
        BY DEF QuotaIInv, OffsetsTouched
      <4> QED BY <1>1, <4>1, <4>2, <4>3
    <3> QED BY <2>9, <3>1
  <2>13. Total(usage', U) = Total(usage, U) + Total(request[r].off, U)
    BY <2>9, <2>12, TotalOfTwo
  <2>14. m_quotas'[q].usage = m_quotas[q].usage /\ m_quotas[q].usage \in Int
    BY <1>1 DEF QuotaIInv, QuotaTypeOK
  <2>15. Given(q)' = Given(q) + OffsetOf(r, q)
    BY <2>10, <2>11, <2>13
  <2> QED BY <2>4, <2>5, <2>6, <2>7, <2>14, <2>15 DEF owed, next
<1> QED BY <1>5, <1>6, <1>7, <1>8, <1>9, <1>10, <1>12, <1>13 DEF QuotaIInv

\* A request that puts quotas or kinds is alone, so nothing else is under way.
LEMMA OthersIdle ==
  ASSUME QuotaIInv, NEW r \in Active, request[r].writer
  PROVE  \A s \in Requests : s # r => request[s] = NoRequest
BY DEF QuotaIInv, WritersAlone, Active

\* commitQuota puts the quotas in memory and makes the sums again.
LEMMA CommitQuotaKeeps ==
  ASSUME QuotaIInv, NEW r \in Requests, CommitQuota(r)
  PROVE  QuotaIInv'
<1> DEFINE new == [request[r] EXCEPT !.pc = "post"]
           sized == [q \in QuotaOwners |-> [m_quotas[q] EXCEPT !.size =
                       IF request[r].size[q] # None THEN request[r].size[q] ELSE @]]
           changed == \E q \in QuotaOwners : request[r].size[q] # None
<1>1. /\ request[r].pc = "stored" /\ request' = [request EXCEPT ![r] = new]
      /\ m_quotas' = IF changed THEN Refreshed(sized, registered, usage) ELSE m_quotas
      /\ UNCHANGED <<locking, registered, quotaObjs, usage, bytes, hist>>
  BY DEF CommitQuota
<1>2. request[r] \in RequestSet /\ r \in Active
  BY <1>1 DEF QuotaIInv, QuotaTypeOK, Active
<1>3. /\ new \in RequestSet /\ new.pc = "post" /\ new.writer = request[r].writer
      /\ new.overlapped = request[r].overlapped /\ new.size = request[r].size
      /\ new.adds = request[r].adds /\ new.touched = request[r].touched
      /\ new.off = request[r].off /\ new.quota = request[r].quota
  BY <1>2 DEF RequestSet
<1>4. /\ sized \in [QuotaOwners -> [size : Int, usage : Int]]
      /\ \A q \in QuotaOwners : sized[q].size =
           IF request[r].size[q] # None THEN request[r].size[q] ELSE m_quotas[q].size
  BY SMTT(30), <1>2 DEF QuotaIInv, QuotaTypeOK, RequestSet
<1>5. changed <=> Sized(r)
  BY <1>2 DEF Sized, NoRequest, RequestSet
<1> HIDE DEF new, sized, changed
<1>6. request'[r] = new /\ \A s \in Requests : s # r => request'[s] = request[s]
  BY <1>1, OneRequest DEF QuotaIInv
<1>7. WritersAlone'
  <2>1. new.pc # "idle" /\ (new.size # NoRequest.size \/ new.adds # {} => new.writer)
        /\ (new.size # NoRequest.size => new.adds = {})
    BY <1>3 DEF QuotaIInv, WritersAlone, Sized
  <2> QED BY ONLY QuotaIInv, <1>1, <1>2, <1>3, <2>1, GoesOn
<1>8. OffsetsTouched'
  BY <1>1, <1>3, <1>6 DEF QuotaIInv, OffsetsTouched
<1>9. UsageRead'
  BY <1>1, <1>3, <1>6 DEF QuotaIInv, UsageRead, UsageExact, NextUsage
<1>10. Sized(r)' <=> Sized(r)
  BY <1>3, <1>6 DEF Sized
<1>11. CASE ~Sized(r)
  <2>1. UNCHANGED m_quotas
    BY <1>1, <1>5, <1>11
  <2>2. QuotaTypeOK'
    BY <1>1, <1>3, <2>1 DEF QuotaIInv, QuotaTypeOK
  <2>3. \A j : QuotaForKind(j)' = QuotaForKind(j)
    BY <2>1, SameQuotas
  <2>4. QuotaCurrent'
    BY <1>3, <1>6, <2>3 DEF QuotaIInv, QuotaCurrent, Sized
  <2>5. WithinQuota'
    BY <1>1, <1>2, <1>3, <1>6, <2>1 DEF QuotaIInv, WithinQuota, Active, Available
  <2>6. SizesStored'
    <3>1. \A s \in Requests : request'[s].pc = "stored" => s # r /\ request[s].pc = "stored" /\ request'[s] = request[s]
      BY <1>3, <1>6
    <3>2. (\A s \in Requests : request'[s].pc = "stored" => ~Sized(s)')
            <=> (\A s \in Requests : request[s].pc = "stored" => ~Sized(s))
      BY <1>1, <1>3, <1>6, <1>11 DEF Sized
    <3> QED BY <1>1, <2>1, <3>1, <3>2 DEF QuotaIInv, SizesStored
  <2>7. SumsAgree'
    <3>1. \A s \in Requests : Unsettled(s)' <=> Unsettled(s)
      BY <1>1, <1>3, <1>6, <1>11 DEF Unsettled, Late, Sized
    <3>2. ASSUME NEW q PROVE Owed(q)' = Owed(q)
      <4>1. \A s \in Requests : OffsetOf(s, q)' = OffsetOf(s, q)
        BY <1>3, <1>6 DEF OffsetOf
      <4>2. \A s \in Requests : (Late(s)' <=> Late(s)) /\ (Sized(s)' <=> Sized(s))
        BY <1>1, <1>3, <1>6 DEF Late, Sized
      <4> QED BY <4>1, <4>2 DEF Owed
    <3>3. Base' = Base
      BY <1>1, <1>3, <1>6 DEF Base
    <3>4. ASSUME NEW q \in QuotaOwners PROVE Given(q)' = Given(q)
      BY <1>1, <2>1, <2>3, <3>3 DEF Given, Put
    <3>5. hist' = hist /\ m_quotas' = m_quotas
      BY <1>1, <2>1
    <3> QED BY <3>1, <3>2, <3>4, <3>5 DEF QuotaIInv, SumsAgree
  <2> QED BY <1>7, <1>8, <1>9, <2>2, <2>4, <2>5, <2>6, <2>7 DEF QuotaIInv
<1>12. CASE Sized(r)
  <2>1. m_quotas' = Refreshed(sized, registered, usage) /\ request[r].writer /\ request[r].adds = {}
    BY <1>1, <1>5, <1>12 DEF QuotaIInv, WritersAlone
  <2>2. \A s \in Requests : s # r => request[s] = NoRequest /\ request'[s] = NoRequest
    BY <1>2, <1>6, <2>1, OthersIdle
  <2>3. Base' = registered
    BY <1>1, <1>3, <1>6, <2>1, <2>2, NoRequestType DEF Base
  <2>4. /\ SumsAgree' /\ m_quotas' \in [QuotaOwners -> [size : Int, usage : Int]]
        /\ \A q \in QuotaOwners : m_quotas'[q].size = sized[q].size
    <3>1. \A s \in Requests : ~(Late(s)' /\ ~Sized(s)')
      BY <1>10, <1>12, <2>2, NoRequestType DEF Late
    <3>2. Base' \in SUBSET Kinds /\ QuotaTypeOK /\ UNCHANGED usage
      BY <1>1, <2>3 DEF QuotaIInv, QuotaTypeOK
    <3> QED BY <1>4, <2>1, <2>3, <3>1, <3>2, MadeAgain
  <2>5. QuotaTypeOK'
    BY <1>1, <1>3, <2>4 DEF QuotaIInv, QuotaTypeOK
  <2>6. QuotaCurrent'
    BY <1>10, <1>12, <2>2, NoRequestType DEF QuotaCurrent
  <2>7. WithinQuota'
    BY <1>3, <1>6, <2>1, <2>2, NoRequestType DEF WithinQuota, Active
  <2>8. SizesStored'
    <3>1. \A s \in Requests : request'[s].pc # "stored"
      BY <1>3, <1>6, <2>2, NoRequestType
    <3>2. ~hist.stale => \A q \in QuotaOwners : quotaObjs[q] =
            IF request[r].size[q] # None THEN request[r].size[q] ELSE m_quotas[q].size
      BY <1>1 DEF QuotaIInv, SizesStored
    <3> QED BY <1>1, <1>4, <2>4, <3>1, <3>2 DEF SizesStored
  <2> QED BY <1>7, <1>8, <1>9, <2>4, <2>5, <2>6, <2>7, <2>8 DEF QuotaIInv
<1> QED BY <1>11, <1>12

\* applyQuota adds what was written to the sums, or they are made again for the kinds that were added.
LEMMA ApplyQuotaKeeps ==
  ASSUME QuotaIInv, NEW r \in Requests, ApplyQuota(r)
  PROVE  QuotaIInv'
<1>1. /\ request[r].pc = "post" /\ request' = [request EXCEPT ![r] = NoRequest]
      /\ m_quotas' = IF request[r].adds # {} THEN Refreshed(m_quotas, registered, usage) ELSE Applied(r)
      /\ hist' = [hist EXCEPT !.stale = @ \/ CountedTwice(r)]
      /\ UNCHANGED <<locking, registered, quotaObjs, usage, bytes>>
  BY DEF ApplyQuota
<1>2. request[r] \in RequestSet /\ r \in Active
  BY <1>1 DEF QuotaIInv, QuotaTypeOK, Active
<1>3. /\ WritersAlone' /\ request' \in [Requests -> RequestSet]
      /\ request'[r] = NoRequest /\ \A s \in Requests : s # r => request'[s] = request[s]
  BY <1>1, Ends
<1>4. /\ hist' \in [stale : BOOLEAN, drifted : SUBSET Kinds]
      /\ hist'.stale = (hist.stale \/ CountedTwice(r)) /\ hist'.drifted = hist.drifted
  BY <1>1 DEF QuotaIInv, QuotaTypeOK, CountedTwice
<1>5. OffsetsTouched'
  BY <1>1, <1>3, NoRequestType DEF QuotaIInv, OffsetsTouched
<1>6. UsageRead'
  BY <1>1, <1>3, <1>4, NoRequestType DEF QuotaIInv, UsageRead, UsageExact, NextUsage
<1>7. WithinQuota'
  <2>1. \A a \in Active' : a \in Active /\ a # r /\ request'[a] = request[a]
    BY <1>3, NoRequestType DEF Active
  <2>2. \A a \in Active' : request'[a].overlapped
    BY <1>2, <2>1 DEF QuotaIInv, WritersAlone
  <2> QED BY <2>2 DEF WithinQuota
<1>8. ASSUME \A q \in QuotaOwners : m_quotas'[q].size = m_quotas[q].size,
             m_quotas' \in [QuotaOwners -> [size : Int, usage : Int]], SumsAgree'
      PROVE  QuotaIInv'
  <2>1. QuotaTypeOK'
    BY <1>1, <1>3, <1>4, <1>8 DEF QuotaIInv, QuotaTypeOK
  <2>2. QuotaCurrent'
    <3>1. \A j : QuotaForKind(j)' = QuotaForKind(j)
      BY <1>8, SameQuotas
    <3> QED BY <1>3, <3>1, NoRequestType DEF QuotaIInv, QuotaCurrent, Sized
  <2>3. SizesStored'
    <3>1. \A s \in Requests : request'[s].pc = "stored" => s # r /\ request'[s] = request[s]
      BY <1>3, NoRequestType
    <3>2. (\A s \in Requests : request'[s].pc = "stored" => ~Sized(s)')
            => (\A s \in Requests : request[s].pc = "stored" => ~Sized(s))
      BY <1>1, <1>3 DEF Sized
    <3> QED BY <1>1, <1>4, <1>8, <3>1, <3>2 DEF QuotaIInv, SizesStored
  <2> QED BY <1>3, <1>5, <1>6, <1>7, <1>8, <2>1, <2>2, <2>3 DEF QuotaIInv
<1>9. CASE request[r].adds # {}
  <2>1. m_quotas' = Refreshed(m_quotas, registered, usage) /\ request[r].writer
    BY <1>1, <1>9 DEF QuotaIInv, WritersAlone
  <2>2. \A s \in Requests : request'[s] = NoRequest
    BY <1>2, <1>3, <2>1, OthersIdle
  <2>3. Base' = registered
    BY <1>1, <2>2, NoRequestType DEF Base
  <2>4. \A s \in Requests : ~(Late(s)' /\ ~Sized(s)')
    BY <2>2, NoRequestType DEF Late
  <2>5. /\ Base' \in SUBSET Kinds /\ QuotaTypeOK /\ UNCHANGED usage
        /\ m_quotas \in [QuotaOwners -> [size : Int, usage : Int]]
    BY <1>1, <2>3 DEF QuotaIInv, QuotaTypeOK
  <2>6. /\ SumsAgree' /\ m_quotas' \in [QuotaOwners -> [size : Int, usage : Int]]
        /\ \A q \in QuotaOwners : m_quotas'[q].size = m_quotas[q].size
    BY <2>1, <2>3, <2>4, <2>5, MadeAgain
  <2> QED BY <1>8, <2>6
<1>10. CASE request[r].adds = {}
  <2>1. m_quotas' = [q \in QuotaOwners |-> [m_quotas[q] EXCEPT !.usage = @ + OffsetOf(r, q)]]
    BY <1>1, <1>10 DEF Applied
  <2>2. \A q : OffsetOf(r, q) \in Int
    BY OffsetInt DEF QuotaIInv
  <2>3. /\ m_quotas' \in [QuotaOwners -> [size : Int, usage : Int]]
        /\ \A q \in QuotaOwners : m_quotas'[q].size = m_quotas[q].size /\ m_quotas[q].usage \in Int
                                 /\ m_quotas'[q].usage = m_quotas[q].usage + OffsetOf(r, q)
    BY <2>1, <2>2 DEF QuotaIInv, QuotaTypeOK
  <2>4. SumsAgree'
    <3> SUFFICES ASSUME ~hist'.stale, hist.drifted = {}, \A s \in Requests : ~Unsettled(s)', NEW q \in QuotaOwners
                 PROVE  m_quotas'[q].usage + Total(Owed(q)', Requests) = Given(q)'
      BY <1>4 DEF SumsAgree
    <3>1. \A s \in Requests : ~Unsettled(s)
      BY <1>1, <1>3, <1>10 DEF Unsettled, Late, Sized
    <3>2. m_quotas[q].usage + Total(Owed(q), Requests) = Given(q)
      BY <1>4, <3>1 DEF QuotaIInv, SumsAgree
    <3> DEFINE owed == Owed(q)
               next == Owed(q)'
    <3>3. \A s \in Requests : OffsetOf(s, q) \in Int
      BY OffsetInt DEF QuotaIInv
    <3>4. owed[r] = OffsetOf(r, q)
      <4>1. Sized(r) => OffsetOf(r, q) = 0
        BY <1>4 DEF CountedTwice, Sized
      <4> QED BY <1>1, <4>1 DEF Owed, Late
    <3>5. next[r] = 0
      BY <1>3, NoRequestType DEF Owed, Late
    <3>6. \A s \in Requests : s # r => next[s] = owed[s]
      BY <1>3 DEF Owed, Late, Sized, OffsetOf
    <3>7. \A s \in Requests : owed[s] \in Int
      BY <3>3 DEF Owed
    <3> HIDE DEF owed, next
    <3>8. \A s \in Requests : next[s] \in Int
      BY <3>5, <3>6, <3>7
    <3>9. Total(next, Requests) = Total(owed, Requests) - owed[r] + next[r]
      BY <3>6, <3>7, <3>8, QuotaAssumption, TotalChange
    <3>10. Total(owed, Requests) \in Int
      BY <3>7, QuotaAssumption, TotalInt
    <3>11. Given(q)' = Given(q)
      <4>1. Base' = Base
        BY <1>1, <1>3, <1>10, NoRequestType DEF Base
      <4>2. (\A p \in QuotaOwners : Put(p)' <=> Put(p)) /\ \A k : QuotaForKind(k)' = QuotaForKind(k)
        BY <2>3, SameQuotas
      <4> QED BY <1>1, <4>1, <4>2 DEF Given
    <3> QED BY <2>3, <3>2, <3>3, <3>4, <3>5, <3>9, <3>10, <3>11 DEF owed, next
  <2> QED BY <1>8, <2>3, <2>4
<1> QED BY <1>9, <1>10

\* Every step keeps the invariant of the quotas.
LEMMA QuotaStepKeeps == QuotaIInv /\ [QuotaNext]_quotaVars => QuotaIInv'
<1> SUFFICES ASSUME QuotaIInv, [QuotaNext]_quotaVars PROVE QuotaIInv'
  OBVIOUS
<1>1. CASE UNCHANGED quotaVars
  <2>1. UNCHANGED <<locking, registered, m_quotas, quotaObjs, usage, bytes, request, hist>>
    BY <1>1 DEF quotaVars
  <2>2. QuotaTypeOK' /\ WritersAlone' /\ OffsetsTouched' /\ UsageRead'
    BY <2>1 DEF QuotaIInv, QuotaTypeOK, WritersAlone, OffsetsTouched, UsageRead, UsageExact, NextUsage, Active, Sized
  <2>3. \A k : QuotaForKind(k)' = QuotaForKind(k)
    BY <2>1, SameQuotas
  <2>4. QuotaCurrent' /\ WithinQuota'
    BY <2>1, <2>3 DEF QuotaIInv, QuotaCurrent, WithinQuota, Active, Available, Sized
  <2>5. SizesStored' /\ SumsAgree'
    <3>1. Base' = Base /\ hist'.stale = hist.stale /\ hist.drifted \subseteq hist'.drifted
      BY <2>1 DEF Base
    <3>2. \A s \in Requests : Late(s)' <=> Late(s)
      BY <2>1 DEF Late
    <3> QED BY <2>1, <3>1, <3>2, EarlyKeeps
  <2> QED BY <2>2, <2>4, <2>5 DEF QuotaIInv
<1>2. CASE Restart
  BY <1>2, RestartKeeps
<1>3. ASSUME NEW r \in Requests, NEW w \in BOOLEAN, BeginRequest(r, w) PROVE QuotaIInv'
  BY <1>3, BeginRequestKeeps
<1>4. ASSUME NEW r \in Requests,
             \/ \E k \in Kinds, n \in {-1, 1} : ApplyOffset(r, k, n)
             \/ \E q \in QuotaOwners, size \in Sizes : PutQuota(r, q, size)
      PROVE  QuotaIInv'
  BY <1>4, ChangesKeep
<1>5. ASSUME NEW r \in Requests, NEW k \in Kinds, PutKind(r, k) PROVE QuotaIInv'
  BY <1>5, PutKindKeeps
<1>6. ASSUME NEW r \in Requests, ApplyUsage(r) \/ CommitTxn(r) \/ CommitQuota(r) PROVE QuotaIInv'
  BY <1>6, ApplyUsageKeeps, CommitTxnKeeps, CommitQuotaKeeps
<1>7. ASSUME NEW r \in Requests, ApplyQuota(r) \/ AbortRequest(r) \/ FailAfterCommit(r) PROVE QuotaIInv'
  BY <1>7, ApplyQuotaKeeps, AbortRequestKeeps, FailAfterCommitKeeps
<1> QED BY <1>1, <1>2, <1>3, <1>4, <1>5, <1>6, <1>7 DEF QuotaNext

\* When no commit is half done, nothing is owed: the sums are those of the usage records.
LEMMA SumsSettled == QuotaIInv => QuotasKept
<1> SUFFICES ASSUME QuotaIInv PROVE QuotasKept
  OBVIOUS
<1>1. UsageExact
  BY DEF QuotaIInv, UsageRead
<1>2. QuotasAgree
  <2> SUFFICES ASSUME ~hist.stale, hist.drifted = {},
                      \A r \in Requests : request[r].pc \in {"idle", "open", "usage"},
                      \A r \in Requests : request[r].adds = {}
               PROVE  m_quotas = Refreshed(m_quotas, registered, usage)
    BY DEF QuotasAgree
  <2>1. \A r \in Requests : ~Late(r)
    BY DEF Late
  <2>2. Base = registered
    BY DEF Base
  <2>3. m_quotas \in [QuotaOwners -> [size : Int, usage : Int]] /\ registered \in SUBSET Kinds
    BY DEF QuotaIInv, QuotaTypeOK
  <2> DEFINE made == Refreshed(m_quotas, registered, usage)
  <2>4. /\ made \in [QuotaOwners -> [size : Int, usage : Int]]
        /\ \A q \in QuotaOwners : made[q].size = m_quotas[q].size
        /\ \A q \in QuotaOwners : made[q].usage = SumFor(m_quotas, registered, q)
    BY <2>3, RefreshedIs DEF QuotaIInv
  <2> HIDE DEF made
  <2>5. ASSUME NEW q \in QuotaOwners PROVE m_quotas[q].usage = made[q].usage
    <3>1. m_quotas[q].usage + Total(Owed(q), Requests) = Given(q)
      BY <2>1 DEF QuotaIInv, SumsAgree, Unsettled, Late
    <3>2. \A r \in Requests : Owed(q)[r] = 0
      BY <2>1 DEF Owed
    <3>3. Total(Owed(q), Requests) = 0
      BY <3>2, TotalZero, QuotaAssumption
    <3>4. Given(q) = SumFor(m_quotas, registered, q)
      BY <2>2 DEF Given, SumFor, QuotaForKind, Put
    <3>5. m_quotas[q].usage \in Int
      BY <2>3
    <3> QED BY <2>4, <3>1, <3>3, <3>4, <3>5
  <2>6. m_quotas = made
    BY <2>3, <2>4, <2>5
  <2> QED BY <2>6 DEF made
<1> QED BY <1>1, <1>2 DEF QuotasKept

\* A request that ran alone and wrote one kind of a quota does not exceed it.
LEMMA NotExceeded ==
  ASSUME QuotaIInv, NEW r \in Active, ~request[r].overlapped, ~request[r].writer, NEW q \in QuotaOwners,
         ~(Cardinality({k \in request[r].touched : request[r].quota[k] = q}) > 1),
         m_quotas[q].usage <= m_quotas[q].size
  PROVE  m_quotas[q].usage + OffsetOf(r, q) <= m_quotas[q].size
<1> DEFINE S == {k \in request[r].touched : request[r].quota[k] = q}
           off == request[r].off
<1>1. r \in Requests
  BY DEF Active
<1>2. IsFiniteSet(S) /\ \A k \in S : off[k] \in Int
  BY <1>1, OffsetInt DEF QuotaIInv
<1>3. Cardinality(S) \in Nat /\ ~(Cardinality(S) > 1)
  BY <1>2, FS_CardinalityType
<1>4. \A k \in S : off[k] <= m_quotas[q].size - m_quotas[q].usage
  BY QuotaAssumption DEF QuotaIInv, WithinQuota, Available
<1>5. m_quotas[q].size \in Int /\ m_quotas[q].usage \in Int
  BY DEF QuotaIInv, QuotaTypeOK
<1>6. OffsetOf(r, q) = Total(off, S)
  BY DEF OffsetOf
<1> HIDE DEF S, off
<1>7. CASE S = {}
  <2>1. Total(off, {}) = 0
    BY FS_EmptySet, TotalStep
  <2> QED BY <1>5, <1>6, <1>7, <2>1
<1>8. CASE S # {}
  <2>1. Cardinality(S) = 1
    BY <1>2, <1>3, <1>8, FS_EmptySet
  <2>2. PICK k : S = {k}
    BY <1>2, <2>1, FS_Singleton
  <2>3. S \ {k} = {} /\ k \in S
    BY <2>2
  <2>4. Total(off, S) = off[k] + Total(off, {})
    BY <1>2, <2>3, TotalAny
  <2>5. Total(off, {}) = 0
    BY FS_EmptySet, TotalStep
  <2> QED BY <1>2, <1>4, <1>5, <1>6, <2>3, <2>4, <2>5
<1> QED BY <1>7, <1>8

\* The requests that may take the usage of a quota past its size.
Excused(r, q) ==
  /\ request[r].pc \in {"stored", "post"}
  /\ \/ request[r].overlapped
     \/ request[r].writer
     \/ Cardinality({k \in request[r].touched : request[r].quota[k] = q}) > 1

\* A restart counts what a commit that was half done has written.
LEMMA RestartExplained ==
  ASSUME QuotaIInv, Restart, ~hist.stale, hist.drifted = {}, NEW q \in QuotaOwners,
         m_quotas[q].usage <= m_quotas[q].size, \A r \in Requests : ~Excused(r, q)
  PROVE  m_quotas'[q].usage <= m_quotas'[q].size
<1> DEFINE kinds == registered \ UNION {request[r].adds : r \in Uncommitted}
           stored == [p \in QuotaOwners |-> [size |-> quotaObjs[p], usage |-> 0]]
<1>1. m_quotas' = Refreshed(stored, kinds, usage)
  BY DEF Restart
<1>2. kinds \in SUBSET Kinds /\ stored \in [QuotaOwners -> [size : Int, usage : Int]]
      /\ \A p \in QuotaOwners : stored[p].size = quotaObjs[p]
  BY DEF QuotaIInv, QuotaTypeOK
<1>3. \A r \in Requests : Late(r) => ~request[r].overlapped /\ ~request[r].writer /\ ~Sized(r) /\ request[r].adds = {}
  BY DEF Excused, Late, QuotaIInv, WritersAlone
<1>4. \A p \in QuotaOwners : quotaObjs[p] = m_quotas[p].size
  BY <1>3 DEF QuotaIInv, SizesStored, Late
<1>5. kinds = Base
  <2>1. \A r \in Requests : request[r].adds # {} => r \in Uncommitted
    <3>1. \A r \in Requests : request[r].pc = "idle" => request[r].adds = {}
      BY NoRequestType DEF QuotaIInv, WritersAlone
    <3> QED BY <1>3, <3>1 DEF Late, Uncommitted, QuotaIInv, QuotaTypeOK, RequestSet
  <2> QED BY <2>1 DEF Base, Uncommitted
<1> HIDE DEF kinds, stored
<1>6. m_quotas'[q].size = quotaObjs[q] /\ m_quotas'[q].usage = SumFor(stored, kinds, q)
  BY <1>1, <1>2, RefreshedIs DEF QuotaIInv
<1>7. SumFor(stored, kinds, q) = Given(q)
  <2>1. \A p \in QuotaOwners : (stored[p].size # None) <=> Put(p)
    BY <1>2, <1>4 DEF Put
  <2>2. {p \in QuotaOwners : stored[p].size # None} = {p \in QuotaOwners : Put(p)}
    BY <2>1
  <2> QED BY <1>5, <2>1, <2>2 DEF SumFor, Given, QuotaForKind
<1>8. m_quotas[q].usage + Total(Owed(q), Requests) = Given(q)
  BY <1>3 DEF QuotaIInv, SumsAgree, Unsettled, Late
<1>9. m_quotas[q].usage \in Int /\ m_quotas[q].size \in Int
  BY DEF QuotaIInv, QuotaTypeOK
<1>10. CASE \A r \in Requests : ~Late(r)
  <2>1. \A r \in Requests : Owed(q)[r] = 0
    BY <1>10 DEF Owed
  <2>2. Total(Owed(q), Requests) = 0
    BY <2>1, TotalZero, QuotaAssumption
  <2> QED BY <1>4, <1>6, <1>7, <1>8, <1>9, <2>2
<1>11. ASSUME NEW r \in Requests, Late(r) PROVE m_quotas'[q].usage <= m_quotas'[q].size
  <2>1. r \in Active /\ ~request[r].overlapped /\ ~request[r].writer /\ ~Sized(r)
    BY <1>3, <1>11 DEF Active, Late
  <2>2. \A s \in Requests : s # r => ~Late(s)
    BY <2>1 DEF QuotaIInv, WritersAlone, Active, Late
  <2> DEFINE owed == Owed(q)
             zero == [s \in Requests |-> 0]
  <2>3. OffsetOf(r, q) \in Int
    BY OffsetInt DEF QuotaIInv
  <2>4. owed[r] = OffsetOf(r, q) /\ \A s \in Requests : s # r => owed[s] = 0
    BY <1>11, <2>1, <2>2 DEF Owed
  <2>5. \A s \in Requests : zero[s] = 0
    OBVIOUS
  <2> HIDE DEF owed, zero
  <2>6. Total(zero, Requests) = 0
    BY <2>5, TotalZero, QuotaAssumption
  <2>7. Total(owed, Requests) = Total(zero, Requests) - zero[r] + owed[r]
    <3>1. \A s \in Requests : zero[s] \in Int /\ owed[s] \in Int
      BY <2>3, <2>4, <2>5
    <3>2. \A s \in Requests \ {r} : owed[s] = zero[s]
      BY <2>4, <2>5
    <3> QED BY <3>1, <3>2, QuotaAssumption, TotalChange
  <2>8. Total(Owed(q), Requests) = OffsetOf(r, q)
    BY <2>3, <2>4, <2>5, <2>6, <2>7 DEF owed
  <2>9. ~(Cardinality({k \in request[r].touched : request[r].quota[k] = q}) > 1)
    BY <1>11 DEF Excused, Late
  <2>10. m_quotas[q].usage + OffsetOf(r, q) <= m_quotas[q].size
    BY <2>1, <2>9, NotExceeded
  <2> QED BY <1>4, <1>6, <1>7, <1>8, <2>8, <2>10
<1> QED BY <1>10, <1>11

\* Any other step that adds to a usage is one of a request that has been written.
LEMMA StepExplained ==
  ASSUME QuotaIInv, [QuotaNext]_quotaVars, ~hist.stale, hist.drifted = {}, NEW q \in QuotaOwners,
         m_quotas[q].usage <= m_quotas[q].size, \A r \in Requests : ~Excused(r, q)
  PROVE  m_quotas'[q].usage <= m_quotas'[q].size \/ m_quotas'[q].size # m_quotas[q].size
<1>1. CASE Restart
  BY <1>1, RestartExplained
<1>2. CASE UNCHANGED m_quotas
  BY <1>2
<1>3. ASSUME NEW r \in Requests, CommitQuota(r)
      PROVE  m_quotas'[q].usage <= m_quotas'[q].size
  <2>1. request[r].pc = "stored" /\ ~request[r].writer
    BY <1>3 DEF CommitQuota, Excused
  <2>2. ~Sized(r)
    BY <2>1 DEF QuotaIInv, WritersAlone
  <2>3. \A p \in QuotaOwners : request[r].size[p] = None
    BY <2>2 DEF Sized, NoRequest
  <2>4. UNCHANGED m_quotas
    BY <1>3, <2>3 DEF CommitQuota
  <2> QED BY <2>4
<1>4. ASSUME NEW r \in Requests, ApplyQuota(r)
      PROVE  m_quotas'[q].usage <= m_quotas'[q].size
  <2>1. request[r].pc = "post"
    BY <1>4 DEF ApplyQuota
  <2>2. /\ r \in Active /\ ~request[r].overlapped /\ ~request[r].writer
        /\ ~(Cardinality({k \in request[r].touched : request[r].quota[k] = q}) > 1)
    BY <2>1 DEF Excused, Active
  <2>3. request[r].adds = {}
    BY <2>2 DEF QuotaIInv, WritersAlone, Active
  <2>4. m_quotas' = [p \in QuotaOwners |-> [m_quotas[p] EXCEPT !.usage = @ + OffsetOf(r, p)]]
    BY <1>4, <2>3 DEF ApplyQuota, Applied
  <2>5. m_quotas'[q].size = m_quotas[q].size /\ m_quotas'[q].usage = m_quotas[q].usage + OffsetOf(r, q)
    BY <2>4 DEF QuotaIInv, QuotaTypeOK
  <2> QED BY <2>2, <2>5, NotExceeded
<1>5. \/ Restart \/ UNCHANGED m_quotas
      \/ \E r \in Requests : CommitQuota(r) \/ ApplyQuota(r)
  BY DEF QuotaNext, quotaVars, BeginRequest, ApplyOffset, PutQuota, PutKind, ApplyUsage, CommitTxn,
     AbortRequest, FailAfterCommit
<1> QED BY <1>1, <1>2, <1>3, <1>4, <1>5

\* The invariant of the quotas, of every behaviour.
LEMMA QuotaAlways == QuotaInit /\ [][QuotaNext]_quotaVars => []QuotaIInv
BY QuotaInitial, QuotaStepKeeps, PTL

\* The usage of a kind is what its objects take, and the sums in memory are those of the usage
\* records, after any interleaving of requests, commits, failures and restarts (MojDbQuotaEngine,
\* MojDbStorageTxn::commit), but for what the properties name.
THEOREM QuotasRight == QuotaInit /\ [][QuotaNext]_quotaVars => []QuotasKept
BY QuotaAlways, SumsSettled, PTL

\* A quota is exceeded only by a new size, by what was written beside another request, or by a
\* request that wrote several of its kinds (MojDbQuotaEngine::Offset::apply checks one at a time).
LEMMA OvershootOnlyExplained == QuotaInit /\ [][QuotaNext]_quotaVars => OvershootExplained
<1> DEFINE Step == \A q \in QuotaOwners :
       /\ ~hist.stale /\ hist.drifted = {}
       /\ m_quotas[q].usage <= m_quotas[q].size
       /\ m_quotas'[q].usage > m_quotas'[q].size
       /\ m_quotas'[q].size = m_quotas[q].size
       => \E r \in Requests :
            /\ request[r].pc \in {"stored", "post"}
            /\ \/ request[r].overlapped
               \/ request[r].writer
               \/ Cardinality({k \in request[r].touched : request[r].quota[k] = q}) > 1
<1>1. QuotaIInv /\ [QuotaNext]_quotaVars => [Step]_quotaVars
  <2> SUFFICES ASSUME QuotaIInv, [QuotaNext]_quotaVars, NEW q \in QuotaOwners,
                      ~hist.stale, hist.drifted = {}, m_quotas[q].usage <= m_quotas[q].size,
                      m_quotas'[q].usage > m_quotas'[q].size, m_quotas'[q].size = m_quotas[q].size,
                      \A r \in Requests : ~Excused(r, q)
               PROVE  FALSE
    BY DEF Excused
  <2>1. m_quotas'[q].usage <= m_quotas'[q].size
    BY StepExplained
  <2>2. QuotaIInv'
    BY QuotaStepKeeps
  <2>3. m_quotas'[q].usage \in Int /\ m_quotas'[q].size \in Int
    BY <2>2 DEF QuotaIInv, QuotaTypeOK
  <2> QED BY <2>1, <2>3
<1>2. []QuotaIInv /\ [][QuotaNext]_quotaVars => OvershootExplained
  BY <1>1, PTL DEF OvershootExplained
<1> QED BY <1>2, QuotaAlways, PTL

-----------------------------------------------------------------------------
(* The database with all four.                                             *)

\* A behaviour of the database is one of each part.
LEMMA EachPart ==
  EnginesSpec => /\ QuotaInit /\ [][QuotaNext]_quotaVars
                 /\ PermInit /\ [][PermNext]_permVars
                 /\ KStateInit /\ [][KStateNext]_kstateVars
                 /\ LifeInit /\ [][LifeNext]_lifeVars
<1>1. EnginesInit => QuotaInit /\ PermInit /\ KStateInit /\ LifeInit
  BY DEF EnginesInit
<1>2. [EnginesNext]_engineVars => [QuotaNext]_quotaVars
  BY DEF EnginesNext, engineVars, QuotaStep, PermStep, KStateStep, LifeStep
<1>3. [EnginesNext]_engineVars => [PermNext]_permVars
  BY DEF EnginesNext, engineVars, QuotaStep, PermStep, KStateStep, LifeStep
<1>4. [EnginesNext]_engineVars => [KStateNext]_kstateVars
  BY DEF EnginesNext, engineVars, QuotaStep, PermStep, KStateStep, LifeStep
<1>5. [EnginesNext]_engineVars => [LifeNext]_lifeVars
  BY DEF EnginesNext, engineVars, QuotaStep, PermStep, KStateStep, LifeStep
<1> QED BY <1>1, <1>2, <1>3, <1>4, <1>5, PTL DEF EnginesSpec

\* What a caller may do is what the stored permissions and the most specific pattern say, through
\* changes that are aborted, kinds that are deleted and restarts (MojDbPermissionEngine).
THEOREM PermissionsAlways == EnginesSpec => []PermissionsKept
BY EachPart, PermissionsRestored, PTL

\* The tokens of stored objects, the sums of quotas and the order of kinds agree with what is
\* stored, whatever other requests, failures, crashes and restarts do meanwhile.
THEOREM SharedStateRight == EnginesSpec => []SharedStateKept
<1>1. EveryTokenResolves /\ QuotasKept /\ SortedAsStored => SharedStateKept
  BY DEF SharedStateKept
<1> QED BY <1>1, EachPart, TokensResolve, QuotasRight, ReadersSorted, PTL

\* A quota is exceeded only where each change was checked alone: by a new size, beside another
\* request, or with several kinds of one quota (MojDbQuotaEngine::Offset::apply).
THEOREM OvershootAlways == EnginesSpec => OvershootExplained
BY EachPart, OvershootOnlyExplained, PTL
=============================================================================
