------------------------ MODULE MojDbPermissionEngine ------------------------
(* Permissions: MojDbPermissionEngine, the MojDbPutHandler it derives from *)
(* and MojDbKind::checkPermission (src/db/MojDbPermissionEngine.cpp,       *)
(* MojDbPutHandler.cpp, MojDbKind.cpp), with the requests that store and   *)
(* delete permission objects: putPermissions and delKind.                  *)
(*                                                                         *)
(* Names are sequences of labels, a last label "*" is the wildcard.  The   *)
(* requests here hold the schema lock as writers, one at a time.  delKind  *)
(* of a kind with many objects commits the deletion of the kind before it  *)
(* reaches the permissions.                                                *)
EXTENDS Integers, Sequences

CONSTANTS
  PermKinds,     \* kinds
  SuperOf,       \* their first super kind, or "none"
  OwnerOf,       \* their owner, a caller
  Callers,       \* names of callers
  Names,         \* callers and wildcards that permissions are put for
  Config,        \* built-in permissions: [PermKinds -> [Names -> Operations]]
  Operations,    \* what an entry says of each operation
  PutKeys        \* bound: the <<kind, name>> pairs that requests put

Ops == {"read", "update"}
Says == {"allow", "deny", "undefined"}
Undefined == [op \in {} |-> "undefined"]    \* no entry
Entries == [Ops -> Says] \cup {Undefined}

(* Names are not empty, what requests put and what is built in are         *)
(* entries, and the super kind of a kind is a kind.                        *)
ASSUME PermAssumption ==
  /\ "none" \notin PermKinds
  /\ \A n \in Names : Len(n) \in Nat
  /\ SuperOf \in [PermKinds -> PermKinds \cup {"none"}]
  /\ Config \in [PermKinds -> [Names -> Entries]]
  /\ Operations \subseteq [Ops -> Says]
  /\ PutKeys \subseteq PermKinds \X Names

VARIABLES
  permKinds,    \* kinds registered and stored
  m_types,      \* in memory: per kind and name, the operations
  permObjs,     \* the stored permission objects
  putReq,       \* the request that changes permissions
  stale,        \* history: <<kind, name>> where memory may differ from what is stored
  cutOff        \* history: kinds whose deletion a crash cut off

permVars == <<permKinds, m_types, permObjs, putReq, stale, cutOff>>

NoPut == [pc |-> "idle", kind |-> "none", objs |-> [k \in {} |-> Undefined], wrote |-> {}]

-----------------------------------------------------------------------------
(* Names and the lookup.                                                   *)

IsWildcard(n) == n[Len(n)] = "*"

(* A wildcard is the last label, or the whole name.                        *)
ValidName(n) == n # <<>> /\ \A i \in 1..(Len(n) - 1) : n[i] # "*"

MatchesPrefix(n, caller) ==
  LET prefix == SubSeq(n, 1, Len(n) - 1) IN
  IsWildcard(n) /\ Len(caller) >= Len(n) /\ SubSeq(caller, 1, Len(prefix)) = prefix

Entry(types, k) == {n \in Names : types[k][n] # Undefined}

ShortestMatch(types, k, caller) ==    \* mutant
  LET wild == {n \in Entry(types, k) : MatchesPrefix(n, caller)} IN
  IF caller \in Entry(types, k) THEN {caller}
  ELSE {n \in wild : \A w \in wild : Len(n) <= Len(w)}

(* The exact name, or the first wildcard that matches, the longest being   *)
(* the first of the map.                                                   *)
Match(types, k, caller) ==
  LET wild == {n \in Entry(types, k) : MatchesPrefix(n, caller)} IN
  IF caller \in Entry(types, k) THEN {caller}
  ELSE {n \in wild : \A w \in wild : Len(w) <= Len(n)}

(* check: an entry that does not name the operation says nothing, even if  *)
(* a shorter wildcard does.                                                *)
Check(types, k, caller, op) ==
  IF Match(types, k, caller) = {} THEN "undefined"
  ELSE types[k][CHOOSE n \in Match(types, k, caller) : TRUE][op]

(* objectPermission: what is undefined is asked of the first super kind.   *)
ObjectPermission(types, k, caller, op) ==
  IF Check(types, k, caller, op) = "undefined" /\ SuperOf[k] # "none"
  THEN Check(types, SuperOf[k], caller, op)
  ELSE Check(types, k, caller, op)

HasOwnerPermission(k, caller) == caller = OwnerOf[k]

(* checkPermission *)
Allows(types, k, caller, op) ==
  HasOwnerPermission(k, caller) \/ ObjectPermission(types, k, caller, op) = "allow"

-----------------------------------------------------------------------------
(* What open leaves in memory: the built-in permissions, then the stored.  *)
Opened(objs) ==
  [k \in PermKinds |-> [n \in Names |-> IF objs[k][n] # Undefined THEN objs[k][n]
                                        ELSE Config[k][n]]]

NoObjs == [k \in PermKinds |-> [n \in Names |-> Undefined]]

PermInit ==
  /\ permKinds = PermKinds
  /\ permObjs = NoObjs
  /\ m_types = Opened(NoObjs)
  /\ putReq = NoPut
  /\ stale = {}
  /\ cutOff = {}

BeginPut ==
  /\ putReq.pc = "idle"
  /\ putReq' = [NoPut EXCEPT !.pc = "put", !.objs = permObjs]
  /\ UNCHANGED <<permKinds, m_types, permObjs, stale, cutOff>>

PutInMemoryOnly(k, n, ops, caller) ==    \* mutant
  /\ putReq.pc = "put"
  /\ k \in permKinds /\ HasOwnerPermission(k, caller)
  /\ m_types' = [m_types EXCEPT ![k][n] = ops]
  /\ putReq' = [putReq EXCEPT !.wrote = @ \cup {<<k, n>>}]    \* the object is not stored
  /\ UNCHANGED <<permKinds, permObjs, stale, cutOff>>

(* put: the object is written to the transaction, the map in memory is     *)
(* changed before the transaction is committed.                            *)
PutPermission(k, n, ops, caller) ==
  /\ putReq.pc = "put"
  /\ ValidName(n)
  /\ k \in permKinds /\ HasOwnerPermission(k, caller)
  /\ m_types' = [m_types EXCEPT ![k][n] = ops]
  /\ putReq' = [putReq EXCEPT !.objs[k][n] = ops, !.wrote = @ \cup {<<k, n>>}]
  /\ UNCHANGED <<permKinds, permObjs, stale, cutOff>>

EndPut ==
  /\ putReq.pc = "put"
  /\ permObjs' = putReq.objs
  /\ putReq' = NoPut
  /\ stale' = stale \ putReq.wrote
  /\ UNCHANGED <<permKinds, m_types, cutOff>>

(* A later permission of the request is refused, or the commit fails.      *)
AbortPut ==
  /\ putReq.pc = "put"
  /\ putReq' = NoPut
  /\ stale' = stale \cup putReq.wrote
  /\ UNCHANGED <<permKinds, m_types, permObjs, cutOff>>

RegisterKind(k) ==
  /\ putReq.pc = "idle"
  /\ k \notin permKinds
  /\ permKinds' = permKinds \cup {k}
  /\ cutOff' = cutOff \ {k}
  /\ UNCHANGED <<m_types, permObjs, putReq, stale>>

Deletable(k) == putReq.pc = "idle" /\ k \in permKinds /\ \A s \in permKinds : SuperOf[s] # k

(* delKind: the batch that holds the kind object is committed.             *)
DelKindBatch(k) ==
  /\ Deletable(k)
  /\ putReq' = [NoPut EXCEPT !.pc = "delKind", !.kind = k]
  /\ permKinds' = permKinds \ {k}
  /\ UNCHANGED <<m_types, permObjs, stale, cutOff>>

KeepPermissions(k) ==    \* mutant
  /\ stale' = stale \cup {<<k, n>> : n \in Names}
  /\ UNCHANGED <<m_types, permObjs, cutOff>>

(* The permission objects are deleted; the map in memory keeps them.       *)
DelPermissions(k) ==
  /\ permObjs' = [permObjs EXCEPT ![k] = [n \in Names |-> Undefined]]
  /\ stale' = stale \cup {<<k, n>> : n \in Names}
  /\ UNCHANGED <<m_types, cutOff>>

DelKindEnd ==
  /\ putReq.pc = "delKind"
  /\ DelPermissions(putReq.kind)
  /\ putReq' = NoPut
  /\ UNCHANGED permKinds

(* A kind whose objects are fewer than a batch goes in one transaction.    *)
DelSmallKind(k) ==
  /\ Deletable(k)
  /\ DelPermissions(k)
  /\ permKinds' = permKinds \ {k}
  /\ UNCHANGED putReq

(* open puts every stored permission of a kind again, and fails with the   *)
(* first whose kind is not registered.                                     *)
CanOpen == \A k \in PermKinds : permObjs[k] # NoObjs[k] => k \in permKinds

Reopen ==
  /\ cutOff' = cutOff \cup ({putReq.kind} \ {"none"})
  /\ m_types' = IF CanOpen THEN Opened(permObjs) ELSE m_types
  /\ stale' = IF CanOpen THEN {} ELSE stale
  /\ putReq' = [NoPut EXCEPT !.pc = IF CanOpen THEN "idle" ELSE "not open"]
  /\ UNCHANGED <<permKinds, permObjs>>

PermNext ==
  \/ BeginPut \/ EndPut \/ AbortPut \/ DelKindEnd \/ Reopen
  \/ \E key \in PutKeys, ops \in Operations, c \in Callers :
       PutPermission(key[1], key[2], ops, c)
  \/ \E k \in PermKinds : RegisterKind(k) \/ DelKindBatch(k) \/ DelSmallKind(k)

-----------------------------------------------------------------------------
(* A restart changes no decision: what check answers from the memory is    *)
(* what it would answer after the next open.  Except where a request that  *)
(* put permissions was aborted, or a kind was deleted: the map in memory   *)
(* then still says what was never, or is no longer, stored.                *)
RestartKeepsDecisions ==
  putReq.pc = "idle" /\ m_types # Opened(permObjs) =>
    \A k \in PermKinds, c \in Callers, op \in Ops :
      (\A n \in Names : <<k, n>> \notin stale /\ <<SuperOf[k], n>> \notin stale)
      => Allows(m_types, k, c, op) = Allows(Opened(permObjs), k, c, op)

(* An entry for a caller decides whatever the wildcards say, and a         *)
(* wildcard whatever the shorter ones say.                                 *)
AppliesTo(n, c) == n = c \/ MatchesPrefix(n, c)
Outranks(n, w, c) == n = c \/ (w # c /\ Len(w) < Len(n))

MostSpecificDecides ==
  \A k \in PermKinds : \A n \in Entry(m_types, k), op \in Ops :
    m_types[k][n][op] = "deny" =>
      \A c \in Callers :
        /\ AppliesTo(n, c)
        /\ \A w \in Entry(m_types, k) \ {n} : AppliesTo(w, c) => Outranks(n, w, c)
        => HasOwnerPermission(k, c) \/ ~Allows(m_types, k, c, op)

(* The database can be opened again, unless a crash fell between the       *)
(* batches of the deletion of a large kind that has permissions.           *)
OpensAgain == putReq.pc = "not open" => cutOff # {}

(* All three: after any requests, refusals, deletions and restarts.        *)
PermissionsKept == RestartKeepsDecisions /\ MostSpecificDecides /\ OpensAgain
=============================================================================
