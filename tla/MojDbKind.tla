------------------------------ MODULE MojDbKind ------------------------------
(***************************************************************************)
(* Kinds: their definitions in storage, their inheritance links and indexes in *)
(* memory, and the objects the indexes list (MojDbKind, MojDbKindEngine, the *)
(* index ids of MojDbKindState, putKind, delKind and reloadKind of MojDb).   *)
(*                                                                         *)
(* A kind lists its own objects and those of the kinds that extend it.  The  *)
(* root kind Object:1 is the super of every kind that has no other: backup   *)
(* and purge walk over its index.  An index has entries for the objects of   *)
(* one id; a definition may ask for "extra" (an index of live objects) next  *)
(* to "_id" (of deleted objects, too), which every kind has.                 *)
(*                                                                         *)
(* One action is one section under the schema lock.  putKind and delKind     *)
(* hold it as writers from begin to commit; when they fail the transaction   *)
(* is aborted and the lock dropped before reloadKind takes it again, so that  *)
(* other requests run in between (reloading).  A delKind of a large kind      *)
(* commits in batches and goes on under the read lock (deleting).             *)
(* Bounds: definitions name each super once, and never the root kind.        *)
(***************************************************************************)
EXTENDS Naturals, FiniteSets

CONSTANTS Kinds,       \* ids of kinds that clients define
          Root,        \* Object:1
          MayExtend,   \* bound: pairs of a kind and a super it may name
          ExtraKinds,  \* bound: the kinds that may ask for the extra index
          Objs,        \* ids of objects
          NoKind

ASSUME KindAssumption ==
  /\ Root \notin Kinds /\ ExtraKinds \subseteq Kinds
  /\ MayExtend \subseteq {p \in Kinds \X Kinds : p[1] # p[2]}
  /\ IsFiniteSet(Kinds)
  /\ NoKind \notin [extends : SUBSET Kinds, extra : SUBSET {"extra"}, deleted : BOOLEAN]
  /\ NoKind \notin [kind : Kinds, deleted : BOOLEAN]

AllKinds   == Kinds \cup {Root}
IndexNames == {"_id", "extra"}
Defs(k)    == [extends : SUBSET {s \in Kinds : <<k, s>> \in MayExtend},
               extra   : SUBSET {i \in {"extra"} : k \in ExtraKinds}]

VARIABLES
  m_kinds,      \* kinds in memory
  m_superIds,   \* per kind, the supers its definition names
  m_supers,     \* per kind, the kinds it is linked to
  m_subs,       \* per kind, the kinds linked to it
  m_indexes,    \* per kind, its open indexes
  kindObj,      \* storage: per kind NoKind or its definition, with the _del flag
  indexIds,     \* storage: per kind, the indexes that have an id
  object,       \* storage: per object NoKind or its kind and _del flag
  entries,      \* storage: per kind and index, the objects it lists
  loading,      \* kinds that open() has still to load
  reloading,    \* kinds whose operation was aborted and that are not yet reloaded
  deleting,     \* kinds whose delKind has committed a first batch
  disturbed,    \* history: something happened after which memory may differ from storage
  damaged       \* history: an operation has run in such memory, or stopped half-way

memory  == <<m_kinds, m_superIds, m_supers, m_subs, m_indexes>>
storage    == <<kindObj, indexIds, object, entries>>
pending == <<loading, reloading, deleting>>
kindVars    == <<memory, storage, pending, disturbed, damaged>>

Links == [AllKinds -> SUBSET AllKinds]

KindTypeOK ==
  /\ Root \in m_kinds /\ m_kinds \subseteq AllKinds
  /\ m_superIds \in [AllKinds -> SUBSET Kinds]
  /\ m_supers \in Links /\ m_subs \in Links
  /\ m_indexes \in [AllKinds -> SUBSET IndexNames]
  /\ \A k \in AllKinds : k \in m_kinds <=> "_id" \in m_indexes[k]
  /\ kindObj \in [Kinds -> {NoKind} \cup [extends : SUBSET Kinds, extra : SUBSET {"extra"}, deleted : BOOLEAN]]
  /\ indexIds \in [AllKinds -> SUBSET IndexNames]
  /\ object \in [Objs -> {NoKind} \cup [kind : Kinds, deleted : BOOLEAN]]
  /\ entries \in [AllKinds -> [IndexNames -> SUBSET Objs]]
  /\ loading \subseteq Kinds /\ reloading \subseteq Kinds /\ deleting \subseteq Kinds
  /\ disturbed \in BOOLEAN /\ damaged \in BOOLEAN

NoEntries == [i \in IndexNames |-> {}]

\* The first open has put the built-in kinds.
KindInit ==
  /\ m_kinds = {Root}
  /\ m_superIds = [k \in AllKinds |-> {}]
  /\ m_supers = [k \in AllKinds |-> {}] /\ m_subs = [k \in AllKinds |-> {}]
  /\ m_indexes = [k \in AllKinds |-> IF k = Root THEN {"_id"} ELSE {}]
  /\ kindObj = [k \in Kinds |-> NoKind]
  /\ indexIds = [k \in AllKinds |-> IF k = Root THEN {"_id"} ELSE {}]
  /\ object = [o \in Objs |-> NoKind]
  /\ entries = [k \in AllKinds |-> NoEntries]
  /\ loading = {} /\ reloading = {} /\ deleting = {} /\ disturbed = FALSE /\ damaged = FALSE
-----------------------------------------------------------------------------
(* Inheritance. *)

\* The kinds of ks and everything above them.
Above(sup, ks) ==
  LET level[n \in 0..Cardinality(AllKinds)] ==
        IF n = 0 THEN ks ELSE level[n - 1] \cup UNION {sup[k] : k \in level[n - 1]}
  IN  level[Cardinality(AllKinds)]

\* addSuper for a set of pairs <<kind, super>>: a kind that gains a super is no
\* longer linked to the root kind.
AddSupers(l, pairs) ==
  [supers |-> [k \in AllKinds |->
                 {s \in l.supers[k] : s = Root => \A p \in pairs : p[1] # k}
                 \cup {s \in AllKinds : <<k, s>> \in pairs}],
   subs   |-> [s \in AllKinds |->
                 {k \in l.subs[s] : s = Root => \A p \in pairs : p[1] # k}
                 \cup {k \in AllKinds : <<k, s>> \in pairs}]]

\* clearSupers: the kind leaves the lists of its supers and of its subs.
ClearSupers(l, k) ==
  [supers |-> [a \in AllKinds |-> IF a = k THEN {} ELSE l.supers[a] \ {k}],
   subs   |-> [a \in AllKinds |-> IF a = k THEN {} ELSE l.subs[a] \ {k}]]

\* Mutant: a kind that has lost its last super is not put under the root kind.
RelinkNoRoot(l, k, def) ==
  LET up == AddSupers(ClearSupers(l, k), {<<k, s>> : s \in def.extends \cap m_kinds})
  IN  AddSupers(up, {<<c, k>> : c \in {c \in m_kinds \ {k} :
                                         k \in m_superIds[c] /\ c \notin Above(up.supers, {k})}})

\* The links updateSupers leaves: to the supers that are in memory, from the
\* kinds that extend this one unless that would close a cycle, and to the root
\* kind when there is no other super.
Relink(l, k, def) ==
  LET up   == AddSupers(ClearSupers(l, k), {<<k, s>> : s \in def.extends \cap m_kinds})
      down == AddSupers(up, {<<c, k>> : c \in {c \in m_kinds \ {k} :
                                               k \in m_superIds[c] /\ c \notin Above(up.supers, {k})}})
  IN  IF down.supers[k] = {} THEN AddSupers(down, {<<k, Root>>}) ELSE down

SetLinks(l) == m_supers' = l.supers /\ m_subs' = l.subs
OldLinks    == [supers |-> m_supers, subs |-> m_subs]
-----------------------------------------------------------------------------
(* Indexes. *)

\* includeObj: only "_id" keeps deleted objects.
Included(i, deleted) == i = "_id" \/ ~deleted

\* update() of the indexes of the kinds ks: an open index whose id is not in storage
\* (its creation was rolled back) writes to keys nobody will read.
Insert(e, ks, o, deleted) ==
  [k \in AllKinds |-> [i \in IndexNames |->
     IF k \in ks /\ i \in m_indexes[k] \cap indexIds[k] /\ Included(i, deleted)
     THEN e[k][i] \cup {o} ELSE e[k][i]]]
Delete(e, ks, o) ==
  [k \in AllKinds |-> [i \in IndexNames |->
     IF k \in ks /\ i \in m_indexes[k] THEN e[k][i] \ {o} ELSE e[k][i]]]

\* The objects a find over a kind returns; an entry without an object is skipped.
Listed(k) == {o \in entries[k]["_id"] : object[o] # NoKind}

\* updateSupers: the objects of an updated kind are inserted into the indexes of
\* its new supers and everything above them, then deleted from those of its
\* former supers and of what is above them and was not visited before.
Gained(k, def) == Above(m_supers, (def.extends \ m_superIds[k]) \cap m_kinds)
Lost(k, def) ==
  LET removed == (m_superIds[k] \ def.extends) \cap m_kinds
  IN  removed \cup (Above(m_supers, removed) \ Gained(k, def))
Reindex(e, k, def, wanted) ==
  LET gained == Gained(k, def)
      lost   == Lost(k, def)
      open(a, i) == i \in IF a = k THEN wanted ELSE m_indexes[a] \cap indexIds[a]
      new(i) == {o \in Listed(k) : Included(i, object[o].deleted)}
  IN  [a \in AllKinds |-> [i \in IndexNames |->
         (IF a \in gained /\ open(a, i) THEN e[a][i] \cup new(i) ELSE e[a][i])
         \ (IF a \in lost /\ open(a, i) THEN Listed(k) ELSE {})]]

\* Mutant: the commit does not build the index it creates.
ConfigureIndexesUnbuilt(k, def) ==
  LET wanted  == {"_id"} \cup def.extra
      dropped == m_indexes[k] \ wanted
      e == Reindex([entries EXCEPT ![k] = [i \in IndexNames |-> IF i \in dropped THEN {} ELSE @[i]]], k, def, wanted)
  IN  /\ m_indexes' = [m_indexes EXCEPT ![k] = wanted]
      /\ indexIds' = [indexIds EXCEPT ![k] = (@ \ dropped) \cup wanted]
      /\ entries' = e

\* configureIndexes drops and opens indexes; an index that had no id is built
\* from the live objects of the kind before the transaction commits.
ConfigureIndexes(k, def) ==
  LET wanted  == {"_id"} \cup def.extra
      dropped == m_indexes[k] \ wanted
      created == wanted \ (m_indexes[k] \cup indexIds[k])
      e == Reindex([entries EXCEPT ![k] = [i \in IndexNames |-> IF i \in dropped THEN {} ELSE @[i]]], k, def, wanted)
      build(i) == {o \in e[k]["_id"] : object[o] # NoKind /\ ~object[o].deleted}
  IN  /\ m_indexes' = [m_indexes EXCEPT ![k] = wanted]
      /\ indexIds' = [indexIds EXCEPT ![k] = (@ \ dropped) \cup wanted]
      /\ entries' = [e EXCEPT ![k] = [i \in IndexNames |-> IF i \in created \ {"_id"} THEN build(i) ELSE @[i]]]
-----------------------------------------------------------------------------
(* The hierarchy the definitions in storage declare. *)

OnDisk == {k \in Kinds : kindObj[k] # NoKind /\ ~kindObj[k].deleted}

DeclaredSupers ==
  LET onDisk == OnDisk IN
  [k \in AllKinds |->
     IF k \notin onDisk THEN {}
     ELSE LET s == kindObj[k].extends \cap onDisk IN IF s = {} THEN {Root} ELSE s]

Cyclic == \E k \in OnDisk : k \in Above(DeclaredSupers, DeclaredSupers[k])

Quiet == loading = {} /\ reloading = {} /\ deleting = {}

\* Bounds: objects are left alone while nothing is promised about their entries,
\* and kinds are put and deleted then only if there are no objects.
Settled == Quiet /\ ~damaged
Bounded == loading = {} /\ (Settled \/ \A o \in Objs : object[o] = NoKind)

\* What an operation leaves of the guarantees: nothing is promised once it ran
\* between an abort and its reload, or once a cycle was declared.
Disturbs(what) ==
  /\ disturbed' = (disturbed \/ ~Quiet \/ what)
  /\ damaged' = (damaged \/ disturbed')
-----------------------------------------------------------------------------
(* putKind. *)

Definition(def) == [extends |-> def.extends, extra |-> def.extra, deleted |-> FALSE]

ConfigureMemory(k, def) ==
  /\ m_kinds' = m_kinds \cup {k}
  /\ m_superIds' = [m_superIds EXCEPT ![k] = def.extends]
  /\ SetLinks(Relink(OldLinks, k, def))

\* New or updated kind; commit included.
PutKind(k, def) ==
  /\ Bounded /\ k \notin reloading \cup deleting
  /\ kindObj' = [kindObj EXCEPT ![k] = Definition(def)]
  /\ ConfigureMemory(k, def)
  /\ ConfigureIndexes(k, def)
  /\ UNCHANGED <<object, pending>>
  /\ Disturbs(Cyclic')

\* An existing kind, aborted: before configure() changed anything, between its
\* indexes and its supers, or after (revision sets, commit).
PutKindFails(k, def) ==
  /\ Bounded /\ ~disturbed /\ k \in m_kinds \ (reloading \cup deleting)
  /\ \/ UNCHANGED memory
     \/ /\ m_indexes' = [m_indexes EXCEPT ![k] = {"_id"} \cup def.extra]
        /\ UNCHANGED <<m_kinds, m_superIds, m_supers, m_subs>>
     \/ /\ m_indexes' = [m_indexes EXCEPT ![k] = {"_id"} \cup def.extra]
        /\ ConfigureMemory(k, def)
  /\ reloading' = reloading \cup {k}
  /\ UNCHANGED <<storage, loading, deleting>>
  /\ Disturbs(FALSE)

\* A new kind, aborted: early; after its links were made, when its destruction
\* takes the kinds that extend it off the root kind as well; or at the commit.
PutNewKindFails(k, def) ==
  /\ Bounded /\ ~disturbed /\ k \notin m_kinds \cup reloading \cup deleting
  /\ \/ UNCHANGED memory
     \/ /\ SetLinks(ClearSupers(Relink(OldLinks, k, def), k))
        /\ UNCHANGED <<m_kinds, m_superIds, m_indexes>>
     \/ /\ m_indexes' = [m_indexes EXCEPT ![k] = {"_id"} \cup def.extra]
        /\ ConfigureMemory(k, def)
  /\ reloading' = reloading \cup {k}
  /\ UNCHANGED <<storage, loading, deleting>>
  /\ Disturbs(\E c \in m_kinds : k \in m_superIds[c])

\* The commit of the handler's batch fails after putKind has returned: nothing
\* is reloaded.
BatchCommitFails(k, def) ==
  /\ Bounded /\ ~disturbed /\ k \notin reloading \cup deleting
  /\ m_indexes' = [m_indexes EXCEPT ![k] = {"_id"} \cup def.extra]
  /\ ConfigureMemory(k, def)
  /\ UNCHANGED <<storage, pending>>
  /\ Disturbs(TRUE)

Unregister(k, l) ==
  /\ m_kinds' = m_kinds \ {k}
  /\ m_superIds' = [m_superIds EXCEPT ![k] = {}]
  /\ m_indexes' = [m_indexes EXCEPT ![k] = {}]
  /\ SetLinks(ClearSupers(l, k))

\* A definition that was deleted is in memory again.
Reloads(deletedKind) ==
  /\ disturbed' = (disturbed \/ deletedKind)
  /\ damaged' = (damaged \/ deletedKind)

\* What createKind makes of a kind that has just been destroyed.
Recreate(k) ==
  /\ ConfigureMemory(k, kindObj[k])
  /\ LET wanted  == {"_id"} \cup kindObj[k].extra
         created == wanted \ indexIds[k]
     IN  /\ m_indexes' = [m_indexes EXCEPT ![k] = wanted]
         /\ indexIds' = [indexIds EXCEPT ![k] = @ \cup wanted]
         /\ entries' = [entries EXCEPT ![k] = [i \in IndexNames |->
                          IF i \in created \ {"_id"}
                          THEN {o \in Listed(k) : ~object[o].deleted} ELSE @[i]]]

\* reloadKind: replaced by what is in storage, dropped when there is nothing.  The
\* definition of a kind that was deleted before is found as well.
Reload(k) ==
  /\ k \in reloading
  /\ reloading' = reloading \ {k}
  /\ IF kindObj[k] # NoKind
     THEN /\ Recreate(k)
          /\ Reloads(kindObj[k].deleted)
     ELSE /\ Unregister(k, OldLinks)
          /\ UNCHANGED <<indexIds, entries, disturbed, damaged>>
  /\ UNCHANGED <<kindObj, object, loading, deleting>>
-----------------------------------------------------------------------------
(* delKind. *)

\* delImpl: the objects of the set are purged, each from the indexes of its own
\* kind and everything above.
Purged(os) ==
  [a \in AllKinds |-> [i \in IndexNames |->
     {o \in entries[a][i] : \/ o \notin os \/ i \notin m_indexes[a]
                            \/ a \notin Above(m_supers, {object[o].kind})}]]
Forget(os) == object' = [o \in Objs |-> IF o \in os THEN NoKind ELSE object[o]]

\* The kind's indexes are dropped, and it leaves memory.
Drop(k, e) ==
  /\ indexIds' = [indexIds EXCEPT ![k] = @ \ m_indexes[k]]
  /\ entries' = [e EXCEPT ![k] = [i \in IndexNames |-> IF i \in m_indexes[k] THEN {} ELSE @[i]]]
  /\ Unregister(k, OldLinks)

DeleteKindObj(k) == kindObj' = [kindObj EXCEPT ![k].deleted = TRUE]

Deletable(k) ==
  /\ Bounded /\ k \in (m_kinds \cap OnDisk) \ (reloading \cup deleting)
  /\ m_subs[k] = {}
  /\ \A o \in Listed(k) : object[o].kind \in m_kinds

\* Only kinds without sub-kinds.  The kind object is marked deleted.
DelKind(k) ==
  /\ Deletable(k)
  /\ DeleteKindObj(k)
  /\ Forget(Listed(k))
  /\ Drop(k, Purged(Listed(k)))
  /\ UNCHANGED pending
  /\ Disturbs(FALSE)

DelKindFails(k) ==
  /\ Deletable(k) /\ ~disturbed
  /\ \/ UNCHANGED memory
     \/ Unregister(k, OldLinks)
  /\ reloading' = reloading \cup {k}
  /\ UNCHANGED <<storage, loading, deleting>>
  /\ Disturbs(FALSE)

\* As many objects as a batch has: commitBatch commits the deleted kind object
\* with the objects purged so far, and goes on with the read lock only.
DelKindBatch(k) ==
  /\ Deletable(k) /\ ~disturbed
  /\ \E os \in SUBSET Listed(k) \ {{}} :
       Forget(os) /\ entries' = Purged(os)
  /\ DeleteKindObj(k)
  /\ deleting' = deleting \cup {k}
  /\ UNCHANGED <<memory, indexIds, loading, reloading>>
  /\ Disturbs(TRUE)
DelKindRest(k) ==
  /\ k \in deleting /\ \A o \in Listed(k) : object[o].kind \in m_kinds
  /\ Forget(Listed(k))
  /\ Drop(k, Purged(Listed(k)))
  /\ deleting' = deleting \ {k}
  /\ UNCHANGED <<kindObj, loading, reloading, disturbed, damaged>>
-----------------------------------------------------------------------------
(* Objects. *)

\* A new object, a new version, or a change of kind: then the object leaves the
\* indexes of the old kind first.
Put(o, k) ==
  /\ Settled /\ k \in m_kinds \cap Kinds
  /\ object[o] # NoKind => object[o].kind \in m_kinds
  /\ object' = [object EXCEPT ![o] = [kind |-> k, deleted |-> FALSE]]
  /\ LET old == IF object[o] = NoKind THEN {} ELSE Above(m_supers, {object[o].kind})
     IN  entries' = Insert(Delete(entries, old, o), Above(m_supers, {k}), o, FALSE)
  /\ UNCHANGED <<memory, kindObj, indexIds, pending>>
  /\ Disturbs(FALSE)

\* The object is marked deleted and leaves the indexes of live objects.
Del(o) ==
  /\ Settled /\ object[o] # NoKind /\ ~object[o].deleted /\ object[o].kind \in m_kinds
  /\ object' = [object EXCEPT ![o].deleted = TRUE]
  /\ LET ks == Above(m_supers, {object[o].kind})
     IN  entries' = Insert(Delete(entries, ks, o), ks, o, TRUE)
  /\ UNCHANGED <<memory, kindObj, indexIds, pending>>
  /\ Disturbs(FALSE)

\* del with the purge flag, and the purge of old deletions.
Purge(o) ==
  /\ Settled /\ object[o] # NoKind /\ object[o].kind \in m_kinds
  /\ Forget({o})
  /\ entries' = Purged({o})
  /\ UNCHANGED <<memory, kindObj, indexIds, pending>>
  /\ Disturbs(FALSE)

\* The same for the object of a deleted kind.
PurgeKindObj(k) ==
  /\ Bounded /\ kindObj[k] # NoKind /\ kindObj[k].deleted /\ k \notin reloading \cup deleting
  /\ kindObj' = [kindObj EXCEPT ![k] = NoKind]
  /\ UNCHANGED <<memory, indexIds, object, entries, pending>>
  /\ Disturbs(FALSE)
-----------------------------------------------------------------------------
(* Close or crash, then open. *)

Reopen ==
  /\ m_kinds' = {Root}
  /\ m_superIds' = [k \in AllKinds |-> {}]
  /\ m_supers' = [k \in AllKinds |-> {}] /\ m_subs' = [k \in AllKinds |-> {}]
  /\ m_indexes' = [k \in AllKinds |-> IF k = Root THEN {"_id"} ELSE {}]
  /\ loading' = OnDisk /\ reloading' = {} /\ deleting' = {}
  /\ disturbed' = Cyclic
  /\ UNCHANGED <<storage, damaged>>

LoadKind(k) ==
  /\ k \in loading
  /\ loading' = loading \ {k}
  /\ Recreate(k)
  /\ UNCHANGED <<kindObj, object, reloading, deleting, disturbed, damaged>>
-----------------------------------------------------------------------------
KindNext ==
  \/ \E k \in Kinds :
       \/ \E def \in Defs(k) :
            PutKind(k, def) \/ PutKindFails(k, def) \/ PutNewKindFails(k, def) \/ BatchCommitFails(k, def)
       \/ Reload(k) \/ LoadKind(k) \/ PurgeKindObj(k)
       \/ DelKind(k) \/ DelKindFails(k) \/ DelKindBatch(k) \/ DelKindRest(k)
       \/ \E o \in Objs : Put(o, k)
  \/ \E o \in Objs : Del(o) \/ Purge(o)
  \/ Reopen

KindSpec == KindInit /\ [][KindNext]_kindVars
-----------------------------------------------------------------------------
(* Properties. *)

\* The links are kept twice, as plain pointers, in the super and in the sub: a
\* kind is in the list of another iff that one is in its list, and a kind that
\* has left memory is in no list.
LinksMirror ==
  \A k, s \in AllKinds : /\ s \in m_supers[k] <=> k \in m_subs[s]
                         /\ s \in m_supers[k] => k \in m_kinds /\ s \in m_kinds

\* No kind extends itself, whatever definitions are put in whatever order:
\* extends(), preUpdate() and updateIndexes() walk up the links recursively.
Acyclic == \A k \in m_kinds : k \notin Above(m_supers, m_supers[k])

Declared(k) == IF k \in OnDisk THEN {"_id"} \cup kindObj[k].extra ELSE {}

\* After every operation, also one that failed and was reloaded, and after every
\* restart, memory is what the definitions in storage say.
LinksFollowDefs ==
  ~disturbed /\ Quiet =>
    /\ m_kinds = OnDisk \cup {Root}
    /\ m_supers = DeclaredSupers
    /\ \A k \in OnDisk : m_superIds[k] = kindObj[k].extends
    /\ \A k \in Kinds : m_indexes[k] = Declared(k)

\* Nothing of the indexes of a deleted kind, or of a dropped index, stays in storage: no id,
\* no entry.
NoOrphans ==
  ~damaged /\ Quiet =>
    \A k \in Kinds : /\ indexIds[k] = Declared(k)
                     /\ \A i \in IndexNames \ indexIds[k] : entries[k][i] = {}

\* Whatever is put, reparented, deleted, fails and is reloaded in whatever order: no kind
\* extends itself, the kinds, links and indexes in memory are what the definitions in
\* storage say, and nothing is left of the indexes of a deleted kind or of a dropped index
\* (MojDbKindEngine, MojDbKind::updateSupers, clearSupers and configureIndexes,
\* MojDb::putKind, delKind and reloadKind).
KindsFollowDefinitions == KindTypeOK /\ LinksMirror /\ Acyclic /\ LinksFollowDefs /\ NoOrphans

\* Every object is of a kind that has not been deleted.
NoStrays == \A o \in Objs : object[o] # NoKind => object[o].kind \in OnDisk

\* An index of a kind lists the objects of the kind and of all below it.
Exact(a) ==
  LET below == {o \in Objs : object[o] # NoKind /\ a \in Above(DeclaredSupers, {object[o].kind})}
  IN  \A i \in IndexNames :
        entries[a][i] = {o \in below : i \in indexIds[a] /\ Included(i, object[o].deleted)}

\* Excused: a kind put after kinds that already extend it does not get their
\* objects, and neither do the kinds above it.
LateSuper(a) ==
  \E k \in OnDisk' \ OnDisk : a \in Above(DeclaredSupers', {k})

\* Excused: a kind that is above a removed super and still above the kind (or
\* above one that extends it) by another way, the root kind included.
LosesAWay(a) ==
  \E k \in OnDisk \cap OnDisk' :
    LET removed == DeclaredSupers[k] \ DeclaredSupers'[k]
    IN  /\ removed \ {Root} # {} /\ a \in Above(DeclaredSupers, removed)
        /\ \E c \in OnDisk : /\ k \in Above(DeclaredSupers', {c})
                             /\ a \in Above(DeclaredSupers', {c})

AllExact == \A a \in AllKinds : Exact(a)

\* From exact indexes every operation (put, change of kind, delete, purge, new,
\* changed, dropped index, new, changed, deleted kind, failure, restart) leads to
\* exact indexes, but for the two cases, and no object outlives its kind.
StaysExact ==
  ~damaged' /\ AllExact =>
    /\ \A a \in AllKinds : Exact(a)' \/ LateSuper(a) \/ LosesAWay(a)
    /\ NoStrays => NoStrays'

\* From exact indexes every operation on kinds and objects leads to exact indexes, but for
\* the two cases that StaysExact excuses, and takes the objects of a kind with it when it
\* deletes the kind (MojDbKind::updateSupers and update, MojDbIndex::update, MojDb::delKind).
IndexesStayExact == [][StaysExact]_kindVars

\* "remove/add our objects from new/removed supers": objects leave only the
\* kinds that no longer are above them.
RemovedSupersKeepRest ==
  [][~damaged' /\ AllExact =>
       \A a \in AllKinds : LateSuper(a) \/ Exact(a)']_kindVars
=============================================================================
