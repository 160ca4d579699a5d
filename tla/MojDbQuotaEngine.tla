-------------------------- MODULE MojDbQuotaEngine --------------------------
(* Quotas: MojDbQuotaEngine and the order in which MojDbStorageTxn::commit *)
(* calls it (src/db/MojDbQuotaEngine.cpp, MojDbStorageTxn.cpp).            *)
(*                                                                         *)
(* A request changes the bytes of kinds by offsets, checked when they are  *)
(* made against what the quota of the kind has available; the usage record *)
(* of each kind is written with the transaction, the sums in memory are    *)
(* adjusted after it.  Requests that change kinds or quotas hold the       *)
(* schema lock as writers, the others as readers.                          *)
EXTENDS Integers, FiniteSets, FiniteSetsExt

CONSTANTS
  Kinds,          \* kinds, each with an owner
  Builtin,        \* those registered when the database is opened
  KindOwner, Super,   \* owner and super kind (or NoKind) of a kind
  QuotaOwners,    \* owners, or wildcards, that quotas are put for
  Covers,         \* <<quota owner, kind owner>>: exactly or by a wildcard
  QuotaKind,      \* the kind of the quota objects
  NoKind, NoQuota,
  Requests,
  Sizes,          \* sizes of quotas
  MaxBytes        \* of a kind

VARIABLES
  locking,     \* whether the engine locks the records a transaction reads
  registered,  \* kinds of the kind engine
  m_quotas,    \* size and usage of the quotas in memory
  quotaObjs,   \* stored size of a quota, or -1
  usage,       \* stored usage records
  bytes,       \* what the stored objects of a kind really take
  request,     \* requests and their transactions
  hist         \* history: what the properties leave out

quotaVars == <<locking, registered, m_quotas, quotaObjs, usage, bytes, request, hist>>

None == -1

(* Finitely many requests run and kinds are known at a time; the quota of  *)
(* a kind that has none is no owner's.                                     *)
ASSUME QuotaAssumption ==
  /\ IsFiniteSet(Kinds) /\ IsFiniteSet(Requests)
  /\ Builtin \subseteq Kinds /\ Sizes \subseteq Int \ {None}
  /\ NoQuota \notin QuotaOwners

NoRequest == [pc |-> "idle", writer |-> FALSE, touched |-> {},
              off |-> [k \in Kinds |-> 0], quota |-> [k \in Kinds |-> NoQuota],
              next |-> [k \in Kinds |-> 0], size |-> [q \in QuotaOwners |-> None],
              adds |-> {}, overlapped |-> FALSE]

Put(q) == m_quotas[q].size # None

(* quotaForKind: the quota of the super kinds first, then that of the      *)
(* owner, an exact name before a wildcard.                                 *)
OwnQuota(k, known) ==
  LET exact == {q \in known : q = KindOwner[k]}
      wild == {q \in known : <<q, KindOwner[k]>> \in Covers}
  IN IF exact # {} THEN CHOOSE q \in exact : TRUE
     ELSE IF wild # {} THEN CHOOSE q \in wild : TRUE ELSE NoQuota

QuotaAmong(k, known) ==
  LET above == IF Super[k] = NoKind THEN NoQuota ELSE OwnQuota(Super[k], known)
  IN IF above # NoQuota THEN above ELSE OwnQuota(k, known)

QuotaForKind(k) == QuotaAmong(k, {q \in QuotaOwners : Put(q)})

(* The sum of what a table has for some kinds.                             *)
Total(f, kinds) == MapThenSumSet(LAMBDA k : f[k], kinds)

Available(q) == m_quotas[q].size - m_quotas[q].usage

(* refreshImpl: the sums are made again from the usage records.            *)
Refreshed(quotas, kinds, used) ==
  LET known == {q \in QuotaOwners : quotas[q].size # None} IN
  [q \in QuotaOwners |->
     [size |-> quotas[q].size,
      usage |-> IF q \in known
                THEN Total(used, {k \in kinds : QuotaAmong(k, known) = q})
                ELSE 0]]

QuotaInit ==
  /\ locking \in BOOLEAN
  /\ registered = Builtin
  /\ m_quotas = [q \in QuotaOwners |-> [size |-> None, usage |-> 0]]
  /\ quotaObjs = [q \in QuotaOwners |-> None]
  /\ bytes \in [Kinds -> 0..1]
  /\ \A k \in (Kinds \ Builtin) \cup {QuotaKind} : bytes[k] = 0
  /\ usage = bytes
  /\ request = [r \in Requests |-> NoRequest]
  /\ hist = [stale |-> FALSE, drifted |-> {}]

-----------------------------------------------------------------------------
(* Requests.                                                               *)

Active == {r \in Requests : request[r].pc # "idle"}

BeginRequest(r, writer) ==
  /\ r \notin Active
  /\ ~hist.stale /\ hist.drifted = {}    \* bound: such sums are followed no further
  /\ \A s \in Active : ~writer /\ ~request[s].writer
  /\ request' = [s \in Requests |->
       IF s = r THEN [NoRequest EXCEPT !.pc = "open", !.writer = writer,
                                       !.overlapped = Active # {}]
       ELSE IF s \in Active THEN [request[s] EXCEPT !.overlapped = TRUE] ELSE request[s]]
  /\ UNCHANGED <<locking, registered, m_quotas, quotaObjs, usage, bytes, hist>>

Uncommitted == {s \in Requests : request[s].pc \in {"open", "usage"}}

(* What the others may yet delete, or add, of a kind.                      *)
Pending(r, k, sign) ==
  MapThenSumSet(LAMBDA s : request[s].off[k],
                {s \in Uncommitted \ {r} : sign * request[s].off[k] > 0})

Fits(r, k, n) ==
  LET sum == bytes[k] + request[r].off[k] + n
  IN sum + Pending(r, k, -1) >= 0 /\ sum + Pending(r, k, 1) <= MaxBytes

AllowedUpTo(r, k, n) ==    \* mutant
  /\ k \in registered /\ Fits(r, k, n)
  /\ QuotaForKind(k) # NoQuota => request[r].off[k] <= Available(QuotaForKind(k))

(* curKind and Offset::apply: the offset of this kind in this transaction  *)
(* is compared with what the committed transactions left.                  *)
Allowed(r, k, n) ==
  /\ k \in registered /\ Fits(r, k, n)
  /\ QuotaForKind(k) # NoQuota => request[r].off[k] + n <= Available(QuotaForKind(k))

WithOffset(req, k, n) ==
  [req EXCEPT !.off[k] = @ + n, !.quota[k] = QuotaForKind(k), !.touched = @ \cup {k}]

ApplyOffset(r, k, n) ==
  /\ request[r].pc = "open"
  /\ request[r].size = NoRequest.size
  /\ k # QuotaKind
  /\ Allowed(r, k, n)
  /\ request' = [request EXCEPT ![r] = WithOffset(@, k, n)]
  /\ UNCHANGED <<locking, registered, m_quotas, quotaObjs, usage, bytes, hist>>

(* putQuotas, a request of its own: the object is written now, the quota   *)
(* is put when the transaction has been committed.                         *)
PutQuota(r, q, size) ==
  LET n == IF quotaObjs[q] = None THEN 1 ELSE 0 IN
  /\ request[r].pc = "open" /\ request[r].writer
  /\ request[r].adds = {} /\ request[r].touched \subseteq {QuotaKind}
  /\ request[r].size[q] = None
  /\ Allowed(r, QuotaKind, n)
  /\ request' = [request EXCEPT ![r] =
                   [WithOffset(@, QuotaKind, n) EXCEPT !.size[q] = size]]
  /\ UNCHANGED <<locking, registered, m_quotas, quotaObjs, usage, bytes, hist>>

(* putKind: the kind engine has the kind at once, the quotas are refreshed *)
(* after the commit.                                                       *)
PutKind(r, k) ==
  /\ request[r].pc = "open" /\ request[r].writer
  /\ request[r].size = NoRequest.size
  /\ k \notin registered
  /\ Super[k] \in registered \cup {NoKind}
  /\ request' = [request EXCEPT ![r].adds = @ \cup {k}]
  /\ registered' = registered \cup {k}
  /\ UNCHANGED <<locking, m_quotas, quotaObjs, usage, bytes, hist>>

-----------------------------------------------------------------------------
(* MojDbStorageTxn::commit.                                                *)

(* applyOffset: the record of the kind, read for update, and the offset.   *)
NextUsage(r, k) == usage[k] + request[r].off[k]

(* applyUsage reads the records it will write; only a locking engine keeps *)
(* another transaction from doing the same.                                *)
ApplyUsage(r) ==
  LET others == {s \in Active \ {r} : request[s].pc = "usage"}
      shared == {k \in request[r].touched : \E s \in others : k \in request[s].touched}
  IN
  /\ request[r].pc = "open"
  /\ locking => shared = {}
  /\ request' = [request EXCEPT ![r].pc = "usage",
                   ![r].next = [k \in Kinds |-> IF k \in request[r].touched
                                                THEN NextUsage(r, k) ELSE 0]]
  /\ hist' = [hist EXCEPT !.drifted = @ \cup shared]
  /\ UNCHANGED <<locking, registered, m_quotas, quotaObjs, usage, bytes>>

NewSizes(r) ==
  [q \in QuotaOwners |-> IF request[r].size[q] # None THEN request[r].size[q] ELSE quotaObjs[q]]

CommitTxn(r) ==
  /\ request[r].pc = "usage"
  /\ usage' = [k \in Kinds |-> IF k \in request[r].touched
                               THEN request[r].next[k] ELSE usage[k]]
  /\ bytes' = [k \in Kinds |-> bytes[k] + request[r].off[k]]
  /\ quotaObjs' = NewSizes(r)
  /\ request' = [request EXCEPT ![r].pc = "stored", ![r].next = NoRequest.next]
  /\ UNCHANGED <<locking, registered, m_quotas, hist>>

(* commitQuota creates or resizes each quota, and refreshes all of them.   *)
CommitQuota(r) ==
  LET sized == [q \in QuotaOwners |->
                  [m_quotas[q] EXCEPT !.size =
                     IF request[r].size[q] # None THEN request[r].size[q] ELSE @]]
      changed == \E q \in QuotaOwners : request[r].size[q] # None
  IN
  /\ request[r].pc = "stored"
  /\ m_quotas' = IF changed THEN Refreshed(sized, registered, usage) ELSE m_quotas
  /\ request' = [request EXCEPT ![r].pc = "post"]
  /\ UNCHANGED <<locking, registered, quotaObjs, usage, bytes, hist>>

(* applyQuota, and the refresh a change of the kinds asked for.            *)
OffsetOf(r, q) ==
  Total(request[r].off, {k \in request[r].touched : request[r].quota[k] = q})

(* A quota object under a quota that existed: commitQuota has counted it.  *)
CountedTwice(r) ==
  /\ request[r].size # NoRequest.size
  /\ \E q \in QuotaOwners : OffsetOf(r, q) # 0

AppliedGrowth(r) ==    \* mutant
  [q \in QuotaOwners |-> [m_quotas[q] EXCEPT !.usage = IF OffsetOf(r, q) > 0 THEN @ + OffsetOf(r, q) ELSE @]]

Applied(r) ==
  [q \in QuotaOwners |-> [m_quotas[q] EXCEPT !.usage = @ + OffsetOf(r, q)]]

ApplyQuota(r) ==
  /\ request[r].pc = "post"
  /\ m_quotas' = IF request[r].adds # {} THEN Refreshed(m_quotas, registered, usage)
                 ELSE Applied(r)
  /\ hist' = [hist EXCEPT !.stale = @ \/ CountedTwice(r)]
  /\ request' = [request EXCEPT ![r] = NoRequest]
  /\ UNCHANGED <<locking, registered, quotaObjs, usage, bytes>>

(* An error before the write undoes the request, and the kinds it added;   *)
(* one after it leaves the sums in memory behind what is stored.           *)
AbortRequest(r) ==
  /\ request[r].pc \in {"open", "usage"}
  /\ request' = [request EXCEPT ![r] = NoRequest]
  /\ registered' = registered \ request[r].adds
  /\ UNCHANGED <<locking, m_quotas, quotaObjs, usage, bytes, hist>>

FailAfterCommit(r) ==
  /\ request[r].pc \in {"stored", "post"}
  /\ request' = [request EXCEPT ![r] = NoRequest]
  /\ hist' = [hist EXCEPT !.stale = TRUE]
  /\ UNCHANGED <<locking, registered, m_quotas, quotaObjs, usage, bytes>>

(* open: the stored quotas, the missing usage records, the sums.           *)
Restart ==
  /\ LET kinds == registered \ UNION {request[r].adds : r \in
                    Uncommitted}
         stored == [q \in QuotaOwners |-> [size |-> quotaObjs[q], usage |-> 0]]
     IN /\ registered' = kinds
        /\ m_quotas' = Refreshed(stored, kinds, usage)
  /\ request' = [r \in Requests |-> NoRequest]
  /\ hist' = [hist EXCEPT !.stale = FALSE]
  /\ UNCHANGED <<locking, quotaObjs, usage, bytes>>

QuotaNext ==
  \/ Restart
  \/ \E r \in Requests :
       \/ \E w \in BOOLEAN : BeginRequest(r, w)
       \/ \E k \in Kinds, n \in {-1, 1} : ApplyOffset(r, k, n)
       \/ \E q \in QuotaOwners, size \in Sizes : PutQuota(r, q, size)
       \/ \E k \in Kinds : PutKind(r, k)
       \/ ApplyUsage(r) \/ CommitTxn(r) \/ CommitQuota(r) \/ ApplyQuota(r)
       \/ AbortRequest(r) \/ FailAfterCommit(r)

-----------------------------------------------------------------------------
(* The usage record of a kind is what its objects take, except where two   *)
(* transactions read it before either wrote it, which an engine without    *)
(* locks lets happen.                                                      *)
UsageExact == \A k \in Kinds \ hist.drifted : usage[k] = bytes[k]

(* The sums in memory are those the usage records give, when no commit is  *)
(* half done: unless an error after the write left them behind, or a quota *)
(* object was written under a quota that covers it, and counted twice.     *)
QuotasAgree ==
  /\ ~hist.stale
  /\ hist.drifted = {}
  /\ \A r \in Requests : request[r].pc \in {"idle", "open", "usage"}
  /\ \A r \in Requests : request[r].adds = {}
  => m_quotas = Refreshed(m_quotas, registered, usage)

(* Both: after any interleaving of requests, commits and failures.         *)
QuotasKept == UsageExact /\ QuotasAgree

(* A quota that is not exceeded is exceeded only by a new size, by a sum   *)
(* made again, or by a transaction that ran beside another one or wrote    *)
(* several kinds of the quota: each of those is checked alone.             *)
OvershootExplained ==
  [][\A q \in QuotaOwners :
       /\ ~hist.stale /\ hist.drifted = {}
       /\ m_quotas[q].usage <= m_quotas[q].size
       /\ m_quotas'[q].usage > m_quotas'[q].size
       /\ m_quotas'[q].size = m_quotas[q].size
       => \E r \in Requests :
            /\ request[r].pc \in {"stored", "post"}
            /\ \/ request[r].overlapped
               \/ request[r].writer
               \/ Cardinality({k \in request[r].touched : request[r].quota[k] = q}) > 1]_quotaVars
=============================================================================
