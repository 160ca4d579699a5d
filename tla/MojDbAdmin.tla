----------------------------- MODULE MojDbAdmin -----------------------------
(* Purge, backup and restore: MojDb::purge, dump and load                  *)
(* (src/db/MojDbAdmin.cpp) as the internal handler calls them.             *)
(*                                                                         *)
(* A version of an object is named by its revision.  Objects are written   *)
(* by one client at a time; a purge, a dump and a restore overlap with it  *)
(* and with each other, and no lock keeps a write from an object that is   *)
(* being purged.  The clock counts days.                                   *)
EXTENDS Integers, Sequences, FiniteSets, Functions

CONSTANTS
  Objs,        \* the objects
  SyncObjs,    \* those of a kind that is backed up
  Batch,       \* AutoBatchSize
  Step,        \* loadStepSize, 0 for one transaction
  MaxBytes,    \* room in a backup file, counted in objects
  Window,      \* days a deleted object is kept
  Order,       \* the order in which the first versions were written
  Bounds       \* of a behaviour: writes and purges, days, dumps

NoRev == -1

ASSUME AdminAssumption ==
  /\ SyncObjs \subseteq Objs /\ "kind" \notin Objs
  /\ IsFiniteSet(Objs)
  /\ Batch \in Nat \ {0}
  /\ Step \in Nat
  /\ MaxBytes \in Nat \ {0}
  /\ Window \in Nat
  /\ Order \in [Objs -> 1..Cardinality(Objs)]
  /\ \A o, p \in Objs : Order[o] = Order[p] => o = p
  /\ Bounds \subseteq [writes : Nat, days : Nat, dumps : Nat]

VARIABLES
  objects,     \* committed objects: state, revision, day of the revision
  rev,         \* the last revision handed out
  day,         \* the clock
  write,       \* the write whose revision is drawn and that is not committed
  mappings,    \* the RevTimestamp objects
  lastPurged,  \* LastPurgedRev of the database state
  purge,       \* the purge request
  dump,        \* the dump request
  chain,       \* the files of the backup so far
  incKey,      \* the incremental key of the next file
  restore,     \* the restoring device
  bounds,      \* the bounds of this behaviour
  seen         \* history: what the properties compare with

clientVars == <<objects, rev, write>>
purgeVars == <<mappings, lastPurged, purge>>
backupVars == <<dump, chain, incKey>>
adminVars == <<objects, rev, day, write, mappings, lastPurged, purge, dump, chain, incKey, restore,
          bounds, seen>>

Idle == "idle"
NoWrite == [obj |-> "none", rev |-> NoRev, st |-> "none", day |-> 0]
NoMapping == [rev |-> NoRev, day |-> NoRev]
NoKey == [rev |-> NoRev, del |-> NoRev]
KindEntry == [obj |-> "kind", rev |-> 0, st |-> "live"]
IdlePurge == [pc |-> Idle, map |-> NoMapping, now |-> 0, days |-> 0, count |-> 0,
              inBatch |-> 0, todo |-> {}, gone |-> {}, over |-> {},
              added |-> {}, dropped |-> {}, record |-> NoRev]
IdleDump == [pc |-> Idle, file |-> <<>>, todo |-> {}, cur |-> NoRev,
             resp |-> NoKey, more |-> FALSE]
Fresh == [registered |-> FALSE, has |-> [o \in Objs |-> NoRev]]
IdleRestore == [pc |-> Idle, file |-> 1, next |-> 1, total |-> 0,
                work |-> Fresh, stored |-> Fresh]

(* Databases in use when the purges and backups begin.                     *)
AdminInit ==
  /\ \E gone \in SUBSET Objs :
       objects = [o \in Objs |-> [st |-> IF o \in gone THEN "del" ELSE "live",
                                  rev |-> Order[o], day |-> 0]]
  /\ bounds \in Bounds
  /\ rev = Cardinality(Objs)
  /\ day = 0
  /\ write = NoWrite
  /\ mappings = {}
  /\ lastPurged = NoRev
  /\ purge = IdlePurge
  /\ dump = IdleDump
  /\ chain = <<>>
  /\ incKey = NoKey
  /\ restore = IdleRestore
  /\ seen = [raced |-> {}, exempt |-> {}, undumped |-> {}, atDump |-> Fresh.has,
             purgedRev |-> NoRev, interrupted |-> FALSE]

-----------------------------------------------------------------------------
(* Clients.                                                                *)

Dumping == dump.pc # Idle
Purging == purge.pc # Idle

(* A write that overlaps a dump is remembered by its revision.             *)
Overlap(o, r) ==
  IF Dumping THEN [seen EXCEPT !.raced = @ \cup {r}, !.exempt = @ \cup {o}] ELSE seen

(* The bound of the revisions; a purge that began is left one.             *)
Room == rev + (IF purge.pc = "stamp" THEN 1 ELSE 0) < Cardinality(Objs) + bounds.writes

(* The day of a revision.  One drawn after a purge has read the clock and  *)
(* before it has drawn its own is of the day that the purge read.          *)
Today == IF purge.pc = "stamp" THEN purge.now ELSE day

(* MojDb::putObj and delObj draw a revision before the commit.             *)
DrawRev(o, st) ==
  /\ write = NoWrite
  /\ Room
  /\ st = "del" => objects[o].st = "live"
  /\ rev' = rev + 1
  /\ write' = [obj |-> o, rev |-> rev + 1, st |-> st, day |-> Today]
  /\ seen' = Overlap(o, rev + 1)
  /\ UNCHANGED <<objects, day, purgeVars, backupVars, restore, bounds>>

(* An object a purge has found or removed is written over: it is purged    *)
(* all the same.                                                           *)
CommitWrite ==
  /\ write # NoWrite
  /\ objects' = [objects EXCEPT ![write.obj] =
                [st |-> write.st, rev |-> write.rev, day |-> write.day]]
  /\ write' = NoWrite
  /\ seen' = Overlap(write.obj, write.rev)
  /\ purge' = [purge EXCEPT !.over = @ \cup ({write.obj} \cap (purge.todo \cup purge.gone))]
  /\ UNCHANGED <<rev, day, mappings, lastPurged, backupVars, restore, bounds>>

AbortWrite ==
  /\ write # NoWrite
  /\ write' = NoWrite
  /\ UNCHANGED <<objects, rev, day, purgeVars, backupVars, restore, bounds, seen>>

NextDay ==
  /\ day < bounds.days
  /\ day' = day + 1
  /\ UNCHANGED <<clientVars, purgeVars, backupVars, restore, bounds, seen>>

-----------------------------------------------------------------------------
(* MojDb::purge.                                                           *)

Oldest(S) == CHOOSE x \in S : \A y \in S : x.rev <= y.rev
Newest(S) == CHOOSE x \in S : \A y \in S : y.rev <= x.rev

MappingAnyAge(maps, t) == IF maps = {} THEN NoMapping ELSE Newest(maps)    \* mutant

(* The newest mapping that is old enough.                                  *)
MappingFor(maps, t) ==
  LET old == {m \in maps : m.day <= t} IN
  IF old = {} THEN NoMapping ELSE Newest(old)

(* What the finished files hold, and what the running dump adds.           *)
Sent == UNION {Range(chain[f].objects) : f \in DOMAIN chain}
Told == Sent \cup Range(dump.file)

(* What the batch wrote so far becomes visible.                            *)
CommitPurge(p) ==
  LET last == IF p.record = NoRev THEN lastPurged ELSE p.record IN
  /\ objects' = [o \in Objs |-> IF o \in p.gone
                   THEN [st |-> "none", rev |-> NoRev, day |-> 0] ELSE objects[o]]
  /\ mappings' = (mappings \cup p.added) \ p.dropped
  /\ lastPurged' = last
  /\ seen' = [seen EXCEPT
       !.purgedRev = LET R == {objects[o].rev : o \in p.gone \ p.over} \cup {@}
                     IN CHOOSE r \in R : \A q \in R : q <= r,
       !.exempt = @ \cup {o \in p.gone : Dumping /\ objects[o].st = "live"},
       !.undumped = @ \cup
         {o \in p.gone : \E e \in Told : /\ e.obj = o
                                         /\ e.st = "live"
                                         /\ \A d \in Sent : d.obj = o => d.rev <= e.rev}]

Written(p) == [p EXCEPT !.gone = {}, !.over = {}, !.added = {}, !.dropped = {}, !.record = NoRev]

PurgeBegin(numDays) ==
  /\ ~Purging
  /\ Room
  /\ purge' = [IdlePurge EXCEPT !.pc = "stamp", !.now = day,
                                !.days = IF numDays <= -1 THEN Window ELSE numDays]
  /\ UNCHANGED <<clientVars, day, mappings, lastPurged, backupVars, restore, bounds, seen>>

(* The revision is mapped to the time that was read before it was drawn.   *)
PurgeStamp ==
  LET m == [rev |-> rev + 1, day |-> purge.now]
      found == MappingFor(mappings \cup {m}, purge.now - purge.days)
  IN
  /\ purge.pc = "stamp"
  /\ rev' = rev + 1
  /\ purge' = [purge EXCEPT !.pc = IF found = NoMapping THEN "end" ELSE "sync",
                            !.map = found, !.added = {m}]
  /\ UNCHANGED <<objects, day, write, mappings, lastPurged, backupVars, restore, bounds, seen>>

(* The deleted objects the query of a pass finds, in the order of their    *)
(* revisions, as many as the limit allows.                                 *)
Purgeable(synced) ==
  {o \in Objs \ purge.gone : /\ objects[o].st = "del"
                             /\ o \in SyncObjs <=> synced
                             /\ objects[o].rev <= purge.map.rev}

FirstPurgeable(synced, n) ==
  {o \in Purgeable(synced) :
     Cardinality({p \in Purgeable(synced) : objects[p].rev < objects[o].rev}) < n}

(* delImpl with FlagPurge.  The query of a pass is of its beginning.       *)
PurgePass(from, synced, limit, to) ==
  /\ purge.pc = from
  /\ purge' = [purge EXCEPT !.pc = to, !.todo = FirstPurgeable(synced, limit), !.inBatch = 0]
  /\ UNCHANGED <<clientVars, day, mappings, lastPurged, backupVars, restore, bounds, seen>>

PurgeSynced == PurgePass("sync", TRUE, Batch, "syncDel")
PurgeOthers == PurgePass("other", FALSE, Batch - purge.count, "otherDel")

(* delObj: whether it is still deleted is not asked.                       *)
PurgeObj(o) ==
  /\ o \in purge.todo
  /\ purge' = [purge EXCEPT !.todo = @ \ {o}, !.gone = @ \cup {o},
                            !.count = @ + 1, !.inBatch = @ + 1]
  /\ UNCHANGED <<clientVars, day, mappings, lastPurged, backupVars, restore, bounds, seen>>

(* A full batch is committed at once.                                      *)
PassEnd(from, to) ==
  LET p == [purge EXCEPT !.pc = to] IN
  /\ purge.pc = from
  /\ purge.todo = {}
  /\ IF purge.inBatch >= Batch
     THEN CommitPurge(p) /\ purge' = Written(p)
     ELSE purge' = p /\ UNCHANGED <<objects, mappings, lastPurged, seen>>
  /\ UNCHANGED <<rev, day, write, backupVars, restore, bounds>>

SyncedEnd == PassEnd("syncDel", "other")
OthersEnd == PassEnd("otherDel", "record")

PurgeRecordNever ==    \* mutant
  /\ purge.pc = "record"
  /\ purge' = [purge EXCEPT !.pc = IF purge.count < Batch THEN "end" ELSE "again"]
  /\ UNCHANGED <<clientVars, day, mappings, lastPurged, backupVars, restore, bounds, seen>>

PurgeRecordAgain ==    \* mutant
  /\ purge.pc = "record"
  /\ purge' = [purge EXCEPT !.pc = IF purge.count <= Batch THEN "again" ELSE "end"]
  /\ UNCHANGED <<clientVars, day, mappings, lastPurged, backupVars, restore, bounds, seen>>

(* The last purged revision is stored, the used mappings are deleted.      *)
PurgeRecord ==
  /\ purge.pc = "record"
  /\ purge' = [purge EXCEPT
       !.pc = IF purge.count < Batch THEN "end" ELSE "again",
       !.record = IF purge.count > 0 THEN purge.map.rev ELSE NoRev,
       !.dropped = {m \in mappings \cup purge.added : m.day <= purge.map.day}]
  /\ UNCHANGED <<clientVars, day, mappings, lastPurged, backupVars, restore, bounds, seen>>

PurgeAgain ==
  /\ purge.pc = "again"
  /\ CommitPurge(purge)
  /\ purge' = [Written(purge) EXCEPT !.pc = "sync", !.count = 0]
  /\ UNCHANGED <<rev, day, write, backupVars, restore, bounds>>

PurgeEnd ==
  /\ purge.pc = "end"
  /\ CommitPurge(purge)
  /\ purge' = IdlePurge
  /\ UNCHANGED <<rev, day, write, backupVars, restore, bounds>>

(* An error, or the end of the process: what is not committed is lost.     *)
PurgeFails ==
  /\ Purging
  /\ purge' = IdlePurge
  /\ seen' = [seen EXCEPT !.interrupted = @ \/ seen.purgedRev > lastPurged]
  /\ UNCHANGED <<clientVars, day, mappings, lastPurged, backupVars, restore, bounds>>

-----------------------------------------------------------------------------
(* MojDb::dump for a backup, called by handlePreBackup with the key of the *)
(* answer before, or without one for a full backup.                        *)

Entries(st, above) ==
  {[obj |-> o, rev |-> objects[o].rev] : o \in {p \in SyncObjs :
     objects[p].st = st /\ objects[p].rev > above}}

DumpBegin(full) ==
  LET k == IF full THEN NoKey ELSE incKey IN
  /\ ~Dumping
  /\ restore.pc = Idle
  /\ Len(chain) < bounds.dumps
  /\ chain = <<>> => full
  /\ chain' = IF full THEN <<>> ELSE chain
  /\ incKey' = k
  /\ dump' = [IdleDump EXCEPT !.pc = "live", !.todo = Entries("live", k.rev),
                !.file = IF KindEntry.rev > k.rev THEN <<KindEntry>> ELSE <<>>]
  /\ seen' = [seen EXCEPT
       !.atDump = [o \in Objs |-> IF objects[o].st = "live" THEN objects[o].rev ELSE NoRev],
       !.raced = @ \cup ({write.rev} \ {NoRev}),
       !.exempt = {o \in Objs : ~full /\ objects[o].rev \in seen.raced}
                  \cup ({write.obj} \cap Objs),
       !.undumped = IF full THEN {} ELSE @]
  /\ UNCHANGED <<clientVars, day, purgeVars, restore, bounds>>

WithRevPast(resp, pass, r) ==    \* mutant
  IF pass = "live" THEN [resp EXCEPT !.rev = r + 1] ELSE [resp EXCEPT !.del = r + 1]

(* insertIncrementalKey                                                    *)
WithRev(resp, pass, r) ==
  IF pass = "live" THEN [resp EXCEPT !.rev = r] ELSE [resp EXCEPT !.del = r]

ParamOf(pass) == IF pass = "live" THEN incKey.rev ELSE incKey.del

(* handleBackupFull: the other parameter is handed on.                     *)
WithOther(resp, pass) ==
  IF pass = "live" THEN [resp EXCEPT !.del = incKey.del] ELSE [resp EXCEPT !.rev = incKey.rev]

(* dumpObj                                                                 *)
Fits == Len(dump.file) < MaxBytes

(* The entry is of the index as it was when the query began, the object is *)
(* read now: one purged since is a ghost key and skipped.                  *)
DumpObj ==
  /\ dump.pc \in {"live", "del"}
  /\ dump.todo # {}
  /\ LET e == Oldest(dump.todo)
         o == objects[e.obj]
     IN IF o.st = "none"
        THEN dump' = [dump EXCEPT !.todo = @ \ {e}]
        ELSE /\ Fits
             /\ dump' = [dump EXCEPT !.todo = @ \ {e}, !.cur = o.rev,
                  !.file = Append(@, [obj |-> e.obj, rev |-> o.rev, st |-> o.st])]
  /\ UNCHANGED <<clientVars, day, purgeVars, chain, incKey, restore, bounds, seen>>

(* MojErrDbBackupFull: the answer says hasMore.                            *)
DumpFull ==
  /\ dump.pc \in {"live", "del"}
  /\ dump.todo # {}
  /\ objects[Oldest(dump.todo).obj].st # "none"
  /\ ~Fits
  /\ LET r == IF dump.cur = NoRev THEN ParamOf(dump.pc) ELSE dump.cur
         skipped == {e \in dump.todo : e.rev <= r}
     IN /\ dump' = [dump EXCEPT !.pc = "reply", !.more = TRUE,
                      !.resp = WithOther(WithRev(@, dump.pc, r), dump.pc)]
        /\ seen' = [seen EXCEPT !.raced = @ \cup {e.rev : e \in skipped},
                                !.exempt = @ \cup {e.obj : e \in skipped}]
  /\ UNCHANGED <<clientVars, day, purgeVars, chain, incKey, restore, bounds>>

DumpPassEnd ==
  /\ dump.pc \in {"live", "del"}
  /\ dump.todo = {}
  /\ LET resp == IF dump.cur = NoRev THEN dump.resp
                 ELSE WithRev(dump.resp, dump.pc, dump.cur)
     IN dump' = IF dump.pc = "live"
                THEN [dump EXCEPT !.pc = "del", !.resp = resp, !.cur = NoRev,
                                  !.todo = Entries("del", incKey.del)]
                ELSE [dump EXCEPT !.pc = "reply", !.resp = resp]
  /\ UNCHANGED <<clientVars, day, purgeVars, chain, incKey, restore, bounds, seen>>

DumpReply ==
  /\ dump.pc = "reply"
  /\ chain' = Append(chain, [objects |-> dump.file, hasMore |-> dump.more])
  /\ incKey' = dump.resp
  /\ dump' = [IdleDump EXCEPT !.more = dump.more]
  /\ UNCHANGED <<clientVars, day, purgeVars, restore, bounds, seen>>

DumpFails ==
  /\ Dumping
  /\ dump' = [IdleDump EXCEPT !.more = TRUE]
  /\ UNCHANGED <<clientVars, day, purgeVars, chain, incKey, restore, bounds, seen>>

-----------------------------------------------------------------------------
(* handlePostRestore loads the files in order, forcing revisions.          *)

RestoreBegin ==
  /\ restore.pc \in {Idle, "failed"}
  /\ ~Dumping /\ ~Purging /\ write = NoWrite
  /\ chain # <<>>
  /\ ~dump.more
  /\ restore' = [restore EXCEPT !.pc = "load", !.file = 1, !.next = 1, !.total = 0,
                                !.work = restore.stored]
  /\ UNCHANGED <<clientVars, day, purgeVars, backupVars, bounds, seen>>

(* loadImpl: a deleted object is deleted; an object whose kind is not      *)
(* registered is passed over.                                              *)
Loaded(dev, e) ==
  IF e.obj = "kind" THEN [dev EXCEPT !.registered = TRUE]
  ELSE IF e.st = "del" THEN [dev EXCEPT !.has[e.obj] = NoRev]
  ELSE IF dev.registered THEN [dev EXCEPT !.has[e.obj] = e.rev]
  ELSE dev

(* A full step is committed and the schema lock is taken again.            *)
LoadObj ==
  /\ restore.pc = "load"
  /\ restore.next <= Len(chain[restore.file].objects)
  /\ LET dev == Loaded(restore.work, chain[restore.file].objects[restore.next])
         full == Step > 0 /\ (restore.total + 1) % Step = 0
     IN restore' = [restore EXCEPT !.work = dev, !.next = @ + 1, !.total = @ + 1,
                                   !.stored = IF full THEN dev ELSE @]
  /\ UNCHANGED <<clientVars, day, purgeVars, backupVars, bounds, seen>>

LoadEnd ==
  /\ restore.pc = "load"
  /\ restore.next > Len(chain[restore.file].objects)
  /\ restore' = IF restore.file < Len(chain)
                THEN [restore EXCEPT !.file = @ + 1, !.next = 1, !.total = 0]
                ELSE [restore EXCEPT !.pc = "done", !.stored = restore.work]
  /\ UNCHANGED <<clientVars, day, purgeVars, backupVars, bounds, seen>>

(* The committed steps stay; the same files may be loaded again.           *)
RestoreFails ==
  /\ restore.pc = "load"
  /\ restore' = [IdleRestore EXCEPT !.pc = "failed", !.stored = restore.stored]
  /\ UNCHANGED <<clientVars, day, purgeVars, backupVars, bounds, seen>>

-----------------------------------------------------------------------------
PurgeGoesOn ==
  \/ \E o \in Objs : PurgeObj(o)
  \/ PurgeStamp \/ PurgeSynced \/ SyncedEnd \/ PurgeOthers \/ OthersEnd
  \/ PurgeRecord \/ PurgeAgain \/ PurgeEnd

PurgeNext ==
  \/ \E n \in {-1, 0} : PurgeBegin(n)
  \/ PurgeGoesOn \/ PurgeFails

DumpNext ==
  \/ \E full \in BOOLEAN : DumpBegin(full)
  \/ DumpObj \/ DumpFull \/ DumpPassEnd \/ DumpReply \/ DumpFails

RestoreNext == RestoreBegin \/ LoadObj \/ LoadEnd \/ RestoreFails

ClientNext ==
  \/ \E o \in Objs, st \in {"live", "del"} : DrawRev(o, st)
  \/ CommitWrite \/ AbortWrite \/ NextDay

(* The restoring device is another one and only reads the files: its steps *)
(* are taken together, when the source is at rest.                         *)
AdminNext ==
  \/ restore.pc = Idle /\ (ClientNext \/ PurgeNext \/ DumpNext)
  \/ RestoreNext

(* A request a dispatcher thread took up is worked on to its end.          *)
AdminSpec ==
  /\ AdminInit /\ [][AdminNext]_adminVars
  /\ WF_adminVars(CommitWrite)
  /\ WF_adminVars(PurgeGoesOn)

-----------------------------------------------------------------------------
(* The files of a backup, loaded in order by a request that may have       *)
(* failed and been repeated, give the synced objects as they were when     *)
(* the last dump began: except those whose last write overlapped a dump    *)
(* (its revision may be below a key that went out before it was            *)
(* committed), those passed over because an object before them was written *)
(* again while its entry waited to be dumped and then the file was full,   *)
(* those purged before a dump had told their deletion, and those put back  *)
(* under a purge that then removed them while the dump ran.                *)
RestoreReproduces ==
  restore.pc = "done" =>
    \A o \in SyncObjs \ (seen.exempt \cup seen.undumped) :
      restore.stored.has[o] = seen.atDump[o]

(* purge removes only what was deleted at least that many days before it   *)
(* began, although it compares revisions and not times: but an object      *)
(* written again after the query that found it is removed with what was    *)
(* written, be it put back or deleted anew.                                *)
PurgedAfterWindow ==
  [][\A o \in Objs \ purge.over : objects[o].st # "none" /\ objects'[o].st = "none" =>
       /\ objects[o].st = "del"
       /\ objects[o].day <= purge.now - purge.days]_adminVars

(* LastPurgedRev, which a synchronising client compares its revision with, *)
(* covers everything purged that was not written again under the purge,    *)
(* unless a purge was cut off between the commit of a full batch and that  *)
(* of the revision.                                                        *)
PurgedRevRecorded ==
  ~Purging /\ ~seen.interrupted => seen.purgedRev <= lastPurged

\* A purge removes only what was deleted long enough before it began, and leaves the
\* revision that covers what it removed unless it was cut off: both except objects written
\* again between the query that found them and the commit of their batch (MojDb::purge).
PurgesKept == []PurgedRevRecorded /\ PurgedAfterWindow

(* The loop over batches ends: the revision it compares with is fixed.     *)
PurgeEnds == Purging ~> ~Purging

(* "construct the appropriate response with incremental key so that we are *)
(* called back to continue where we left off": a file that continues one   *)
(* with hasMore holds no version the files it continues hold.              *)
Continues(i, j) == i < j /\ \A k \in i..(j - 1) : chain[k].hasMore

ContinuesWhereLeftOff ==
  \A i, j \in DOMAIN chain :
    Continues(i, j) => Range(chain[i].objects) \cap Range(chain[j].objects) = {}
=============================================================================
