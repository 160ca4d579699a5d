--------------------------- MODULE MojDbLifecycle ---------------------------
(* Opening and closing a database, and changing its locale: MojDb::open,   *)
(* close, drop, checkDbVersion and updateLocale (src/db/MojDb.cpp,         *)
(* MojDbAdmin.cpp), MojDbKindEngine::open and close, and the service that  *)
(* calls them (src/db-luna).                                               *)
(*                                                                         *)
(* The main thread opens the database, answers the changes of locale and   *)
(* closes; the requests of the dispatcher threads read with the schema     *)
(* lock.  Any step of an open or of a change of locale can fail, and the   *)
(* process can crash between any two.                                      *)
EXTENDS Integers, Sequences

CONSTANTS
  Readers,       \* requests of the dispatcher
  LocKinds,      \* kinds, each with indexes that sort by the locale
  Locales,       \* locales the system service may send
  NoLocale       \* what a kind that is not open sorts by

(* The main thread is not a request of the dispatcher.                     *)
ASSUME LifeAssumption == "main" \notin Readers

VARIABLES
  mainPc,        \* what the main thread does
  readerPc,      \* what each request does
  schemaLock,    \* "free", "write", or the set of readers
  isOpen,        \* m_isOpen
  opened,        \* the parts that are open
  storedLocale,  \* the locale in the state object, which the stored entries are sorted by
  kindLocale,    \* m_locale of the engine and of the indexes of each kind
  newLocale,     \* the locale the main thread changes to
  versionFile,   \* "none", "current", "other", "garbled"
  reopenFailed   \* the kinds could not be opened again

lifeVars == <<mainPc, readerPc, schemaLock, isOpen, opened, storedLocale, kindLocale,
              newLocale, versionFile, reopenFailed>>

(* What open opens in its request, in this order.                          *)
Parts == <<"objDb", "idSeq", "kinds", "permissions", "quotas">>
Openings == {"check version", "new version", "rename", "storage", "begin"} \cup {Parts[i] : i \in 1..Len(Parts)} \cup {"end"}
After(part) == LET i == CHOOSE j \in 1..Len(Parts) : Parts[j] = part IN
               IF i = Len(Parts) THEN "end" ELSE Parts[i + 1]
Closed == [k \in LocKinds |-> NoLocale]

LifeInit ==
  /\ mainPc = "closed"
  /\ readerPc = [r \in Readers |-> "idle"]
  /\ schemaLock = {}
  /\ isOpen = FALSE
  /\ opened = {}
  /\ storedLocale \in Locales
  /\ kindLocale = Closed
  /\ newLocale = storedLocale
  /\ versionFile \in {"none", "current", "other", "garbled"}
  /\ reopenFailed = FALSE

TakeWrite == schemaLock = {} /\ schemaLock' = {"main"}
ReleaseWrite == schemaLock' = schemaLock \ {"main"}
HoldsWrite == "main" \in schemaLock

unchangedStore == UNCHANGED <<storedLocale, versionFile>>
unchangedLocale == UNCHANGED <<kindLocale, newLocale, reopenFailed>>

-----------------------------------------------------------------------------
(* open                                                                    *)

OpenBegin ==
  /\ mainPc = "closed" /\ ~isOpen
  /\ isOpen' = TRUE
  /\ mainPc' = "check version"
  /\ UNCHANGED <<readerPc, schemaLock, opened>> /\ unchangedStore /\ unchangedLocale

(* A file that cannot be parsed is replaced, whatever the data.            *)
CheckVersion ==
  /\ mainPc = "check version"
  /\ mainPc' = CASE versionFile = "current" -> "storage"
                 [] versionFile = "other" -> "failed"
                 [] OTHER -> "new version"
  /\ UNCHANGED <<readerPc, schemaLock, isOpen, opened>> /\ unchangedStore /\ unchangedLocale

(* createVersionFile: a temporary file is written and synced ...           *)
WriteTemporary ==
  /\ mainPc = "new version"
  /\ mainPc' = "rename"
  /\ UNCHANGED <<readerPc, schemaLock, isOpen, opened>> /\ unchangedStore /\ unchangedLocale

(* ... and takes the name of the version file.                             *)
RenameVersion ==
  /\ mainPc = "rename"
  /\ versionFile' = "current"
  /\ mainPc' = "storage"
  /\ UNCHANGED <<readerPc, schemaLock, isOpen, opened, storedLocale>> /\ unchangedLocale

OpenStorage ==
  /\ mainPc = "storage"
  /\ opened' = opened \cup {"storage"}
  /\ mainPc' = "begin"
  /\ UNCHANGED <<readerPc, schemaLock, isOpen>> /\ unchangedStore /\ unchangedLocale

BeginOpenReq ==
  /\ mainPc = "begin" /\ TakeWrite
  /\ mainPc' = Parts[1]
  /\ UNCHANGED <<readerPc, isOpen, opened>> /\ unchangedStore /\ unchangedLocale

(* The kinds are loaded for the locale that is stored.                     *)
OpenPart(part) ==
  /\ mainPc = part
  /\ opened' = opened \cup {part}
  /\ kindLocale' = IF part = "kinds" THEN [k \in LocKinds |-> storedLocale] ELSE kindLocale
  /\ mainPc' = After(part)
  /\ UNCHANGED <<readerPc, schemaLock, isOpen, newLocale, reopenFailed>> /\ unchangedStore

EndOpen ==
  /\ mainPc = "end" /\ ReleaseWrite
  /\ mainPc' = "open"
  /\ UNCHANGED <<readerPc, isOpen, opened>> /\ unchangedStore /\ unchangedLocale

CloseBeforeReq ==    \* mutant
  /\ mainPc \in Openings
  /\ mainPc' = "failed"
  /\ UNCHANGED <<readerPc, schemaLock, isOpen, opened>> /\ unchangedStore /\ unchangedLocale

(* A step fails: the request, declared after the closer, goes first, and   *)
(* gives the lock back that close takes.                                   *)
OpenFails ==
  /\ mainPc \in Openings
  /\ ReleaseWrite
  /\ mainPc' = "failed"
  /\ UNCHANGED <<readerPc, isOpen, opened>> /\ unchangedStore /\ unchangedLocale

(* close, under the schema lock: the service closes when the dispatcher    *)
(* has been stopped and its threads have ended.                            *)
CloseAll ==
  /\ isOpen' = FALSE /\ opened' = {} /\ kindLocale' = Closed
  /\ reopenFailed' = FALSE
  /\ mainPc' = "closed"
  /\ UNCHANGED <<readerPc, schemaLock, newLocale>>

CloseAtOnce ==    \* mutant
  /\ mainPc \in {"open", "failed"} /\ schemaLock = {}
  /\ CloseAll /\ unchangedStore

Close ==
  /\ mainPc \in {"open", "failed"} /\ schemaLock = {}
  /\ \A r \in Readers : readerPc[r] = "idle"
  /\ CloseAll /\ unchangedStore

(* drop: the files are removed in a request of its own, then all closed.   *)
Drop ==
  /\ mainPc = "open" /\ schemaLock = {}
  /\ \A r \in Readers : readerPc[r] = "idle"
  /\ CloseAll
  /\ storedLocale' \in Locales    \* that of the database made next
  /\ UNCHANGED versionFile

-----------------------------------------------------------------------------
(* updateLocale                                                            *)

LocaleBegin(l) ==
  /\ mainPc = "open" /\ TakeWrite
  /\ newLocale' = l
  /\ mainPc' = IF l = storedLocale THEN "locale end" ELSE "locale"
  /\ UNCHANGED <<readerPc, isOpen, opened, kindLocale, reopenFailed>> /\ unchangedStore

(* Each kind builds the entries of its indexes again.                      *)
UpdateKindLocale(k) ==
  /\ mainPc = "locale" /\ "kinds" \in opened
  /\ kindLocale[k] # newLocale
  /\ kindLocale' = [kindLocale EXCEPT ![k] = newLocale]
  /\ UNCHANGED <<mainPc, readerPc, schemaLock, isOpen, opened, newLocale, reopenFailed>>
  /\ unchangedStore

LocaleCommit ==
  /\ mainPc = "locale" /\ \A k \in LocKinds : kindLocale[k] = newLocale
  /\ storedLocale' = newLocale
  /\ mainPc' = "locale end"
  /\ UNCHANGED <<readerPc, schemaLock, isOpen, opened, versionFile>> /\ unchangedLocale

LocaleEnd ==
  /\ mainPc = "locale end" /\ ReleaseWrite
  /\ mainPc' = "open"
  /\ UNCHANGED <<readerPc, isOpen, opened>> /\ unchangedStore /\ unchangedLocale

LocaleFailsOnly ==    \* mutant
  /\ mainPc = "locale" /\ ReleaseWrite
  /\ mainPc' = "open"
  /\ UNCHANGED <<readerPc, isOpen, opened>> /\ unchangedStore /\ unchangedLocale

(* A kind, the state object or the commit fails: the request is aborted,   *)
(* which gives the lock back ...                                           *)
LocaleFails ==
  /\ mainPc = "locale" /\ ReleaseWrite
  /\ mainPc' = "locale aborted"
  /\ UNCHANGED <<readerPc, isOpen, opened>> /\ unchangedStore /\ unchangedLocale

(* ... the kinds are closed, without it ...                                *)
CloseKinds ==
  /\ mainPc = "locale aborted"
  /\ opened' = opened \ {"kinds"}
  /\ kindLocale' = Closed
  /\ mainPc' = "kinds closed"
  /\ UNCHANGED <<readerPc, schemaLock, isOpen, newLocale, reopenFailed>> /\ unchangedStore

(* ... and opened again in another request, from what is stored.           *)
ReopenBegin ==
  /\ mainPc = "kinds closed" /\ TakeWrite
  /\ mainPc' = "reopen"
  /\ UNCHANGED <<readerPc, isOpen, opened>> /\ unchangedStore /\ unchangedLocale

ReopenKinds ==
  /\ mainPc = "reopen"
  /\ opened' = opened \cup {"kinds"}
  /\ kindLocale' = [k \in LocKinds |-> storedLocale]
  /\ reopenFailed' = FALSE
  /\ mainPc' = "locale end"
  /\ UNCHANGED <<readerPc, schemaLock, isOpen, newLocale>> /\ unchangedStore

ReopenFails ==
  /\ mainPc = "reopen" /\ ReleaseWrite
  /\ reopenFailed' = TRUE
  /\ mainPc' = "open"
  /\ UNCHANGED <<readerPc, isOpen, opened, kindLocale, newLocale>> /\ unchangedStore

-----------------------------------------------------------------------------
(* Requests, and a crash.                                                  *)

(* Messages arrive once the main thread has opened and runs the reactor.   *)
Serving == mainPc \notin Openings \cup {"closed", "failed"}

RequireOpen(r) ==
  /\ Serving /\ isOpen /\ readerPc[r] = "idle"
  /\ readerPc' = [readerPc EXCEPT ![r] = "begin"]
  /\ UNCHANGED <<mainPc, schemaLock, isOpen, opened>> /\ unchangedStore /\ unchangedLocale

ReadLock(r) ==
  /\ readerPc[r] = "begin" /\ ~HoldsWrite
  /\ schemaLock' = schemaLock \cup {r}
  /\ readerPc' = [readerPc EXCEPT ![r] = "read"]
  /\ UNCHANGED <<mainPc, isOpen, opened>> /\ unchangedStore /\ unchangedLocale

ReadEnd(r) ==
  /\ readerPc[r] = "read"
  /\ schemaLock' = schemaLock \ {r}
  /\ readerPc' = [readerPc EXCEPT ![r] = "idle"]
  /\ UNCHANGED <<mainPc, isOpen, opened>> /\ unchangedStore /\ unchangedLocale

LifeCrash ==
  /\ mainPc' = "closed" /\ readerPc' = [r \in Readers |-> "idle"]
  /\ schemaLock' = {} /\ isOpen' = FALSE /\ opened' = {} /\ kindLocale' = Closed
  /\ reopenFailed' = FALSE
  /\ UNCHANGED newLocale /\ unchangedStore

OpenStep ==
  \/ CheckVersion \/ WriteTemporary \/ RenameVersion \/ OpenStorage \/ BeginOpenReq
  \/ \E i \in 1..Len(Parts) : OpenPart(Parts[i])
  \/ EndOpen
CloseFailed == mainPc = "failed" /\ Close

LifeNext ==
  \/ OpenBegin \/ OpenStep \/ OpenFails \/ Close \/ Drop
  \/ \E l \in Locales : LocaleBegin(l)
  \/ \E k \in LocKinds : UpdateKindLocale(k)
  \/ LocaleCommit \/ LocaleEnd \/ LocaleFails \/ CloseKinds \/ ReopenBegin \/ ReopenKinds \/ ReopenFails
  \/ \E r \in Readers : RequireOpen(r) \/ ReadLock(r) \/ ReadEnd(r)
  \/ LifeCrash

(* The main thread goes on opening, and closes what it could not open; a   *)
(* request that has the lock ends.                                         *)
LifeFairness ==
  /\ WF_lifeVars(OpenStep) /\ WF_lifeVars(CloseFailed)
  /\ \A r \in Readers : WF_lifeVars(ReadEnd(r)) /\ WF_lifeVars(ReadLock(r))

-----------------------------------------------------------------------------
(* Whoever reads the kinds sorts by the locale that the stored entries are *)
(* sorted by: also after a change that failed in the middle.               *)
Windows == {"locale aborted", "kinds closed"}

SortedAsStored ==
  \A r \in Readers : readerPc[r] = "read" =>
    \/ mainPc \in Windows \/ reopenFailed
    \/ "kinds" \in opened /\ \A k \in LocKinds : kindLocale[k] = storedLocale

(* An open that was begun ends: open, or closed with nothing left open and *)
(* the lock free.  It never waits for its own lock.                        *)
OpenSettles == (mainPc \in Openings \cup {"failed"}) ~> (mainPc \in {"open", "closed"})
=============================================================================
