-------------------------- MODULE MojDbServiceWatch --------------------------
(***************************************************************************)
(* The notification of a watched query against the cancel of its client.   *)
(* MojDbServiceHandler::Watcher has a slot on the signal of a MojDbWatcher  *)
(* and one on the cancel signal of the message; whichever fires first       *)
(* cancels the other.  Transactions fire the watcher on the threads that    *)
(* commit them, while the cancel is handled on the thread of the pool that  *)
(* serves the queue of the client.                                          *)
(*                                                                         *)
(* The request has replied and closed its cursor: the watcher is active, in *)
(* the index, both slots connected.  The mutex of the MojDbWatcher is held  *)
(* over several steps; the mutexes of the two signals, of the service and   *)
(* of the index only within one.  Dropping the last reference to the message *)
(* and its removal from the service are one step.                           *)
(***************************************************************************)
EXTENDS Naturals, FiniteSets

CONSTANTS Firers,     \* committing threads that noted the watcher
          NoThread

ASSUME NoThreadAssumption == NoThread \notin Firers

VARIABLES
  m_mutex,        \* MojDbWatcher::m_mutex: who holds it, or NoThread
  active,         \* m_state is active, m_index set, the watcher in the index
  watchSlot,      \* m_watchSlot is connected
  cancelSlot,     \* m_cancelSlot is connected
  m_msg,          \* the handler's Watcher still refers to the message
  m_subscribed,   \* the message's flag
  subscription,   \* the service's map has the message
  fpc,            \* per firer
  local,          \* per firer, handleWatch's copy of m_msg is not null
  cpc,            \* the cancel
  replies         \* notifications sent to the client

serviceWatchVars == <<m_mutex, active, watchSlot, cancelSlot, m_msg, m_subscribed,
                      subscription, fpc, local, cpc, replies>>

ServiceWatchTypeOK ==
  /\ m_mutex \in {NoThread} \cup {f \in Firers : fpc[f] \notin {"start", "done"}}
  /\ active \in BOOLEAN /\ watchSlot \in BOOLEAN /\ cancelSlot \in BOOLEAN
  /\ m_msg \in BOOLEAN /\ m_subscribed \in BOOLEAN /\ subscription \in BOOLEAN
  /\ fpc \in [Firers -> {"start", "fire", "signal", "handle", "cancelSlot", "handleCancel",
                         "disconnect", "copy", "reset", "reply", "unlock", "done", "crashed"}]
  /\ local \in [Firers -> BOOLEAN]
  /\ cpc \in {"start", "signal", "handle", "watchSlot", "dbCancel", "disconnect", "reset", "done"}
  /\ replies \in Nat

ServiceWatchInit ==
  /\ m_mutex = NoThread /\ active = TRUE /\ watchSlot = TRUE /\ cancelSlot = TRUE
  /\ m_msg = TRUE /\ m_subscribed = TRUE /\ subscription = TRUE
  /\ fpc = [f \in Firers |-> "start"] /\ local = [f \in Firers |-> FALSE]
  /\ cpc = "start" /\ replies = 0
-----------------------------------------------------------------------------
(* The message: it is referred to by the handler's Watcher, by the copies of *)
(* handleWatch, and by the cancel from its lookup to its end.               *)

Cancelling == cpc \notin {"start", "done"}

\* A step after which nobody refers to the message destroys it, and
\* MojServiceMessage::close removes its subscription.
Release ==
  IF m_msg' \/ Cancelling' \/ \E f \in Firers : local'[f]
  THEN UNCHANGED <<m_subscribed, subscription>>
  ELSE /\ subscription' = (subscription /\ ~m_subscribed)
       /\ UNCHANGED m_subscribed

Goto(f, label) == fpc' = [fpc EXCEPT ![f] = label]
-----------------------------------------------------------------------------
(* A committing thread. *)

\* MojDbWatcher::fire takes the mutex.
Lock(f) ==
  /\ fpc[f] = "start" /\ m_mutex = NoThread
  /\ m_mutex' = f
  /\ Goto(f, "fire")
  /\ UNCHANGED <<active, watchSlot, cancelSlot, m_msg, m_subscribed, subscription, local, cpc, replies>>

\* Mutant: the watcher stays active and notifies without its slot.
FireStaysActive(f) ==
  /\ fpc[f] = "fire"
  /\ Goto(f, IF active THEN "reply" ELSE "unlock")
  /\ UNCHANGED <<m_mutex, active, watchSlot, cancelSlot, m_msg, m_subscribed, subscription, local, cpc, replies>>

\* An active watcher leaves the index, then fires; another one does nothing.
FireActive(f) ==
  /\ fpc[f] = "fire"
  /\ IF active THEN active' = FALSE /\ Goto(f, "signal")
               ELSE Goto(f, "unlock") /\ UNCHANGED active
  /\ UNCHANGED <<m_mutex, watchSlot, cancelSlot, m_msg, m_subscribed, subscription, local, cpc, replies>>

\* MojSignal0::fire takes the slot out and disconnects it, then invokes it.
FireSignal(f) ==
  /\ fpc[f] = "signal"
  /\ watchSlot' = FALSE
  /\ Goto(f, IF watchSlot THEN "handle" ELSE "unlock")
  /\ UNCHANGED <<m_mutex, active, cancelSlot, m_msg, m_subscribed, subscription, local, cpc, replies>>

\* handleWatch cancels the cancel slot: MojSlotBase::cancel reads m_connected
\* without a lock.
HandleWatch(f) ==
  /\ fpc[f] = "handle"
  /\ Goto(f, IF cancelSlot THEN "cancelSlot" ELSE "copy")
  /\ UNCHANGED <<m_mutex, active, watchSlot, cancelSlot, m_msg, m_subscribed, subscription, local, cpc, replies>>

\* MojSignalBase::cancel of the message's signal, first section.
CancelSlot(f) ==
  /\ fpc[f] = "cancelSlot"
  /\ Goto(f, IF cancelSlot THEN "handleCancel" ELSE "copy")
  /\ UNCHANGED <<m_mutex, active, watchSlot, cancelSlot, m_msg, m_subscribed, subscription, local, cpc, replies>>

\* MojServiceMessage::handleCancel, outside the signal's mutex.
MessageHandleCancel(f) ==
  /\ fpc[f] = "handleCancel"
  /\ subscription' = (subscription /\ ~m_subscribed)
  /\ m_subscribed' = FALSE
  /\ Goto(f, "disconnect")
  /\ UNCHANGED <<m_mutex, active, watchSlot, cancelSlot, m_msg, local, cpc, replies>>

\* MojSignalBase::cancel, last section: the slot is erased if it still is there.
Disconnect(f) ==
  /\ fpc[f] = "disconnect"
  /\ cancelSlot' = FALSE
  /\ Goto(f, "copy")
  /\ UNCHANGED <<m_mutex, active, watchSlot, m_msg, m_subscribed, subscription, local, cpc, replies>>

\* msg = m_msg
Copy(f) ==
  /\ fpc[f] = "copy"
  /\ local' = [local EXCEPT ![f] = m_msg]
  /\ Goto(f, "reset")
  /\ UNCHANGED <<m_mutex, active, watchSlot, cancelSlot, m_msg, m_subscribed, subscription, cpc, replies>>

\* m_msg.reset(); without a message the next use of msg ends the process.
Reset(f) ==
  /\ fpc[f] = "reset"
  /\ m_msg' = FALSE
  /\ Goto(f, IF local[f] THEN "reply" ELSE "crashed")
  /\ UNCHANGED <<m_mutex, active, watchSlot, cancelSlot, m_subscribed, subscription, local, cpc, replies>>

\* The notification is sent and the copy goes out of scope.
Notify(f) ==
  /\ fpc[f] = "reply"
  /\ replies' = replies + 1
  /\ local' = [local EXCEPT ![f] = FALSE]
  /\ Goto(f, "unlock")
  /\ UNCHANGED <<m_mutex, active, watchSlot, cancelSlot, m_msg, cpc>>
  /\ Release

\* The guard of MojDbWatcher::fire goes out of scope.
Unlock(f) ==
  /\ fpc[f] = "unlock"
  /\ m_mutex' = NoThread
  /\ Goto(f, "done")
  /\ UNCHANGED <<active, watchSlot, cancelSlot, m_msg, m_subscribed, subscription, local, cpc, replies>>

FireImpl(f) ==
  \/ Lock(f) \/ FireActive(f) \/ FireSignal(f) \/ HandleWatch(f) \/ CancelSlot(f)
  \/ MessageHandleCancel(f) \/ Disconnect(f) \/ Copy(f) \/ Reset(f) \/ Notify(f) \/ Unlock(f)
-----------------------------------------------------------------------------
(* The thread that handles the cancel of the client. *)

\* MojService::dispatchCancel looks the message up.
Lookup ==
  /\ cpc = "start"
  /\ cpc' = IF subscription THEN "signal" ELSE "done"
  /\ UNCHANGED <<m_mutex, active, watchSlot, cancelSlot, m_msg, m_subscribed, subscription, fpc, local, replies>>

\* The cancel signal takes the slot out and disconnects it, then invokes it.
FireCancel ==
  /\ cpc = "signal"
  /\ cancelSlot' = FALSE
  /\ cpc' = IF cancelSlot THEN "handle" ELSE "done"
  /\ UNCHANGED <<m_mutex, active, watchSlot, m_msg, fpc, local, replies>>
  /\ Release

\* Watcher::handleCancel cancels the watch slot; m_connected is read without a
\* lock and, when it is set, again under the mutex of the signal.
HandleCancel ==
  /\ cpc = "handle"
  /\ cpc' = IF watchSlot THEN "watchSlot" ELSE "reset"
  /\ UNCHANGED <<m_mutex, active, watchSlot, cancelSlot, m_msg, m_subscribed, subscription, fpc, local, replies>>
CancelWatchSlot ==
  /\ cpc = "watchSlot"
  /\ cpc' = IF watchSlot THEN "dbCancel" ELSE "reset"
  /\ UNCHANGED <<m_mutex, active, watchSlot, cancelSlot, m_msg, m_subscribed, subscription, fpc, local, replies>>

\* MojDbWatcher::handleCancel under the watcher's mutex.
DbHandleCancel ==
  /\ cpc = "dbCancel" /\ m_mutex = NoThread
  /\ active' = FALSE
  /\ cpc' = "disconnect"
  /\ UNCHANGED <<m_mutex, watchSlot, cancelSlot, m_msg, m_subscribed, subscription, fpc, local, replies>>

DisconnectWatch ==
  /\ cpc = "disconnect"
  /\ watchSlot' = FALSE
  /\ cpc' = "reset"
  /\ UNCHANGED <<m_mutex, active, cancelSlot, m_msg, m_subscribed, subscription, fpc, local, replies>>

\* m_msg.reset(), and the reference of dispatchCancel goes out of scope.
ResetCancelled ==
  /\ cpc = "reset"
  /\ m_msg' = FALSE
  /\ cpc' = "done"
  /\ UNCHANGED <<m_mutex, active, watchSlot, cancelSlot, fpc, local, replies>>
  /\ Release

DispatchCancel == \/ Lookup \/ FireCancel \/ HandleCancel \/ CancelWatchSlot \/ DbHandleCancel
                  \/ DisconnectWatch \/ ResetCancelled
-----------------------------------------------------------------------------
Crashed  == \E f \in Firers : fpc[f] = "crashed"
Finished == cpc = "done" /\ \A f \in Firers : fpc[f] = "done"

Committing(f) == ~Crashed /\ FireImpl(f)
HandlingCancel == ~Crashed /\ DispatchCancel

ServiceWatchNext == \/ HandlingCancel \/ \E f \in Firers : Committing(f)
                    \/ (Crashed \/ Finished) /\ UNCHANGED serviceWatchVars

ServiceWatchSpec == ServiceWatchInit /\ [][ServiceWatchNext]_serviceWatchVars

\* Threads of the process run on; the cancel may never come.
FairServiceWatchSpec ==
  /\ ServiceWatchSpec
  /\ \A f \in Firers : WF_serviceWatchVars(Committing(f))
  /\ WF_serviceWatchVars(HandlingCancel /\ cpc # "start")
-----------------------------------------------------------------------------
(* Properties. *)

\* Whichever of the two signals is first cancels the other, so that the client
\* is notified at most once and never twice by two transactions.
NotifiedAtMostOnce == replies <= 1

\* The assertions of removeSubscription: the flag of the message and the map of
\* the service agree while the message is referred to.
SubscriptionAgrees == (m_msg \/ Cancelling) => (m_subscribed <=> subscription)

\* Once the cancel or a transaction has been through and none is on its way,
\* the watcher has left the index, both slots are disconnected, the message is
\* released and its subscription removed.
Quiet == /\ ~Cancelling /\ \A f \in Firers : fpc[f] \in {"start", "done"}
         /\ cpc = "done" \/ \E f \in Firers : fpc[f] = "done"
NothingLeft ==
  Quiet => /\ ~active /\ ~watchSlot /\ ~cancelSlot /\ ~m_msg /\ ~subscription
           /\ m_mutex = NoThread

\* However the notifications and the cancel interleave, the client is notified once at
\* most and the watcher, the message and the service's map end up agreeing and released.
ServiceWatchKept == ServiceWatchTypeOK /\ NotifiedAtMostOnce /\ SubscriptionAgrees /\ NothingLeft

\* The commit that fires and the cancel never wait for each other: every call
\* that was begun returns.
Terminates ==
  /\ \A f \in Firers : <>(fpc[f] = "done" \/ Crashed)
  /\ (cpc # "start") ~> (cpc = "done" \/ Crashed)

\* MojAssert(m_msg.get()) in handleWatch, and what follows when it fails.
HandleWatchAssert == \A f \in Firers : fpc[f] = "handle" => m_msg
=============================================================================
