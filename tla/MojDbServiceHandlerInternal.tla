--------------------- MODULE MojDbServiceHandlerInternal ---------------------
(***************************************************************************)
(* The requests the database service makes of others: the activity of the   *)
(* scheduled purge, the alert when the database does not open, and the      *)
(* locale.  Replies are handled one at a time.  A request made with         *)
(* Unlimited replies lasts until an error without "subscribed", a failure   *)
(* of its handler or a cancel; another one ends with its reply.             *)
(***************************************************************************)
EXTENDS Naturals, FiniteSets

CONSTANTS MaxReplyCount   \* bound: replies handled

ASSUME InternalAssumption == MaxReplyCount \in Nat

VARIABLES
  calls,      \* per request: not sent, open, or ended
  m_handled,  \* PurgeHandler: the purge was done or begun
  space,      \* PurgeHandler: m_doSpaceCheck
  purges,     \* purges and compactions done
  activity,   \* "held" by the adopt call, "completed", or "lost"
  alerts,     \* alerts published
  locale,     \* the locale of the database
  replyCount
internalVars == <<calls, m_handled, space, purges, activity, alerts, locale, replyCount>>

CallNames == {"adopt", "complete", "bootStatus", "alert", "preferences"}

\* configure: a fatal error is shown once the system has booted, otherwise the
\* locale is asked for.
InternalInit ==
  /\ \E first \in {"bootStatus", "preferences"} :
       calls = [c \in CallNames |-> IF c = first THEN "open" ELSE "none"]
  /\ m_handled = FALSE /\ space = FALSE
  /\ purges = 0 /\ activity = "none" /\ alerts = 0 /\ locale = "none" /\ replyCount = 0

Takes(c) == calls[c] = "open" /\ replyCount < MaxReplyCount /\ replyCount' = replyCount + 1
Set(changes) == calls' = [c \in CallNames |-> IF c \in DOMAIN changes THEN changes[c] ELSE calls[c]]

\* handleScheduledPurge and handleScheduledSpaceCheck: the activity is adopted,
\* and the caller told "ok" before anything is done.
ScheduledPurge(check) ==
  /\ calls["adopt"] = "none" /\ calls["bootStatus"] = "none"
  /\ Set([c \in {"adopt"} |-> "open"])
  /\ space' = check
  /\ activity' = "held"
  /\ UNCHANGED <<m_handled, purges, alerts, locale, replyCount>>

\* An error ends the call, and the activity is not held any more.
Lost == IF activity = "held" THEN "lost" ELSE activity
AdoptFails ==
  /\ Takes("adopt")
  /\ Set([c \in {"adopt"} |-> "ended"])
  /\ activity' = Lost
  /\ UNCHANGED <<m_handled, space, purges, alerts, locale>>

\* Mutant: every event of the activity is taken for the first one.
AdoptAgain ==
  /\ Takes("adopt")
  /\ m_handled' = TRUE
  /\ purges' = purges + (IF space THEN 0 ELSE 1)
  /\ Set([c \in {"complete"} |-> "open"])
  /\ UNCHANGED <<space, activity, alerts, locale>>

\* handleAdopt: the first event purges and compacts, which a check of the space
\* does not, and the activity is completed; further events do nothing.
HandleAdopt ==
  /\ Takes("adopt")
  /\ m_handled' = TRUE
  /\ IF m_handled THEN UNCHANGED <<calls, purges>>
     ELSE /\ purges' = purges + (IF space THEN 0 ELSE 1)
          /\ Set([c \in {"complete"} |-> "open"])
  /\ UNCHANGED <<space, activity, alerts, locale>>

\* The purge fails: the handler's error cancels the call; the activity is not
\* completed and so not scheduled again.
PurgeFails ==
  /\ Takes("adopt") /\ ~m_handled /\ ~space
  /\ m_handled' = TRUE
  /\ Set([c \in {"adopt"} |-> "ended"])
  /\ activity' = "lost"
  /\ UNCHANGED <<space, purges, alerts, locale>>

\* handleComplete cancels the adoption, whatever the reply is.
HandleComplete(ok) ==
  /\ Takes("complete")
  /\ Set([c \in {"adopt", "complete"} |-> "ended"])
  /\ activity' = IF ok THEN "completed" ELSE Lost
  /\ UNCHANGED <<m_handled, space, purges, alerts, locale>>

\* handleBootStatusResponse: the alert is published when the boot is finished.
\* The slot stays connected: m_subscription is released, the request is not
\* cancelled, and another reply publishes the alert again.
HandleBootStatus(finished) ==
  /\ Takes("bootStatus")
  /\ IF finished THEN Set([c \in {"alert"} |-> "open"]) /\ alerts' = alerts + 1
                 ELSE UNCHANGED <<calls, alerts>>
  /\ UNCHANGED <<m_handled, space, purges, activity, locale>>

\* An error, or a payload without "finished".
BootStatusFails ==
  /\ Takes("bootStatus")
  /\ Set([c \in {"bootStatus"} |-> "ended"])
  /\ UNCHANGED <<m_handled, space, purges, activity, alerts, locale>>

HandleAlert ==
  /\ Takes("alert")
  /\ Set([c \in {"alert"} |-> "ended"])
  /\ UNCHANGED <<m_handled, space, purges, activity, alerts, locale>>

\* LocaleHandler::handleResponse: every reply sets the locale of the database; an
\* error, of the reply or of updateLocale, ends the subscription.
HandleLocale(new) ==
  /\ Takes("preferences")
  /\ locale' = new
  /\ UNCHANGED <<calls, m_handled, space, purges, activity, alerts>>
LocaleEnds ==
  /\ Takes("preferences")
  /\ Set([c \in {"preferences"} |-> "ended"])
  /\ UNCHANGED <<m_handled, space, purges, activity, alerts, locale>>

InternalNext ==
  \/ \E check \in BOOLEAN : ScheduledPurge(check)
  \/ AdoptFails \/ HandleAdopt \/ PurgeFails \/ BootStatusFails \/ HandleAlert \/ LocaleEnds
  \/ \E ok \in BOOLEAN : HandleComplete(ok) \/ HandleBootStatus(ok)
  \/ \E new \in {"en", "fr"} : HandleLocale(new)
-----------------------------------------------------------------------------
(* Properties. *)

\* A scheduled purge purges at most once, however many events the activity has.
\* Its activity is completed only after the purge, and then is not held any
\* more; if it is neither held nor completed, a call failed.  The alert is shown
\* only on a database that did not open, where nothing is purged.
PurgedOnce ==
  /\ purges <= 1
  /\ activity = "completed" => m_handled /\ calls["adopt"] = "ended" /\ (space \/ purges = 1)
  /\ calls["complete"] # "none" => m_handled /\ (space \/ purges = 1)
  /\ activity = "held" <=> calls["adopt"] = "open"
  /\ alerts > 0 => purges = 0 /\ locale = "none"
=============================================================================
