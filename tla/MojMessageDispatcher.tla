------------------------ MODULE MojMessageDispatcher ------------------------
(***************************************************************************)
(* MojMessageDispatcher: the thread pool that handles the messages of the   *)
(* bus.  schedule() and stop() are called by the thread that runs the       *)
(* reactor, dispatch() in a loop by the pool's threads.                     *)
(*                                                                         *)
(* A Queue object exists while its name is in one of the two lists; a step  *)
(* is a section under m_mutex, or the handling of a message outside it.     *)
(***************************************************************************)
EXTENDS Naturals, Sequences, FiniteSets

CONSTANTS Threads,   \* the pool
          Queues,    \* the queue names: one per sender, one for the replies
          Msgs,      \* the messages
          None

ASSUME NoneAssumption == None \notin Queues \cup Msgs
ASSUME PoolAssumption == IsFiniteSet(Threads)     \* start(numThreads)

VARIABLES
  m_scheduledList,  \* the queues a thread may take
  m_pendingList,    \* the queues of the messages being handled
  m_messageList,    \* per queue, its messages
  m_stop,
  pc,               \* per thread: before the lock, in m_cond.wait, handling, returned
  queue,            \* the queue a thread took
  msg,              \* the message it handles
  came              \* history: the messages scheduled so far

threadVars == <<pc, queue, msg>>
vars == <<m_scheduledList, m_pendingList, m_messageList, m_stop, threadVars, came>>

TypeOK ==
  /\ m_scheduledList \in Seq(Queues)
  /\ m_pendingList \in SUBSET Queues
  /\ m_messageList \in [Queues -> Seq(Msgs)]
  /\ m_stop \in {"no", "yes"}
  /\ pc \in [Threads -> {"ready", "wait", "dispatch", "returned"}]
  /\ queue \in [Threads -> Queues \cup {None}]
  /\ msg \in [Threads -> Msgs \cup {None}]
  /\ came \in SUBSET Msgs

Init ==
  /\ m_scheduledList = <<>>
  /\ m_pendingList = {}
  /\ m_messageList = [q \in Queues |-> <<>>]
  /\ m_stop = "no"
  /\ pc = [t \in Threads |-> "ready"]
  /\ queue = [t \in Threads |-> None]
  /\ msg = [t \in Threads |-> None]
  /\ came = {}
-----------------------------------------------------------------------------
Elements(s) == {s[i] : i \in DOMAIN s}
Distinct(s) == \A i, j \in DOMAIN s : s[i] = s[j] => i = j

Waiting == {t \in Threads : pc[t] = "wait"}

\* m_cond.signal(): one waiting thread, if there is one.
Signal ==
  IF Waiting = {} THEN UNCHANGED pc
  ELSE \E t \in Waiting : pc' = [pc EXCEPT ![t] = "ready"]

\* m_cond.broadcast()
Broadcast == pc' = [t \in Threads |-> IF pc[t] = "wait" THEN "ready" ELSE pc[t]]

\* Mutants of schedule(): a pending queue is not looked for; no thread is woken
\* up; the message goes to the front of its queue.
ScheduleIgnoresPending(q, m) ==
  /\ m \notin came /\ m_stop = "no"
  /\ came' = came \cup {m}
  /\ m_messageList' = [m_messageList EXCEPT ![q] = Append(@, m)]
  /\ IF q \in Elements(m_scheduledList)
     THEN UNCHANGED <<m_scheduledList, pc>>
     ELSE m_scheduledList' = Append(m_scheduledList, q) /\ Signal
  /\ UNCHANGED <<m_pendingList, m_stop, queue, msg>>
ScheduleSilent(q, m) ==
  /\ m \notin came /\ m_stop = "no"
  /\ came' = came \cup {m}
  /\ m_messageList' = [m_messageList EXCEPT ![q] = Append(@, m)]
  /\ m_scheduledList' = IF q \in Elements(m_scheduledList) \cup m_pendingList
                        THEN m_scheduledList ELSE Append(m_scheduledList, q)
  /\ UNCHANGED <<m_pendingList, m_stop, threadVars>>
ScheduleFront(q, m) ==
  /\ m \notin came /\ m_stop = "no"
  /\ came' = came \cup {m}
  /\ m_messageList' = [m_messageList EXCEPT ![q] = <<m>> \o @]
  /\ IF q \in Elements(m_scheduledList) \cup m_pendingList
     THEN UNCHANGED <<m_scheduledList, pc>>
     ELSE m_scheduledList' = Append(m_scheduledList, q) /\ Signal
  /\ UNCHANGED <<m_pendingList, m_stop, queue, msg>>

\* schedule(msg): a queue found in a list gets the message; otherwise a queue is
\* made, scheduled, and a thread woken up.
Schedule(q, m) ==
  /\ m \notin came /\ m_stop = "no"
  /\ came' = came \cup {m}
  /\ m_messageList' = [m_messageList EXCEPT ![q] = Append(@, m)]
  /\ IF q \in Elements(m_scheduledList) \cup m_pendingList
     THEN UNCHANGED <<m_scheduledList, pc>>
     ELSE m_scheduledList' = Append(m_scheduledList, q) /\ Signal
  /\ UNCHANGED <<m_pendingList, m_stop, queue, msg>>

\* Mutant: nobody is woken up.
StopSilent ==
  /\ m_stop = "no"
  /\ m_stop' = "yes"
  /\ UNCHANGED <<m_scheduledList, m_pendingList, m_messageList, threadVars, came>>

\* stop(), by the thread that schedules, when its reactor has ended.
Stop ==
  /\ m_stop = "no"
  /\ m_stop' = "yes"
  /\ Broadcast
  /\ UNCHANGED <<m_scheduledList, m_pendingList, m_messageList, queue, msg, came>>

\* dispatch(): nothing is scheduled and the pool is not stopped.
Wait(t) ==
  /\ pc[t] = "ready" /\ m_scheduledList = <<>> /\ m_stop = "no"
  /\ pc' = [pc EXCEPT ![t] = "wait"]
  /\ UNCHANGED <<m_scheduledList, m_pendingList, m_messageList, m_stop, queue, msg, came>>

\* dispatch(): the first scheduled queue becomes pending and gives a message.
Take(t) ==
  /\ pc[t] = "ready" /\ m_scheduledList # <<>>
  /\ LET q == Head(m_scheduledList) IN
       /\ m_scheduledList' = Tail(m_scheduledList)
       /\ m_pendingList' = m_pendingList \cup {q}
       /\ queue' = [queue EXCEPT ![t] = q]
       /\ msg' = [msg EXCEPT ![t] = Head(m_messageList[q])]
       /\ m_messageList' = [m_messageList EXCEPT ![q] = Tail(@)]
  /\ pc' = [pc EXCEPT ![t] = "dispatch"]
  /\ UNCHANGED <<m_stop, came>>

\* Mutant: a queue that still holds messages is deleted.
DoneDeletes(t) ==
  /\ pc[t] = "dispatch"
  /\ m_pendingList' = m_pendingList \ {queue[t]}
  /\ pc' = [pc EXCEPT ![t] = "ready"]
  /\ queue' = [queue EXCEPT ![t] = None]
  /\ msg' = [msg EXCEPT ![t] = None]
  /\ UNCHANGED <<m_scheduledList, m_messageList, m_stop, came>>

\* dispatch(): after msg->dispatch() the queue is deleted or scheduled again.
Done(t) ==
  /\ pc[t] = "dispatch"
  /\ m_pendingList' = m_pendingList \ {queue[t]}
  /\ m_scheduledList' = IF m_messageList[queue[t]] = <<>> THEN m_scheduledList
                        ELSE Append(m_scheduledList, queue[t])
  /\ pc' = [pc EXCEPT ![t] = "ready"]
  /\ queue' = [queue EXCEPT ![t] = None]
  /\ msg' = [msg EXCEPT ![t] = None]
  /\ UNCHANGED <<m_messageList, m_stop, came>>

\* dispatch() reports that the pool is stopped, and threadMain returns.
Return(t) ==
  /\ pc[t] = "ready" /\ m_scheduledList = <<>> /\ m_stop = "yes"
  /\ pc' = [pc EXCEPT ![t] = "returned"]
  /\ UNCHANGED <<m_scheduledList, m_pendingList, m_messageList, m_stop, queue, msg, came>>

\* A condition variable may wake up without a signal.
SpuriousWakeup(t) ==
  /\ pc[t] = "wait"
  /\ pc' = [pc EXCEPT ![t] = "ready"]
  /\ UNCHANGED <<m_scheduledList, m_pendingList, m_messageList, m_stop, queue, msg, came>>

Dispatch(t) == Wait(t) \/ Take(t) \/ Done(t) \/ Return(t)

Next == \/ Stop
        \/ \E q \in Queues, m \in Msgs : Schedule(q, m)
        \/ \E t \in Threads : Dispatch(t) \/ SpuriousWakeup(t)

Spec == Init /\ [][Next]_vars

\* A thread of the pool that can run does, and the handling of a message ends.
FairSpec == Spec /\ \A t \in Threads : WF_vars(Dispatch(t))
-----------------------------------------------------------------------------
(* Properties. *)

\* A queue is in at most one list and there only once, and the pending queues
\* are those of the threads handling a message, each with a queue of its own.
Exclusive ==
  /\ Distinct(m_scheduledList)
  /\ Elements(m_scheduledList) \cap m_pendingList = {}
  /\ \A t \in Threads : pc[t] = "dispatch" => queue[t] \in m_pendingList
  /\ \A t, u \in Threads : pc[t] = "dispatch" /\ pc[u] = "dispatch" /\ t # u
                             => queue[t] # queue[u]

\* A queue that holds messages is in a list, and a scheduled queue holds some:
\* no message is stranded, and pop() never meets an empty queue.
NotStranded ==
  \A q \in Queues :
    /\ m_messageList[q] # <<>> => q \in Elements(m_scheduledList) \cup m_pendingList
    /\ q \in Elements(m_scheduledList) => m_messageList[q] # <<>>

\* No thread sleeps while more queues are scheduled than threads are on their
\* way to take one.  dispatch() schedules a queue again without a signal.
WorkConserving ==
  Waiting # {} => Len(m_scheduledList) <= Cardinality({t \in Threads : pc[t] = "ready"})

\* stop() lets the pool handle all that was scheduled, and then all threads return.
StopDrains ==
  (m_stop = "yes") ~>
     [](\A t \in Threads : pc[t] = "returned" /\ \A q \in Queues : m_messageList[q] = <<>>)

\* The inductive invariant: a thread has a queue exactly while it handles a
\* message of it, and the pending queues are these.
HandlingOnly ==
  /\ \A t \in Threads : pc[t] = "dispatch" => queue[t] \in Queues /\ msg[t] \in Msgs
  /\ \A q \in m_pendingList : \E t \in Threads : pc[t] = "dispatch" /\ queue[t] = q
IInv == TypeOK /\ HandlingOnly /\ Exclusive /\ NotStranded

\* The message of queue q being handled.
Running(q) == IF \E t \in Threads : pc[t] = "dispatch" /\ queue[t] = q
              THEN msg[CHOOSE t \in Threads : pc[t] = "dispatch" /\ queue[t] = q]
              ELSE None

Serial == INSTANCE SerialQueues WITH backlog <- m_messageList,
                                     running <- [q \in Queues |-> Running(q)]

\* The pool handles the messages of a queue one at a time and in order.
SerialSpec == Serial!Spec

\* Every message scheduled is handled, whatever the other queues hold.
SerialFair == Serial!FairSpec
=============================================================================
