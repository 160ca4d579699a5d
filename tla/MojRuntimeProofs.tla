--------------------------- MODULE MojRuntimeProofs ---------------------------
(***************************************************************************)
(* Proofs about what the threads below the database share, for any number  *)
(* of them: the queues of the dispatcher, which implement SerialQueues     *)
(* (MojMessageDispatcher), the notification of a watched query against the *)
(* cancel of its client (MojDbServiceWatch), the events of the sockets     *)
(* (MojReactor) and the slots of a signal (MojSignal).  Each part states   *)
(* its inductive invariant, keeps it with every action and ends in the     *)
(* theorem.                                                                *)
(***************************************************************************)
EXTENDS MojMessageDispatcher, MojDbServiceWatch, MojReactor, MojSignal, FiniteSetTheorems, TLAPS

(* What the lists of queues do under Append and Tail. *)

\* pushBack() adds one element.
LEMMA AppendElements ==
  ASSUME NEW S, NEW s \in Seq(S), NEW e \in S
  PROVE  /\ Append(s, e) \in Seq(S)
         /\ Elements(Append(s, e)) = Elements(s) \cup {e}
         /\ Append(s, e) # <<>>
<1>1. /\ Append(s, e) \in Seq(S) /\ Append(s, e) # <<>>
      /\ Len(s) \in Nat /\ DOMAIN s = 1..Len(s) /\ DOMAIN Append(s, e) = 1..(Len(s) + 1)
  OBVIOUS
<1>2. (\A i \in 1..Len(s) : Append(s, e)[i] = s[i]) /\ Append(s, e)[Len(s) + 1] = e
  OBVIOUS
<1>3. 1..(Len(s) + 1) = 1..Len(s) \cup {Len(s) + 1}
  BY <1>1
<1>4. Elements(s) = {s[i] : i \in 1..Len(s)}
  BY <1>1 DEF Elements
<1>5. Elements(Append(s, e)) = {Append(s, e)[i] : i \in 1..Len(s) \cup {Len(s) + 1}}
  BY <1>1, <1>3 DEF Elements
<1> QED
  BY <1>1, <1>2, <1>4, <1>5

\* popFront() removes the first element.
LEMMA TailElements ==
  ASSUME NEW S, NEW s \in Seq(S), s # <<>>
  PROVE  /\ Head(s) \in S /\ Tail(s) \in Seq(S)
         /\ Elements(s) = {Head(s)} \cup Elements(Tail(s))
<1>1. Head(s) \in S /\ Tail(s) \in Seq(S) /\ Len(s) \in Nat /\ Len(s) > 0
  OBVIOUS
<1>2. DOMAIN s = 1..Len(s) /\ DOMAIN Tail(s) = 1..(Len(s) - 1)
  OBVIOUS
<1>3. \A i \in 1..(Len(s) - 1) : Tail(s)[i] = s[i + 1]
  OBVIOUS
<1>4. Head(s) = s[1]
  OBVIOUS
<1>5. Elements(s) \subseteq {Head(s)} \cup Elements(Tail(s))
  <2>1. \A i \in 1..Len(s) : i = 1 \/ \E j \in 1..(Len(s) - 1) : s[i] = Tail(s)[j]
    <3> SUFFICES ASSUME NEW i \in 1..Len(s), i # 1
                 PROVE  \E j \in 1..(Len(s) - 1) : s[i] = Tail(s)[j]
      OBVIOUS
    <3>1. i - 1 \in 1..(Len(s) - 1) /\ (i - 1) + 1 = i
      BY <1>1
    <3> QED
      BY <1>3, <3>1
  <2>2. Elements(s) = {s[i] : i \in 1..Len(s)}
    BY <1>2 DEF Elements
  <2>3. Elements(Tail(s)) = {Tail(s)[i] : i \in 1..(Len(s) - 1)}
    BY <1>2 DEF Elements
  <2> QED
    BY <2>1, <2>2, <2>3, <1>4
<1>6. {Head(s)} \cup Elements(Tail(s)) \subseteq Elements(s)
  BY <1>1, <1>2, <1>3, <1>4 DEF Elements
<1> QED
  BY <1>1, <1>5, <1>6

\* A queue that is in no list can be appended to one.
LEMMA AppendDistinct ==
  ASSUME NEW S, NEW s \in Seq(S), NEW e \in S, Distinct(s), e \notin Elements(s)
  PROVE  Distinct(Append(s, e))
  BY DEF Distinct, Elements

\* The queue taken from the front is no longer in the list.
LEMMA TailDistinct ==
  ASSUME NEW S, NEW s \in Seq(S), s # <<>>, Distinct(s)
  PROVE  Distinct(Tail(s)) /\ Head(s) \notin Elements(Tail(s))
<1>1. Len(s) \in Nat /\ Len(s) > 0 /\ DOMAIN s = 1..Len(s) /\ DOMAIN Tail(s) = 1..(Len(s) - 1)
  OBVIOUS
<1>2. Head(s) = s[1] /\ \A i \in 1..(Len(s) - 1) : Tail(s)[i] = s[i + 1]
  OBVIOUS
<1>3. \A i \in 1..(Len(s) - 1) : i + 1 \in 1..Len(s) /\ i + 1 # 1
  BY <1>1
<1>4. Distinct(Tail(s))
  BY <1>1, <1>2, <1>3 DEF Distinct
<1>5. Head(s) \notin Elements(Tail(s))
  BY <1>1, <1>2, <1>3 DEF Distinct, Elements
<1> QED
  BY <1>4, <1>5
-----------------------------------------------------------------------------
\* The invariant holds before the pool starts.
LEMMA InitInv == Init => IInv
<1> SUFFICES ASSUME Init PROVE IInv
  OBVIOUS
<1>1. Elements(m_scheduledList) = {} /\ Distinct(m_scheduledList)
  BY DEF Init, Elements, Distinct
<1> QED
  BY <1>1 DEF Init, IInv, TypeOK, HandlingOnly, Exclusive, NotStranded

\* Waking up a thread changes no thread that handles a message.
LEMMA SignalKeeps ==
  ASSUME TypeOK, Signal
  PROVE  /\ pc' \in [Threads -> {"ready", "wait", "dispatch", "returned"}]
         /\ \A t \in Threads : pc'[t] = "dispatch" <=> pc[t] = "dispatch"
  BY DEF TypeOK, Signal, Waiting

\* A step that moves no queue and no message keeps the invariant.
LEMMA WakeupInv ==
  ASSUME IInv, UNCHANGED <<m_scheduledList, m_pendingList, m_messageList, queue, msg, came>>,
         m_stop' \in {"no", "yes"},
         pc' \in [Threads -> {"ready", "wait", "dispatch", "returned"}],
         \A t \in Threads : pc'[t] = "dispatch" <=> pc[t] = "dispatch"
  PROVE  IInv'
<1>1. TypeOK'
  BY DEF IInv, TypeOK
<1>2. HandlingOnly'
  BY DEF IInv, HandlingOnly
<1>3. Exclusive'
  BY DEF IInv, Exclusive, Distinct, Elements
<1>4. NotStranded'
  BY DEF IInv, NotStranded, Elements
<1> QED
  BY <1>1, <1>2, <1>3, <1>4 DEF IInv

\* schedule() keeps the invariant.
LEMMA ScheduleInv ==
  ASSUME IInv, NEW q \in Queues, NEW m \in Msgs, Schedule(q, m)
  PROVE  IInv'
<1> USE DEF IInv
<1>1. m_messageList' \in [Queues -> Seq(Msgs)] /\ m_messageList'[q] # <<>>
      /\ \A r \in Queues : r # q => m_messageList'[r] = m_messageList[r]
  <2>1. m_messageList[q] \in Seq(Msgs)
    BY DEF TypeOK
  <2>2. Append(m_messageList[q], m) \in Seq(Msgs) /\ Append(m_messageList[q], m) # <<>>
    BY <2>1, AppendElements
  <2> QED
    BY <2>2 DEF Schedule, TypeOK
<1>2. CASE q \in Elements(m_scheduledList) \cup m_pendingList
  <2>1. UNCHANGED <<m_scheduledList, m_pendingList, m_stop, pc, queue, msg>>
    BY <1>2 DEF Schedule
  <2>2. TypeOK'
    BY <1>1, <2>1 DEF TypeOK, Schedule
  <2>3. HandlingOnly'
    BY <2>1 DEF HandlingOnly
  <2>4. Exclusive'
    BY <2>1 DEF Exclusive, Distinct, Elements
  <2>5. NotStranded'
    BY <1>1, <1>2, <2>1 DEF NotStranded, Elements
  <2> QED
    BY <2>2, <2>3, <2>4, <2>5
<1>3. CASE q \notin Elements(m_scheduledList) \cup m_pendingList
  <2>1. /\ m_scheduledList' = Append(m_scheduledList, q) /\ Signal
        /\ UNCHANGED <<m_pendingList, m_stop, queue, msg>>
    BY <1>3 DEF Schedule
  <2>2. /\ m_scheduledList' \in Seq(Queues)
        /\ Elements(m_scheduledList)' = Elements(m_scheduledList) \cup {q}
        /\ Distinct(m_scheduledList)'
    <3>1. m_scheduledList \in Seq(Queues) /\ Distinct(m_scheduledList)
      BY DEF TypeOK, Exclusive
    <3> QED
      BY <3>1, <1>3, <2>1, AppendElements, AppendDistinct
  <2>3. /\ pc' \in [Threads -> {"ready", "wait", "dispatch", "returned"}]
        /\ \A t \in Threads : pc'[t] = "dispatch" <=> pc[t] = "dispatch"
    BY <2>1, SignalKeeps
  <2>4. TypeOK'
    BY <1>1, <2>1, <2>2, <2>3 DEF TypeOK, Schedule
  <2>5. HandlingOnly'
    BY <2>1, <2>3 DEF HandlingOnly
  <2>6. Exclusive'
    BY <1>3, <2>1, <2>2, <2>3 DEF Exclusive
  <2>7. NotStranded'
    BY <1>1, <2>1, <2>2 DEF NotStranded
  <2> QED
    BY <2>4, <2>5, <2>6, <2>7
<1> QED
  BY <1>2, <1>3

\* Taking the first queue keeps the invariant.
LEMMA TakeInv ==
  ASSUME IInv, NEW t \in Threads, Take(t)
  PROVE  IInv'
<1> USE DEF IInv
<1> DEFINE q == Head(m_scheduledList)
<1>1. /\ q \in Queues /\ m_scheduledList' \in Seq(Queues)
      /\ Elements(m_scheduledList) = {q} \cup Elements(m_scheduledList)'
      /\ Distinct(m_scheduledList)' /\ q \notin Elements(m_scheduledList)'
  <2>1. m_scheduledList \in Seq(Queues) /\ m_scheduledList # <<>> /\ Distinct(m_scheduledList)
        /\ m_scheduledList' = Tail(m_scheduledList)
    BY DEF TypeOK, Exclusive, Take
  <2> QED
    BY <2>1, TailElements, TailDistinct
<1>2. q \notin m_pendingList /\ m_messageList[q] # <<>>
  BY <1>1 DEF Exclusive, NotStranded
<1>3. /\ Head(m_messageList[q]) \in Msgs
      /\ m_messageList' \in [Queues -> Seq(Msgs)]
      /\ \A r \in Queues : r # q => m_messageList'[r] = m_messageList[r]
  <2>1. m_messageList[q] \in Seq(Msgs)
    BY <1>1 DEF TypeOK
  <2>2. Head(m_messageList[q]) \in Msgs /\ Tail(m_messageList[q]) \in Seq(Msgs)
    BY <1>2, <2>1, TailElements
  <2> QED
    BY <2>2 DEF Take, TypeOK
<1>4. /\ m_pendingList' = m_pendingList \cup {q}
      /\ pc' = [pc EXCEPT ![t] = "dispatch"]
      /\ queue' = [queue EXCEPT ![t] = q]
      /\ msg' = [msg EXCEPT ![t] = Head(m_messageList[q])]
      /\ UNCHANGED <<m_stop, came>> /\ pc[t] = "ready"
  BY DEF Take
<1>5. TypeOK'
  BY <1>1, <1>3, <1>4 DEF TypeOK
<1>6. /\ pc'[t] = "dispatch" /\ queue'[t] = q /\ msg'[t] \in Msgs
      /\ \A u \in Threads : u # t => pc'[u] = pc[u] /\ queue'[u] = queue[u] /\ msg'[u] = msg[u]
  BY <1>3, <1>4 DEF TypeOK
<1>7. HandlingOnly'
  BY <1>1, <1>4, <1>6 DEF HandlingOnly
<1>8. Exclusive'
  BY <1>1, <1>2, <1>4, <1>6 DEF Exclusive
<1>9. NotStranded'
  BY <1>1, <1>3, <1>4 DEF NotStranded
<1> QED
  BY <1>5, <1>7, <1>8, <1>9

\* Putting the queue back, or deleting it, keeps the invariant.
LEMMA DoneInv ==
  ASSUME IInv, NEW t \in Threads, Done(t)
  PROVE  IInv'
<1> USE DEF IInv
<1> DEFINE q == queue[t]
<1>1. q \in Queues /\ q \in m_pendingList /\ q \notin Elements(m_scheduledList)
  BY DEF Done, HandlingOnly, Exclusive
<1>2. /\ m_pendingList' = m_pendingList \ {q}
      /\ pc' = [pc EXCEPT ![t] = "ready"]
      /\ queue' = [queue EXCEPT ![t] = None]
      /\ msg' = [msg EXCEPT ![t] = None]
      /\ UNCHANGED <<m_messageList, m_stop, came>> /\ pc[t] = "dispatch"
  BY DEF Done
<1>3. /\ m_scheduledList' \in Seq(Queues) /\ Distinct(m_scheduledList)'
      /\ Elements(m_scheduledList)' = IF m_messageList[q] = <<>> THEN Elements(m_scheduledList)
                                      ELSE Elements(m_scheduledList) \cup {q}
  <2>1. m_scheduledList \in Seq(Queues) /\ Distinct(m_scheduledList)
    BY DEF TypeOK, Exclusive
  <2>2. CASE m_messageList[q] = <<>>
    BY <2>1, <2>2 DEF Done, Elements, Distinct
  <2>3. CASE m_messageList[q] # <<>>
    <3>1. m_scheduledList' = Append(m_scheduledList, q)
      BY <2>3 DEF Done
    <3> QED
      BY <1>1, <2>1, <2>3, <3>1, AppendElements, AppendDistinct
  <2> QED
    BY <2>2, <2>3
<1>4. TypeOK'
  BY <1>2, <1>3 DEF TypeOK
<1>5. /\ pc'[t] = "ready"
      /\ \A u \in Threads : u # t => pc'[u] = pc[u] /\ queue'[u] = queue[u] /\ msg'[u] = msg[u]
  BY <1>2 DEF TypeOK
<1>6. HandlingOnly'
  BY <1>2, <1>5 DEF HandlingOnly
<1>7. Exclusive'
  BY <1>1, <1>2, <1>3, <1>5 DEF Exclusive
<1>8. NotStranded'
  BY <1>1, <1>2, <1>3 DEF NotStranded
<1> QED
  BY <1>4, <1>6, <1>7, <1>8

\* Every step of the dispatcher keeps the invariant.
LEMMA NextInv == IInv /\ [Next]_vars => IInv'
<1> SUFFICES ASSUME IInv, [Next]_vars PROVE IInv'
  OBVIOUS
<1>1. CASE Stop
  BY <1>1, WakeupInv DEF Stop, Broadcast, IInv, TypeOK
<1>2. CASE \E q \in Queues, m \in Msgs : Schedule(q, m)
  BY <1>2, ScheduleInv
<1>3. ASSUME NEW t \in Threads, Take(t) PROVE IInv'
  BY <1>3, TakeInv
<1>4. ASSUME NEW t \in Threads, Done(t) PROVE IInv'
  BY <1>4, DoneInv
<1>5. ASSUME NEW t \in Threads, Wait(t) \/ Return(t) \/ SpuriousWakeup(t) PROVE IInv'
  BY <1>5, WakeupInv DEF Wait, Return, SpuriousWakeup, IInv, TypeOK
<1>6. CASE UNCHANGED vars
  BY <1>6, WakeupInv DEF vars, threadVars, IInv, TypeOK
<1> QED
  BY <1>1, <1>2, <1>3, <1>4, <1>5, <1>6 DEF Next, Dispatch

\* The dispatcher's invariant holds of every behaviour.
THEOREM Invariance == Spec => []IInv
  BY InitInv, NextInv, PTL DEF Spec

\* Two threads never hold one queue, and a queue is in one list only.
THEOREM Exclusion == Spec => []Exclusive
  BY Invariance, PTL DEF IInv

\* No scheduled message is outside the queues a thread will come to.
THEOREM NoneStranded == Spec => []NotStranded
  BY Invariance, PTL DEF IInv
-----------------------------------------------------------------------------
(* Threads do not sleep over scheduled queues.  A queue comes with a signal  *)
(* or with the thread that handled a message of it.                          *)

ReadyThreads == {t \in Threads : pc[t] = "ready"}

\* The threads on their way are finitely many.
LEMMA ReadyFinite ==
  IsFiniteSet(ReadyThreads) /\ Cardinality(ReadyThreads) \in Nat
<1>1. ReadyThreads \subseteq Threads
  BY DEF ReadyThreads
<1> QED
  BY <1>1, PoolAssumption, FS_Subset, FS_CardinalityType

\* A thread that wakes up is one more on its way.
LEMMA OneMoreReady ==
  ASSUME TypeOK, NEW t \in Threads, pc[t] # "ready", pc' = [pc EXCEPT ![t] = "ready"]
  PROVE  Cardinality(ReadyThreads') = Cardinality(ReadyThreads) + 1
<1>1. ReadyThreads' = ReadyThreads \cup {t} /\ t \notin ReadyThreads
  BY DEF TypeOK, ReadyThreads
<1> QED
  BY <1>1, ReadyFinite, FS_AddElement

\* The thread that took a queue is one less on its way.
LEMMA OneLessReady ==
  ASSUME TypeOK, NEW t \in Threads, pc[t] = "ready", pc' = [pc EXCEPT ![t] = "dispatch"]
  PROVE  Cardinality(ReadyThreads') = Cardinality(ReadyThreads) - 1
<1>1. ReadyThreads' = ReadyThreads \ {t} /\ t \in ReadyThreads
  BY DEF TypeOK, ReadyThreads
<1> QED
  BY <1>1, ReadyFinite, FS_RemoveElement

\* Every step keeps the threads that sleep justified.
LEMMA NextWorkConserving ==
  ASSUME TypeOK, WorkConserving, [Next]_vars
  PROVE  WorkConserving'
<1> DEFINE able == Cardinality(ReadyThreads)
<1>1. /\ m_scheduledList \in Seq(Queues) /\ Len(m_scheduledList) \in Nat
      /\ able \in Nat /\ Waiting = {t \in Threads : pc[t] = "wait"}
      /\ Waiting # {} => Len(m_scheduledList) <= able
  BY ReadyFinite DEF TypeOK, WorkConserving, ReadyThreads, Waiting
<1>2. SUFFICES Waiting' # {} => Len(m_scheduledList') <= able'
  BY DEF WorkConserving, ReadyThreads
<1> HIDE DEF able
<1>3. CASE UNCHANGED <<m_scheduledList, pc>>
  BY <1>1, <1>3 DEF able, Waiting, ReadyThreads
<1>4. CASE Stop
  BY <1>4 DEF Stop, Broadcast, Waiting, TypeOK
<1>5. ASSUME NEW q \in Queues, NEW m \in Msgs, Schedule(q, m), q \notin Elements(m_scheduledList) \cup m_pendingList
      PROVE  Waiting' # {} => Len(m_scheduledList') <= able'
  <2>1. Len(m_scheduledList') = Len(m_scheduledList) + 1 /\ Signal
    BY <1>1, <1>5 DEF Schedule
  <2>2. CASE Waiting = {}
    BY <2>1, <2>2 DEF Signal, Waiting
  <2>3. CASE Waiting # {}
    <3>1. PICK t \in Waiting : pc' = [pc EXCEPT ![t] = "ready"]
      BY <2>1, <2>3 DEF Signal
    <3>2. able' = able + 1
      BY <3>1, OneMoreReady DEF Waiting, able
    <3> QED
      BY <1>1, <2>1, <2>3, <3>2
  <2> QED
    BY <2>2, <2>3
<1>6. ASSUME NEW t \in Threads, Wait(t) \/ Return(t)
      PROVE  Waiting' # {} => Len(m_scheduledList') <= able'
  <2>1. Len(m_scheduledList') = 0
    BY <1>6 DEF Wait, Return
  <2>2. able' \in Nat
    <3>1. ReadyThreads' \subseteq Threads
      BY DEF ReadyThreads
    <3> QED
      BY <3>1, PoolAssumption, FS_Subset, FS_CardinalityType DEF able
  <2> QED
    BY <2>1, <2>2
<1>7. ASSUME NEW t \in Threads, Take(t)
      PROVE  Waiting' # {} => Len(m_scheduledList') <= able'
  <2>1. /\ pc[t] = "ready" /\ pc' = [pc EXCEPT ![t] = "dispatch"]
        /\ m_scheduledList # <<>> /\ m_scheduledList' = Tail(m_scheduledList)
    BY <1>7 DEF Take
  <2>2. Len(m_scheduledList') = Len(m_scheduledList) - 1
    BY <1>1, <2>1
  <2>3. able' = able - 1
    BY <2>1, OneLessReady DEF able
  <2>4. Waiting' = Waiting
    BY <2>1 DEF Waiting, TypeOK
  <2> QED
    BY <1>1, <2>2, <2>3, <2>4
<1>8. ASSUME NEW t \in Threads, Done(t)
      PROVE  Waiting' # {} => Len(m_scheduledList') <= able'
  <2>1. pc[t] = "dispatch" /\ pc' = [pc EXCEPT ![t] = "ready"]
    BY <1>8 DEF Done
  <2>2. /\ Len(m_scheduledList') \in Nat
        /\ Len(m_scheduledList') <= Len(m_scheduledList) + 1
    BY <1>1, <1>8 DEF Done
  <2>3. able' = able + 1
    BY <2>1, OneMoreReady DEF able
  <2>4. Waiting' = Waiting
    BY <2>1 DEF Waiting, TypeOK
  <2> QED
    BY <1>1, <2>2, <2>3, <2>4
<1>9. ASSUME NEW t \in Threads, SpuriousWakeup(t)
      PROVE  Waiting' # {} => Len(m_scheduledList') <= able'
  <2>1. /\ pc[t] = "wait" /\ pc' = [pc EXCEPT ![t] = "ready"]
        /\ m_scheduledList' = m_scheduledList
    BY <1>9 DEF SpuriousWakeup
  <2>2. able' = able + 1
    BY <2>1, OneMoreReady DEF able
  <2>3. t \in Waiting
    BY <2>1 DEF Waiting
  <2> QED
    BY <1>1, <2>1, <2>2, <2>3
<1>10. ASSUME NEW q \in Queues, NEW m \in Msgs, Schedule(q, m), q \in Elements(m_scheduledList) \cup m_pendingList
       PROVE  UNCHANGED <<m_scheduledList, pc>>
  BY <1>10 DEF Schedule
<1>11. CASE UNCHANGED vars
  BY <1>3, <1>11 DEF vars, threadVars
<1> QED
  BY <1>3, <1>4, <1>5, <1>6, <1>7, <1>8, <1>9, <1>10, <1>11 DEF Next, Dispatch

\* No thread of the pool sleeps while more queues are scheduled than threads are on their
\* way: schedule() needs to signal one thread only, and dispatch() none (MojMessageDispatcher).
THEOREM WorkConserved == Spec => []WorkConserving
<1>1. Init => WorkConserving
  BY DEF Init, WorkConserving, Waiting
<1>2. IInv /\ WorkConserving /\ [Next]_vars => WorkConserving'
  BY NextWorkConserving DEF IInv
<1> QED
  BY <1>1, <1>2, Invariance, PTL DEF Spec
-----------------------------------------------------------------------------
(* The dispatcher implements SerialQueues. *)

\* The message of a queue being handled is that of the thread that took it.
LEMMA RunningOf ==
  ASSUME Exclusive, NEW t \in Threads, pc[t] = "dispatch"
  PROVE  Running(queue[t]) = msg[t]
<1>1. \A u \in Threads : pc[u] = "dispatch" /\ queue[u] = queue[t] <=> u = t
  BY DEF Exclusive
<1>2. (CHOOSE u \in Threads : pc[u] = "dispatch" /\ queue[u] = queue[t]) = t
  BY <1>1
<1> QED
  BY <1>2 DEF Running

\* A queue no thread has taken is idle.
LEMMA IdleQueue ==
  ASSUME NEW q, \A t \in Threads : ~(pc[t] = "dispatch" /\ queue[t] = q)
  PROVE  Running(q) = None
  BY DEF Running

\* A step that leaves the threads handling messages alone leaves Running alone.
LEMMA RunningKept ==
  ASSUME IInv, UNCHANGED <<queue, msg>>,
         \A t \in Threads : pc'[t] = "dispatch" <=> pc[t] = "dispatch",
         NEW q
  PROVE  Running(q)' = Running(q)
  BY DEF Running

\* A step of one thread leaves Running alone for the queues it does not hold.
LEMMA RunningUntouched ==
  ASSUME IInv, NEW t \in Threads, NEW r,
         \A u \in Threads : u # t => pc'[u] = pc[u] /\ queue'[u] = queue[u] /\ msg'[u] = msg[u],
         ~(pc[t] = "dispatch" /\ queue[t] = r), ~(pc'[t] = "dispatch" /\ queue'[t] = r)
  PROVE  Running(r)' = Running(r)
<1>1. \A u \in Threads : pc'[u] = "dispatch" /\ queue'[u] = r <=> pc[u] = "dispatch" /\ queue[u] = r
  OBVIOUS
<1>2. CASE \E u \in Threads : pc[u] = "dispatch" /\ queue[u] = r
  <2>1. PICK u \in Threads : pc[u] = "dispatch" /\ queue[u] = r
    BY <1>2
  <2>2. \A v \in Threads : pc[v] = "dispatch" /\ queue[v] = r <=> v = u
    BY <2>1 DEF IInv, Exclusive
  <2>3. \A v \in Threads : pc'[v] = "dispatch" /\ queue'[v] = r <=> v = u
    BY <1>1, <2>2
  <2>4. (CHOOSE v \in Threads : pc[v] = "dispatch" /\ queue[v] = r) = u
    BY <2>2
  <2>5. (CHOOSE v \in Threads : pc'[v] = "dispatch" /\ queue'[v] = r) = u
    BY <2>3
  <2>6. u # t
    BY <2>1
  <2> QED
    BY <2>1, <2>2, <2>3, <2>4, <2>5, <2>6 DEF Running
<1>3. CASE ~\E u \in Threads : pc[u] = "dispatch" /\ queue[u] = r
  BY <1>1, <1>3 DEF Running
<1> QED
  BY <1>2, <1>3

\* Initially nothing waits and nothing runs.
LEMMA SerialInit == Init => Serial!Init
  BY IdleQueue DEF Init, Serial!Init

\* Taking a queue starts its first message.
LEMMA TakeStarts ==
  ASSUME IInv, NEW t \in Threads, Take(t), NEW q \in Queues, q = Head(m_scheduledList)
  PROVE  Serial!Start(q)
<1>1. /\ pc[t] = "ready" /\ pc' = [pc EXCEPT ![t] = "dispatch"]
      /\ queue' = [queue EXCEPT ![t] = q]
      /\ msg' = [msg EXCEPT ![t] = Head(m_messageList[q])]
      /\ m_messageList' = [m_messageList EXCEPT ![q] = Tail(@)]
      /\ UNCHANGED came
  BY DEF Take
<1>2. q \in Elements(m_scheduledList)
  <2>1. m_scheduledList \in Seq(Queues) /\ m_scheduledList # <<>>
    BY DEF Take, IInv, TypeOK
  <2> QED
    BY <2>1, TailElements
<1>3. q \notin m_pendingList /\ m_messageList[q] # <<>>
  BY <1>2 DEF IInv, Exclusive, NotStranded
<1>4. Running(q) = None
  <2>1. \A u \in Threads : ~(pc[u] = "dispatch" /\ queue[u] = q)
    BY <1>3 DEF IInv, Exclusive
  <2> QED
    BY <2>1, IdleQueue
<1>5. /\ pc'[t] = "dispatch" /\ queue'[t] = q /\ msg'[t] = Head(m_messageList[q])
      /\ \A u \in Threads : u # t => pc'[u] = pc[u] /\ queue'[u] = queue[u] /\ msg'[u] = msg[u]
  BY <1>1 DEF IInv, TypeOK
<1>6. Running(q)' = Head(m_messageList[q])
  <2>1. \A u \in Threads : pc'[u] = "dispatch" /\ queue'[u] = q <=> u = t
    BY <1>3, <1>5 DEF IInv, Exclusive
  <2>2. (CHOOSE u \in Threads : pc'[u] = "dispatch" /\ queue'[u] = q) = t
    BY <2>1
  <2> QED
    BY <1>5, <2>2 DEF Running
<1>7. \A r \in Queues : r # q => Running(r)' = Running(r)
  BY <1>1, <1>5, RunningUntouched
<1>8. [r \in Queues |-> Running(r)]' = [[r \in Queues |-> Running(r)] EXCEPT ![q] = Head(m_messageList[q])]
  BY <1>6, <1>7
<1> QED
  BY <1>1, <1>2, <1>3, <1>4, <1>8 DEF Serial!Start

\* Putting a queue back finishes its message.
LEMMA DoneFinishes ==
  ASSUME IInv, NEW t \in Threads, Done(t), NEW q \in Queues, q = queue[t]
  PROVE  Serial!Finish(q)
<1>1. /\ pc[t] = "dispatch" /\ pc' = [pc EXCEPT ![t] = "ready"]
      /\ queue' = [queue EXCEPT ![t] = None]
      /\ msg' = [msg EXCEPT ![t] = None]
      /\ UNCHANGED <<m_messageList, came>>
  BY DEF Done
<1>2. msg[t] \in Msgs
  BY <1>1 DEF IInv, HandlingOnly
<1>3. Running(q) = msg[t]
  BY <1>1, RunningOf DEF IInv
<1>4. /\ pc'[t] = "ready"
      /\ \A u \in Threads : u # t => pc'[u] = pc[u] /\ queue'[u] = queue[u] /\ msg'[u] = msg[u]
  BY <1>1 DEF IInv, TypeOK
<1>5. Running(q)' = None
  <2>1. \A u \in Threads : ~(pc'[u] = "dispatch" /\ queue'[u] = q)
    BY <1>1, <1>4 DEF IInv, Exclusive
  <2> QED
    BY <2>1 DEF Running
<1>6. \A r \in Queues : r # q => Running(r)' = Running(r)
  BY <1>1, <1>4, RunningUntouched
<1>7. [r \in Queues |-> Running(r)]' = [[r \in Queues |-> Running(r)] EXCEPT ![q] = None]
  BY <1>5, <1>6
<1>8. msg[t] # None
  BY <1>2, NoneAssumption
<1> QED
  BY <1>1, <1>2, <1>3, <1>7, <1>8 DEF Serial!Finish

\* Every step of the dispatcher is a step of SerialQueues, or none.
LEMMA SerialNext == IInv /\ [Next]_vars => [Serial!Next]_(Serial!avars)
<1> SUFFICES ASSUME IInv, [Next]_vars PROVE [Serial!Next]_(Serial!avars)
  OBVIOUS
<1>1. ASSUME UNCHANGED <<m_messageList, queue, msg, came>>,
             \A t \in Threads : pc'[t] = "dispatch" <=> pc[t] = "dispatch"
      PROVE  UNCHANGED Serial!avars
  BY <1>1, RunningKept DEF Serial!avars
<1>2. CASE Stop
  BY <1>1, <1>2 DEF Stop, Broadcast, IInv, TypeOK
<1>3. ASSUME NEW q \in Queues, NEW m \in Msgs, Schedule(q, m) PROVE Serial!Send(q, m)
  <2>1. \A t \in Threads : pc'[t] = "dispatch" <=> pc[t] = "dispatch"
    BY <1>3, SignalKeeps DEF Schedule, IInv
  <2>2. UNCHANGED <<queue, msg>>
    BY <1>3 DEF Schedule
  <2>3. \A r \in Queues : Running(r)' = Running(r)
    BY <2>1, <2>2, RunningKept
  <2> QED
    BY <1>3, <2>3 DEF Schedule, Serial!Send
<1>4. ASSUME NEW t \in Threads, Take(t) PROVE \E q \in Queues : Serial!Start(q)
  <2>1. Head(m_scheduledList) \in Queues
    BY <1>4, TailElements DEF Take, IInv, TypeOK
  <2> QED
    BY <1>4, <2>1, TakeStarts
<1>5. ASSUME NEW t \in Threads, Done(t) PROVE \E q \in Queues : Serial!Finish(q)
  <2>1. queue[t] \in Queues
    BY <1>5 DEF Done, IInv, HandlingOnly
  <2> QED
    BY <1>5, <2>1, DoneFinishes
<1>6. ASSUME NEW t \in Threads, Wait(t) \/ Return(t) \/ SpuriousWakeup(t) PROVE UNCHANGED Serial!avars
  BY <1>1, <1>6 DEF Wait, Return, SpuriousWakeup, IInv, TypeOK
<1>7. CASE UNCHANGED vars
  BY <1>1, <1>7 DEF vars, threadVars
<1> QED
  BY <1>2, <1>3, <1>4, <1>5, <1>6, <1>7 DEF Next, Dispatch, Serial!Next

\* The dispatcher handles the messages of a queue one at a time, in order.
THEOREM Refinement == Spec => SerialSpec
  BY InitInv, NextInv, SerialInit, SerialNext, PTL DEF Spec, SerialSpec, Serial!Spec
-----------------------------------------------------------------------------
(* MojDbServiceWatch: how far a committing thread has come. *)

\* From the removal of its slot to the notification.
Handling(f) == fpc[f] \in {"handle", "cancelSlot", "handleCancel", "disconnect", "copy", "reset", "reply"}

\* Where the cancel slot may still be connected though the watcher is not active.
BeforeCopy(f) == fpc[f] \in {"handle", "cancelSlot", "handleCancel", "disconnect"}

\* Past the removal of the cancel slot.
CancelHandled == cpc \in {"handle", "watchSlot", "dbCancel", "disconnect", "reset"}

\* The mutex of the watcher is held from the lock to the unlock, by one thread.
Locked == \A f \in Firers : fpc[f] \notin {"start", "done"} => m_mutex = f

\* The watcher is active until a thread fires it or the cancel takes it out.
ActiveUntilFired ==
  /\ \A f \in Firers : fpc[f] \notin {"start", "fire"} => ~active
  /\ cpc \in {"disconnect", "reset"} => ~active
  /\ active => watchSlot

\* The slots are connected until the one who ends the watcher comes to them.
SlotsUntilEnded ==
  /\ watchSlot => active \/ cpc = "disconnect" \/ \E f \in Firers : fpc[f] = "signal"
  /\ cpc = "reset" => ~watchSlot
  /\ CancelHandled => ~cancelSlot
  /\ cancelSlot => watchSlot \/ \E f \in Firers : BeforeCopy(f)
  /\ cancelSlot => active \/ \E f \in Firers : fpc[f] = "signal" \/ BeforeCopy(f)

\* One thread at most finds the watch slot connected.
NotifiedByOne ==
  /\ watchSlot => replies = 0
  /\ \A f \in Firers : Handling(f) => replies = 0 /\ ~watchSlot
  /\ replies \in {0, 1}

\* The handler refers to the message until one of the two resets it, and the
\* service has a subscription only for a message that is referred to.
MessageReferred ==
  /\ \A f \in Firers : local[f] => fpc[f] \in {"reset", "reply"}
  /\ \A f \in Firers : fpc[f] = "reset" => local[f] \/ ~m_msg
  /\ m_msg => cancelSlot \/ CancelHandled \/ \E f \in Firers : fpc[f] \in {"copy", "reset"}
  /\ subscription => m_msg \/ Cancelling \/ \E f \in Firers : local[f]

\* The flag of the message and the map of the service agree as long as it is referred to.
FlagAgrees ==
  /\ subscription => m_subscribed
  /\ (m_msg \/ Cancelling \/ \E f \in Firers : local[f]) => (m_subscribed => subscription)

\* As long as neither has ended the watcher, all is as the request left it.
NotYetEnded ==
  active /\ ~CancelHandled => cancelSlot /\ m_msg /\ subscription /\ cpc # "done"

ServiceWatchIInv ==
  /\ ServiceWatchTypeOK /\ Locked /\ ActiveUntilFired /\ SlotsUntilEnded
  /\ NotifiedByOne /\ MessageReferred /\ FlagAgrees /\ NotYetEnded
-----------------------------------------------------------------------------
USE DEF Handling, BeforeCopy, CancelHandled, Goto, Cancelling

(* A committing thread. *)

\* fire() that gets the mutex finds no other thread in it.
LEMMA LockInv ==
  ASSUME ServiceWatchIInv, NEW f \in Firers, Lock(f)
  PROVE  ServiceWatchIInv'
<1>1. ServiceWatchTypeOK' /\ Locked'
  BY NoThreadAssumption DEF ServiceWatchIInv, ServiceWatchTypeOK, Locked, ActiveUntilFired,
       Lock
<1>2. ActiveUntilFired' /\ SlotsUntilEnded'
  BY NoThreadAssumption DEF ServiceWatchIInv, ServiceWatchTypeOK, Locked, ActiveUntilFired,
       SlotsUntilEnded, NotYetEnded, MessageReferred, Lock
<1>3. NotifiedByOne'
  BY NoThreadAssumption DEF ServiceWatchIInv, ServiceWatchTypeOK, Locked, NotifiedByOne,
       SlotsUntilEnded, ActiveUntilFired, Lock
<1>4. MessageReferred'
  BY NoThreadAssumption DEF ServiceWatchIInv, ServiceWatchTypeOK, Locked, MessageReferred,
       SlotsUntilEnded, Lock
<1>5. FlagAgrees' /\ NotYetEnded'
  BY NoThreadAssumption DEF ServiceWatchIInv, ServiceWatchTypeOK, Locked, FlagAgrees,
       NotYetEnded, MessageReferred, ActiveUntilFired, SlotsUntilEnded, Lock
<1> QED
  BY <1>1, <1>2, <1>3, <1>4, <1>5 DEF ServiceWatchIInv

\* The one who takes the watcher out of the index is the only one to fire its signal.
LEMMA FireActiveInv ==
  ASSUME ServiceWatchIInv, NEW f \in Firers, FireActive(f)
  PROVE  ServiceWatchIInv'
<1>1. ServiceWatchTypeOK' /\ Locked'
  BY NoThreadAssumption DEF ServiceWatchIInv, ServiceWatchTypeOK, Locked, ActiveUntilFired,
       FireActive
<1>2. ActiveUntilFired' /\ SlotsUntilEnded'
  BY NoThreadAssumption DEF ServiceWatchIInv, ServiceWatchTypeOK, Locked, ActiveUntilFired,
       SlotsUntilEnded, NotYetEnded, MessageReferred, FireActive
<1>3. NotifiedByOne'
  BY NoThreadAssumption DEF ServiceWatchIInv, ServiceWatchTypeOK, Locked, NotifiedByOne,
       SlotsUntilEnded, ActiveUntilFired, FireActive
<1>4. MessageReferred'
  BY NoThreadAssumption DEF ServiceWatchIInv, ServiceWatchTypeOK, Locked, MessageReferred,
       SlotsUntilEnded, FireActive
<1>5. FlagAgrees' /\ NotYetEnded'
  BY NoThreadAssumption DEF ServiceWatchIInv, ServiceWatchTypeOK, Locked, FlagAgrees,
       NotYetEnded, MessageReferred, ActiveUntilFired, SlotsUntilEnded, FireActive
<1> QED
  BY <1>1, <1>2, <1>3, <1>4, <1>5 DEF ServiceWatchIInv

\* The slot is disconnected before it is invoked, so that only one thread invokes it.
LEMMA FireSignalInv ==
  ASSUME ServiceWatchIInv, NEW f \in Firers, FireSignal(f)
  PROVE  ServiceWatchIInv'
<1>1. ServiceWatchTypeOK' /\ Locked'
  BY NoThreadAssumption DEF ServiceWatchIInv, ServiceWatchTypeOK, Locked, ActiveUntilFired,
       FireSignal
<1>2. ActiveUntilFired' /\ SlotsUntilEnded'
  BY NoThreadAssumption DEF ServiceWatchIInv, ServiceWatchTypeOK, Locked, ActiveUntilFired,
       SlotsUntilEnded, NotYetEnded, MessageReferred, FireSignal
<1>3. NotifiedByOne'
  BY NoThreadAssumption DEF ServiceWatchIInv, ServiceWatchTypeOK, Locked, NotifiedByOne,
       SlotsUntilEnded, ActiveUntilFired, FireSignal
<1>4. MessageReferred'
  BY NoThreadAssumption DEF ServiceWatchIInv, ServiceWatchTypeOK, Locked, MessageReferred,
       SlotsUntilEnded, FireSignal
<1>5. FlagAgrees' /\ NotYetEnded'
  BY NoThreadAssumption DEF ServiceWatchIInv, ServiceWatchTypeOK, Locked, FlagAgrees,
       NotYetEnded, MessageReferred, ActiveUntilFired, SlotsUntilEnded, FireSignal
<1> QED
  BY <1>1, <1>2, <1>3, <1>4, <1>5 DEF ServiceWatchIInv

\* handleWatch leaves the cancel slot connected only to come to it.
LEMMA HandleWatchInv ==
  ASSUME ServiceWatchIInv, NEW f \in Firers, HandleWatch(f)
  PROVE  ServiceWatchIInv'
<1>1. ServiceWatchTypeOK' /\ Locked'
  BY NoThreadAssumption DEF ServiceWatchIInv, ServiceWatchTypeOK, Locked, ActiveUntilFired,
       HandleWatch
<1>2. ActiveUntilFired' /\ SlotsUntilEnded'
  BY NoThreadAssumption DEF ServiceWatchIInv, ServiceWatchTypeOK, Locked, ActiveUntilFired,
       SlotsUntilEnded, NotYetEnded, MessageReferred, HandleWatch
<1>3. NotifiedByOne'
  BY NoThreadAssumption DEF ServiceWatchIInv, ServiceWatchTypeOK, Locked, NotifiedByOne,
       SlotsUntilEnded, ActiveUntilFired, HandleWatch
<1>4. MessageReferred'
  BY NoThreadAssumption DEF ServiceWatchIInv, ServiceWatchTypeOK, Locked, MessageReferred,
       SlotsUntilEnded, HandleWatch
<1>5. FlagAgrees' /\ NotYetEnded'
  BY NoThreadAssumption DEF ServiceWatchIInv, ServiceWatchTypeOK, Locked, FlagAgrees,
       NotYetEnded, MessageReferred, ActiveUntilFired, SlotsUntilEnded, HandleWatch
<1> QED
  BY <1>1, <1>2, <1>3, <1>4, <1>5 DEF ServiceWatchIInv

\* A slot that is found disconnected under the signal's mutex needs nothing more.
LEMMA CancelSlotInv ==
  ASSUME ServiceWatchIInv, NEW f \in Firers, CancelSlot(f)
  PROVE  ServiceWatchIInv'
<1>1. ServiceWatchTypeOK' /\ Locked'
  BY NoThreadAssumption DEF ServiceWatchIInv, ServiceWatchTypeOK, Locked, ActiveUntilFired,
       CancelSlot
<1>2. ActiveUntilFired' /\ SlotsUntilEnded'
  BY NoThreadAssumption DEF ServiceWatchIInv, ServiceWatchTypeOK, Locked, ActiveUntilFired,
       SlotsUntilEnded, NotYetEnded, MessageReferred, CancelSlot
<1>3. NotifiedByOne'
  BY NoThreadAssumption DEF ServiceWatchIInv, ServiceWatchTypeOK, Locked, NotifiedByOne,
       SlotsUntilEnded, ActiveUntilFired, CancelSlot
<1>4. MessageReferred'
  BY NoThreadAssumption DEF ServiceWatchIInv, ServiceWatchTypeOK, Locked, MessageReferred,
       SlotsUntilEnded, CancelSlot
<1>5. FlagAgrees' /\ NotYetEnded'
  BY NoThreadAssumption DEF ServiceWatchIInv, ServiceWatchTypeOK, Locked, FlagAgrees,
       NotYetEnded, MessageReferred, ActiveUntilFired, SlotsUntilEnded, CancelSlot
<1> QED
  BY <1>1, <1>2, <1>3, <1>4, <1>5 DEF ServiceWatchIInv

\* The flag is reset with the subscription.
LEMMA MessageHandleCancelInv ==
  ASSUME ServiceWatchIInv, NEW f \in Firers, MessageHandleCancel(f)
  PROVE  ServiceWatchIInv'
<1>1. ServiceWatchTypeOK' /\ Locked'
  BY NoThreadAssumption DEF ServiceWatchIInv, ServiceWatchTypeOK, Locked, ActiveUntilFired,
       MessageHandleCancel
<1>2. ActiveUntilFired' /\ SlotsUntilEnded'
  BY NoThreadAssumption DEF ServiceWatchIInv, ServiceWatchTypeOK, Locked, ActiveUntilFired,
       SlotsUntilEnded, NotYetEnded, MessageReferred, MessageHandleCancel
<1>3. NotifiedByOne'
  BY NoThreadAssumption DEF ServiceWatchIInv, ServiceWatchTypeOK, Locked, NotifiedByOne,
       SlotsUntilEnded, ActiveUntilFired, MessageHandleCancel
<1>4. MessageReferred'
  BY NoThreadAssumption DEF ServiceWatchIInv, ServiceWatchTypeOK, Locked, MessageReferred,
       SlotsUntilEnded, MessageHandleCancel
<1>5. FlagAgrees' /\ NotYetEnded'
  BY NoThreadAssumption DEF ServiceWatchIInv, ServiceWatchTypeOK, Locked, FlagAgrees,
       NotYetEnded, MessageReferred, ActiveUntilFired, SlotsUntilEnded, MessageHandleCancel
<1> QED
  BY <1>1, <1>2, <1>3, <1>4, <1>5 DEF ServiceWatchIInv

\* The cancel slot is disconnected before the message is reset.
LEMMA DisconnectInv ==
  ASSUME ServiceWatchIInv, NEW f \in Firers, Disconnect(f)
  PROVE  ServiceWatchIInv'
<1>1. ServiceWatchTypeOK' /\ Locked'
  BY NoThreadAssumption DEF ServiceWatchIInv, ServiceWatchTypeOK, Locked, ActiveUntilFired,
       Disconnect
<1>2. ActiveUntilFired' /\ SlotsUntilEnded'
  BY NoThreadAssumption DEF ServiceWatchIInv, ServiceWatchTypeOK, Locked, ActiveUntilFired,
       SlotsUntilEnded, NotYetEnded, MessageReferred, Disconnect
<1>3. NotifiedByOne'
  BY NoThreadAssumption DEF ServiceWatchIInv, ServiceWatchTypeOK, Locked, NotifiedByOne,
       SlotsUntilEnded, ActiveUntilFired, Disconnect
<1>4. MessageReferred'
  BY NoThreadAssumption DEF ServiceWatchIInv, ServiceWatchTypeOK, Locked, MessageReferred,
       SlotsUntilEnded, Disconnect
<1>5. FlagAgrees' /\ NotYetEnded'
  BY NoThreadAssumption DEF ServiceWatchIInv, ServiceWatchTypeOK, Locked, FlagAgrees,
       NotYetEnded, MessageReferred, ActiveUntilFired, SlotsUntilEnded, Disconnect
<1> QED
  BY <1>1, <1>2, <1>3, <1>4, <1>5 DEF ServiceWatchIInv

\* The copy refers to the message if the watcher does.
LEMMA CopyInv ==
  ASSUME ServiceWatchIInv, NEW f \in Firers, Copy(f)
  PROVE  ServiceWatchIInv'
<1>1. ServiceWatchTypeOK' /\ Locked'
  BY NoThreadAssumption DEF ServiceWatchIInv, ServiceWatchTypeOK, Locked, ActiveUntilFired,
       Copy
<1>2. ActiveUntilFired' /\ SlotsUntilEnded'
  BY NoThreadAssumption DEF ServiceWatchIInv, ServiceWatchTypeOK, Locked, ActiveUntilFired,
       SlotsUntilEnded, NotYetEnded, MessageReferred, Copy
<1>3. NotifiedByOne'
  BY NoThreadAssumption DEF ServiceWatchIInv, ServiceWatchTypeOK, Locked, NotifiedByOne,
       SlotsUntilEnded, ActiveUntilFired, Copy
<1>4. MessageReferred'
  BY NoThreadAssumption DEF ServiceWatchIInv, ServiceWatchTypeOK, Locked, MessageReferred,
       SlotsUntilEnded, Copy
<1>5. FlagAgrees' /\ NotYetEnded'
  BY NoThreadAssumption DEF ServiceWatchIInv, ServiceWatchTypeOK, Locked, FlagAgrees,
       NotYetEnded, MessageReferred, ActiveUntilFired, SlotsUntilEnded, Copy
<1> QED
  BY <1>1, <1>2, <1>3, <1>4, <1>5 DEF ServiceWatchIInv

\* The reference of the watcher goes, that of the copy remains.
LEMMA ResetInv ==
  ASSUME ServiceWatchIInv, NEW f \in Firers, Reset(f)
  PROVE  ServiceWatchIInv'
<1>1. ServiceWatchTypeOK' /\ Locked'
  BY NoThreadAssumption DEF ServiceWatchIInv, ServiceWatchTypeOK, Locked, ActiveUntilFired,
       Reset
<1>2. ActiveUntilFired' /\ SlotsUntilEnded'
  BY NoThreadAssumption DEF ServiceWatchIInv, ServiceWatchTypeOK, Locked, ActiveUntilFired,
       SlotsUntilEnded, NotYetEnded, MessageReferred, Reset
<1>3. NotifiedByOne'
  BY NoThreadAssumption DEF ServiceWatchIInv, ServiceWatchTypeOK, Locked, NotifiedByOne,
       SlotsUntilEnded, ActiveUntilFired, Reset
<1>4. MessageReferred'
  BY NoThreadAssumption DEF ServiceWatchIInv, ServiceWatchTypeOK, Locked, MessageReferred,
       SlotsUntilEnded, Reset
<1>5. FlagAgrees' /\ NotYetEnded'
  BY NoThreadAssumption DEF ServiceWatchIInv, ServiceWatchTypeOK, Locked, FlagAgrees,
       NotYetEnded, MessageReferred, ActiveUntilFired, SlotsUntilEnded, Reset
<1> QED
  BY <1>1, <1>2, <1>3, <1>4, <1>5 DEF ServiceWatchIInv

\* The notification is the first one, and the message may go with it.
LEMMA NotifyInv ==
  ASSUME ServiceWatchIInv, NEW f \in Firers, Notify(f)
  PROVE  ServiceWatchIInv'
<1>1. ServiceWatchTypeOK' /\ Locked'
  BY NoThreadAssumption DEF ServiceWatchIInv, ServiceWatchTypeOK, Locked, ActiveUntilFired,
       Notify, Release
<1>2. ActiveUntilFired' /\ SlotsUntilEnded'
  BY NoThreadAssumption DEF ServiceWatchIInv, ServiceWatchTypeOK, Locked, ActiveUntilFired,
       SlotsUntilEnded, NotYetEnded, MessageReferred, Notify
<1>3. NotifiedByOne'
  BY NoThreadAssumption DEF ServiceWatchIInv, ServiceWatchTypeOK, Locked, NotifiedByOne,
       SlotsUntilEnded, ActiveUntilFired, Notify
<1>4. MessageReferred'
  BY NoThreadAssumption DEF ServiceWatchIInv, ServiceWatchTypeOK, Locked, MessageReferred,
       FlagAgrees, SlotsUntilEnded, Notify, Release
<1>5. FlagAgrees' /\ NotYetEnded'
  BY NoThreadAssumption DEF ServiceWatchIInv, ServiceWatchTypeOK, Locked, FlagAgrees,
       NotYetEnded, MessageReferred, ActiveUntilFired, SlotsUntilEnded, Notify, Release
<1> QED
  BY <1>1, <1>2, <1>3, <1>4, <1>5 DEF ServiceWatchIInv

\* The mutex is given up with the watcher ended.
LEMMA UnlockInv ==
  ASSUME ServiceWatchIInv, NEW f \in Firers, Unlock(f)
  PROVE  ServiceWatchIInv'
<1>1. ServiceWatchTypeOK' /\ Locked'
  BY NoThreadAssumption DEF ServiceWatchIInv, ServiceWatchTypeOK, Locked, ActiveUntilFired,
       Unlock
<1>2. ActiveUntilFired' /\ SlotsUntilEnded'
  BY NoThreadAssumption DEF ServiceWatchIInv, ServiceWatchTypeOK, Locked, ActiveUntilFired,
       SlotsUntilEnded, NotYetEnded, MessageReferred, Unlock
<1>3. NotifiedByOne'
  BY NoThreadAssumption DEF ServiceWatchIInv, ServiceWatchTypeOK, Locked, NotifiedByOne,
       SlotsUntilEnded, ActiveUntilFired, Unlock
<1>4. MessageReferred'
  BY NoThreadAssumption DEF ServiceWatchIInv, ServiceWatchTypeOK, Locked, MessageReferred,
       SlotsUntilEnded, Unlock
<1>5. FlagAgrees' /\ NotYetEnded'
  BY NoThreadAssumption DEF ServiceWatchIInv, ServiceWatchTypeOK, Locked, FlagAgrees,
       NotYetEnded, MessageReferred, ActiveUntilFired, SlotsUntilEnded, Unlock
<1> QED
  BY <1>1, <1>2, <1>3, <1>4, <1>5 DEF ServiceWatchIInv

(* The thread that handles the cancel. *)

\* A cancel that finds no subscription comes after the watcher has ended.
LEMMA LookupInv ==
  ASSUME ServiceWatchIInv, Lookup
  PROVE  ServiceWatchIInv'
<1>1. ServiceWatchTypeOK' /\ Locked'
  BY NoThreadAssumption DEF ServiceWatchIInv, ServiceWatchTypeOK, Locked, ActiveUntilFired,
       Lookup
<1>2. ActiveUntilFired' /\ SlotsUntilEnded'
  BY NoThreadAssumption DEF ServiceWatchIInv, ServiceWatchTypeOK, Locked, ActiveUntilFired,
       SlotsUntilEnded, NotYetEnded, MessageReferred, Lookup
<1>3. NotifiedByOne'
  BY NoThreadAssumption DEF ServiceWatchIInv, ServiceWatchTypeOK, Locked, NotifiedByOne,
       SlotsUntilEnded, ActiveUntilFired, Lookup
<1>4. MessageReferred'
  BY NoThreadAssumption DEF ServiceWatchIInv, ServiceWatchTypeOK, Locked, MessageReferred,
       SlotsUntilEnded, Lookup
<1>5. FlagAgrees' /\ NotYetEnded'
  BY NoThreadAssumption DEF ServiceWatchIInv, ServiceWatchTypeOK, Locked, FlagAgrees,
       NotYetEnded, MessageReferred, ActiveUntilFired, SlotsUntilEnded, Lookup
<1> QED
  BY <1>1, <1>2, <1>3, <1>4, <1>5 DEF ServiceWatchIInv

\* A cancel that finds no slot comes after a thread that has disconnected it.
LEMMA FireCancelInv ==
  ASSUME ServiceWatchIInv, FireCancel
  PROVE  ServiceWatchIInv'
<1>1. ServiceWatchTypeOK' /\ Locked'
  BY NoThreadAssumption DEF ServiceWatchIInv, ServiceWatchTypeOK, Locked, ActiveUntilFired,
       FireCancel, Release
<1>2. ActiveUntilFired' /\ SlotsUntilEnded'
  BY NoThreadAssumption DEF ServiceWatchIInv, ServiceWatchTypeOK, Locked, ActiveUntilFired,
       SlotsUntilEnded, NotYetEnded, MessageReferred, FireCancel
<1>3. NotifiedByOne'
  BY NoThreadAssumption DEF ServiceWatchIInv, ServiceWatchTypeOK, Locked, NotifiedByOne,
       SlotsUntilEnded, ActiveUntilFired, FireCancel
<1>4. MessageReferred'
  BY NoThreadAssumption DEF ServiceWatchIInv, ServiceWatchTypeOK, Locked, MessageReferred,
       FlagAgrees, SlotsUntilEnded, FireCancel, Release
<1>5. FlagAgrees' /\ NotYetEnded'
  BY NoThreadAssumption DEF ServiceWatchIInv, ServiceWatchTypeOK, Locked, FlagAgrees,
       NotYetEnded, MessageReferred, ActiveUntilFired, SlotsUntilEnded, FireCancel, Release
<1> QED
  BY <1>1, <1>2, <1>3, <1>4, <1>5 DEF ServiceWatchIInv

\* The watch slot is connected, or who disconnected it has ended the watcher.
LEMMA HandleCancelInv ==
  ASSUME ServiceWatchIInv, HandleCancel
  PROVE  ServiceWatchIInv'
<1>1. ServiceWatchTypeOK' /\ Locked'
  BY NoThreadAssumption DEF ServiceWatchIInv, ServiceWatchTypeOK, Locked, ActiveUntilFired,
       HandleCancel
<1>2. ActiveUntilFired' /\ SlotsUntilEnded'
  BY NoThreadAssumption DEF ServiceWatchIInv, ServiceWatchTypeOK, Locked, ActiveUntilFired,
       SlotsUntilEnded, NotYetEnded, MessageReferred, HandleCancel
<1>3. NotifiedByOne'
  BY NoThreadAssumption DEF ServiceWatchIInv, ServiceWatchTypeOK, Locked, NotifiedByOne,
       SlotsUntilEnded, ActiveUntilFired, HandleCancel
<1>4. MessageReferred'
  BY NoThreadAssumption DEF ServiceWatchIInv, ServiceWatchTypeOK, Locked, MessageReferred,
       SlotsUntilEnded, HandleCancel
<1>5. FlagAgrees' /\ NotYetEnded'
  BY NoThreadAssumption DEF ServiceWatchIInv, ServiceWatchTypeOK, Locked, FlagAgrees,
       NotYetEnded, MessageReferred, ActiveUntilFired, SlotsUntilEnded, HandleCancel
<1> QED
  BY <1>1, <1>2, <1>3, <1>4, <1>5 DEF ServiceWatchIInv

\* The same, seen under the signal's mutex.
LEMMA CancelWatchSlotInv ==
  ASSUME ServiceWatchIInv, CancelWatchSlot
  PROVE  ServiceWatchIInv'
<1>1. ServiceWatchTypeOK' /\ Locked'
  BY NoThreadAssumption DEF ServiceWatchIInv, ServiceWatchTypeOK, Locked, ActiveUntilFired,
       CancelWatchSlot
<1>2. ActiveUntilFired' /\ SlotsUntilEnded'
  BY NoThreadAssumption DEF ServiceWatchIInv, ServiceWatchTypeOK, Locked, ActiveUntilFired,
       SlotsUntilEnded, NotYetEnded, MessageReferred, CancelWatchSlot
<1>3. NotifiedByOne'
  BY NoThreadAssumption DEF ServiceWatchIInv, ServiceWatchTypeOK, Locked, NotifiedByOne,
       SlotsUntilEnded, ActiveUntilFired, CancelWatchSlot
<1>4. MessageReferred'
  BY NoThreadAssumption DEF ServiceWatchIInv, ServiceWatchTypeOK, Locked, MessageReferred,
       SlotsUntilEnded, CancelWatchSlot
<1>5. FlagAgrees' /\ NotYetEnded'
  BY NoThreadAssumption DEF ServiceWatchIInv, ServiceWatchTypeOK, Locked, FlagAgrees,
       NotYetEnded, MessageReferred, ActiveUntilFired, SlotsUntilEnded, CancelWatchSlot
<1> QED
  BY <1>1, <1>2, <1>3, <1>4, <1>5 DEF ServiceWatchIInv

\* The watcher leaves the index under its mutex.
LEMMA DbHandleCancelInv ==
  ASSUME ServiceWatchIInv, DbHandleCancel
  PROVE  ServiceWatchIInv'
<1>1. ServiceWatchTypeOK' /\ Locked'
  BY NoThreadAssumption DEF ServiceWatchIInv, ServiceWatchTypeOK, Locked, ActiveUntilFired,
       DbHandleCancel
<1>2. ActiveUntilFired' /\ SlotsUntilEnded'
  BY NoThreadAssumption DEF ServiceWatchIInv, ServiceWatchTypeOK, Locked, ActiveUntilFired,
       SlotsUntilEnded, NotYetEnded, MessageReferred, DbHandleCancel
<1>3. NotifiedByOne'
  BY NoThreadAssumption DEF ServiceWatchIInv, ServiceWatchTypeOK, Locked, NotifiedByOne,
       SlotsUntilEnded, ActiveUntilFired, DbHandleCancel
<1>4. MessageReferred'
  BY NoThreadAssumption DEF ServiceWatchIInv, ServiceWatchTypeOK, Locked, MessageReferred,
       SlotsUntilEnded, DbHandleCancel
<1>5. FlagAgrees' /\ NotYetEnded'
  BY NoThreadAssumption DEF ServiceWatchIInv, ServiceWatchTypeOK, Locked, FlagAgrees,
       NotYetEnded, MessageReferred, ActiveUntilFired, SlotsUntilEnded, DbHandleCancel
<1> QED
  BY <1>1, <1>2, <1>3, <1>4, <1>5 DEF ServiceWatchIInv

\* The watch slot is disconnected, with nobody about to fire it.
LEMMA DisconnectWatchInv ==
  ASSUME ServiceWatchIInv, DisconnectWatch
  PROVE  ServiceWatchIInv'
<1>1. ServiceWatchTypeOK' /\ Locked'
  BY NoThreadAssumption DEF ServiceWatchIInv, ServiceWatchTypeOK, Locked, ActiveUntilFired,
       DisconnectWatch
<1>2. ActiveUntilFired' /\ SlotsUntilEnded'
  BY NoThreadAssumption DEF ServiceWatchIInv, ServiceWatchTypeOK, Locked, ActiveUntilFired,
       SlotsUntilEnded, NotYetEnded, MessageReferred, DisconnectWatch
<1>3. NotifiedByOne'
  BY NoThreadAssumption DEF ServiceWatchIInv, ServiceWatchTypeOK, Locked, NotifiedByOne,
       SlotsUntilEnded, ActiveUntilFired, DisconnectWatch
<1>4. MessageReferred'
  BY NoThreadAssumption DEF ServiceWatchIInv, ServiceWatchTypeOK, Locked, MessageReferred,
       SlotsUntilEnded, DisconnectWatch
<1>5. FlagAgrees' /\ NotYetEnded'
  BY NoThreadAssumption DEF ServiceWatchIInv, ServiceWatchTypeOK, Locked, FlagAgrees,
       NotYetEnded, MessageReferred, ActiveUntilFired, SlotsUntilEnded, DisconnectWatch
<1> QED
  BY <1>1, <1>2, <1>3, <1>4, <1>5 DEF ServiceWatchIInv

\* The last reference of the cancel goes.
LEMMA ResetCancelledInv ==
  ASSUME ServiceWatchIInv, ResetCancelled
  PROVE  ServiceWatchIInv'
<1>1. ServiceWatchTypeOK' /\ Locked'
  BY NoThreadAssumption DEF ServiceWatchIInv, ServiceWatchTypeOK, Locked, ActiveUntilFired,
       ResetCancelled, Release
<1>2. ActiveUntilFired' /\ SlotsUntilEnded'
  BY NoThreadAssumption DEF ServiceWatchIInv, ServiceWatchTypeOK, Locked, ActiveUntilFired,
       SlotsUntilEnded, NotYetEnded, MessageReferred, ResetCancelled
<1>3. NotifiedByOne'
  BY NoThreadAssumption DEF ServiceWatchIInv, ServiceWatchTypeOK, Locked, NotifiedByOne,
       SlotsUntilEnded, ActiveUntilFired, ResetCancelled
<1>4. MessageReferred'
  BY NoThreadAssumption DEF ServiceWatchIInv, ServiceWatchTypeOK, Locked, MessageReferred,
       FlagAgrees, SlotsUntilEnded, ResetCancelled, Release
<1>5. FlagAgrees' /\ NotYetEnded'
  BY NoThreadAssumption DEF ServiceWatchIInv, ServiceWatchTypeOK, Locked, FlagAgrees,
       NotYetEnded, MessageReferred, ActiveUntilFired, SlotsUntilEnded, ResetCancelled,
       Release
<1> QED
  BY <1>1, <1>2, <1>3, <1>4, <1>5 DEF ServiceWatchIInv

\* Every step of the notifications and of the cancel keeps the invariant.
LEMMA ServiceWatchStep == ServiceWatchIInv /\ [ServiceWatchNext]_serviceWatchVars => ServiceWatchIInv'
<1> SUFFICES ASSUME ServiceWatchIInv, [ServiceWatchNext]_serviceWatchVars PROVE ServiceWatchIInv'
  OBVIOUS
<1>1. ASSUME NEW f \in Firers, Committing(f) PROVE ServiceWatchIInv'
  BY <1>1, LockInv, FireActiveInv, FireSignalInv, HandleWatchInv, CancelSlotInv, MessageHandleCancelInv,
     DisconnectInv, CopyInv, ResetInv, NotifyInv, UnlockInv DEF Committing, FireImpl
<1>2. CASE HandlingCancel
  BY <1>2, LookupInv, FireCancelInv, HandleCancelInv, CancelWatchSlotInv, DbHandleCancelInv,
     DisconnectWatchInv, ResetCancelledInv DEF HandlingCancel, DispatchCancel
<1>3. CASE UNCHANGED serviceWatchVars
  BY <1>3 DEF serviceWatchVars, ServiceWatchIInv, ServiceWatchTypeOK, Locked, ActiveUntilFired,
       SlotsUntilEnded, NotifiedByOne, MessageReferred, FlagAgrees, NotYetEnded
<1> QED
  BY <1>1, <1>2, <1>3 DEF ServiceWatchNext

\* What is promised of a watched query and its client follows from the invariant: when
\* nobody is on the way, no case is left in which something is still connected.
LEMMA ServiceWatchPromised == ServiceWatchIInv => ServiceWatchKept
<1> SUFFICES ASSUME ServiceWatchIInv PROVE ServiceWatchKept
  OBVIOUS
<1>1. ServiceWatchTypeOK /\ NotifiedAtMostOnce /\ SubscriptionAgrees
  BY DEF ServiceWatchIInv, NotifiedByOne, NotifiedAtMostOnce, FlagAgrees, SubscriptionAgrees
<1>2. ASSUME Quiet
      PROVE  ~active /\ ~watchSlot /\ ~cancelSlot /\ ~m_msg /\ ~subscription /\ m_mutex = NoThread
  <2>1. cpc \in {"start", "done"} /\ \A f \in Firers : fpc[f] \in {"start", "done"}
    BY <1>2 DEF Quiet, ServiceWatchIInv, ServiceWatchTypeOK
  <2>2. ~active
    BY <1>2, <2>1 DEF Quiet, ServiceWatchIInv, ActiveUntilFired, NotYetEnded
  <2>3. ~watchSlot /\ ~cancelSlot
    BY <2>1, <2>2 DEF ServiceWatchIInv, SlotsUntilEnded
  <2>4. ~m_msg /\ ~subscription
    BY <2>1, <2>3 DEF ServiceWatchIInv, MessageReferred
  <2>5. m_mutex = NoThread
    BY <2>1 DEF ServiceWatchIInv, ServiceWatchTypeOK
  <2> QED
    BY <2>2, <2>3, <2>4, <2>5
<1> QED
  BY <1>1, <1>2 DEF NothingLeft, ServiceWatchKept

\* However many transactions fire a watched query while its client cancels: the client is
\* notified once at most, and watcher, slots, message and subscription end up released
\* (MojDbServiceHandler::Watcher, MojDbWatcher, MojService).
THEOREM ServiceWatchSafe == ServiceWatchSpec => []ServiceWatchKept
<1>1. ServiceWatchInit => ServiceWatchIInv
  BY DEF ServiceWatchInit, ServiceWatchIInv, ServiceWatchTypeOK, Locked, ActiveUntilFired,
       SlotsUntilEnded, NotifiedByOne, MessageReferred, FlagAgrees, NotYetEnded
<1> QED
  BY <1>1, ServiceWatchStep, ServiceWatchPromised, PTL DEF ServiceWatchSpec
-----------------------------------------------------------------------------
(* MojReactor: what the loop has in hand. *)

ReactorTypeOK ==
  /\ reactor \in {"epoll", "gmain"}
  /\ infoOf \in [Socks -> Infos \cup {NoSock}]
  /\ infos \in Nat
  /\ requested \in [Infos -> SUBSET Events] /\ registered \in [Infos -> SUBSET Events]
  /\ waiting \in [Infos -> SUBSET Events]
  /\ kernel \in [Socks -> SUBSET Events] /\ ready \in [Socks -> SUBSET Events]
  /\ dispatching \in Dispatched \cup {NoSock}
  /\ loop \in {"out", "check", "wait", "event", "fire"}

\* An info is that of one socket, and one that was not made yet is empty.
InfosApart ==
  /\ \A s \in Socks : infoOf[s] # NoSock => infoOf[s] <= infos
  /\ \A s, t \in Socks : infoOf[s] # NoSock /\ infoOf[s] = infoOf[t] => s = t
  /\ \A i \in Infos : i > infos => waiting[i] = {} /\ registered[i] = {}

\* The loop has an event between the end of its wait and that of the dispatch, and its
\* info is, or was, that of the socket.
Dispatching ==
  /\ dispatching # NoSock <=> loop \in {"event", "fire"}
  /\ loop = "fire" => dispatching.info # NoSock
  /\ loop \in {"event", "fire"} /\ dispatching.info # NoSock =>
       /\ dispatching.info <= infos
       /\ \A s \in Socks : infoOf[s] = dispatching.info => s = dispatching.sock

Firing(i) == loop = "fire" /\ dispatching.info = i

\* What a slot waits for is requested, or about to be fired.
RequestedWaiting ==
  \A i \in Infos : \A e \in waiting[i] : e \in requested[i] \/ (Firing(i) /\ e \in dispatching.events)

\* The kernel reports what epoll has registered, but for an event the loop has not yet
\* come to.
RegisteredReported ==
  \A s \in Socks : infoOf[s] # NoSock /\ infoOf[s] \notin spoiled /\ reactor = "epoll" =>
      (loop = "event" /\ dispatching.sock = s) \/ registered[infoOf[s]] \subseteq kernel[s]

\* What a slot waits for is reported, or the loop has an event of the socket.
WaitingReported ==
  \A s \in Socks : infoOf[s] # NoSock /\ infoOf[s] \notin spoiled =>
    \/ waiting[infoOf[s]] \subseteq kernel[s]
    \/ reactor = "epoll" /\ loop = "event" /\ dispatching.sock = s
    \/ reactor = "epoll" /\ Firing(infoOf[s])
    \/ Firing(infoOf[s]) /\ waiting[infoOf[s]] \subseteq kernel[s] \cup dispatching.events

ReactorIInv ==
  /\ ReactorTypeOK /\ InfosApart /\ Dispatching
  /\ RequestedWaiting /\ RegisteredReported /\ WaitingReported

USE DEF Firing

\* updateSock registers what is asked for or finds it registered; done for another info
\* than the one the socket has now, it spoils that one.
LEMMA UpdateSockDoes ==
  ASSUME ReactorTypeOK, NEW s \in Socks, NEW i \in Infos, NEW want \in SUBSET Events,
         UpdateSock(s, i, want, registered[i])
  PROVE  /\ registered' \in [Infos -> SUBSET Events] /\ kernel' \in [Socks -> SUBSET Events]
         /\ \A j \in Infos : j # i => registered'[j] = registered[j]
         /\ \A t \in Socks : t # s => kernel'[t] = kernel[t]
         /\ spoiled \subseteq spoiled'
         /\ infoOf[s] = i /\ i # NoSock =>
              /\ registered'[i] = want
              /\ kernel'[s] = want \/ (want = registered[i] /\ kernel'[s] = kernel[s])
         /\ infoOf[s] # i => kernel'[s] = kernel[s] \/ infoOf[s] \in spoiled'
<1>1. CASE want = registered[i]
  BY <1>1 DEF UpdateSock, ReactorTypeOK
<1>2. CASE want # registered[i] /\ infoOf[s] = NoSock
  BY <1>2 DEF UpdateSock, ReactorTypeOK
<1>3. CASE want # registered[i] /\ infoOf[s] # NoSock
  BY <1>3 DEF UpdateSock, ReactorTypeOK
<1> QED
  BY <1>1, <1>2, <1>3

\* The loop has nothing in hand when it begins.
LEMMA RunInv ==
  ASSUME ReactorIInv, Run
  PROVE  ReactorIInv'
<1>1. ReactorTypeOK' /\ InfosApart' /\ Dispatching'
  BY DEF ReactorIInv, ReactorTypeOK, Dispatched, InfosApart,
       Dispatching, Run
<1>2. RequestedWaiting' /\ RegisteredReported' /\ WaitingReported'
  BY DEF ReactorIInv, RequestedWaiting, RegisteredReported,
       WaitingReported, Run
<1> QED
  BY <1>1, <1>2 DEF ReactorIInv

\* stop() leaves the sockets alone.
LEMMA StopLoopInv ==
  ASSUME ReactorIInv, StopLoop
  PROVE  ReactorIInv'
<1>1. ReactorTypeOK' /\ InfosApart' /\ Dispatching'
  BY DEF ReactorIInv, ReactorTypeOK, Dispatched, InfosApart,
       Dispatching, StopLoop
<1>2. RequestedWaiting' /\ RegisteredReported' /\ WaitingReported'
  BY DEF ReactorIInv, RequestedWaiting, RegisteredReported,
       WaitingReported, StopLoop
<1> QED
  BY <1>1, <1>2 DEF ReactorIInv

\* The loop has nothing in hand when it ends.
LEMMA CheckStopInv ==
  ASSUME ReactorIInv, CheckStop
  PROVE  ReactorIInv'
<1>1. ReactorTypeOK' /\ InfosApart' /\ Dispatching'
  BY DEF ReactorIInv, ReactorTypeOK, Dispatched, InfosApart,
       Dispatching, CheckStop
<1>2. RequestedWaiting' /\ RegisteredReported' /\ WaitingReported'
  BY DEF ReactorIInv, RequestedWaiting, RegisteredReported,
       WaitingReported, CheckStop
<1> QED
  BY <1>1, <1>2 DEF ReactorIInv

\* The byte of the pipe is no event of a socket.
LEMMA WakeInv ==
  ASSUME ReactorIInv, Wake
  PROVE  ReactorIInv'
<1>1. ReactorTypeOK' /\ InfosApart' /\ Dispatching'
  BY DEF ReactorIInv, ReactorTypeOK, Dispatched, InfosApart,
       Dispatching, Wake
<1>2. RequestedWaiting' /\ RegisteredReported' /\ WaitingReported'
  BY DEF ReactorIInv, RequestedWaiting, RegisteredReported,
       WaitingReported, Wake
<1> QED
  BY <1>1, <1>2 DEF ReactorIInv

\* What epoll reported once is in the hands of the loop.
LEMMA PollInv ==
  ASSUME ReactorIInv, NEW s \in Socks, Poll(s)
  PROVE  ReactorIInv'
<1>1. ReactorTypeOK'
  BY ReactorAssumption DEF ReactorIInv, ReactorTypeOK, Infos, Dispatching, Poll,
       Dispatched, Events, Reported
<1>2. InfosApart'
  BY ReactorAssumption DEF ReactorIInv, ReactorTypeOK, Infos, InfosApart, Dispatching,
       Poll, Dispatched, Events, Reported
<1>3. Dispatching'
  BY ReactorAssumption DEF ReactorIInv, ReactorTypeOK, Infos, Dispatching, InfosApart,
       Poll, Dispatched, Events, Reported
<1>4. RequestedWaiting'
  BY ReactorAssumption DEF ReactorIInv, ReactorTypeOK, Infos, RequestedWaiting,
       Dispatching, InfosApart, Poll, Dispatched, Events, Reported
<1>5. RegisteredReported'
  BY ReactorAssumption DEF ReactorIInv, ReactorTypeOK, Infos, RegisteredReported,
       Dispatching, InfosApart, Poll, Dispatched, Events, Reported
<1>6. WaitingReported'
  BY ReactorAssumption DEF ReactorIInv, ReactorTypeOK, Infos, WaitingReported,
       RequestedWaiting, RegisteredReported, Dispatching, InfosApart, Poll, Dispatched,
       Events, Reported
<1> QED
  BY <1>1, <1>2, <1>3, <1>4, <1>5, <1>6 DEF ReactorIInv

\* What was reported is about to be fired, and epoll has nothing registered.
LEMMA BeginDispatchInv ==
  ASSUME ReactorIInv, BeginDispatch
  PROVE  ReactorIInv'
<1>1. /\ loop = "event" /\ dispatching \in Dispatched /\ dispatching # NoSock
      /\ dispatching.sock \in Socks /\ dispatching.events \in SUBSET Events
      /\ dispatching.info \in Infos \cup {NoSock}
      /\ UNCHANGED <<reactor, infoOf, infos, ready, spoiled, stopAsked, pipe>>
  BY DEF BeginDispatch, ReactorIInv, ReactorTypeOK, Dispatching, Dispatched
<1>2. PICK s \in Socks, events \in SUBSET Events : s = dispatching.sock /\ events = dispatching.events
  BY <1>1
<1>3. CASE infoOf[s] = NoSock \/ (reactor = "gmain" /\ infoOf[s] # dispatching.info)
  <2>1. /\ loop' = "check" /\ dispatching' = NoSock
        /\ waiting' = [j \in Infos |-> IF \E t \in Socks : infoOf[t] = j THEN waiting[j] ELSE {}]
        /\ UNCHANGED <<requested, registered, kernel>>
    BY <1>2, <1>3 DEF BeginDispatch
  <2>2. /\ waiting' \in [Infos -> SUBSET Events]
        /\ \A j \in Infos : waiting'[j] \subseteq waiting[j]
    BY <2>1 DEF ReactorIInv, ReactorTypeOK
  <2>3. ReactorTypeOK' /\ InfosApart' /\ Dispatching'
    BY <1>1, <2>1, <2>2 DEF ReactorIInv, ReactorTypeOK, InfosApart, Dispatching
  <2>4. RequestedWaiting'
    BY <1>1, <2>1, <2>2 DEF ReactorIInv, RequestedWaiting
  <2>5. RegisteredReported'
    BY <1>1, <1>2, <1>3, <2>1 DEF ReactorIInv, RegisteredReported
  <2>6. WaitingReported'
    BY <1>1, <1>2, <1>3, <2>1, <2>2 DEF ReactorIInv, ReactorTypeOK, WaitingReported
  <2> QED
    BY <2>3, <2>4, <2>5, <2>6 DEF ReactorIInv
<1>4. CASE infoOf[s] # NoSock /\ (reactor = "gmain" => infoOf[s] = dispatching.info)
  <2>1. PICK i \in Infos : i = infoOf[s] /\ i # NoSock /\ i <= infos /\ \A t \in Socks : infoOf[t] = i <=> t = s
    BY <1>4 DEF ReactorIInv, ReactorTypeOK, InfosApart
  <2>2. /\ loop' = "fire" /\ dispatching' = [dispatching EXCEPT !.info = i]
        /\ requested' = [requested EXCEPT ![i] = @ \ events]
        /\ IF reactor = "epoll" THEN registered' = [registered EXCEPT ![i] = {}] /\ UNCHANGED kernel
           ELSE kernel' = [kernel EXCEPT ![s] = @ \ events] /\ UNCHANGED registered
        /\ UNCHANGED waiting
    BY <1>2, <1>4, <2>1 DEF BeginDispatch
  <2>3. /\ dispatching' \in Dispatched /\ dispatching' # NoSock
        /\ dispatching'.sock = s /\ dispatching'.info = i /\ dispatching'.events = events
    BY <1>1, <1>2, <2>2, ReactorAssumption DEF Dispatched
  <2>4. /\ requested' \in [Infos -> SUBSET Events] /\ requested'[i] = requested[i] \ events
        /\ \A j \in Infos : j # i => requested'[j] = requested[j]
        /\ registered' \in [Infos -> SUBSET Events] /\ kernel' \in [Socks -> SUBSET Events]
        /\ \A j \in Infos : j # i => registered'[j] = registered[j]
        /\ \A t \in Socks : t # s => kernel'[t] = kernel[t]
        /\ reactor = "epoll" => registered'[i] = {} /\ kernel' = kernel
        /\ reactor = "gmain" => registered' = registered /\ kernel'[s] = kernel[s] \ events
    BY <2>2 DEF ReactorIInv, ReactorTypeOK
  <2>5. ReactorTypeOK'
    BY <1>1, <2>2, <2>3, <2>4 DEF ReactorIInv, ReactorTypeOK
  <2>6. InfosApart'
    BY <1>1, <2>1, <2>2, <2>4 DEF ReactorIInv, InfosApart
  <2>7. Dispatching'
    BY <1>1, <2>1, <2>2, <2>3 DEF Dispatching
  <2>8. RequestedWaiting'
    BY <1>1, <2>2, <2>3, <2>4 DEF ReactorIInv, RequestedWaiting
  <2>9. RegisteredReported'
    BY <1>1, <1>2, <2>1, <2>2, <2>4 DEF ReactorIInv, ReactorTypeOK, RegisteredReported
  <2>10. WaitingReported'
    <3> SUFFICES ASSUME NEW t \in Socks, infoOf[t] # NoSock, infoOf[t] \notin spoiled
                 PROVE  \/ waiting[infoOf[t]] \subseteq kernel'[t]
                        \/ reactor = "epoll" /\ infoOf[t] = i
                        \/ infoOf[t] = i /\ waiting[infoOf[t]] \subseteq kernel'[t] \cup events
      BY <1>1, <2>2, <2>3 DEF WaitingReported
    <3>1. \/ waiting[infoOf[t]] \subseteq kernel[t]
          \/ reactor = "epoll" /\ t = s
      BY <1>1, <1>2 DEF ReactorIInv, WaitingReported
    <3> QED
      BY <2>1, <2>4, <3>1 DEF ReactorIInv, ReactorTypeOK
  <2> QED
    BY <2>5, <2>6, <2>7, <2>8, <2>9, <2>10 DEF ReactorIInv
<1> QED
  BY <1>3, <1>4 DEF ReactorIInv, ReactorTypeOK

\* A signal that was fired has no slot left.
LEMMA FireSockInv ==
  ASSUME ReactorIInv, NEW e \in Events, FireSock(e)
  PROVE  ReactorIInv'
<1>1. ReactorTypeOK'
  BY ReactorAssumption DEF ReactorIInv, ReactorTypeOK, Infos, Dispatching, FireSock,
       Dispatched, Events
<1>2. InfosApart'
  BY ReactorAssumption DEF ReactorIInv, ReactorTypeOK, Infos, InfosApart, Dispatching,
       FireSock
<1>3. Dispatching'
  BY ReactorAssumption DEF ReactorIInv, ReactorTypeOK, Infos, Dispatching, InfosApart,
       FireSock, Dispatched, Events
<1>4. RequestedWaiting'
  BY ReactorAssumption DEF ReactorIInv, ReactorTypeOK, Infos, RequestedWaiting,
       Dispatching, InfosApart, FireSock
<1>5. RegisteredReported'
  BY ReactorAssumption DEF ReactorIInv, ReactorTypeOK, Infos, RegisteredReported,
       Dispatching, InfosApart, FireSock
<1>6. WaitingReported'
  BY ReactorAssumption DEF ReactorIInv, ReactorTypeOK, Infos, WaitingReported,
       RequestedWaiting, RegisteredReported, Dispatching, InfosApart, FireSock
<1> QED
  BY <1>1, <1>2, <1>3, <1>4, <1>5, <1>6 DEF ReactorIInv

\* What is still requested is registered again.
LEMMA EndDispatchInv ==
  ASSUME ReactorIInv, EndDispatch
  PROVE  ReactorIInv'
<1>1. /\ loop = "fire" /\ dispatching \in Dispatched /\ dispatching.events = {}
      /\ loop' = "check" /\ dispatching' = NoSock
      /\ UNCHANGED <<reactor, infoOf, infos, requested, ready, stopAsked, pipe>>
  BY DEF EndDispatch, ReactorIInv, ReactorTypeOK, Dispatching
<1>2. PICK s \in Socks, i \in Infos : s = dispatching.sock /\ i = dispatching.info
  BY <1>1 DEF ReactorIInv, Dispatching, Dispatched
<1>3. /\ i # NoSock /\ i <= infos /\ \A t \in Socks : infoOf[t] = i => t = s
      /\ requested[i] \in SUBSET Events
  BY <1>1, <1>2 DEF ReactorIInv, ReactorTypeOK, Dispatching
<1>4. /\ waiting' \in [Infos -> SUBSET Events]
      /\ \A j \in Infos : waiting'[j] \subseteq waiting[j]
  BY DEF EndDispatch, ReactorIInv, ReactorTypeOK
<1>5. /\ registered' \in [Infos -> SUBSET Events] /\ kernel' \in [Socks -> SUBSET Events]
      /\ \A j \in Infos : j # i => registered'[j] = registered[j]
      /\ \A t \in Socks : t # s => kernel'[t] = kernel[t]
      /\ spoiled \subseteq spoiled'
      /\ infoOf[s] # i => kernel'[s] = kernel[s] \/ infoOf[s] \in spoiled'
      /\ reactor = "epoll" /\ infoOf[s] = i =>
           /\ registered'[i] = requested[i]
           /\ kernel'[s] = requested[i] \/ (requested[i] = registered[i] /\ kernel'[s] = kernel[s])
      /\ reactor = "gmain" => UNCHANGED <<registered, kernel>>
  <2>1. CASE reactor = "epoll"
    <3>1. PICK want \in SUBSET Events : want = requested[i]
      BY <1>3
    <3>2. UpdateSock(s, i, want, registered[i]) /\ ReactorTypeOK
      BY <1>2, <2>1, <3>1 DEF EndDispatch, ReactorIInv
    <3>3. /\ registered' \in [Infos -> SUBSET Events] /\ kernel' \in [Socks -> SUBSET Events]
          /\ \A j \in Infos : j # i => registered'[j] = registered[j]
          /\ \A t \in Socks : t # s => kernel'[t] = kernel[t]
          /\ spoiled \subseteq spoiled'
      BY <3>2, UpdateSockDoes
    <3>4. infoOf[s] # i => kernel'[s] = kernel[s] \/ infoOf[s] \in spoiled'
      BY <3>2, UpdateSockDoes
    <3>5. infoOf[s] = i =>
            /\ registered'[i] = want
            /\ kernel'[s] = want \/ (want = registered[i] /\ kernel'[s] = kernel[s])
      BY <1>3, <3>2, UpdateSockDoes
    <3> QED
      BY <2>1, <3>1, <3>3, <3>4, <3>5
  <2>2. CASE reactor = "gmain"
    BY <2>2 DEF EndDispatch, ReactorIInv, ReactorTypeOK
  <2> QED
    BY <2>1, <2>2 DEF ReactorIInv, ReactorTypeOK
<1>6. ReactorTypeOK' /\ InfosApart' /\ Dispatching'
  BY <1>1, <1>3, <1>4, <1>5 DEF ReactorIInv, ReactorTypeOK, InfosApart, Dispatching, Infos
<1>7. RequestedWaiting'
  BY <1>1, <1>4 DEF ReactorIInv, RequestedWaiting
<1>8. RegisteredReported'
  <2> SUFFICES ASSUME NEW t \in Socks, infoOf[t] # NoSock, infoOf[t] \notin spoiled', reactor = "epoll"
               PROVE  registered'[infoOf[t]] \subseteq kernel'[t]
    BY <1>1 DEF RegisteredReported
  <2>1. infoOf[t] \in Infos /\ registered[infoOf[t]] \subseteq kernel[t]
    BY <1>1, <1>5 DEF ReactorIInv, ReactorTypeOK, RegisteredReported
  <2> QED
    BY <1>3, <1>5, <2>1
<1>9. WaitingReported'
  <2> SUFFICES ASSUME NEW t \in Socks, infoOf[t] # NoSock, infoOf[t] \notin spoiled'
               PROVE  waiting[infoOf[t]] \subseteq kernel'[t]
    BY <1>1, <1>4 DEF WaitingReported, ReactorIInv, ReactorTypeOK
  <2>1. infoOf[t] \in Infos /\ infoOf[t] \notin spoiled
    BY <1>5 DEF ReactorIInv, ReactorTypeOK
  <2>2. CASE infoOf[t] # i
    BY <1>1, <1>2, <1>5, <2>1, <2>2 DEF ReactorIInv, WaitingReported
  <2>3. CASE infoOf[t] = i /\ reactor = "gmain"
    BY <1>1, <1>2, <1>3, <1>5, <2>1, <2>3 DEF ReactorIInv, WaitingReported
  <2>4. CASE infoOf[t] = i /\ reactor = "epoll"
    <3>1. t = s /\ waiting[i] \subseteq requested[i] /\ registered[i] \subseteq kernel[s]
      BY <1>1, <1>3, <2>1, <2>4 DEF ReactorIInv, RequestedWaiting, RegisteredReported
    <3> QED
      BY <1>5, <2>4, <3>1
  <2> QED
    BY <2>2, <2>3, <2>4 DEF ReactorIInv, ReactorTypeOK
<1> QED
  BY <1>6, <1>7, <1>8, <1>9 DEF ReactorIInv

\* A new socket has no slot that waits, and nothing registered.
LEMMA AddSockInv ==
  ASSUME ReactorIInv, NEW s \in Socks, AddSock(s)
  PROVE  ReactorIInv'
<1>1. ReactorTypeOK'
  BY ReactorAssumption DEF ReactorIInv, ReactorTypeOK, Infos, Dispatching, AddSock,
       Dispatched, Events
<1>2. InfosApart'
  <2>1. infoOf' = [infoOf EXCEPT ![s] = infos + 1] /\ infos' = infos + 1 /\ UNCHANGED <<waiting, registered>>
    BY DEF AddSock
  <2>2. \A t \in Socks : infoOf'[t] = IF t = s THEN infos + 1 ELSE infoOf[t]
    BY <2>1 DEF ReactorIInv, ReactorTypeOK
  <2>3. /\ \A t \in Socks : infoOf[t] # NoSock => infoOf[t] \in Nat /\ infoOf[t] <= infos
        /\ infos \in Nat /\ \A i \in Infos : i \in Nat
    BY DEF ReactorIInv, ReactorTypeOK, InfosApart, Infos
  <2>4. /\ \A t \in Socks : infoOf'[t] # NoSock => infoOf'[t] <= infos'
        /\ \A i \in Infos : i > infos' => waiting'[i] = {} /\ registered'[i] = {}
    BY <2>1, <2>2, <2>3 DEF ReactorIInv, InfosApart
  <2>5. ASSUME NEW t \in Socks, NEW u \in Socks, infoOf'[t] # NoSock, infoOf'[t] = infoOf'[u]
        PROVE  t = u
    BY <2>2, <2>3, <2>5 DEF ReactorIInv, InfosApart
  <2> QED
    BY <2>4, <2>5 DEF InfosApart
<1>3. Dispatching'
  BY ReactorAssumption DEF ReactorIInv, ReactorTypeOK, Infos, Dispatching, InfosApart,
       AddSock, Dispatched, Events
<1>4. RequestedWaiting'
  BY ReactorAssumption DEF ReactorIInv, ReactorTypeOK, Infos, RequestedWaiting,
       Dispatching, InfosApart, AddSock
<1>5. RegisteredReported'
  BY ReactorAssumption DEF ReactorIInv, ReactorTypeOK, Infos, RegisteredReported,
       Dispatching, InfosApart, AddSock
<1>6. WaitingReported'
  BY ReactorAssumption DEF ReactorIInv, ReactorTypeOK, Infos, WaitingReported,
       RequestedWaiting, RegisteredReported, Dispatching, InfosApart, AddSock
<1> QED
  BY <1>1, <1>2, <1>3, <1>4, <1>5, <1>6 DEF ReactorIInv

\* The other sockets keep their infos and what is reported for them.
LEMMA RemoveSockInv ==
  ASSUME ReactorIInv, NEW s \in Socks, RemoveSock(s)
  PROVE  ReactorIInv'
<1>1. ReactorTypeOK'
  BY ReactorAssumption DEF ReactorIInv, ReactorTypeOK, Infos, Dispatching, RemoveSock,
       Dispatched, Events
<1>2. InfosApart'
  BY ReactorAssumption DEF ReactorIInv, ReactorTypeOK, Infos, InfosApart, Dispatching,
       RemoveSock
<1>3. Dispatching'
  BY ReactorAssumption DEF ReactorIInv, ReactorTypeOK, Infos, Dispatching, InfosApart,
       RemoveSock, Dispatched, Events
<1>4. RequestedWaiting'
  BY ReactorAssumption DEF ReactorIInv, ReactorTypeOK, Infos, RequestedWaiting,
       Dispatching, InfosApart, RemoveSock
<1>5. RegisteredReported'
  BY ReactorAssumption DEF ReactorIInv, ReactorTypeOK, Infos, RegisteredReported,
       Dispatching, InfosApart, RemoveSock
<1>6. WaitingReported'
  BY ReactorAssumption DEF ReactorIInv, ReactorTypeOK, Infos, WaitingReported,
       RequestedWaiting, RegisteredReported, Dispatching, InfosApart, RemoveSock
<1> QED
  BY <1>1, <1>2, <1>3, <1>4, <1>5, <1>6 DEF ReactorIInv

\* What is asked for is registered at once, or is already, or the loop will register it.
LEMMA AskForInv ==
  ASSUME ReactorIInv, NEW s \in Socks, NEW e \in Events, AskFor(s, e)
  PROVE  ReactorIInv'
<1>1. infoOf[s] \in Infos /\ infoOf[s] # NoSock
  BY DEF ReactorIInv, ReactorTypeOK, AskFor
<1>2. PICK i \in Infos : i = infoOf[s]
  BY <1>1
<1>3. /\ i \in Infos /\ i # NoSock /\ i <= infos /\ requested[i] \cup {e} \in SUBSET Events
      /\ \A t \in Socks : infoOf[t] = i <=> t = s
      /\ waiting' = [waiting EXCEPT ![i] = @ \cup {e}]
      /\ requested' = [requested EXCEPT ![i] = @ \cup {e}]
      /\ UNCHANGED <<reactor, infoOf, infos, ready, dispatching, stopAsked, pipe, loop>>
  BY <1>1, <1>2 DEF ReactorIInv, ReactorTypeOK, InfosApart, AskFor
<1>4. /\ waiting' \in [Infos -> SUBSET Events] /\ waiting'[i] = waiting[i] \cup {e}
      /\ \A j \in Infos : j # i => waiting'[j] = waiting[j]
      /\ requested' \in [Infos -> SUBSET Events] /\ requested'[i] = requested[i] \cup {e}
      /\ \A j \in Infos : j # i => requested'[j] = requested[j]
  BY <1>3 DEF ReactorIInv, ReactorTypeOK
<1>5. /\ registered' \in [Infos -> SUBSET Events] /\ kernel' \in [Socks -> SUBSET Events]
      /\ \A j \in Infos : j # i => registered'[j] = registered[j]
      /\ \A t \in Socks : t # s => kernel'[t] = kernel[t]
      /\ spoiled \subseteq spoiled'
      /\ reactor = "epoll" =>
           /\ registered'[i] = requested[i] \cup {e}
           /\ \/ kernel'[s] = requested[i] \cup {e}
              \/ requested[i] \cup {e} = registered[i] /\ kernel'[s] = kernel[s]
      /\ reactor = "gmain" => kernel'[s] = kernel[s] \cup {e}
  <2>1. CASE reactor = "epoll"
    <3>1. PICK want \in SUBSET Events : want = requested[i] \cup {e}
      BY <1>3
    <3>2. UpdateSock(s, i, want, registered[i])
      BY <1>2, <2>1, <3>1 DEF AskFor
    <3> QED
      BY <1>3, <1>2, <2>1, <3>1, <3>2, UpdateSockDoes DEF ReactorIInv
  <2>2. CASE reactor = "gmain"
    BY <1>2, <1>3, <2>2 DEF AskFor, ReactorIInv, ReactorTypeOK
  <2> QED
    BY <2>1, <2>2 DEF ReactorIInv, ReactorTypeOK
<1>6. ReactorTypeOK' /\ InfosApart' /\ Dispatching'
  BY <1>3, <1>4, <1>5 DEF ReactorIInv, ReactorTypeOK, InfosApart, Dispatching, Infos
<1>7. RequestedWaiting'
  BY <1>3, <1>4 DEF ReactorIInv, RequestedWaiting
<1>8. ASSUME NEW t \in Socks, infoOf[t] # NoSock, infoOf[t] \notin spoiled', t # s
      PROVE  /\ infoOf[t] \in Infos /\ infoOf[t] # i /\ infoOf[t] \notin spoiled
             /\ kernel'[t] = kernel[t] /\ waiting'[infoOf[t]] = waiting[infoOf[t]]
             /\ registered'[infoOf[t]] = registered[infoOf[t]]
  BY <1>2, <1>3, <1>4, <1>5, <1>8 DEF ReactorIInv, ReactorTypeOK
<1>9. RegisteredReported'
  <2> SUFFICES ASSUME NEW t \in Socks, infoOf[t] # NoSock, infoOf[t] \notin spoiled', reactor = "epoll",
                      ~(loop = "event" /\ dispatching.sock = t)
               PROVE  registered'[infoOf[t]] \subseteq kernel'[t]
    BY <1>3 DEF RegisteredReported
  <2>1. CASE t = s
    BY <1>2, <1>3, <1>5, <2>1 DEF ReactorIInv, RegisteredReported
  <2>2. CASE t # s
    BY <1>8, <2>2 DEF ReactorIInv, RegisteredReported
  <2> QED
    BY <2>1, <2>2
<1>10. WaitingReported'
  <2> SUFFICES ASSUME NEW t \in Socks, infoOf[t] # NoSock, infoOf[t] \notin spoiled',
                      ~(reactor = "epoll" /\ loop = "event" /\ dispatching.sock = t),
                      ~(reactor = "epoll" /\ Firing(infoOf[t]))
               PROVE  \/ waiting'[infoOf[t]] \subseteq kernel'[t]
                      \/ Firing(infoOf[t]) /\ waiting'[infoOf[t]] \subseteq kernel'[t] \cup dispatching.events
    BY <1>3 DEF WaitingReported
  <2>1. CASE t # s
    BY <1>8, <2>1 DEF ReactorIInv, WaitingReported
  <2>2. CASE t = s /\ reactor = "gmain"
    BY <1>2, <1>3, <1>4, <1>5, <2>2 DEF ReactorIInv, WaitingReported
  <2>3. CASE t = s /\ reactor = "epoll"
    <3>1. waiting[i] \subseteq requested[i] /\ registered[i] \subseteq kernel[s] /\ waiting[i] \subseteq kernel[s]
      BY <1>2, <1>3, <1>5, <2>3 DEF ReactorIInv, RequestedWaiting, RegisteredReported, WaitingReported
    <3> QED
      BY <1>2, <1>4, <1>5, <2>3, <3>1
  <2> QED
    BY <2>1, <2>2, <2>3 DEF ReactorIInv, ReactorTypeOK
<1> QED
  BY <1>6, <1>7, <1>9, <1>10 DEF ReactorIInv

\* What can be read or written is no concern of those who wait.
LEMMA ChangesInv ==
  ASSUME ReactorIInv, NEW s \in Socks, NEW e \in Events, Changes(s, e)
  PROVE  ReactorIInv'
<1>1. ReactorTypeOK' /\ InfosApart' /\ Dispatching'
  BY DEF ReactorIInv, ReactorTypeOK, Dispatched, InfosApart,
       Dispatching, Changes
<1>2. RequestedWaiting' /\ RegisteredReported' /\ WaitingReported'
  BY DEF ReactorIInv, RequestedWaiting, RegisteredReported,
       WaitingReported, Changes
<1> QED
  BY <1>1, <1>2 DEF ReactorIInv

\* Every step of the loop and of those who use it keeps the invariant.
LEMMA ReactorStep == ReactorIInv /\ [ReactorNext]_reactorVars => ReactorIInv'
<1> SUFFICES ASSUME ReactorIInv, [ReactorNext]_reactorVars PROVE ReactorIInv'
  OBVIOUS
<1>1. CASE Run \/ StopLoop \/ Loop
  BY <1>1, RunInv, StopLoopInv, CheckStopInv, WakeInv, PollInv, BeginDispatchInv, FireSockInv,
     EndDispatchInv DEF Loop
<1>2. ASSUME NEW s \in Socks, AddSock(s) \/ RemoveSock(s) \/ \E e \in Events : AskFor(s, e) \/ Changes(s, e)
      PROVE  ReactorIInv'
  BY <1>2, AddSockInv, RemoveSockInv, AskForInv, ChangesInv
<1>3. CASE UNCHANGED reactorVars
  BY <1>3 DEF reactorVars, ReactorIInv, ReactorTypeOK, InfosApart, Dispatching, RequestedWaiting,
       RegisteredReported, WaitingReported
<1> QED
  BY <1>1, <1>2, <1>3 DEF ReactorNext

\* Whoever waits for an event of a socket is told of it, for any number of sockets added,
\* removed and asked for while the loop has an event in hand (MojEpollReactor, MojGmainReactor).
THEOREM WaitersAreRegistered == ReactorInit /\ [][ReactorNext]_reactorVars => []WaitersRegistered
<1>1. ReactorInit => ReactorIInv
  BY DEF ReactorInit, ReactorIInv, ReactorTypeOK, InfosApart, Dispatching, RequestedWaiting,
       RegisteredReported, WaitingReported
<1>2. ReactorIInv => WaitersRegistered
  <2> SUFFICES ASSUME ReactorIInv, NEW s \in Socks, infoOf[s] # NoSock, infoOf[s] \notin spoiled,
                      NEW e \in waiting[infoOf[s]]
               PROVE  \/ e \in kernel[s]
                      \/ dispatching # NoSock /\ dispatching.sock = s
                           /\ (e \in dispatching.events \/ e \in requested[infoOf[s]])
    BY DEF WaitersRegistered
  <2>1. infoOf[s] \in Infos
    BY DEF ReactorIInv, ReactorTypeOK
  <2>2. e \in requested[infoOf[s]] \/ (Firing(infoOf[s]) /\ e \in dispatching.events)
    BY <2>1 DEF ReactorIInv, RequestedWaiting
  <2>3. Firing(infoOf[s]) => dispatching # NoSock /\ dispatching.sock = s
    BY DEF ReactorIInv, Dispatching
  <2>4. loop = "event" => dispatching # NoSock
    BY DEF ReactorIInv, Dispatching
  <2> QED
    BY <2>2, <2>3, <2>4 DEF ReactorIInv, WaitingReported
<1> QED
  BY <1>1, <1>2, ReactorStep, PTL
-----------------------------------------------------------------------------
(* MojSignal: whose list a slot is in. *)

SignalTypeOK ==
  /\ m_slots \in Seq(Slots) /\ m_connected \in SUBSET Slots /\ leftover \in SUBSET Slots
  /\ handlerRefs \in [Slots -> Int]
  /\ sigOp \in [SigThreads -> {"idle", "fire", "call", "cancel"}]
  /\ sigList \in [SigThreads -> Seq(Slots)]
  /\ sigSlot \in [SigThreads -> Slots \cup {NoSlot}]
  /\ connects \in [Slots -> Nat] /\ fires \in [Slots -> Nat] /\ cancels \in [Slots -> Nat]

\* A thread has a list only while it invokes its slots, and a slot while it is at work.
ListOfCall ==
  \A t \in SigThreads :
    /\ sigOp[t] \in {"idle", "cancel"} => sigList[t] = <<>>
    /\ sigOp[t] # "idle" => sigSlot[t] \in Slots

\* The lists share no slot and have none twice.
ListsApart ==
  /\ Distinct(m_slots) /\ \A t \in SigThreads : Distinct(sigList[t])
  /\ \A t \in SigThreads : SlotsOf(m_slots) \cap SlotsOf(sigList[t]) = {}
  /\ \A t, u \in SigThreads : t # u => SlotsOf(sigList[t]) \cap SlotsOf(sigList[u]) = {}

Listed(s) == s \in SlotsOf(m_slots) \/ \E t \in SigThreads : s \in SlotsOf(sigList[t])

\* The slots with the flag are those in a list and those a failing handler left.
ConnectedListed ==
  \A s \in Slots :
    /\ s \in m_connected <=> Listed(s) \/ s \in leftover
    /\ s \in leftover => ~Listed(s)

SignalIInv ==
  SignalTypeOK /\ ListOfCall /\ ListsApart /\ ConnectedListed /\ EndedOnce /\ Referenced

\* pushBack() and popFront() in terms of the slots of a list.
LEMMA SlotsAppended ==
  ASSUME NEW list \in Seq(Slots), NEW s \in Slots, Distinct(list), s \notin SlotsOf(list)
  PROVE  /\ Append(list, s) \in Seq(Slots) /\ Distinct(Append(list, s))
         /\ SlotsOf(Append(list, s)) = SlotsOf(list) \cup {s}
<1>1. \A l : SlotsOf(l) = Elements(l)
  BY DEF SlotsOf, Elements
<1> QED
  BY <1>1, AppendElements, AppendDistinct

LEMMA SlotsTail ==
  ASSUME NEW list \in Seq(Slots), Distinct(list), list # <<>>
  PROVE  /\ Head(list) \in Slots /\ Tail(list) \in Seq(Slots) /\ Distinct(Tail(list))
         /\ Head(list) \notin SlotsOf(Tail(list)) /\ SlotsOf(list) = {Head(list)} \cup SlotsOf(Tail(list))
  BY TailElements, TailDistinct DEF SlotsOf, Elements

LEMMA NoSlots == SlotsOf(<<>>) = {} /\ Distinct(<<>>)
  BY DEF SlotsOf, Distinct

\* erase() takes the slot out and nothing else.
LEMMA WithoutErases ==
  ASSUME NEW list \in Seq(Slots), NEW s \in SlotsOf(list), Distinct(list)
  PROVE  /\ Without(list, s) \in Seq(Slots) /\ Distinct(Without(list, s))
         /\ SlotsOf(Without(list, s)) = SlotsOf(list) \ {s}
<1> DEFINE at == CHOOSE i \in DOMAIN list : list[i] = s
           rest == Without(list, s)
<1>1. /\ Len(list) \in Nat /\ DOMAIN list = 1..Len(list)
      /\ at \in 1..Len(list) /\ list[at] = s /\ Len(list) - 1 \in Nat
  BY DEF SlotsOf
<1>2. rest = [i \in 1..(Len(list) - 1) |-> list[IF i < at THEN i ELSE i + 1]]
  BY DEF Without
<1>3. \A i \in 1..Len(list) : i # at => list[i] # s
  BY <1>1 DEF Distinct
<1> HIDE DEF at, rest
<1>4. \A i \in 1..(Len(list) - 1) : (IF i < at THEN i ELSE i + 1) \in (1..Len(list)) \ {at}
  BY <1>1
<1>5. rest \in Seq(Slots) /\ DOMAIN rest = 1..(Len(list) - 1)
  <2>1. rest \in [1..(Len(list) - 1) -> Slots]
    BY <1>1, <1>2, <1>4
  <2> QED
    BY <1>1, <2>1
<1>6. Distinct(rest)
  <2> SUFFICES ASSUME NEW i \in 1..(Len(list) - 1), NEW j \in 1..(Len(list) - 1), rest[i] = rest[j]
               PROVE  i = j
    BY <1>5 DEF Distinct
  <2>1. (IF i < at THEN i ELSE i + 1) = (IF j < at THEN j ELSE j + 1)
    BY <1>1, <1>2, <1>4 DEF Distinct
  <2> QED
    BY <1>1, <2>1
<1>7. SlotsOf(rest) \subseteq SlotsOf(list) \ {s}
  BY <1>1, <1>2, <1>3, <1>4, <1>5 DEF SlotsOf
<1>8. SlotsOf(list) \ {s} \subseteq SlotsOf(rest)
  <2> SUFFICES ASSUME NEW i \in 1..Len(list), list[i] # s
               PROVE  \E j \in 1..(Len(list) - 1) : rest[j] = list[i]
    BY <1>1, <1>5 DEF SlotsOf
  <2>1. CASE i < at
    BY <1>1, <1>2, <2>1
  <2>2. CASE i > at
    <3>1. i - 1 \in 1..(Len(list) - 1) /\ ~(i - 1 < at) /\ (i - 1) + 1 = i
      BY <1>1, <2>2
    <3> QED
      BY <1>2, <3>1
  <2> QED
    BY <1>1, <2>1, <2>2
<1> QED
  BY <1>5, <1>6, <1>7, <1>8 DEF rest

\* The next slot of a list a thread has taken moves to the signal's list, or to none: no
\* slot is lost or doubled.
LEMMA PopLists ==
  ASSUME SignalTypeOK, ListsApart,
         NEW t \in SigThreads, NEW op \in {"fire", "call"}, NEW list \in Seq(Slots), NEW slots \in Seq(Slots),
         Distinct(list), Distinct(slots), SlotsOf(list) \cap SlotsOf(slots) = {},
         \A u \in SigThreads : u # t => SlotsOf(sigList[u]) \cap (SlotsOf(list) \cup SlotsOf(slots)) = {},
         \A s \in Slots :
           LET others == s \in SlotsOf(list) \/ s \in SlotsOf(slots)
                           \/ \E u \in SigThreads : u # t /\ s \in SlotsOf(sigList[u])
           IN  (s \in m_connected <=> (others \/ s \in leftover')) /\ (s \in leftover' => ~others),
         leftover' \in SUBSET Slots, Pop(t, op, list, slots)
  PROVE  ListsApart' /\ ConnectedListed'
<1>1. \A u \in SigThreads : u # t => sigList'[u] = sigList[u]
  BY DEF Pop, SignalTypeOK
<1>2. CASE list = <<>>
  <2>1. m_slots' = slots /\ sigList'[t] = <<>> /\ m_connected' = m_connected
    BY <1>2 DEF Pop, SignalTypeOK
  <2>2. SlotsOf(sigList'[t]) = {} /\ SlotsOf(list) = {} /\ Distinct(sigList'[t])
    BY <1>2, <2>1, NoSlots
  <2>3. ListsApart'
    BY <1>1, <2>1, <2>2 DEF ListsApart
  <2>4. ConnectedListed'
    BY <1>1, <2>1, <2>2 DEF ConnectedListed, Listed
  <2> QED
    BY <2>3, <2>4
<1>3. CASE list # <<>>
  <2> DEFINE s == Head(list)
  <2>1. /\ s \in Slots /\ Tail(list) \in Seq(Slots) /\ Distinct(Tail(list)) /\ s \notin SlotsOf(Tail(list))
        /\ SlotsOf(list) = {s} \cup SlotsOf(Tail(list)) /\ s \notin SlotsOf(slots)
        /\ \A u \in SigThreads : u # t => s \notin SlotsOf(sigList[u])
    BY <1>3, SlotsTail
  <2>2. sigList'[t] = Tail(list)
    BY <1>3 DEF Pop, SignalTypeOK
  <2>3. CASE op = "fire"
    <3>1. m_slots' = slots /\ m_connected' = m_connected \ {s}
      BY <1>3, <2>3 DEF Pop
    <3> HIDE DEF s
    <3>2. ListsApart'
      BY <1>1, <2>1, <2>2, <3>1 DEF ListsApart
    <3>3. ConnectedListed'
      BY <1>1, <2>1, <2>2, <3>1 DEF ConnectedListed, Listed
    <3> QED
      BY <3>2, <3>3
  <2>4. CASE op = "call"
    <3>1. m_slots' = Append(slots, s) /\ m_connected' = m_connected
      BY <1>3, <2>4 DEF Pop
    <3>2. SlotsOf(m_slots') = SlotsOf(slots) \cup {s} /\ Distinct(m_slots')
      BY <2>1, <3>1, SlotsAppended
    <3> HIDE DEF s
    <3>3. ListsApart'
      <4>1. /\ Distinct(m_slots') /\ \A u \in SigThreads : Distinct(sigList'[u])
            /\ \A u, v \in SigThreads : u # v => SlotsOf(sigList'[u]) \cap SlotsOf(sigList'[v]) = {}
        BY <1>1, <2>1, <2>2, <3>2 DEF ListsApart
      <4>2. ASSUME NEW u \in SigThreads
            PROVE  SlotsOf(m_slots') \cap SlotsOf(sigList'[u]) = {}
        BY <1>1, <2>1, <2>2, <3>2
      <4> QED
        BY <4>1, <4>2 DEF ListsApart
    <3>4. ConnectedListed'
      BY <1>1, <2>1, <2>2, <3>1, <3>2 DEF ConnectedListed, Listed
    <3> QED
      BY <3>3, <3>4
  <2> QED
    BY <2>3, <2>4
<1> QED
  BY <1>2, <1>3

\* A slot is disconnected as it is invoked: its connect is ended once.
LEMMA PopEnds ==
  ASSUME SignalTypeOK, EndedOnce,
         NEW t \in SigThreads, NEW op \in {"fire", "call"}, NEW list \in Seq(Slots), NEW slots,
         SlotsOf(list) \subseteq m_connected, UNCHANGED <<connects, cancels>>,
         Pop(t, op, list, slots)
  PROVE  fires' \in [Slots -> Nat] /\ m_connected' \in SUBSET Slots /\ EndedOnce'
<1>1. CASE list = <<>> \/ op = "call"
  <2>1. UNCHANGED <<m_connected, fires>>
    BY <1>1 DEF Pop
  <2> QED
    BY <2>1 DEF SignalTypeOK, EndedOnce
<1>2. CASE list # <<>> /\ op = "fire"
  <2>1. PICK h \in Slots : h = Head(list) /\ h \in m_connected
    BY <1>2 DEF SlotsOf
  <2>2. m_connected' = m_connected \ {h} /\ fires' = [fires EXCEPT ![h] = @ + 1]
    BY <1>2, <2>1 DEF Pop
  <2>3. fires' \in [Slots -> Nat] /\ \A s \in Slots : fires'[s] = IF s = h THEN fires[s] + 1 ELSE fires[s]
    BY <2>2 DEF SignalTypeOK
  <2>4. ASSUME NEW s \in Slots
        PROVE  connects[s] = fires'[s] + cancels[s] + (IF s \in m_connected' THEN 1 ELSE 0)
    <3>1. /\ connects[s] = fires[s] + cancels[s] + (IF s \in m_connected THEN 1 ELSE 0)
          /\ fires[s] \in Nat /\ cancels[s] \in Nat
      BY DEF SignalTypeOK, EndedOnce
    <3> QED
      BY <2>1, <2>2, <2>3, <3>1
  <2> QED
    BY <2>2, <2>3, <2>4 DEF SignalTypeOK, EndedOnce
<1> QED
  BY <1>1, <1>2

\* The threads in a handler are finitely many, and counted.
LEMMA InvokingFinite ==
  ASSUME NEW s
  PROVE  IsFiniteSet(Invoking(s)) /\ Cardinality(Invoking(s)) \in Nat
<1>1. Invoking(s) \subseteq SigThreads
  BY DEF Invoking
<1> QED
  BY <1>1, SignalAssumption, FS_Subset, FS_CardinalityType

\* A thread that moves on to another slot is counted for that one.
LEMMA InvokingMoves ==
  ASSUME SignalTypeOK, NEW s, NEW t \in SigThreads, NEW o, NEW n,
         sigOp' = [sigOp EXCEPT ![t] = o], sigSlot' = [sigSlot EXCEPT ![t] = n]
  PROVE  LET was == sigSlot[t] = s /\ sigOp[t] \in {"fire", "call"}
             is  == n = s /\ o \in {"fire", "call"}
         IN  Cardinality(Invoking(s)') = Cardinality(Invoking(s)) - (IF was THEN 1 ELSE 0) + (IF is THEN 1 ELSE 0)
<1> DEFINE was == sigSlot[t] = s /\ sigOp[t] \in {"fire", "call"}
           is  == n = s /\ o \in {"fire", "call"}
           others == Invoking(s) \ {t}
<1>1. Invoking(s) = IF was THEN others \cup {t} ELSE others
  BY DEF Invoking
<1>2. Invoking(s)' = IF is THEN others \cup {t} ELSE others
  BY DEF Invoking, SignalTypeOK
<1>3. IsFiniteSet(others) /\ Cardinality(others) \in Nat /\ t \notin others
  BY InvokingFinite, FS_RemoveElement, FS_CardinalityType
<1>4. Cardinality(others \cup {t}) = Cardinality(others) + 1
  BY <1>3, FS_AddElement
<1> HIDE DEF was, is, others
<1>5. /\ Cardinality(Invoking(s)) = Cardinality(others) + (IF was THEN 1 ELSE 0)
      /\ Cardinality(Invoking(s)') = Cardinality(others) + (IF is THEN 1 ELSE 0)
  BY <1>1, <1>2, <1>3, <1>4
<1>6. Cardinality(Invoking(s)') = Cardinality(Invoking(s)) - (IF was THEN 1 ELSE 0) + (IF is THEN 1 ELSE 0)
  BY <1>3, <1>5
<1> QED
  BY <1>6 DEF was, is

\* The reference for the slot just done goes, and the one for the next slot comes with the
\* thread: from the signal when it fires, in addition to the signal's when it calls.
LEMMA PopRefers ==
  ASSUME SignalTypeOK, Referenced,
         NEW t \in SigThreads, NEW op \in {"fire", "call"}, NEW list \in Seq(Slots), NEW slots,
         NEW done, done = IF sigOp[t] \in {"fire", "call"} THEN sigSlot[t] ELSE NoSlot,
         SlotsOf(list) \subseteq m_connected,
         Pop(t, op, list, slots), handlerRefs' = PopRefs(done, op, list)
  PROVE  handlerRefs' \in [Slots -> Int] /\ Referenced'
<1>1. handlerRefs' \in [Slots -> Int]
  <2>1. \A s \in Slots : handlerRefs[s] \in Int
    BY DEF SignalTypeOK
  <2>2. \A s \in Slots, x, y \in {0, 1} : handlerRefs[s] - x + y \in Int
    BY <2>1
  <2> QED
    BY <2>2, Zenon DEF PopRefs
<1>2. ASSUME NEW s \in Slots
      PROVE  handlerRefs'[s] = Cardinality(Invoking(s)') + (IF s \in m_connected' THEN 1 ELSE 0)
  <2> DEFINE was == sigSlot[t] = s /\ sigOp[t] \in {"fire", "call"}
             is == list # <<>> /\ s = Head(list)
  <2>1. /\ handlerRefs[s] = Cardinality(Invoking(s)) + (IF s \in m_connected THEN 1 ELSE 0)
        /\ Cardinality(Invoking(s)) \in Nat
    BY InvokingFinite DEF Referenced
  <2>2. s = done <=> was
    BY SignalAssumption
  <2>3. handlerRefs'[s] = handlerRefs[s] - (IF was THEN 1 ELSE 0) + (IF is /\ op = "call" THEN 1 ELSE 0)
    BY <2>2 DEF PopRefs
  <2>4. Cardinality(Invoking(s)') = Cardinality(Invoking(s)) - (IF was THEN 1 ELSE 0) + (IF is THEN 1 ELSE 0)
    <3>1. CASE list = <<>>
      <4>1. sigOp' = [sigOp EXCEPT ![t] = "idle"] /\ sigSlot' = [sigSlot EXCEPT ![t] = NoSlot]
        BY <3>1 DEF Pop
      <4> QED
        BY <3>1, <4>1, InvokingMoves
    <3>2. CASE list # <<>>
      <4>1. PICK h : h = Head(list)
        OBVIOUS
      <4>2. sigOp' = [sigOp EXCEPT ![t] = op] /\ sigSlot' = [sigSlot EXCEPT ![t] = h]
        BY <3>2, <4>1 DEF Pop
      <4>3. is <=> (h = s /\ op \in {"fire", "call"})
        BY <3>2, <4>1
      <4> HIDE DEF is
      <4> QED
        BY <4>2, <4>3, InvokingMoves
    <3> QED
      BY <3>1, <3>2
  <2>5. s \in m_connected' <=> s \in m_connected /\ ~(is /\ op = "fire")
    BY DEF Pop
  <2>6. is => s \in m_connected
    BY DEF SlotsOf
  <2>7. handlerRefs[s] \in Int
    BY DEF SignalTypeOK
  <2> HIDE DEF was, is
  <2>8. CASE is
    BY <2>1, <2>3, <2>4, <2>5, <2>6, <2>7, <2>8
  <2>9. CASE ~is
    BY <2>1, <2>3, <2>4, <2>5, <2>7, <2>9
  <2> QED
    BY <2>8, <2>9
<1> QED
  BY <1>1, <1>2 DEF Referenced

\* connect() appends a slot that is in no list.
LEMMA ConnectInv ==
  ASSUME SignalIInv, NEW s \in Slots, Connect(s)
  PROVE  SignalIInv'
<1>1. /\ s \notin m_connected /\ connects' = [connects EXCEPT ![s] = @ + 1]
      /\ m_connected' = m_connected \cup {s} /\ m_slots' = Append(m_slots, s)
      /\ handlerRefs' = [handlerRefs EXCEPT ![s] = @ + 1]
      /\ UNCHANGED <<sigOp, sigList, sigSlot, leftover, fires, cancels, sigAsserted>>
  BY DEF Connect, Retain
<1>2. s \notin leftover /\ ~Listed(s)
  BY <1>1 DEF SignalIInv, ConnectedListed
<1>3. m_slots' \in Seq(Slots) /\ Distinct(m_slots') /\ SlotsOf(m_slots') = SlotsOf(m_slots) \cup {s}
  BY <1>1, <1>2, SlotsAppended DEF SignalIInv, SignalTypeOK, ListsApart, Listed
<1>4. SignalTypeOK' /\ ListOfCall'
  BY <1>1, <1>3 DEF SignalIInv, SignalTypeOK, ListOfCall
<1>5. ListsApart'
  BY <1>1, <1>2, <1>3 DEF SignalIInv, ListsApart, Listed
<1>6. ConnectedListed'
  BY <1>1, <1>2, <1>3 DEF SignalIInv, ConnectedListed, Listed
<1>7. EndedOnce'
  BY <1>1 DEF SignalIInv, SignalTypeOK, EndedOnce
<1>8. Referenced'
  <2> SUFFICES ASSUME NEW r \in Slots
               PROVE  handlerRefs'[r] = Cardinality(Invoking(r)') + (IF r \in m_connected' THEN 1 ELSE 0)
    BY DEF Referenced
  <2>1. Invoking(r)' = Invoking(r)
    BY <1>1 DEF Invoking
  <2>2. /\ handlerRefs[r] = Cardinality(Invoking(r)) + (IF r \in m_connected THEN 1 ELSE 0)
        /\ Cardinality(Invoking(r)) \in Nat
    BY InvokingFinite DEF SignalIInv, Referenced
  <2>3. handlerRefs'[r] = IF r = s THEN handlerRefs[r] + 1 ELSE handlerRefs[r]
    BY <1>1 DEF SignalIInv, SignalTypeOK
  <2> QED
    BY <1>1, <2>1, <2>2, <2>3
<1> QED
  BY <1>4, <1>5, <1>6, <1>7, <1>8 DEF SignalIInv

\* What the thread has afterwards: a list only while it invokes a slot.
LEMMA PopThread ==
  ASSUME SignalTypeOK, ListOfCall,
         NEW t \in SigThreads, NEW op \in {"fire", "call"}, NEW list \in Seq(Slots), NEW slots \in Seq(Slots),
         Pop(t, op, list, slots)
  PROVE  /\ m_slots' \in Seq(Slots) /\ sigOp' \in [SigThreads -> {"idle", "fire", "call", "cancel"}]
         /\ sigList' \in [SigThreads -> Seq(Slots)] /\ sigSlot' \in [SigThreads -> Slots \cup {NoSlot}]
         /\ ListOfCall'
<1>1. CASE list = <<>>
  BY <1>1 DEF Pop, SignalTypeOK, ListOfCall
<1>2. CASE list # <<>>
  <2>1. Head(list) \in Slots /\ Tail(list) \in Seq(Slots)
    BY <1>2
  <2>2. m_slots' = slots \/ m_slots' = Append(slots, Head(list))
    BY <1>2 DEF Pop
  <2>3. m_slots' \in Seq(Slots)
    BY <2>1, <2>2
  <2> QED
    BY <1>2, <2>1, <2>3 DEF Pop, SignalTypeOK, ListOfCall
<1> QED
  BY <1>1, <1>2

\* call() and fire() take the signal's list.
LEMMA TakeSlotsInv ==
  ASSUME SignalIInv, NEW t \in SigThreads, NEW op \in {"fire", "call"}, TakeSlots(t, op)
  PROVE  SignalIInv'
<1>1. PICK list \in Seq(Slots), slots \in Seq(Slots) : list = m_slots /\ slots = <<>>
  <2>1. m_slots \in Seq(Slots) /\ <<>> \in Seq(Slots)
    BY DEF SignalIInv, SignalTypeOK
  <2> QED
    BY <2>1
<1>2. /\ sigOp[t] = "idle" /\ Pop(t, op, list, slots) /\ handlerRefs' = PopRefs(NoSlot, op, list)
      /\ UNCHANGED <<leftover, connects, cancels, sigAsserted>>
  BY <1>1 DEF TakeSlots
<1>3. SignalTypeOK /\ ListOfCall /\ ListsApart /\ ConnectedListed /\ EndedOnce /\ Referenced
  BY DEF SignalIInv
<1>4. Distinct(list) /\ Distinct(slots) /\ SlotsOf(slots) = {}
  BY <1>1, NoSlots DEF SignalIInv, ListsApart
<1>5. SlotsOf(sigList[t]) = {}
  BY <1>2, NoSlots DEF SignalIInv, ListOfCall
<1>6. SlotsOf(list) \subseteq m_connected
  <2>1. SlotsOf(list) \subseteq Slots
    BY <1>1 DEF SlotsOf
  <2> QED
    BY <1>1, <1>3, <2>1 DEF ConnectedListed, Listed
<1>7. ListsApart' /\ ConnectedListed'
  <2>1. leftover' \in SUBSET Slots
    BY <1>2, <1>3 DEF SignalTypeOK
  <2>2. \A u \in SigThreads : u # t => SlotsOf(sigList[u]) \cap (SlotsOf(list) \cup SlotsOf(slots)) = {}
    BY <1>1, <1>3, <1>4 DEF ListsApart
  <2>3. \A s \in Slots :
          LET others == s \in SlotsOf(list) \/ s \in SlotsOf(slots)
                          \/ \E u \in SigThreads : u # t /\ s \in SlotsOf(sigList[u])
          IN  (s \in m_connected <=> (others \/ s \in leftover')) /\ (s \in leftover' => ~others)
    BY <1>1, <1>2, <1>3, <1>4, <1>5 DEF ConnectedListed, Listed
  <2> QED
    BY <1>2, <1>3, <1>4, <2>1, <2>2, <2>3, PopLists
<1>8. fires' \in [Slots -> Nat] /\ m_connected' \in SUBSET Slots /\ EndedOnce'
  BY <1>2, <1>3, <1>6, PopEnds
<1>9. handlerRefs' \in [Slots -> Int] /\ Referenced'
  BY <1>2, <1>3, <1>6, PopRefers
<1>10. SignalTypeOK' /\ ListOfCall'
  BY <1>2, <1>3, <1>8, <1>9, PopThread DEF SignalTypeOK
<1> QED
  BY <1>7, <1>8, <1>9, <1>10 DEF SignalIInv

\* The next slot of the call; a handler that fails leaves the rest of its list.
LEMMA InvokedInv ==
  ASSUME SignalIInv, NEW t \in SigThreads, NEW fails \in BOOLEAN, Invoked(t, fails)
  PROVE  SignalIInv'
<1>1. PICK list \in Seq(Slots), slots \in Seq(Slots), op \in {"fire", "call"}, done \in Slots :
        /\ list = (IF fails THEN <<>> ELSE sigList[t]) /\ slots = m_slots
        /\ op = sigOp[t] /\ done = sigSlot[t]
  <2>1. sigList[t] \in Seq(Slots) /\ sigOp[t] \in {"fire", "call"} /\ sigSlot[t] \in Slots /\ m_slots \in Seq(Slots)
    BY DEF Invoked, SignalIInv, SignalTypeOK, ListOfCall
  <2>2. (IF fails THEN <<>> ELSE sigList[t]) \in Seq(Slots)
    BY <2>1
  <2> QED
    BY <2>1, <2>2
<1>2. /\ Pop(t, op, list, slots) /\ handlerRefs' = PopRefs(done, op, list)
      /\ leftover' = leftover \cup (IF fails THEN SlotsOf(sigList[t]) ELSE {})
      /\ UNCHANGED <<connects, cancels, sigAsserted>>
  BY <1>1 DEF Invoked
<1>3. SignalTypeOK /\ ListOfCall /\ ListsApart /\ ConnectedListed /\ EndedOnce /\ Referenced
  BY DEF SignalIInv
<1>4. /\ Distinct(list) /\ Distinct(slots) /\ SlotsOf(list) \cap SlotsOf(slots) = {}
      /\ SlotsOf(list) \subseteq SlotsOf(sigList[t])
      /\ fails => SlotsOf(list) = {}
      /\ ~fails => list = sigList[t]
  BY <1>1, <1>3, NoSlots DEF ListsApart
<1>5. SlotsOf(sigList[t]) \subseteq Slots
  BY <1>3 DEF SlotsOf, SignalTypeOK
<1>6. SlotsOf(list) \subseteq m_connected
  BY <1>3, <1>4, <1>5 DEF ConnectedListed, Listed
<1>7. ListsApart' /\ ConnectedListed'
  <2>1. leftover' \in SUBSET Slots
    BY <1>2, <1>3, <1>5 DEF SignalTypeOK
  <2>2. \A u \in SigThreads : u # t => SlotsOf(sigList[u]) \cap (SlotsOf(list) \cup SlotsOf(slots)) = {}
    BY <1>1, <1>3, <1>4 DEF ListsApart
  <2>3. \A s \in Slots :
          LET others == s \in SlotsOf(list) \/ s \in SlotsOf(slots)
                          \/ \E u \in SigThreads : u # t /\ s \in SlotsOf(sigList[u])
          IN  (s \in m_connected <=> (others \/ s \in leftover')) /\ (s \in leftover' => ~others)
    <3> SUFFICES ASSUME NEW s \in Slots
                 PROVE  LET others == s \in SlotsOf(list) \/ s \in SlotsOf(slots)
                                        \/ \E u \in SigThreads : u # t /\ s \in SlotsOf(sigList[u])
                        IN  (s \in m_connected <=> (others \/ s \in leftover')) /\ (s \in leftover' => ~others)
      OBVIOUS
    <3>1. /\ s \in m_connected <=> (Listed(s) \/ s \in leftover)
          /\ s \in leftover => ~Listed(s)
      BY <1>3 DEF ConnectedListed
    <3>2. s \in SlotsOf(sigList[t]) => s \notin SlotsOf(slots) /\ \A u \in SigThreads : u # t => s \notin SlotsOf(sigList[u])
      BY <1>1, <1>3 DEF ListsApart
    <3>3. CASE fails
      BY <1>1, <1>2, <1>4, <3>1, <3>2, <3>3 DEF Listed
    <3>4. CASE ~fails
      BY <1>1, <1>2, <1>4, <3>1, <3>2, <3>4 DEF Listed
    <3> QED
      BY <3>3, <3>4
  <2> QED
    BY <1>2, <1>3, <1>4, <2>1, <2>2, <2>3, PopLists
<1>8. fires' \in [Slots -> Nat] /\ m_connected' \in SUBSET Slots /\ EndedOnce'
  BY <1>2, <1>3, <1>6, PopEnds
<1>9. handlerRefs' \in [Slots -> Int] /\ Referenced'
  BY <1>1, <1>2, <1>3, <1>6, PopRefers
<1>10. SignalTypeOK' /\ ListOfCall'
  BY <1>2, <1>3, <1>7, <1>8, <1>9, <1>5, PopThread DEF SignalTypeOK
<1> QED
  BY <1>7, <1>8, <1>9, <1>10 DEF SignalIInv

\* cancel() first looks only.
LEMMA CancelBeginInv ==
  ASSUME SignalIInv, NEW t \in SigThreads, NEW s \in Slots, CancelBegin(t, s)
  PROVE  SignalIInv'
<1>1. /\ sigOp[t] = "idle" /\ sigOp' = [sigOp EXCEPT ![t] = "cancel"] /\ sigSlot' = [sigSlot EXCEPT ![t] = s]
      /\ UNCHANGED <<m_slots, m_connected, handlerRefs, sigList, leftover, connects, fires, cancels>>
  BY DEF CancelBegin
<1>2. SignalTypeOK' /\ ListOfCall'
  BY <1>1 DEF SignalIInv, SignalTypeOK, ListOfCall
<1>3. ListsApart' /\ ConnectedListed' /\ EndedOnce'
  BY <1>1 DEF SignalIInv, ListsApart, ConnectedListed, Listed, EndedOnce
<1>4. \A r \in Slots : Invoking(r)' = Invoking(r)
  BY <1>1 DEF SignalIInv, SignalTypeOK, Invoking
<1>5. Referenced'
  BY <1>1, <1>4 DEF SignalIInv, Referenced
<1> QED
  BY <1>2, <1>3, <1>5 DEF SignalIInv

\* A slot that is still in the signal's list is erased and gives up its handler.
LEMMA CancelEndInv ==
  ASSUME SignalIInv, NEW t \in SigThreads, CancelEnd(t)
  PROVE  SignalIInv'
<1>1. PICK s \in Slots : s = sigSlot[t]
  BY DEF SignalIInv, ListOfCall, CancelEnd
<1>2. /\ sigOp[t] = "cancel" /\ sigOp' = [sigOp EXCEPT ![t] = "idle"] /\ sigSlot' = [sigSlot EXCEPT ![t] = NoSlot]
      /\ UNCHANGED <<sigList, leftover, connects, fires>>
  BY DEF CancelEnd
<1>3. \A r \in Slots : Invoking(r)' = Invoking(r)
  BY <1>2 DEF SignalIInv, SignalTypeOK, Invoking
<1>4. SignalTypeOK /\ ListOfCall /\ ListsApart /\ ConnectedListed /\ EndedOnce /\ Referenced
  BY DEF SignalIInv
<1>5. CASE ~(s \in m_connected /\ s \in SlotsOf(m_slots))
  <2>1. UNCHANGED <<m_slots, m_connected, cancels, handlerRefs>>
    BY <1>1, <1>5 DEF CancelEnd
  <2>2. SignalTypeOK' /\ ListOfCall'
    BY <1>2, <1>4, <2>1 DEF SignalTypeOK, ListOfCall
  <2>3. ListsApart' /\ ConnectedListed' /\ EndedOnce'
    BY <1>2, <1>4, <2>1 DEF ListsApart, ConnectedListed, Listed, EndedOnce
  <2>4. Referenced'
    BY <1>3, <1>4, <2>1 DEF Referenced
  <2> QED
    BY <2>2, <2>3, <2>4 DEF SignalIInv
<1>6. CASE s \in m_connected /\ s \in SlotsOf(m_slots)
  <2>1. /\ m_slots' = Without(m_slots, s) /\ m_connected' = m_connected \ {s}
        /\ cancels' = [cancels EXCEPT ![s] = @ + 1] /\ handlerRefs' = [handlerRefs EXCEPT ![s] = @ + (0 - 1)]
    BY <1>1, <1>6 DEF CancelEnd, Retain
  <2>2. m_slots' \in Seq(Slots) /\ Distinct(m_slots') /\ SlotsOf(m_slots') = SlotsOf(m_slots) \ {s}
    <3>1. m_slots \in Seq(Slots) /\ Distinct(m_slots)
      BY <1>4 DEF SignalTypeOK, ListsApart
    <3> QED
      BY <1>6, <2>1, <3>1, WithoutErases
  <2>3. SignalTypeOK' /\ ListOfCall'
    BY <1>2, <1>4, <2>1, <2>2 DEF SignalTypeOK, ListOfCall
  <2>4. ListsApart'
    BY <1>2, <1>4, <2>2 DEF ListsApart
  <2>5. ConnectedListed'
    <3>1. s \notin leftover /\ \A u \in SigThreads : s \notin SlotsOf(sigList[u])
      BY <1>4, <1>6 DEF ConnectedListed, Listed, ListsApart
    <3> QED
      BY <1>2, <1>4, <2>1, <2>2, <3>1 DEF ConnectedListed, Listed
  <2>6. EndedOnce'
    BY <1>2, <1>4, <1>6, <2>1 DEF SignalTypeOK, EndedOnce
  <2>7. Referenced'
    <3> SUFFICES ASSUME NEW r \in Slots
                 PROVE  handlerRefs'[r] = Cardinality(Invoking(r)) + (IF r \in m_connected' THEN 1 ELSE 0)
      BY <1>3 DEF Referenced
    <3>1. /\ handlerRefs[r] = Cardinality(Invoking(r)) + (IF r \in m_connected THEN 1 ELSE 0)
          /\ Cardinality(Invoking(r)) \in Nat
      BY <1>4, InvokingFinite DEF Referenced
    <3>2. handlerRefs'[r] = IF r = s THEN handlerRefs[r] - 1 ELSE handlerRefs[r]
      BY <1>4, <2>1 DEF SignalTypeOK
    <3> QED
      BY <1>6, <2>1, <3>1, <3>2
  <2> QED
    BY <2>3, <2>4, <2>5, <2>6, <2>7 DEF SignalIInv
<1> QED
  BY <1>5, <1>6

\* Every step on the signal keeps the invariant.
LEMMA SignalStep == SignalIInv /\ [SignalNext]_signalVars => SignalIInv'
<1> SUFFICES ASSUME SignalIInv, [SignalNext]_signalVars PROVE SignalIInv'
  OBVIOUS
<1>1. CASE SignalNext
  BY <1>1, ConnectInv, TakeSlotsInv, InvokedInv, CancelBeginInv, CancelEndInv DEF SignalNext
<1>2. CASE UNCHANGED signalVars
  <2>1. UNCHANGED <<m_slots, m_connected, handlerRefs, sigOp, sigList, sigSlot, leftover, connects, fires, cancels>>
    BY <1>2 DEF signalVars
  <2>2. \A r \in Slots : Invoking(r)' = Invoking(r)
    BY <2>1 DEF Invoking
  <2>3. SignalTypeOK' /\ ListOfCall' /\ ListsApart' /\ ConnectedListed' /\ EndedOnce'
    BY <2>1 DEF SignalIInv, SignalTypeOK, ListOfCall, ListsApart, ConnectedListed, Listed, EndedOnce
  <2>4. Referenced'
    BY <2>1, <2>2 DEF SignalIInv, Referenced
  <2> QED
    BY <2>3, <2>4 DEF SignalIInv
<1> QED
  BY <1>1, <1>2

\* A slot in a list is there once, and in one list only.
LEMMA OnePlaceOfInv == SignalIInv => OnePlace
<1> SUFFICES ASSUME SignalIInv, NEW s \in Slots
             PROVE  Cardinality(Places(s)) + (IF s \in leftover THEN 1 ELSE 0) = (IF s \in m_connected THEN 1 ELSE 0)
  BY DEF OnePlace
<1> DEFINE T == SigThreads \cup {NoSlot}
<1>1. /\ \A t \in T : Lists[t] = IF t = NoSlot THEN m_slots ELSE sigList[t]
      /\ \A t \in T : Distinct(Lists[t])
      /\ \A t, u \in T : t # u => SlotsOf(Lists[t]) \cap SlotsOf(Lists[u]) = {}
  <2>1. \A t \in T : Lists[t] = IF t = NoSlot THEN m_slots ELSE sigList[t]
    BY DEF Lists
  <2> QED
    BY <2>1, SignalAssumption DEF SignalIInv, ListsApart
<1>2. Listed(s) <=> \E t \in T : s \in SlotsOf(Lists[t])
  <2>1. Lists[NoSlot] = m_slots /\ \A t \in SigThreads : Lists[t] = sigList[t]
    BY <1>1, SignalAssumption
  <2> QED
    BY <2>1 DEF Listed
<1>3. \A t \in T : s \in SlotsOf(Lists[t]) <=> PlacesIn(t, s) # {}
  BY DEF SlotsOf, PlacesIn
<1>4. /\ s \in m_connected <=> Listed(s) \/ s \in leftover
      /\ s \in leftover => ~Listed(s)
  BY DEF SignalIInv, ConnectedListed
<1>5. CASE ~Listed(s)
  <2>1. \A t \in T : PlacesIn(t, s) = {}
    BY <1>2, <1>3, <1>5
  <2>2. Places(s) = {}
    BY <2>1 DEF Places
  <2> QED
    BY <1>4, <1>5, <2>2, FS_EmptySet
<1>6. CASE Listed(s)
  <2>1. PICK t \in T : s \in SlotsOf(Lists[t])
    BY <1>2, <1>6
  <2>2. PICK i : i \in PlacesIn(t, s)
    BY <1>3, <2>1
  <2>3. PlacesIn(t, s) = {i}
    BY <1>1, <2>2 DEF PlacesIn, Distinct
  <2>4. \A u \in T : u # t => PlacesIn(u, s) = {}
    BY <1>1, <1>3, <2>1
  <2>5. Places(s) = {<<t, i>>}
    <3>1. \A p \in Places(s) : p = <<t, i>>
      BY <2>3, <2>4 DEF Places
    <3>2. <<t, i>> \in Places(s)
      BY <2>2 DEF Places
    <3> QED
      BY <3>1, <3>2
  <2>6. Cardinality(Places(s)) = 1
    BY <2>5, FS_Singleton, Zenon
  <2> QED
    BY <1>4, <1>6, <2>6
<1> QED
  BY <1>5, <1>6

\* For any number of slots and threads: no connect of a slot is lost or invoked twice, and a
\* handler is kept while its slot is connected or a thread is in it (MojSignal, MojSlotBase).
THEOREM SignalsKept == SignalInit /\ [][SignalNext]_signalVars => []SignalKept
<1>1. SignalInit => SignalIInv
  <2> SUFFICES ASSUME SignalInit PROVE SignalIInv
    OBVIOUS
  <2>1. SignalTypeOK /\ ListOfCall /\ ListsApart /\ ConnectedListed
    BY NoSlots DEF SignalInit, SignalTypeOK, ListOfCall, ListsApart, ConnectedListed, Listed
  <2>2. EndedOnce
    BY DEF SignalInit, EndedOnce
  <2>3. Referenced
    <3>1. \A s \in Slots : Invoking(s) = {}
      BY DEF SignalInit, Invoking
    <3> QED
      BY <3>1, FS_EmptySet DEF SignalInit, Referenced
  <2> QED
    BY <2>1, <2>2, <2>3 DEF SignalIInv
<1>2. SignalIInv => SignalKept
  BY OnePlaceOfInv DEF SignalIInv, SignalKept
<1> QED
  BY <1>1, <1>2, SignalStep, PTL
=============================================================================
