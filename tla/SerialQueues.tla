---------------------------- MODULE SerialQueues ----------------------------
(***************************************************************************)
(* What the dispatcher promises to the senders of messages: the messages of *)
(* one queue are handled one at a time and in the order they came, those of *)
(* different queues independently.                                          *)
(***************************************************************************)
EXTENDS Sequences

CONSTANTS Queues, Msgs, None

VARIABLES backlog,   \* per queue: the messages waiting, in order
          running,   \* per queue: the message being handled, or None
          came       \* the messages that were ever sent

avars == <<backlog, running, came>>

Init ==
  /\ backlog = [q \in Queues |-> <<>>]
  /\ running = [q \in Queues |-> None]
  /\ came = {}

Send(q, m) ==
  /\ m \notin came
  /\ backlog' = [backlog EXCEPT ![q] = Append(@, m)]
  /\ came' = came \cup {m}
  /\ UNCHANGED running

Start(q) ==
  /\ running[q] = None /\ backlog[q] # <<>>
  /\ running' = [running EXCEPT ![q] = Head(backlog[q])]
  /\ backlog' = [backlog EXCEPT ![q] = Tail(@)]
  /\ UNCHANGED came

Finish(q) ==
  /\ running[q] # None
  /\ running' = [running EXCEPT ![q] = None]
  /\ UNCHANGED <<backlog, came>>

Next == \E q \in Queues : Start(q) \/ Finish(q) \/ \E m \in Msgs : Send(q, m)

Spec == Init /\ [][Next]_avars

\* Every message waiting is handled, and no queue starves another.
FairSpec == Spec /\ \A q \in Queues : WF_avars(Start(q)) /\ WF_avars(Finish(q))
=============================================================================
