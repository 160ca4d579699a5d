------------------------------ MODULE IdSupply ------------------------------
(***************************************************************************)
(* What MojDb::nextId promises its callers: a supply of revision numbers.  *)
(* Nothing is said here of pages, locks, disks or crashes.  A call records *)
(* the least number it may return; what it returns has never been returned *)
(* before, in this run of the server or in an earlier one, unless the      *)
(* supply is not durable: then the machine may forget the last of them.    *)
(***************************************************************************)
EXTENDS Integers

CONSTANTS Threads,  \* the threads that ask for numbers
          Idle      \* not a number: the thread has no call in progress

VARIABLES durable,  \* whether a failure of the machine forgets nothing
          issued,   \* the numbers returned so far and not forgotten
          call      \* per thread: Idle, or the least number its call may return

supplyVars == <<durable, issued, call>>

Init == /\ durable \in BOOLEAN
        /\ issued = {}
        /\ call = [t \in Threads |-> Idle]

\* A call starts: from now on it must return more than everything returned so far.
Begin(t) == /\ call[t] = Idle
            /\ call'[t] \in Nat
            /\ \A v \in issued : v < call'[t]
            /\ call' = [call EXCEPT ![t] = call'[t]]
            /\ UNCHANGED <<durable, issued>>

\* The call returns a number nobody has been given.
Issue(t) == /\ call[t] # Idle
            /\ \E v \in issued' \ issued : /\ call[t] <= v
                                           /\ issued' = issued \cup {v}
            /\ call' = [call EXCEPT ![t] = Idle]
            /\ UNCHANGED durable

\* Calls end without a number: an error, or a crash of the server.
Abandon == /\ \E S \in SUBSET Threads :
                call' = [t \in Threads |-> IF t \in S THEN Idle ELSE call[t]]
           /\ UNCHANGED <<durable, issued>>

\* The numbers from some point on are forgotten, and no call goes on.
SetBack == /\ ~durable
           /\ issued' \subseteq issued
           /\ \A v \in issued', w \in issued \ issued' : v < w
           /\ call' = [t \in Threads |-> Idle]
           /\ UNCHANGED durable

Next == \/ \E t \in Threads : Begin(t) \/ Issue(t)
        \/ Abandon \/ SetBack

Spec == Init /\ [][Next]_supplyVars
=============================================================================
