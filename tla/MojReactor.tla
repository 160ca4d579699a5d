------------------------------ MODULE MojReactor ------------------------------
(***************************************************************************)
(* The reactors.  A component asks to be told once when a socket can be     *)
(* read or written; the loop of the reactor, on one thread, waits for the    *)
(* events asked for and fires the signals of the socket.  Sockets are added, *)
(* removed and asked for on any thread, also by the handlers of the loop.    *)
(*                                                                         *)
(* MojEpollReactor registers events with EPOLLONESHOT: after an event the   *)
(* kernel reports none of the socket until it is registered again.           *)
(* MojGmainReactor changes the events its source is polled for.  A socket is *)
(* a number, used again after it was closed.                                *)
(***************************************************************************)
EXTENDS Naturals, FiniteSets

CONSTANTS
  Socks,
  MaxInfos,      \* bound: SockInfos made
  NoSock

Events == {"R", "W"}
Infos == 1..MaxInfos
Dispatched == [sock : Socks, info : Infos \cup {NoSock}, events : SUBSET Events]

ASSUME ReactorAssumption == NoSock \notin Socks /\ NoSock \notin Dispatched /\ MaxInfos \in Nat

VARIABLES
  reactor,       \* "epoll" or "gmain"
  infoOf,        \* the map: per socket its SockInfo or NoSock
  infos,         \* SockInfos made
  requested,     \* per info: m_requestedFlags, or the events of m_pollFd
  registered,    \* per info: m_registeredFlags
  waiting,       \* per info: the events whose signal has a slot
  kernel,        \* per socket: the events epoll reports, or the poll asks for
  ready,         \* per socket: what could be reported
  dispatching,   \* the event of the loop: NoSock or [sock, info, events]
  spoiled,       \* history: infos whose socket an older info of its number was registered for
  stopAsked, pipe, loop
reactorVars == <<reactor, infoOf, infos, requested, registered, waiting, kernel, ready,
                 dispatching, spoiled, stopAsked, pipe, loop>>

ReactorInit ==
  /\ reactor \in {"epoll", "gmain"}
  /\ infoOf = [s \in Socks |-> NoSock] /\ infos = 0
  /\ requested = [i \in Infos |-> {}] /\ registered = requested /\ waiting = requested
  /\ kernel = [s \in Socks |-> {}] /\ ready = kernel
  /\ dispatching = NoSock /\ spoiled = {}
  /\ stopAsked = FALSE /\ pipe = FALSE /\ loop = "out"
-----------------------------------------------------------------------------
(* Sockets. *)

\* addSock: nothing is asked for yet.
AddSock(s) ==
  /\ infoOf[s] = NoSock /\ infos < MaxInfos
  /\ infos' = infos + 1
  /\ infoOf' = [infoOf EXCEPT ![s] = infos + 1]
  /\ kernel' = [kernel EXCEPT ![s] = {}]
  /\ ready' = [ready EXCEPT ![s] = {}]
  /\ UNCHANGED <<reactor, requested, registered, waiting, dispatching, spoiled, stopAsked, pipe, loop>>

\* removeSock: the info goes with its signals, unless the loop has it.
RemoveSock(s) ==
  /\ infoOf[s] # NoSock
  /\ waiting' = IF dispatching # NoSock /\ dispatching.info = infoOf[s] THEN waiting
                ELSE [waiting EXCEPT ![infoOf[s]] = {}]
  /\ infoOf' = [infoOf EXCEPT ![s] = NoSock]
  /\ kernel' = [kernel EXCEPT ![s] = {}]
  /\ UNCHANGED <<reactor, infos, requested, registered, ready, dispatching, spoiled, stopAsked, pipe, loop>>

\* updateSock registers what is requested if that is not what is registered.  It
\* goes by the number of the socket and fails for one that was removed.
UpdateSock(s, i, want, have) ==
  IF want = have
  THEN /\ registered' = [registered EXCEPT ![i] = have]
       /\ UNCHANGED <<kernel, spoiled>>
  ELSE /\ IF infoOf[s] = NoSock THEN UNCHANGED <<kernel, spoiled>>
          ELSE /\ kernel' = [kernel EXCEPT ![s] = want]
               /\ spoiled' = IF infoOf[s] = i THEN spoiled ELSE spoiled \cup {infoOf[s]}
       /\ registered' = [registered EXCEPT ![i] = IF infoOf[s] = NoSock THEN have ELSE want]

\* notify connects the slot and asks for the event; the poll is woken when it
\* does not ask for it yet.
AskFor(s, e) ==
  /\ infoOf[s] # NoSock
  /\ LET i == infoOf[s] IN
       /\ e \notin waiting[i]
       /\ waiting' = [waiting EXCEPT ![i] = @ \cup {e}]
       /\ requested' = [requested EXCEPT ![i] = @ \cup {e}]
       /\ IF reactor = "epoll" THEN UpdateSock(s, i, requested[i] \cup {e}, registered[i])
          ELSE kernel' = [kernel EXCEPT ![s] = @ \cup {e}] /\ UNCHANGED <<registered, spoiled>>
  /\ UNCHANGED <<reactor, infoOf, infos, ready, dispatching, stopAsked, pipe, loop>>

\* The socket can be read or written, or, after the component did, no longer.
Changes(s, e) ==
  /\ infoOf[s] # NoSock
  /\ ready' = [ready EXCEPT ![s] = IF e \in @ THEN @ \ {e} ELSE @ \cup {e}]
  /\ UNCHANGED <<reactor, infoOf, infos, requested, registered, waiting, kernel, dispatching, spoiled, stopAsked, pipe, loop>>
-----------------------------------------------------------------------------
(* The loop. *)

\* run forgets a stop() that came before it.
Run ==
  /\ loop = "out"
  /\ loop' = "check" /\ stopAsked' = FALSE
  /\ UNCHANGED <<reactor, infoOf, infos, requested, registered, waiting, kernel, ready, dispatching, spoiled, pipe>>

\* stop, also from a signal handler of the process: a byte in the pipe ends the
\* wait; it is never read.
StopLoop ==
  /\ ~stopAsked /\ stopAsked' = TRUE
  /\ pipe' = TRUE
  /\ UNCHANGED <<reactor, infoOf, infos, requested, registered, waiting, kernel, ready, dispatching, spoiled, loop>>

CheckStop ==
  /\ loop = "check"
  /\ loop' = IF stopAsked THEN "out" ELSE "wait"
  /\ UNCHANGED <<reactor, infoOf, infos, requested, registered, waiting, kernel, ready, dispatching, spoiled, stopAsked, pipe>>

\* The wait returns an event, or the byte of the pipe.
Reported(s) == kernel[s] \cap ready[s]
Wake ==
  /\ loop = "wait" /\ pipe
  /\ loop' = "check"
  /\ UNCHANGED <<reactor, infoOf, infos, requested, registered, waiting, kernel, ready, dispatching, spoiled, stopAsked, pipe>>
Poll(s) ==
  /\ loop = "wait" /\ Reported(s) # {}
  /\ loop' = "event"
  /\ kernel' = IF reactor = "epoll" THEN [kernel EXCEPT ![s] = {}] ELSE kernel
  /\ dispatching' = [sock |-> s, info |-> infoOf[s], events |-> Reported(s)]
  /\ UNCHANGED <<reactor, infoOf, infos, requested, registered, waiting, ready, spoiled, stopAsked, pipe>>

\* dispatchEvent: the info is looked up by the number, which may be another
\* socket's by now.  A GSource that was destroyed is not dispatched.
BeginDispatch ==
  /\ loop = "event"
  /\ LET s == dispatching.sock
         i == infoOf[s]
         there == i # NoSock /\ (reactor = "gmain" => i = dispatching.info) IN
       IF ~there
       THEN /\ loop' = "check" /\ dispatching' = NoSock
            /\ waiting' = [j \in Infos |-> IF \E t \in Socks : infoOf[t] = j THEN waiting[j] ELSE {}]
            /\ UNCHANGED <<requested, registered, kernel>>
       ELSE /\ loop' = "fire"
            /\ dispatching' = [dispatching EXCEPT !.info = i]
            /\ requested' = [requested EXCEPT ![i] = @ \ dispatching.events]
            /\ IF reactor = "epoll"
               THEN registered' = [registered EXCEPT ![i] = {}] /\ UNCHANGED kernel
               ELSE kernel' = [kernel EXCEPT ![s] = @ \ dispatching.events] /\ UNCHANGED registered
            /\ UNCHANGED waiting
  /\ UNCHANGED <<reactor, infoOf, infos, ready, spoiled, stopAsked, pipe>>

\* The signals of the events are fired without the mutex of the reactor; a slot
\* may ask again in its handler.
FireSock(e) ==
  /\ loop = "fire" /\ e \in dispatching.events
  /\ dispatching' = [dispatching EXCEPT !.events = @ \ {e}]
  /\ waiting' = [waiting EXCEPT ![dispatching.info] = @ \ {e}]
  /\ UNCHANGED <<reactor, infoOf, infos, requested, registered, kernel, ready, spoiled, stopAsked, pipe, loop>>

\* Mutant: the events that were not reported are not registered again.
EndDispatchForgets ==
  /\ loop = "fire" /\ dispatching.events = {}
  /\ loop' = "check" /\ dispatching' = NoSock
  /\ UNCHANGED <<reactor, infoOf, infos, requested, registered, waiting, kernel, ready, spoiled, stopAsked, pipe>>

\* Under the mutex again, updateSock registers what was requested meanwhile and
\* what was and has not been reported.
EndDispatch ==
  /\ loop = "fire" /\ dispatching.events = {}
  /\ loop' = "check" /\ dispatching' = NoSock
  /\ LET i == dispatching.info IN
       IF reactor = "epoll" THEN UpdateSock(dispatching.sock, i, requested[i], registered[i])
       ELSE UNCHANGED <<registered, kernel, spoiled>>
  /\ waiting' = [j \in Infos |-> IF \E t \in Socks : infoOf[t] = j THEN waiting[j] ELSE {}]
  /\ UNCHANGED <<reactor, infoOf, infos, requested, ready, stopAsked, pipe>>

Loop == CheckStop \/ Wake \/ (\E s \in Socks : Poll(s)) \/ BeginDispatch \/ (\E e \in Events : FireSock(e)) \/ EndDispatch

ReactorNext ==
  \/ Run \/ StopLoop \/ Loop
  \/ \E s \in Socks : AddSock(s) \/ RemoveSock(s) \/ \E e \in Events : AskFor(s, e) \/ Changes(s, e)
-----------------------------------------------------------------------------
(* Properties. *)

\* Whoever waits for an event of a socket will be told of it: the kernel reports
\* it, or the loop is about to fire or to register it.  It does not hold for a
\* socket whose number an older one had that the loop was still dispatching.
WaitersRegistered ==
  \A s \in Socks :
    LET i == infoOf[s] IN
      i # NoSock /\ i \notin spoiled =>
        \A e \in waiting[i] :
          \/ e \in kernel[s]
          \/ dispatching # NoSock /\ dispatching.sock = s /\ (e \in dispatching.events \/ e \in requested[i])

\* stop() ends the loop, wherever it comes, the wait included.
StopEnds == (loop # "out" /\ stopAsked) ~> (loop = "out")
=============================================================================
