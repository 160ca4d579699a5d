---------------------------- MODULE MCMojRuntime ----------------------------
(***************************************************************************)
(* Instances for TLC of the modules of what runs concurrently below the       *)
(* database: the dispatcher, the reactors, the signals, and the notification  *)
(* of a watched request against its cancel.  They share no state, so a        *)
(* behaviour is one of one of them, which unit names; the others stay as they *)
(* begin.  Without symmetry, which liveness properties do not allow.          *)
(***************************************************************************)
EXTENDS MojMessageDispatcher, MojReactor, MojSignal, MojDbServiceWatch

CONSTANT Units      \* the modules to be checked

VARIABLE unit

butDispatcher == <<unit, reactorVars, signalVars, serviceWatchVars>>
butReactor == <<unit, vars, signalVars, serviceWatchVars>>
butSignal == <<unit, vars, reactorVars, serviceWatchVars>>
butServiceWatch == <<unit, vars, reactorVars, signalVars>>
MCvars == <<unit, vars, reactorVars, signalVars, serviceWatchVars>>

MCInit == unit \in Units /\ Init /\ ReactorInit /\ SignalInit /\ ServiceWatchInit

MCNext ==
  \/ unit = "dispatcher" /\ Next /\ UNCHANGED butDispatcher
  \/ unit = "reactor" /\ ReactorNext /\ UNCHANGED butReactor
  \/ unit = "signal" /\ SignalNext /\ UNCHANGED butSignal
  \/ unit = "serviceWatch" /\ ServiceWatchNext /\ UNCHANGED butServiceWatch

\* The fairness of each module, for the behaviours that are its own.
MCSpec ==
  /\ MCInit /\ [][MCNext]_MCvars
  /\ \A t \in Threads : WF_MCvars(unit = "dispatcher" /\ Dispatch(t) /\ UNCHANGED butDispatcher)
  /\ WF_MCvars(unit = "reactor" /\ Loop /\ UNCHANGED butReactor)
  /\ \A f \in Firers : WF_MCvars(unit = "serviceWatch" /\ Committing(f) /\ UNCHANGED butServiceWatch)
  /\ WF_MCvars(unit = "serviceWatch" /\ HandlingCancel /\ cpc # "start" /\ UNCHANGED butServiceWatch)

\* What is asked to stop does: the pool after all that was scheduled was handled, the loop
\* of a reactor wherever stop() finds it; and neither a notification nor a cancel that was
\* begun is held up for ever.
EverythingEnds == StopDrains /\ StopEnds /\ (unit = "serviceWatch" => Terminates)
=============================================================================
