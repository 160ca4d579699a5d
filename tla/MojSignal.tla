------------------------------- MODULE MojSignal -------------------------------
(***************************************************************************)
(* A signal and its slots.  connect and cancel are called on any thread,    *)
(* and so are call and fire, which take the list of slots away and invoke   *)
(* them one after the other without the signal's mutex.  A step is what is   *)
(* done with the mutex held.  A handler that fails ends the call.            *)
(***************************************************************************)
EXTENDS Naturals, Sequences, FiniteSets

CONSTANTS
  Slots, SigThreads,
  MaxConnects,      \* bound: connects of a slot
  NoSlot

ASSUME SignalAssumption == NoSlot \notin Slots /\ NoSlot \notin SigThreads /\ IsFiniteSet(SigThreads) /\ MaxConnects \in Nat

VARIABLES
  m_slots,          \* the list of the signal
  m_connected,      \* the slots with the flag
  handlerRefs,      \* per slot, the references the signal and its callers have of its handler
  sigOp,            \* per thread, "idle", "fire", "call" or "cancel"
  sigList,          \* per thread, the list taken
  sigSlot,          \* per thread, the slot invoked or cancelled
  leftover,         \* the slots left in a list a failing handler ended
  connects, fires, cancels,   \* history, per slot
  sigAsserted       \* an assertion of the list failed
signalVars == <<m_slots, m_connected, handlerRefs, sigOp, sigList, sigSlot, leftover,
                connects, fires, cancels, sigAsserted>>

SignalInit ==
  /\ m_slots = <<>> /\ m_connected = {}
  /\ handlerRefs = [s \in Slots |-> 0]
  /\ sigOp = [t \in SigThreads |-> "idle"]
  /\ sigList = [t \in SigThreads |-> <<>>]
  /\ sigSlot = [t \in SigThreads |-> NoSlot]
  /\ leftover = {}
  /\ connects = [s \in Slots |-> 0] /\ fires = connects /\ cancels = connects
  /\ sigAsserted = FALSE

SlotsOf(list) == {list[i] : i \in DOMAIN list}
\* erase() of an element of the list.
Without(list, s) ==
  LET at == CHOOSE i \in DOMAIN list : list[i] = s
  IN  [i \in 1..(Len(list) - 1) |-> list[IF i < at THEN i ELSE i + 1]]
Retain(s, n) == [handlerRefs EXCEPT ![s] = @ + n]

Connect(s) ==
  /\ s \notin m_connected /\ connects[s] < MaxConnects
  /\ connects' = [connects EXCEPT ![s] = @ + 1]
  /\ m_connected' = m_connected \cup {s}
  /\ m_slots' = Append(m_slots, s)
  /\ handlerRefs' = Retain(s, 1)
  /\ UNCHANGED <<sigOp, sigList, sigSlot, leftover, fires, cancels, sigAsserted>>

\* The next slot of the list taken: fire disconnects it, with the caller's
\* reference in place of the signal's; call puts it back into the signal's.
Pop(t, op, list, slots) ==
  IF list = <<>>
  THEN /\ m_slots' = slots
       /\ sigOp' = [sigOp EXCEPT ![t] = "idle"]
       /\ sigList' = [sigList EXCEPT ![t] = <<>>]
       /\ sigSlot' = [sigSlot EXCEPT ![t] = NoSlot]
       /\ UNCHANGED <<m_connected, fires>>
  ELSE LET s == Head(list) IN
       /\ sigOp' = [sigOp EXCEPT ![t] = op]
       /\ sigList' = [sigList EXCEPT ![t] = Tail(list)]
       /\ sigSlot' = [sigSlot EXCEPT ![t] = s]
       /\ IF op = "fire"
          THEN m_slots' = slots /\ m_connected' = m_connected \ {s} /\ fires' = [fires EXCEPT ![s] = @ + 1]
          ELSE m_slots' = Append(slots, s) /\ UNCHANGED <<m_connected, fires>>

\* References of the slot just done and of the next one.
PopRefs(done, op, list) ==
  [s \in Slots |-> handlerRefs[s] - (IF s = done THEN 1 ELSE 0)
                                  + (IF list # <<>> /\ s = Head(list) /\ op = "call" THEN 1 ELSE 0)]

\* Mutant: the list is copied, the signal's keeps its slots.
TakeSlotsCopies(t, op) ==
  /\ sigOp[t] = "idle"
  /\ Pop(t, op, m_slots, m_slots)
  /\ handlerRefs' = PopRefs(NoSlot, op, m_slots)
  /\ UNCHANGED <<leftover, connects, cancels, sigAsserted>>

\* SlotList list = m_slots moves the slots to the caller's list.
TakeSlots(t, op) ==
  /\ sigOp[t] = "idle"
  /\ Pop(t, op, m_slots, <<>>)
  /\ handlerRefs' = PopRefs(NoSlot, op, m_slots)
  /\ UNCHANGED <<leftover, connects, cancels, sigAsserted>>

\* The handler returns.  After an error the list is forgotten with what is in it.
Invoked(t, fails) ==
  /\ sigOp[t] \in {"fire", "call"}
  /\ LET rest == IF fails THEN <<>> ELSE sigList[t] IN
       /\ Pop(t, sigOp[t], rest, m_slots)
       /\ handlerRefs' = PopRefs(sigSlot[t], sigOp[t], rest)
       /\ leftover' = leftover \cup (IF fails THEN SlotsOf(sigList[t]) ELSE {})
  /\ UNCHANGED <<connects, cancels, sigAsserted>>

\* MojSignalBase::cancel of a slot that is connected; the signal's handleCancel
\* is called without the mutex.
CancelBegin(t, s) ==
  /\ sigOp[t] = "idle" /\ s \in m_connected
  /\ sigOp' = [sigOp EXCEPT ![t] = "cancel"]
  /\ sigSlot' = [sigSlot EXCEPT ![t] = s]
  /\ UNCHANGED <<m_slots, m_connected, handlerRefs, sigList, leftover, connects, fires, cancels, sigAsserted>>

\* The slot is looked at again, and erased from the list of the signal; that it
\* is in that list is asserted.
CancelEnd(t) ==
  /\ sigOp[t] = "cancel"
  /\ LET s == sigSlot[t] IN
       IF s \in m_connected /\ s \in SlotsOf(m_slots)
       THEN /\ m_slots' = Without(m_slots, s)
            /\ m_connected' = m_connected \ {s}
            /\ cancels' = [cancels EXCEPT ![s] = @ + 1]
            /\ handlerRefs' = Retain(s, 0 - 1)
            /\ UNCHANGED sigAsserted
       ELSE /\ sigAsserted' = (s \in m_connected)
            /\ UNCHANGED <<m_slots, m_connected, cancels, handlerRefs>>
  /\ sigOp' = [sigOp EXCEPT ![t] = "idle"]
  /\ sigSlot' = [sigSlot EXCEPT ![t] = NoSlot]
  /\ UNCHANGED <<sigList, leftover, connects, fires>>

SignalNext ==
  /\ ~sigAsserted
  /\ \/ \E s \in Slots : Connect(s)
     \/ \E t \in SigThreads :
          \/ \E op \in {"fire", "call"} : TakeSlots(t, op)
          \/ \E fails \in BOOLEAN : Invoked(t, fails)
          \/ \E s \in Slots : CancelBegin(t, s)
          \/ CancelEnd(t)
-----------------------------------------------------------------------------
(* Properties. *)

Lists == [t \in SigThreads \cup {NoSlot} |-> IF t = NoSlot THEN m_slots ELSE sigList[t]]
PlacesIn(t, s) == {i \in DOMAIN Lists[t] : Lists[t][i] = s}
Places(s) == UNION {{t} \X PlacesIn(t, s) : t \in SigThreads \cup {NoSlot}}
Invoking(s) == {t \in SigThreads : sigSlot[t] = s /\ sigOp[t] \in {"fire", "call"}}

\* A slot that is connected is in one list, the signal's or that of a call, or
\* was dropped when a handler failed; another one is in none.
OnePlace ==
  \A s \in Slots : Cardinality(Places(s)) + (IF s \in leftover THEN 1 ELSE 0)
                   = (IF s \in m_connected THEN 1 ELSE 0)

\* Each connect is ended once, by fire, which invokes the slot, or by cancel,
\* after which it is not invoked for that connect.
EndedOnce ==
  \A s \in Slots : connects[s] = fires[s] + cancels[s] + (IF s \in m_connected THEN 1 ELSE 0)

\* A handler has a reference for its connected slot and one for each thread that
\* is in it: it is there while it is invoked, and is not kept after that.
Referenced ==
  \A s \in Slots : handlerRefs[s] = Cardinality(Invoking(s)) + (IF s \in m_connected THEN 1 ELSE 0)

\* Connecting, firing, calling and cancelling on several threads neither lose nor
\* repeat the invocation of a slot, and keep its handler as long as needed.
SignalKept == ~sigAsserted => OnePlace /\ EndedOnce /\ Referenced
=============================================================================
