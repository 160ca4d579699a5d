--------------------------- MODULE MojServiceProofs ---------------------------
(***************************************************************************)
(* Proofs about the service, for any number of requests and messages: the   *)
(* requests it sends, with their replies, slots and calls on the bus, and    *)
(* the subscriptions of the messages it receives.  Each half states its      *)
(* inductive invariant, keeps it with every action and ends in the theorem.  *)
(***************************************************************************)
EXTENDS MojService, MojDbServiceHandler, MojDbServiceHandlerInternal, SequenceTheorems, TLAPS

(* The requests of the service. *)

ClientTypeOK ==
  /\ m_requests \subseteq Requests /\ slot \subseteq Requests /\ m_cancelled \subseteq Requests
  /\ sendPc \in [Requests -> {"new", "connected", "called", "sent", "failed"}]
  /\ cancelPc \in [Requests -> {"no", "remove", "cancel", "disconnect"}]
  /\ m_numReplies \in [Requests -> Nat] /\ cancelCalls \in [Requests -> Nat]
  /\ replyQueue \in Seq(Requests \X ReplyKinds)
  /\ replyPc \in {"idle", "found", "invoked", "remove", "cancel"}
  /\ replyPc # "idle" => reply \in Requests \X ReplyKinds
  /\ remove \in BOOLEAN
  /\ dropped \subseteq Requests

BeingDispatched(r) == replyPc # "idle" /\ reply[1] = r

\* Whoever took a request out of the table is yet to cancel its call.
Pending(r) == cancelPc[r] = "cancel" \/ (replyPc = "cancel" /\ reply[1] = r)

\* A reply is queued from the call on, and one found in the table is of a request sent.
RepliesCalled ==
  /\ \A i \in DOMAIN replyQueue : sendPc[replyQueue[i][1]] \in {"called", "sent"}
  /\ replyPc # "idle" => sendPc[reply[1]] = "sent"

\* Nothing is counted or cancelled before the request is in the table, and the thread that
\* sends it has its slot, but for a cancel before the call.
NotYetAdded(r) ==
  /\ sendPc[r] = "new" => r \notin slot /\ cancelPc[r] = "no"
  /\ sendPc[r] # "sent" =>
       /\ r \notin m_requests /\ r \notin m_cancelled /\ r \notin dropped
       /\ m_numReplies[r] = 0 /\ cancelCalls[r] = 0 /\ cancelPc[r] # "cancel"
  /\ sendPc[r] \in {"connected", "called"} /\ r \notin early => r \in slot /\ cancelPc[r] \in {"no", "remove"}

\* A request in the table has its slot and an open call that nobody is about to cancel.
InTheTable(r) ==
  r \in m_requests =>
    /\ ~Pending(r) /\ cancelCalls[r] = 0 /\ r \notin m_cancelled /\ r \notin dropped
    /\ r \notin early => r \in slot /\ cancelPc[r] \in {"no", "remove"}

\* A request that left the table has one thread that cancels its call, or that did, and
\* keeps its slot only as long as a thread refers to it.
OutOfTheTable(r) ==
  sendPc[r] = "sent" /\ r \notin m_requests =>
    /\ ~(cancelPc[r] = "cancel" /\ replyPc = "cancel" /\ reply[1] = r)
    /\ cancelCalls[r] = IF Expected[r] > 1 /\ ~Pending(r) THEN 1 ELSE 0
    /\ r \in m_cancelled <=> cancelCalls[r] = 1
    /\ cancelPc[r] = "no" /\ ~BeingDispatched(r) => r \notin slot

\* The slot lasts through its cancel; a reply is dispatched as long as more are expected;
\* and a reply whose request was not found is not dispatched.
SlotAndCount(r) ==
  /\ cancelPc[r] # "no" => r \in slot
  /\ replyPc = "cancel" /\ reply[1] = r => r \notin m_requests
  /\ m_numReplies[r] <= Expected[r]
  /\ m_numReplies[r] = Expected[r] /\ r \in m_requests =>
       BeingDispatched(r) /\ replyPc \in {"invoked", "remove"} /\ (replyPc = "invoked" => remove = TRUE)
  /\ replyPc = "found" /\ reply[1] = r => m_numReplies[r] < Expected[r]
  /\ r \in dropped => ~BeingDispatched(r)

RequestOK(r) == NotYetAdded(r) /\ InTheTable(r) /\ OutOfTheTable(r) /\ SlotAndCount(r)

ClientIInv == ClientTypeOK /\ RepliesCalled /\ \A r \in Requests : RequestOK(r)

\* A slot is connected.
LEMMA ConnectSlotKeeps ==
  ASSUME ClientIInv, NEW r \in Requests, ConnectSlot(r)
  PROVE  ClientIInv'
<1> USE DEF ClientIInv
<1>1. ClientTypeOK'
  BY ServiceAssumption DEF ClientTypeOK, ConnectSlot, callVars, replyVars
<1>3. RepliesCalled'
  BY DEF ClientTypeOK, RepliesCalled, ConnectSlot, callVars, replyVars
<1>2. ASSUME NEW q \in Requests
      PROVE  RequestOK(q)'
  <2>1. RequestOK(q) /\ ClientTypeOK /\ RepliesCalled /\ Expected[q] \in Nat \ {0}
    BY ServiceAssumption
  <2> HIDE DEF ClientIInv
  <2> QED BY <2>1
    DEF ClientTypeOK, RepliesCalled, RequestOK, NotYetAdded, InTheTable, OutOfTheTable,
        SlotAndCount, Pending, BeingDispatched, ConnectSlot, callVars, replyVars
<1> QED BY <1>1, <1>2, <1>3

\* The call is made, or the request is let go with its slot.
LEMMA LSCallKeeps ==
  ASSUME ClientIInv, NEW r \in Requests, LSCall(r)
  PROVE  ClientIInv'
<1> USE DEF ClientIInv
<1>1. ClientTypeOK'
  BY ServiceAssumption DEF ClientTypeOK, LSCall, callVars, replyVars
<1>3. RepliesCalled'
  <2>1. \A i \in DOMAIN replyQueue : replyQueue[i][1] \in Requests
    BY DEF ClientTypeOK
  <2>2. replyPc # "idle" => reply[1] \in Requests
    BY DEF ClientTypeOK
  <2>3. /\ sendPc[r] = "connected" /\ UNCHANGED <<replyQueue, replyPc, reply>>
        /\ \E pc \in {"called", "failed"} : sendPc' = [sendPc EXCEPT ![r] = pc]
    BY DEF LSCall, replyVars
  <2>4. \A q \in Requests : q # r => sendPc'[q] = sendPc[q]
    BY <2>3 DEF ClientTypeOK
  <2> QED BY <2>1, <2>2, <2>3, <2>4 DEF RepliesCalled
<1>2. ASSUME NEW q \in Requests
      PROVE  RequestOK(q)'
  <2>1. RequestOK(q) /\ ClientTypeOK /\ RepliesCalled /\ Expected[q] \in Nat \ {0}
    BY ServiceAssumption
  <2> HIDE DEF ClientIInv
  <2> QED BY <2>1
    DEF ClientTypeOK, RepliesCalled, RequestOK, NotYetAdded, InTheTable, OutOfTheTable,
        SlotAndCount, Pending, BeingDispatched, LSCall, callVars, replyVars
<1> QED BY <1>1, <1>2, <1>3

\* addRequest() comes before any reply is looked up.
LEMMA AddRequestKeeps ==
  ASSUME ClientIInv, NEW r \in Requests, AddRequest(r)
  PROVE  ClientIInv'
<1> USE DEF ClientIInv
<1>1. ClientTypeOK'
  BY ServiceAssumption DEF ClientTypeOK, AddRequest, callVars, replyVars
<1>3. RepliesCalled'
  BY DEF ClientTypeOK, RepliesCalled, AddRequest, callVars, replyVars
<1>2. ASSUME NEW q \in Requests
      PROVE  RequestOK(q)'
  <2>1. RequestOK(q) /\ ClientTypeOK /\ RepliesCalled /\ Expected[q] \in Nat \ {0}
    BY ServiceAssumption
  <2> HIDE DEF ClientIInv
  <2> QED BY <2>1
    DEF ClientTypeOK, RepliesCalled, RequestOK, NotYetAdded, InTheTable, OutOfTheTable,
        SlotAndCount, Pending, BeingDispatched, AddRequest, callVars, replyVars
<1> QED BY <1>1, <1>2, <1>3

\* A reply that the bus delivers is queued.
LEMMA HandleResponseKeeps ==
  ASSUME ClientIInv, NEW r \in Requests, NEW kind \in ReplyKinds, HandleResponse(r, kind)
  PROVE  ClientIInv'
<1> USE DEF ClientIInv
<1>1. ClientTypeOK'
  BY ServiceAssumption DEF ClientTypeOK, HandleResponse, callVars, replyVars
<1>3. RepliesCalled'
  BY DEF ClientTypeOK, RepliesCalled, HandleResponse, callVars, replyVars
<1>2. ASSUME NEW q \in Requests
      PROVE  RequestOK(q)'
  <2>1. RequestOK(q) /\ ClientTypeOK /\ RepliesCalled /\ Expected[q] \in Nat \ {0}
    BY ServiceAssumption
  <2> HIDE DEF ClientIInv
  <2> QED BY <2>1
    DEF ClientTypeOK, RepliesCalled, RequestOK, NotYetAdded, InTheTable, OutOfTheTable,
        SlotAndCount, Pending, BeingDispatched, HandleResponse, callVars, replyVars
<1> QED BY <1>1, <1>2, <1>3

\* A reply whose request is not in the table is that of a request that has left it: no
\* request is being sent.
LEMMA GetRequestKeeps ==
  ASSUME ClientIInv, GetRequest
  PROVE  ClientIInv'
<1> USE DEF ClientIInv
<1>1. ClientTypeOK'
  BY ServiceAssumption DEF ClientTypeOK, GetRequest, LookUp, MutexFree, callVars
<1>3. RepliesCalled'
  BY DEF ClientTypeOK, RepliesCalled, GetRequest, LookUp, MutexFree, callVars
<1>2. ASSUME NEW q \in Requests
      PROVE  RequestOK(q)'
  <2>1. RequestOK(q) /\ ClientTypeOK /\ RepliesCalled /\ Expected[q] \in Nat \ {0}
    BY ServiceAssumption
  <2> HIDE DEF ClientIInv
  <2> QED BY <2>1
    DEF ClientTypeOK, RepliesCalled, RequestOK, NotYetAdded, InTheTable, OutOfTheTable,
        SlotAndCount, Pending, BeingDispatched, GetRequest, LookUp, MutexFree, callVars
<1> QED BY <1>1, <1>2, <1>3

\* The reply is counted, and the last one is seen as such.
LEMMA CallHandlerKeeps ==
  ASSUME ClientIInv, CallHandler
  PROVE  ClientIInv'
<1> USE DEF ClientIInv
<1>1. ClientTypeOK'
  <2>1. m_numReplies' \in [Requests -> Nat]
    BY DEF ClientTypeOK, CallHandler
  <2>2. remove' \in BOOLEAN
    BY DEF ClientTypeOK, CallHandler, EndReply, IsLastReply
  <2>3. slot' \subseteq Requests
    BY DEF ClientTypeOK, CallHandler, EndReply
  <2>4. replyPc' \in {"idle", "invoked", "remove"} /\ (replyPc' # "idle" => reply' \in Requests \X ReplyKinds)
    BY DEF ClientTypeOK, CallHandler, EndReply
  <2> QED BY <2>1, <2>2, <2>3, <2>4 DEF ClientTypeOK, CallHandler, callVars
<1>3. RepliesCalled'
  BY DEF ClientTypeOK, RepliesCalled, CallHandler, EndReply, IsLastReply, callVars
<1>2. ASSUME NEW q \in Requests
      PROVE  RequestOK(q)'
  <2>1. RequestOK(q) /\ ClientTypeOK /\ RepliesCalled /\ Expected[q] \in Nat \ {0}
    BY ServiceAssumption
  <2> HIDE DEF ClientIInv
  <2> DEFINE r == reply[1]
             last == IsLastReply(r, reply[2])
  <2>2. /\ r \in Requests /\ sendPc[r] = "sent" /\ replyPc = "found"
        /\ m_numReplies' = [m_numReplies EXCEPT ![r] = @ + 1]
        /\ UNCHANGED <<m_requests, sendPc, cancelPc, m_cancelled, cancelCalls, dropped, early>>
    BY <2>1 DEF CallHandler, ClientTypeOK, RepliesCalled, callVars
  <2>3. m_numReplies[r] \in Nat /\ Expected[r] \in Nat /\ (~last => m_numReplies[r] + 1 < Expected[r])
    <3>1. m_numReplies[r] \in Nat /\ Expected[r] \in Nat
      BY <2>1, <2>2, ServiceAssumption DEF ClientTypeOK
    <3>2. ~last => ~(m_numReplies[r] + 1 >= Expected[r])
      BY DEF IsLastReply
    <3> HIDE DEF last, r
    <3> QED BY <3>1, <3>2
  <2>4. \/ /\ replyPc' \in {"invoked", "remove"} /\ UNCHANGED <<reply, slot>>
           /\ remove' = TRUE \/ ~last
        \/ /\ ~last /\ replyPc' = "idle"
           /\ slot' = IF r \in m_requests \/ cancelPc[r] # "no" THEN slot ELSE slot \ {r}
    BY DEF CallHandler, EndReply
  <2> HIDE DEF last
  <2>5. CASE q = r
    <3>1. m_numReplies'[q] = m_numReplies[q] + 1
      BY <2>1, <2>2, <2>5 DEF ClientTypeOK
    <3> QED BY <2>1, <2>2, <2>3, <2>4, <2>5, <3>1
      DEF RequestOK, NotYetAdded, InTheTable, OutOfTheTable, SlotAndCount, Pending, BeingDispatched
  <2>6. CASE q # r
    <3>1. m_numReplies'[q] = m_numReplies[q]
      BY <2>1, <2>2, <2>6 DEF ClientTypeOK
    <3> QED BY <2>1, <2>2, <2>4, <2>6, <3>1
      DEF RequestOK, NotYetAdded, InTheTable, OutOfTheTable, SlotAndCount, Pending, BeingDispatched
  <2> QED BY <2>5, <2>6
<1> QED BY <1>1, <1>2, <1>3

\* A request stays in the table only if more replies are expected.
LEMMA HandlerReturnsKeeps ==
  ASSUME ClientIInv, NEW fails \in BOOLEAN, HandlerReturns(fails)
  PROVE  ClientIInv'
<1> USE DEF ClientIInv
<1>1. ClientTypeOK'
  BY ServiceAssumption DEF ClientTypeOK, HandlerReturns, EndReply, callVars
<1>3. RepliesCalled'
  BY DEF ClientTypeOK, RepliesCalled, HandlerReturns, EndReply, callVars
<1>2. ASSUME NEW q \in Requests
      PROVE  RequestOK(q)'
  <2>1. RequestOK(q) /\ ClientTypeOK /\ RepliesCalled /\ Expected[q] \in Nat \ {0}
    BY ServiceAssumption
  <2> HIDE DEF ClientIInv
  <2> QED BY <2>1
    DEF ClientTypeOK, RepliesCalled, RequestOK, NotYetAdded, InTheTable, OutOfTheTable,
        SlotAndCount, Pending, BeingDispatched, HandlerReturns, EndReply, callVars
<1> QED BY <1>1, <1>2, <1>3

\* The request of a last reply leaves the table, unless a cancel took it.
LEMMA RemoveRepliedKeeps ==
  ASSUME ClientIInv, RemoveReplied
  PROVE  ClientIInv'
<1> USE DEF ClientIInv
<1>1. ClientTypeOK'
  BY ServiceAssumption DEF ClientTypeOK, RemoveReplied, RemoveRequest, EndReply, callVars
<1>3. RepliesCalled'
  BY DEF ClientTypeOK, RepliesCalled, RemoveReplied, RemoveRequest, EndReply, callVars
<1>2. ASSUME NEW q \in Requests
      PROVE  RequestOK(q)'
  <2>1. RequestOK(q) /\ ClientTypeOK /\ RepliesCalled /\ Expected[q] \in Nat \ {0}
    BY ServiceAssumption
  <2> HIDE DEF ClientIInv
  <2> QED BY <2>1
    DEF ClientTypeOK, RepliesCalled, RequestOK, NotYetAdded, InTheTable, OutOfTheTable,
        SlotAndCount, Pending, BeingDispatched, RemoveReplied, RemoveRequest, EndReply, callVars
<1> QED BY <1>1, <1>2, <1>3

\* LSCallCancel is recorded for a request.
LEMMA CancelImplTypes ==
  ASSUME ClientTypeOK, NEW r \in Requests, CancelImpl(r)
  PROVE  m_cancelled' \subseteq Requests /\ cancelCalls' \in [Requests -> Nat]
<1>1. CASE UNCHANGED callVars
  BY <1>1 DEF ClientTypeOK, callVars
<1>2. CASE m_cancelled' = m_cancelled \cup {r} /\ cancelCalls' = [cancelCalls EXCEPT ![r] = @ + 1]
  BY <1>2 DEF ClientTypeOK
<1> QED BY <1>1, <1>2 DEF CancelImpl

\* Its call is cancelled by the thread that took it from the table.
LEMMA CancelRepliedKeeps ==
  ASSUME ClientIInv, CancelReplied
  PROVE  ClientIInv'
<1> USE DEF ClientIInv
<1>1. ClientTypeOK'
  <2>1. m_cancelled' \subseteq Requests /\ cancelCalls' \in [Requests -> Nat]
    <3>1. CancelImpl(reply[1]) /\ reply[1] \in Requests
      BY DEF CancelReplied, ClientTypeOK
    <3> QED BY <3>1, CancelImplTypes
  <2> QED BY <2>1 DEF ClientTypeOK, CancelReplied, EndReply, callVars
<1>3. RepliesCalled'
  BY DEF ClientTypeOK, RepliesCalled, CancelReplied, CancelImpl, EndReply, callVars
<1>2. ASSUME NEW q \in Requests
      PROVE  RequestOK(q)'
  <2>1. RequestOK(q) /\ ClientTypeOK /\ RepliesCalled /\ Expected[q] \in Nat \ {0}
    BY ServiceAssumption
  <2> HIDE DEF ClientIInv
  <2> QED BY <2>1
    DEF ClientTypeOK, RepliesCalled, RequestOK, NotYetAdded, InTheTable, OutOfTheTable,
        SlotAndCount, Pending, BeingDispatched, CancelReplied, CancelImpl, EndReply, callVars
<1> QED BY <1>1, <1>2, <1>3

\* A cancel begins.
LEMMA CancelSlotKeeps ==
  ASSUME ClientIInv, NEW r \in Requests, CancelSlot(r)
  PROVE  ClientIInv'
<1> USE DEF ClientIInv
<1>1. ClientTypeOK'
  BY ServiceAssumption DEF ClientTypeOK, CancelSlot, callVars, replyVars
<1>3. RepliesCalled'
  BY DEF ClientTypeOK, RepliesCalled, CancelSlot, callVars, replyVars
<1>2. ASSUME NEW q \in Requests
      PROVE  RequestOK(q)'
  <2>1. RequestOK(q) /\ ClientTypeOK /\ RepliesCalled /\ Expected[q] \in Nat \ {0}
    BY ServiceAssumption
  <2> HIDE DEF ClientIInv
  <2> QED BY <2>1
    DEF ClientTypeOK, RepliesCalled, RequestOK, NotYetAdded, InTheTable, OutOfTheTable,
        SlotAndCount, Pending, BeingDispatched, CancelSlot, callVars, replyVars
<1> QED BY <1>1, <1>2, <1>3

\* It takes the request from the table, unless a last reply did.
LEMMA CancelRemovesKeeps ==
  ASSUME ClientIInv, NEW r \in Requests, CancelRemoves(r)
  PROVE  ClientIInv'
<1> USE DEF ClientIInv
<1>1. ClientTypeOK'
  BY ServiceAssumption DEF ClientTypeOK, CancelRemoves, RemoveRequest, MutexFree, callVars, replyVars
<1>3. RepliesCalled'
  BY DEF ClientTypeOK, RepliesCalled, CancelRemoves, RemoveRequest, MutexFree, callVars, replyVars
<1>2. ASSUME NEW q \in Requests
      PROVE  RequestOK(q)'
  <2>1. RequestOK(q) /\ ClientTypeOK /\ RepliesCalled /\ Expected[q] \in Nat \ {0}
    BY ServiceAssumption
  <2> HIDE DEF ClientIInv
  <2> QED BY <2>1
    DEF ClientTypeOK, RepliesCalled, RequestOK, NotYetAdded, InTheTable, OutOfTheTable,
        SlotAndCount, Pending, BeingDispatched, CancelRemoves, RemoveRequest, MutexFree, callVars, replyVars
<1> QED BY <1>1, <1>2, <1>3

\* It cancels the call.
LEMMA CancelCallsKeeps ==
  ASSUME ClientIInv, NEW r \in Requests, CancelCalls(r)
  PROVE  ClientIInv'
<1> USE DEF ClientIInv
<1>1. ClientTypeOK'
  <2>1. m_cancelled' \subseteq Requests /\ cancelCalls' \in [Requests -> Nat]
    <3>1. CancelImpl(r) /\ r \in Requests
      BY DEF CancelCalls, ClientTypeOK
    <3> QED BY <3>1, CancelImplTypes
  <2> QED BY <2>1 DEF ClientTypeOK, CancelCalls, callVars, replyVars
<1>3. RepliesCalled'
  BY DEF ClientTypeOK, RepliesCalled, CancelCalls, CancelImpl, callVars, replyVars
<1>2. ASSUME NEW q \in Requests
      PROVE  RequestOK(q)'
  <2>1. RequestOK(q) /\ ClientTypeOK /\ RepliesCalled /\ Expected[q] \in Nat \ {0}
    BY ServiceAssumption
  <2> HIDE DEF ClientIInv
  <2> QED BY <2>1
    DEF ClientTypeOK, RepliesCalled, RequestOK, NotYetAdded, InTheTable, OutOfTheTable,
        SlotAndCount, Pending, BeingDispatched, CancelCalls, CancelImpl, callVars, replyVars
<1> QED BY <1>1, <1>2, <1>3

\* It disconnects the slot.
LEMMA DisconnectKeeps ==
  ASSUME ClientIInv, NEW r \in Requests, Disconnect(r)
  PROVE  ClientIInv'
<1> USE DEF ClientIInv
<1>1. ClientTypeOK'
  BY ServiceAssumption DEF ClientTypeOK, Disconnect, callVars, replyVars
<1>3. RepliesCalled'
  BY DEF ClientTypeOK, RepliesCalled, Disconnect, callVars, replyVars
<1>2. ASSUME NEW q \in Requests
      PROVE  RequestOK(q)'
  <2>1. RequestOK(q) /\ ClientTypeOK /\ RepliesCalled /\ Expected[q] \in Nat \ {0}
    BY ServiceAssumption
  <2> HIDE DEF ClientIInv
  <2> QED BY <2>1
    DEF ClientTypeOK, RepliesCalled, RequestOK, NotYetAdded, InTheTable, OutOfTheTable,
        SlotAndCount, Pending, BeingDispatched, Disconnect, callVars, replyVars
<1> QED BY <1>1, <1>2, <1>3

\* The invariant of the requests.
LEMMA ClientStep == ASSUME ClientIInv, [ClientNext]_clientVars PROVE ClientIInv'
<1>1. CASE UNCHANGED clientVars
  BY <1>1 DEF ClientIInv, ClientTypeOK, RepliesCalled, RequestOK, NotYetAdded, InTheTable,
     OutOfTheTable, SlotAndCount, Pending, BeingDispatched, clientVars, callVars, replyVars
<1>2. CASE DispatchNext
  BY <1>2, GetRequestKeeps, CallHandlerKeeps, HandlerReturnsKeeps, RemoveRepliedKeeps, CancelRepliedKeeps
  DEF DispatchNext
<1>3. ASSUME NEW r \in Requests, SendNext(r)
      PROVE  ClientIInv'
  BY <1>3, ConnectSlotKeeps, LSCallKeeps, AddRequestKeeps, HandleResponseKeeps DEF SendNext
<1>4. ASSUME NEW r \in Requests, CancelNext(r)
      PROVE  ClientIInv'
  BY <1>4, CancelSlotKeeps, CancelRemovesKeeps, CancelCallsKeeps, DisconnectKeeps DEF CancelNext
<1> QED BY <1>1, <1>2, <1>3, <1>4 DEF ClientNext

\* The replies of a request are not lost between the call and the entry in the table, and
\* whoever gives it up, at any step of its send() and of a dispatch, its call is cancelled
\* once, no sooner than it left the table (MojService::send, dispatchReply, cancel;
\* MojLunaService).
THEOREM RequestsAnswered == ClientInit /\ [][ClientNext]_clientVars => []RepliesKept
<1>1. ClientInit => ClientIInv
  <2> SUFFICES ASSUME ClientInit PROVE ClientIInv
    OBVIOUS
  <2>1. ClientTypeOK
    <3>1. replyQueue \in Seq(Requests \X ReplyKinds)
      BY DEF ClientInit
    <3>2. m_numReplies \in [Requests -> Nat] /\ cancelCalls \in [Requests -> Nat]
      BY DEF ClientInit
    <3>3. /\ sendPc \in [Requests -> {"new", "connected", "called", "sent", "failed"}]
          /\ cancelPc \in [Requests -> {"no", "remove", "cancel", "disconnect"}]
      BY DEF ClientInit
    <3> QED BY <3>1, <3>2, <3>3 DEF ClientInit, ClientTypeOK
  <2>3. RepliesCalled
    BY DEF ClientInit, RepliesCalled
  <2>2. ASSUME NEW r \in Requests PROVE RequestOK(r)
    <3>1. Expected[r] \in Nat \ {0}
      BY ServiceAssumption
    <3> QED BY <3>1
      DEF ClientInit, RequestOK, NotYetAdded, InTheTable, OutOfTheTable, SlotAndCount, Pending, BeingDispatched
  <2> QED BY <2>1, <2>2, <2>3 DEF ClientIInv
<1>2. ClientIInv => RepliesKept
  <2> SUFFICES ASSUME ClientIInv, NEW r \in Requests
               PROVE  /\ r \in dropped => (r \in slot => cancelPc[r] # "no")
                      /\ sendPc[r] = "sent" /\ r \notin early /\ cancelPc[r] = "no" /\ (replyPc # "idle" => reply[1] # r) =>
                           IF r \in m_requests
                           THEN r \in slot /\ m_numReplies[r] < Expected[r]
                           ELSE r \notin slot /\ (Expected[r] > 1 => cancelCalls[r] = 1)
                      /\ cancelCalls[r] <= IF r \in m_requests THEN 0 ELSE 1
                      /\ m_numReplies[r] <= Expected[r]
    BY DEF RepliesKept, DroppedWereGivenUp, CallsAgree, CancelledOnce, ClientIInv, ClientTypeOK
  <2>1. Expected[r] \in Nat /\ m_numReplies[r] \in Nat /\ RequestOK(r)
    BY ServiceAssumption DEF ClientIInv, ClientTypeOK
  <2>2. cancelCalls[r] = 0 \/ (cancelCalls[r] = 1 /\ r \notin m_requests)
    BY <2>1 DEF RequestOK, NotYetAdded, OutOfTheTable, InTheTable
  <2> QED BY <2>1, <2>2
    DEF RequestOK, NotYetAdded, InTheTable, OutOfTheTable, SlotAndCount, Pending, BeingDispatched
<1> QED BY <1>1, <1>2, ClientStep, PTL
-----------------------------------------------------------------------------
(* The subscriptions of the messages. *)

ServerTypeOK ==
  /\ stage \in [Messages -> {"new", "queued", "done", "silent"}]
  /\ senderQueue \in [Senders -> Seq({"request", "cancel"} \X Messages)]
  /\ m_subscriptions \subseteq Messages /\ m_subscribed \subseteq Messages
  /\ cancelSignal \subseteq Messages /\ held \subseteq Messages
  /\ answers \in [Messages -> Seq({"data", "error"})]
  /\ busCancels \subseteq Messages /\ addFailed \subseteq Messages
  /\ closed \in {"no", "yes"}

Places(s) == 1..Len(senderQueue[s])

\* A queue has messages of its sender, a request once and no cancel before it.
RequestsFirst ==
  \A s \in Senders : \A i \in Places(s) :
    /\ SenderOf[senderQueue[s][i][2]] = s
    /\ \A j \in Places(s) : j > i => senderQueue[s][j] # <<"request", senderQueue[s][i][2]>>

\* Nothing is in a queue of a message that did not come.
QueuedStages ==
  \A s \in Senders : \A i \in Places(s) :
    /\ stage[senderQueue[s][i][2]] # "new"
    /\ senderQueue[s][i][1] = "request" => stage[senderQueue[s][i][2]] = "queued"

\* How far a message is.
MessageStages ==
  \A m \in Messages :
    /\ stage[m] = "new" => m \notin m_subscriptions \cup m_subscribed \cup held \cup busCancels \cup addFailed
    /\ stage[m] \in {"new", "queued"} => answers[m] = <<>>
    /\ m \in addFailed => stage[m] = "done" /\ m \notin held

\* A subscription has its message in the queue or is kept by a handler, with the slot of
\* its cancel.
KeptOrQueued == cancelSignal = held /\ \A m \in m_subscribed : m \in held \/ Queued(m)

CancelWaits(m) ==
  \E i \in DOMAIN senderQueue[SenderOf[m]] : senderQueue[SenderOf[m]][i] = <<"cancel", m>>

\* The client can still cancel a subscription, or has done so.
CancelComes == \A m \in m_subscribed : m \in busCancels \/ CancelWaits(m)

\* A closed service has nothing to dispatch.
ClosedRests == closed = "yes" => m_subscriptions \subseteq addFailed /\ \A s \in Senders : senderQueue[s] = <<>>

ServerIInv ==
  /\ ServerTypeOK /\ RequestsFirst /\ QueuedStages /\ MessageStages
  /\ m_subscribed = m_subscriptions \ addFailed
  /\ KeptOrQueued /\ CancelComes /\ ClosedRests /\ AnsweredOnce

\* What the invariant says of the properties.
LEMMA ServerInvImplies == ServerIInv => SubscriptionsKept
<1> SUFFICES ASSUME ServerIInv PROVE SubscriptionsKept
  OBVIOUS
<1>1. SubscriptionsLive
  <2>1. ASSUME NEW m \in Messages, Queued(m) PROVE stage[m] = "queued"
    <3>1. SenderOf[m] \in Senders /\ senderQueue[SenderOf[m]] \in Seq({"request", "cancel"} \X Messages)
      BY ServiceAssumption DEF ServerIInv, ServerTypeOK
    <3>2. PICK i \in Places(SenderOf[m]) : senderQueue[SenderOf[m]][i] = <<"request", m>>
      BY <2>1, <3>1 DEF Queued, Places
    <3> QED BY <3>1, <3>2 DEF ServerIInv, QueuedStages
  <2> QED
    BY <2>1 DEF ServerIInv, ServerTypeOK, SubscriptionsLive, KeptOrQueued, MessageStages, Alive
<1>2. CancelEnds
  BY DEF ServerIInv, CancelEnds, CancelComes, CancelWaits
<1>3. ClosedEmpty
  BY DEF ServerIInv, ClosedEmpty, ClosedRests
<1> QED BY <1>1, <1>2, <1>3 DEF SubscriptionsKept, ServerIInv
-----------------------------------------------------------------------------
(* The queues. *)

\* What is scheduled comes behind all else of its sender.
LEMMA Scheduled ==
  ASSUME ServerTypeOK, NEW m \in Messages, NEW kind \in {"request", "cancel"}, Schedule(kind, m)
  PROVE  LET q == senderQueue[SenderOf[m]] IN
         /\ SenderOf[m] \in Senders /\ Len(q) \in Nat
         /\ senderQueue' \in [Senders -> Seq({"request", "cancel"} \X Messages)]
         /\ \A s \in Senders : s # SenderOf[m] => senderQueue'[s] = senderQueue[s]
         /\ Len(senderQueue'[SenderOf[m]]) = Len(q) + 1
         /\ \A i \in 1..Len(q) : senderQueue'[SenderOf[m]][i] = q[i]
         /\ senderQueue'[SenderOf[m]][Len(q) + 1] = <<kind, m>>
<1> DEFINE q == senderQueue[SenderOf[m]]
<1>1. SenderOf[m] \in Senders
  BY ServiceAssumption
<1>2. q \in Seq({"request", "cancel"} \X Messages)
  BY <1>1 DEF ServerTypeOK
<1>3. senderQueue' = [senderQueue EXCEPT ![SenderOf[m]] = Append(q, <<kind, m>>)]
  BY DEF Schedule
<1>4. /\ Append(q, <<kind, m>>) \in Seq({"request", "cancel"} \X Messages)
      /\ Len(q) \in Nat /\ Len(Append(q, <<kind, m>>)) = Len(q) + 1
      /\ \A i \in 1..Len(q) : Append(q, <<kind, m>>)[i] = q[i]
      /\ Append(q, <<kind, m>>)[Len(q) + 1] = <<kind, m>>
  BY <1>2
<1> HIDE DEF q
<1>5. /\ senderQueue' \in [Senders -> Seq({"request", "cancel"} \X Messages)]
      /\ \A s \in Senders : s # SenderOf[m] => senderQueue'[s] = senderQueue[s]
      /\ senderQueue'[SenderOf[m]] = Append(q, <<kind, m>>)
  BY <1>1, <1>3, <1>4 DEF ServerTypeOK
<1> QED BY <1>1, <1>4, <1>5 DEF q

\* The dispatcher takes the first of a sender.
LEMMA Dispatched ==
  ASSUME ServerTypeOK, NEW s \in Senders, senderQueue[s] # <<>>,
         senderQueue' = [senderQueue EXCEPT ![s] = Tail(@)]
  PROVE  LET q == senderQueue[s] IN
         /\ Len(q) \in Nat \ {0} /\ Head(q) = q[1] /\ q[1] \in {"request", "cancel"} \X Messages
         /\ senderQueue' \in [Senders -> Seq({"request", "cancel"} \X Messages)]
         /\ \A t \in Senders : t # s => senderQueue'[t] = senderQueue[t]
         /\ Len(senderQueue'[s]) = Len(q) - 1
         /\ \A i \in 1..Len(q) - 1 : senderQueue'[s][i] = q[i + 1]
<1> DEFINE q == senderQueue[s]
<1>1. q \in Seq({"request", "cancel"} \X Messages) /\ q # <<>>
  BY DEF ServerTypeOK
<1>2. /\ Len(q) \in Nat \ {0} /\ Head(q) = q[1] /\ q[1] \in {"request", "cancel"} \X Messages
      /\ Tail(q) \in Seq({"request", "cancel"} \X Messages)
      /\ Len(Tail(q)) = Len(q) - 1
      /\ \A i \in 1..Len(q) - 1 : Tail(q)[i] = q[i + 1]
  BY <1>1
<1>3. senderQueue' = [senderQueue EXCEPT ![s] = Tail(q)]
  OBVIOUS
<1> HIDE DEF q
<1>4. /\ senderQueue' \in [Senders -> Seq({"request", "cancel"} \X Messages)]
      /\ \A t \in Senders : t # s => senderQueue'[t] = senderQueue[t]
      /\ senderQueue'[s] = Tail(q)
  BY <1>2, <1>3 DEF ServerTypeOK
<1> QED BY <1>2, <1>4 DEF q

\* A request is scheduled once and before it can be cancelled; a cancel at any time.
LEMMA ScheduleKeeps ==
  ASSUME ServerTypeOK, RequestsFirst, QueuedStages,
         NEW m \in Messages, NEW kind \in {"request", "cancel"}, Schedule(kind, m),
         kind = "request" => stage[m] = "new" /\ stage'[m] = "queued",
         kind = "cancel" => stage[m] # "new" /\ stage'[m] = stage[m],
         \A n \in Messages : n # m => stage'[n] = stage[n]
  PROVE  /\ RequestsFirst' /\ QueuedStages'
         /\ \A n \in Messages : (Queued(n) => Queued(n)') /\ (CancelWaits(n) => CancelWaits(n)')
         /\ IF kind = "request" THEN Queued(m)' ELSE CancelWaits(m)'
<1> DEFINE s == SenderOf[m]
           l == Len(senderQueue[s])
<1>1. /\ s \in Senders /\ l \in Nat
      /\ \A t \in Senders : t # s => senderQueue'[t] = senderQueue[t]
      /\ Len(senderQueue'[s]) = l + 1
      /\ \A i \in 1..l : senderQueue'[s][i] = senderQueue[s][i]
      /\ senderQueue'[s][l + 1] = <<kind, m>>
      /\ senderQueue' \in [Senders -> Seq({"request", "cancel"} \X Messages)]
  BY Scheduled
<1> HIDE DEF s, l
<1>2. \A t \in Senders : \A i \in Places(t) :
         senderQueue[t][i][1] \in {"request", "cancel"} /\ senderQueue[t][i][2] \in Messages
  BY DEF ServerTypeOK, Places
<1>3. Places(s)' = Places(s) \cup {l + 1} /\ \A t \in Senders : t # s => Places(t)' = Places(t)
  BY <1>1 DEF Places, l
<1>4. \A t \in Senders : \A i \in Places(t) : i \in Places(t)' /\ senderQueue'[t][i] = senderQueue[t][i]
  BY <1>1, <1>3 DEF Places, l
<1>5. RequestsFirst'
  <2> SUFFICES ASSUME NEW t \in Senders, NEW i \in Places(t)'
               PROVE  /\ SenderOf[senderQueue'[t][i][2]] = t
                      /\ \A j \in Places(t)' : j > i => senderQueue'[t][j] # <<"request", senderQueue'[t][i][2]>>
    BY DEF RequestsFirst
  <2>1. CASE i \in Places(t)
    <3>1. senderQueue'[t][i] = senderQueue[t][i]
      BY <1>4, <2>1
    <3>2. ASSUME NEW j \in Places(t)', j > i
          PROVE  senderQueue'[t][j] # <<"request", senderQueue'[t][i][2]>>
      <4>1. CASE j \in Places(t)
        BY <1>4, <2>1, <3>1, <3>2, <4>1 DEF RequestsFirst
      <4>2. CASE j \notin Places(t)
        <5>1. t = s /\ senderQueue'[t][j] = <<kind, m>>
          BY <1>1, <1>3, <3>2, <4>2
        <5>2. kind = "request" => senderQueue[t][i][2] # m
          BY <2>1 DEF QueuedStages
        <5> QED BY <3>1, <5>1, <5>2
      <4> QED BY <4>1, <4>2
    <3> QED BY <2>1, <3>1, <3>2 DEF RequestsFirst
  <2>2. CASE i \notin Places(t)
    <3>1. t = s /\ i = l + 1 /\ senderQueue'[t][i] = <<kind, m>>
      BY <1>1, <1>3, <2>2
    <3>2. \A j \in Places(t)' : ~(j > i)
      BY <1>1, <3>1 DEF Places
    <3> QED BY <3>1, <3>2 DEF s
  <2> QED BY <2>1, <2>2
<1>6. QueuedStages'
  <2> SUFFICES ASSUME NEW t \in Senders, NEW i \in Places(t)'
               PROVE  /\ stage'[senderQueue'[t][i][2]] # "new"
                      /\ senderQueue'[t][i][1] = "request" => stage'[senderQueue'[t][i][2]] = "queued"
    BY DEF QueuedStages
  <2>1. CASE i \in Places(t)
    <3>1. senderQueue'[t][i] = senderQueue[t][i] /\ senderQueue[t][i][2] \in Messages
      BY <1>2, <1>4, <2>1
    <3>2. /\ stage[senderQueue[t][i][2]] # "new"
          /\ senderQueue[t][i][1] = "request" => stage[senderQueue[t][i][2]] = "queued"
      BY <2>1 DEF QueuedStages
    <3>3. stage'[senderQueue[t][i][2]] = stage[senderQueue[t][i][2]]
      BY <3>1, <3>2
    <3> QED BY <3>1, <3>2, <3>3
  <2>2. CASE i \notin Places(t)
    <3>1. senderQueue'[t][i] = <<kind, m>>
      BY <1>1, <1>3, <2>2
    <3> QED BY <3>1
  <2> QED BY <2>1, <2>2
<1>7. \A n \in Messages : SenderOf[n] \in Senders /\ DOMAIN senderQueue[SenderOf[n]] = Places(SenderOf[n])
                          /\ DOMAIN senderQueue'[SenderOf[n]] = Places(SenderOf[n])'
  BY <1>1, ServiceAssumption DEF ServerTypeOK, Places
<1>8. \A n \in Messages : (Queued(n) => Queued(n)') /\ (CancelWaits(n) => CancelWaits(n)')
  BY <1>4, <1>7 DEF Queued, CancelWaits
<1>9. IF kind = "request" THEN Queued(m)' ELSE CancelWaits(m)'
  BY <1>1, <1>3, <1>7 DEF Queued, CancelWaits, s
<1> QED BY <1>5, <1>6, <1>8, <1>9

\* What is dispatched is gone from the queue, and the rest of it is kept.
LEMMA DispatchKeeps ==
  ASSUME ServerTypeOK, RequestsFirst, NEW s \in Senders, senderQueue[s] # <<>>,
         senderQueue' = [senderQueue EXCEPT ![s] = Tail(@)]
  PROVE  /\ Head(senderQueue[s]) \in {"request", "cancel"} \X Messages
         /\ SenderOf[Head(senderQueue[s])[2]] = s
         /\ senderQueue' \in [Senders -> Seq({"request", "cancel"} \X Messages)]
         /\ RequestsFirst'
         /\ \A t \in Senders : \A i \in Places(t)' :
              /\ \E j \in Places(t) : senderQueue'[t][i] = senderQueue[t][j]
              /\ senderQueue'[t][i] # <<"request", Head(senderQueue[s])[2]>>
         /\ \A n \in Messages : n = Head(senderQueue[s])[2] => ~Queued(n)'
         /\ \A n \in Messages :
              /\ Head(senderQueue[s]) # <<"request", n>> => (Queued(n) => Queued(n)')
              /\ Head(senderQueue[s]) # <<"cancel", n>> => (CancelWaits(n) => CancelWaits(n)')
<1> DEFINE h == Head(senderQueue[s])
           l == Len(senderQueue[s])
<1>1. /\ l \in Nat \ {0} /\ h = senderQueue[s][1] /\ h \in {"request", "cancel"} \X Messages
      /\ senderQueue' \in [Senders -> Seq({"request", "cancel"} \X Messages)]
      /\ \A t \in Senders : t # s => senderQueue'[t] = senderQueue[t]
      /\ Len(senderQueue'[s]) = l - 1
      /\ \A i \in 1..l - 1 : senderQueue'[s][i] = senderQueue[s][i + 1]
  BY Dispatched
<1>2. Places(s) = 1..l /\ Places(s)' = 1..(l - 1) /\ \A t \in Senders : t # s => Places(t)' = Places(t)
  BY <1>1 DEF Places
<1> HIDE DEF h, l
<1>3. SenderOf[h[2]] = s
  BY <1>1, <1>2 DEF RequestsFirst
<1>4. ASSUME NEW t \in Senders, NEW i \in Places(t)'
      PROVE  \E j \in Places(t) : /\ senderQueue'[t][i] = senderQueue[t][j]
                                  /\ t = s => j = i + 1
                                  /\ t # s => j = i
  <2>1. CASE t = s
    <3>1. i + 1 \in Places(s) /\ senderQueue'[s][i] = senderQueue[s][i + 1]
      BY <1>1, <1>2, <1>4, <2>1
    <3> QED BY <2>1, <3>1
  <2>2. CASE t # s
    BY <1>1, <1>2, <1>4, <2>2
  <2> QED BY <2>1, <2>2
<1>5. ASSUME NEW t \in Senders, NEW i \in Places(t)'
      PROVE  senderQueue'[t][i] # <<"request", h[2]>>
  <2>1. CASE t = s
    <3>1. i + 1 \in Places(s) /\ i + 1 > 1 /\ 1 \in Places(s) /\ senderQueue'[t][i] = senderQueue[s][i + 1]
      BY <1>1, <1>2, <1>5, <2>1
    <3>2. \A j \in Places(s) : j > 1 => senderQueue[s][j] # <<"request", senderQueue[s][1][2]>>
      BY <3>1 DEF RequestsFirst
    <3> QED BY <1>1, <3>1, <3>2
  <2>2. CASE t # s
    <3>1. i \in Places(t) /\ senderQueue'[t][i] = senderQueue[t][i]
      BY <1>1, <1>2, <1>5, <2>2
    <3>2. SenderOf[senderQueue[t][i][2]] = t
      BY <3>1 DEF RequestsFirst
    <3> QED BY <1>3, <2>2, <3>1, <3>2
  <2> QED BY <2>1, <2>2
<1>6. RequestsFirst'
  <2> SUFFICES ASSUME NEW t \in Senders, NEW i \in Places(t)'
               PROVE  /\ SenderOf[senderQueue'[t][i][2]] = t
                      /\ \A j \in Places(t)' : j > i => senderQueue'[t][j] # <<"request", senderQueue'[t][i][2]>>
    BY DEF RequestsFirst
  <2>1. CASE t = s
    <3>1. \A j \in Places(s)' : j \in Nat /\ j + 1 \in Places(s) /\ senderQueue'[s][j] = senderQueue[s][j + 1]
      BY <1>1, <1>2
    <3>2. \A j \in Places(s)' : j > i => j + 1 > i + 1
      BY <2>1, <3>1
    <3>3. /\ SenderOf[senderQueue[s][i + 1][2]] = s
          /\ \A j \in Places(s) : j > i + 1 => senderQueue[s][j] # <<"request", senderQueue[s][i + 1][2]>>
      BY <2>1, <3>1 DEF RequestsFirst
    <3>4. ASSUME NEW j \in Places(s)', j > i
          PROVE  senderQueue'[s][j] # <<"request", senderQueue'[s][i][2]>>
      <4>1. j + 1 \in Places(s) /\ j + 1 > i + 1 /\ senderQueue'[s][j] = senderQueue[s][j + 1]
        BY <3>1, <3>2, <3>4
      <4> QED BY <2>1, <3>1, <3>3, <4>1
    <3> QED BY <2>1, <3>1, <3>3, <3>4
  <2>2. CASE t # s
    BY <1>1, <1>2, <2>2 DEF RequestsFirst
  <2> QED BY <2>1, <2>2
<1>7. \A n \in Messages : SenderOf[n] \in Senders /\ DOMAIN senderQueue[SenderOf[n]] = Places(SenderOf[n])
                          /\ DOMAIN senderQueue'[SenderOf[n]] = Places(SenderOf[n])'
  BY <1>1, ServiceAssumption DEF ServerTypeOK, Places
<1>8. \A n \in Messages : n = h[2] => ~Queued(n)'
  BY <1>3, <1>5, <1>7 DEF Queued
<1>9. ASSUME NEW n \in Messages, NEW kind \in {"request", "cancel"}, h # <<kind, n>>,
             NEW i \in Places(SenderOf[n]), senderQueue[SenderOf[n]][i] = <<kind, n>>
      PROVE  \E j \in Places(SenderOf[n])' : senderQueue'[SenderOf[n]][j] = <<kind, n>>
  <2>1. CASE SenderOf[n] = s
    <3>1. i \in 1..l /\ i # 1
      BY <1>1, <1>2, <1>9, <2>1
    <3>2. i - 1 \in 1..(l - 1) /\ (i - 1) + 1 = i
      BY <1>1, <3>1
    <3>3. senderQueue'[s][i - 1] = senderQueue[s][i]
      BY <1>1, <3>2
    <3> QED BY <1>2, <1>9, <2>1, <3>2, <3>3
  <2>2. CASE SenderOf[n] # s
    BY <1>1, <1>2, <1>7, <1>9, <2>2
  <2> QED BY <2>1, <2>2
<1>10. \A n \in Messages :
         /\ h # <<"request", n>> => (Queued(n) => Queued(n)')
         /\ h # <<"cancel", n>> => (CancelWaits(n) => CancelWaits(n)')
  BY <1>7, <1>9 DEF Queued, CancelWaits
<1>11. \A t \in Senders : \A i \in Places(t)' :
         /\ \E j \in Places(t) : senderQueue'[t][i] = senderQueue[t][j]
         /\ senderQueue'[t][i] # <<"request", h[2]>>
  BY <1>4, <1>5
<1>12. h \in {"request", "cancel"} \X Messages
       /\ senderQueue' \in [Senders -> Seq({"request", "cancel"} \X Messages)]
  BY <1>1
<1> QED BY <1>3, <1>6, <1>8, <1>10, <1>11, <1>12, Zenon DEF h
-----------------------------------------------------------------------------
(* The actions. *)

\* A message that comes, with its subscription.
LEMMA HandleRequestKeeps ==
  ASSUME ServerIInv, NEW m \in Messages, NEW ms \in SUBSET {m}, HandleRequest(m, ms)
  PROVE  ServerIInv'
<1> USE DEF ServerIInv
<1>0. /\ stage[m] = "new" /\ closed = "no" /\ closed' = closed
      /\ stage' = [stage EXCEPT ![m] = "queued"] /\ Schedule("request", m)
      /\ m_subscriptions' = m_subscriptions \cup ms /\ busCancels' = busCancels \cup ms
      /\ m_subscribed' = m_subscribed \cup ms
      /\ UNCHANGED <<cancelSignal, held, answers, addFailed>>
  BY DEF HandleRequest, EnableSubscriptions, AddSubscriptions, LSSubscriptionAdd
<1>1. /\ RequestsFirst' /\ QueuedStages'
      /\ \A n \in Messages : (Queued(n) => Queued(n)') /\ (CancelWaits(n) => CancelWaits(n)')
      /\ Queued(m)'
  <2>1. stage'[m] = "queued" /\ \A n \in Messages : n # m => stage'[n] = stage[n]
    BY <1>0 DEF ServerTypeOK
  <2> QED BY <1>0, <2>1, ScheduleKeeps
<1>2. ServerTypeOK'
  <2>1. senderQueue' \in [Senders -> Seq({"request", "cancel"} \X Messages)]
    BY <1>0, Scheduled
  <2> QED BY <1>0, <2>1 DEF ServerTypeOK
<1>3. MessageStages' /\ AnsweredOnce'
  <2>1. \A n \in Messages : stage'[n] = IF n = m THEN "queued" ELSE stage[n]
    BY <1>0 DEF ServerTypeOK
  <2> QED BY <1>0, <2>1 DEF MessageStages, AnsweredOnce
<1>4. m_subscribed' = m_subscriptions' \ addFailed'
  BY <1>0 DEF MessageStages
<1>5. KeptOrQueued'
  BY <1>0, <1>1 DEF KeptOrQueued, ServerTypeOK
<1>6. CancelComes'
  BY <1>0, <1>1 DEF CancelComes, ServerTypeOK
<1>7. ClosedRests'
  BY <1>0 DEF ClosedRests
<1> QED BY <1>1, <1>2, <1>3, <1>4, <1>5, <1>6, <1>7

\* A message that is refused is not queued, and is not flagged.
LEMMA RefuseRequestKeeps ==
  ASSUME ServerIInv, NEW m \in Messages, NEW adds \in SUBSET {m}, RefuseRequest(m, adds)
  PROVE  ServerIInv'
<1> USE DEF ServerIInv
<1>0. /\ stage[m] = "new" /\ closed = "no" /\ closed' = closed
      /\ stage' = [stage EXCEPT ![m] = "done"]
      /\ m_subscriptions' = m_subscriptions \cup adds /\ addFailed' = addFailed \cup adds
      /\ answers' = [answers EXCEPT ![m] = <<"error">>]
      /\ UNCHANGED <<senderQueue, m_subscribed, cancelSignal, held, busCancels>>
  BY DEF RefuseRequest, AddSubscriptions
<1>1. \A n \in Messages : /\ stage'[n] = IF n = m THEN "done" ELSE stage[n]
                          /\ answers'[n] = IF n = m THEN <<"error">> ELSE answers[n]
  BY <1>0 DEF ServerTypeOK
<1>2. ServerTypeOK'
  BY <1>0 DEF ServerTypeOK
<1>3. RequestsFirst' /\ QueuedStages'
  <2>1. \A s \in Senders : \A i \in Places(s) :
          senderQueue[s][i][2] \in Messages /\ senderQueue[s][i][2] # m
    BY <1>0 DEF ServerTypeOK, QueuedStages, Places
  <2> QED BY <1>0, <1>1, <2>1 DEF RequestsFirst, QueuedStages, Places
<1>4. MessageStages'
  BY <1>0, <1>1 DEF MessageStages
<1>5. AnsweredOnce'
  BY <1>0, <1>1 DEF AnsweredOnce
<1>6. m_subscribed' = m_subscriptions' \ addFailed'
  BY <1>0 DEF MessageStages
<1>7. KeptOrQueued' /\ CancelComes' /\ ClosedRests'
  BY <1>0 DEF KeptOrQueued, CancelComes, ClosedRests, Queued, CancelWaits
<1> QED BY <1>2, <1>3, <1>4, <1>5, <1>6, <1>7

\* A method keeps its message with its cancel slot and the subscription, or it removes the
\* subscription.
LEMMA DispatchRequestKeeps ==
  ASSUME ServerIInv, NEW s \in Senders, NEW does \in Methods, DispatchRequest(s, does)
  PROVE  ServerIInv'
<1> USE DEF ServerIInv
<1> DEFINE m == Head(senderQueue[s])[2]
           keeps == IF Connects(does) THEN {m} ELSE {}
<1>0. /\ senderQueue[s] # <<>> /\ Head(senderQueue[s])[1] = "request"
      /\ senderQueue' = [senderQueue EXCEPT ![s] = Tail(@)]
      /\ stage' = [stage EXCEPT ![m] = IF does = "silent" THEN "silent" ELSE "done"]
      /\ answers' = [answers EXCEPT ![m] = AnswersOf(does)]
      /\ m_subscribed' = (m_subscribed \ {m}) \cup keeps
      /\ m_subscriptions' = (m_subscriptions \ {m}) \cup keeps
      /\ busCancels' = busCancels \cup keeps
      /\ cancelSignal' = cancelSignal \cup keeps /\ held' = held \cup keeps
      /\ UNCHANGED <<addFailed, closed>>
  BY DEF DispatchRequest, SubscribedAfter
<1>1. /\ Head(senderQueue[s]) \in {"request", "cancel"} \X Messages
      /\ SenderOf[m] = s
      /\ senderQueue' \in [Senders -> Seq({"request", "cancel"} \X Messages)]
      /\ RequestsFirst'
      /\ \A t \in Senders : \A i \in Places(t)' :
           /\ \E j \in Places(t) : senderQueue'[t][i] = senderQueue[t][j]
           /\ senderQueue'[t][i] # <<"request", m>>
      /\ \A n \in Messages : n # m => (Queued(n) => Queued(n)')
      /\ \A n \in Messages : CancelWaits(n) => CancelWaits(n)'
  <2>1. \A n \in Messages : Head(senderQueue[s]) # <<"cancel", n>>
    BY <1>0
  <2>2. \A n \in Messages : n # m => Head(senderQueue[s]) # <<"request", n>>
    OBVIOUS
  <2> QED BY <1>0, <2>1, <2>2, DispatchKeeps
<1>2. m \in Messages /\ stage[m] = "queued"
  <2>1. 1 \in Places(s) /\ Head(senderQueue[s]) = senderQueue[s][1]
    BY <1>0 DEF ServerTypeOK, Places
  <2> QED BY <1>0, <1>1, <2>1 DEF QueuedStages
<1>3. keeps \subseteq {m} /\ (does # "silent" => AnswersOf(does) \in {<<"data">>, <<"error">>})
      /\ (does = "silent" => AnswersOf(does) = <<>>)
  BY DEF Methods, AnswersOf
<1> HIDE DEF m, keeps
<1>4. \A n \in Messages :
        /\ stage'[n] = IF n = m THEN (IF does = "silent" THEN "silent" ELSE "done") ELSE stage[n]
        /\ answers'[n] = IF n = m THEN AnswersOf(does) ELSE answers[n]
  BY <1>0 DEF ServerTypeOK
<1>5. ServerTypeOK'
  <2>1. AnswersOf(does) \in Seq({"data", "error"})
    <3>1. /\ <<>> \in Seq({"data", "error"})
          /\ <<"data">> \in Seq({"data", "error"}) /\ <<"error">> \in Seq({"data", "error"})
      OBVIOUS
    <3> QED BY <1>3, <3>1
  <2>2. answers' \in [Messages -> Seq({"data", "error"})]
    BY <1>0, <1>2, <2>1 DEF ServerTypeOK
  <2> QED BY <1>0, <1>1, <1>2, <1>3, <2>2 DEF ServerTypeOK
<1>6. QueuedStages'
  <2> SUFFICES ASSUME NEW t \in Senders, NEW i \in Places(t)'
               PROVE  /\ stage'[senderQueue'[t][i][2]] # "new"
                      /\ senderQueue'[t][i][1] = "request" => stage'[senderQueue'[t][i][2]] = "queued"
    BY DEF QueuedStages
  <2>1. PICK j \in Places(t) : senderQueue'[t][i] = senderQueue[t][j]
    BY <1>1
  <2>2. senderQueue'[t][i] # <<"request", m>>
    BY <1>1
  <2>3. senderQueue[t][j] \in {"request", "cancel"} \X Messages
    BY DEF ServerTypeOK, Places
  <2>4. /\ stage[senderQueue[t][j][2]] # "new"
        /\ senderQueue[t][j][1] = "request" => stage[senderQueue[t][j][2]] = "queued"
    BY DEF QueuedStages
  <2>5. CASE senderQueue[t][j][2] = m
    BY <1>2, <1>4, <2>1, <2>2, <2>3, <2>5
  <2>6. CASE senderQueue[t][j][2] # m
    BY <1>4, <2>1, <2>3, <2>4, <2>6
  <2> QED BY <2>5, <2>6
<1>7. m \notin addFailed
  BY <1>2 DEF MessageStages
<1>8. MessageStages'
  BY <1>0, <1>2, <1>3, <1>4, <1>7 DEF MessageStages
<1>9. m_subscribed' = m_subscriptions' \ addFailed'
  BY <1>0, <1>3, <1>7
<1>10. KeptOrQueued'
  BY <1>0, <1>1, <1>3 DEF KeptOrQueued, ServerTypeOK
<1>11. CancelComes'
  BY <1>0, <1>1, <1>3 DEF CancelComes, ServerTypeOK
<1>12. ClosedRests'
  BY <1>0 DEF ClosedRests
<1>13. AnsweredOnce'
  <2>1. ASSUME NEW n \in Messages
        PROVE  /\ stage'[n] = "done" => answers'[n] # <<>>
               /\ \A i \in DOMAIN answers'[n] : answers'[n][i] = "error" => i = 1
    <3>1. CASE n = m
      BY <1>3, <1>4, <2>1, <3>1
    <3>2. CASE n # m
      BY <1>4, <2>1, <3>2 DEF AnsweredOnce
    <3> QED BY <3>1, <3>2
  <2> QED BY <2>1 DEF AnsweredOnce
<1> QED BY <1>1, <1>5, <1>6, <1>8, <1>9, <1>10, <1>11, <1>12, <1>13

\* A handler that is done leaves nothing of the subscription.
LEMMA NotifyKeeps == ASSUME ServerIInv, NEW m \in Messages, Notify(m) PROVE ServerIInv'
<1> USE DEF ServerIInv
<1>0. /\ m \in held /\ answers[m] = <<"data">>
      /\ answers' = [answers EXCEPT ![m] = Append(answers[m], "data")]
      /\ m_subscribed' = m_subscribed \ {m} /\ m_subscriptions' = m_subscriptions \ {m}
      /\ cancelSignal' = cancelSignal \ {m} /\ held' = held \ {m}
      /\ UNCHANGED <<stage, senderQueue, busCancels, addFailed, closed>>
  BY DEF Notify
<1> DEFINE both == Append(answers[m], "data")
<1>1. /\ both \in Seq({"data", "error"}) /\ both # <<>>
      /\ \A i \in DOMAIN both : both[i] = "data"
  <2>1. answers[m] \in Seq({"data", "error"}) /\ \A i \in DOMAIN answers[m] : answers[m][i] = "data"
    BY <1>0 DEF ServerTypeOK
  <2> QED BY <2>1
<1> HIDE DEF both
<1>2. \A n \in Messages : answers'[n] = IF n = m THEN both ELSE answers[n]
  BY <1>0 DEF ServerTypeOK, both
<1>3. ServerTypeOK'
  <2>1. answers' \in [Messages -> Seq({"data", "error"})]
    BY <1>0, <1>1 DEF ServerTypeOK, both
  <2> QED BY <1>0, <2>1 DEF ServerTypeOK
<1>4. RequestsFirst' /\ QueuedStages'
  BY <1>0 DEF RequestsFirst, QueuedStages, Places
<1>5. MessageStages' /\ m_subscribed' = m_subscriptions' \ addFailed'
  BY <1>0, <1>2 DEF MessageStages
<1>6. KeptOrQueued' /\ CancelComes' /\ ClosedRests'
  BY <1>0 DEF KeptOrQueued, CancelComes, ClosedRests, Queued, CancelWaits
<1>7. AnsweredOnce'
  BY <1>0, <1>1, <1>2 DEF AnsweredOnce
<1> QED BY <1>3, <1>4, <1>5, <1>6, <1>7

\* A client that cancels has its cancel scheduled.
LEMMA HandleCancelKeeps == ASSUME ServerIInv, NEW m \in Messages, HandleCancel(m) PROVE ServerIInv'
<1> USE DEF ServerIInv
<1>0. /\ m \in busCancels /\ closed = "no" /\ busCancels' = busCancels \ {m} /\ Schedule("cancel", m)
      /\ UNCHANGED <<stage, m_subscriptions, m_subscribed, cancelSignal, held, answers, addFailed, closed>>
  BY DEF HandleCancel
<1>1. /\ RequestsFirst' /\ QueuedStages'
      /\ \A n \in Messages : (Queued(n) => Queued(n)') /\ (CancelWaits(n) => CancelWaits(n)')
      /\ CancelWaits(m)'
  <2>1. stage[m] # "new" /\ stage' = stage
    BY <1>0 DEF MessageStages
  <2> QED BY <1>0, <2>1, ScheduleKeeps
<1>2. ServerTypeOK'
  <2>1. senderQueue' \in [Senders -> Seq({"request", "cancel"} \X Messages)]
    BY <1>0, Scheduled
  <2> QED BY <1>0, <2>1 DEF ServerTypeOK
<1>3. MessageStages' /\ AnsweredOnce' /\ m_subscribed' = m_subscriptions' \ addFailed'
  BY <1>0 DEF MessageStages, AnsweredOnce
<1>4. KeptOrQueued' /\ CancelComes' /\ ClosedRests'
  BY <1>0, <1>1 DEF KeptOrQueued, CancelComes, ClosedRests, ServerTypeOK
<1> QED BY <1>1, <1>2, <1>3, <1>4

\* A cancel that is dispatched finds the subscription of a message whose request was
\* handled before it, if there is one, and ends it.
LEMMA DispatchCancelKeeps == ASSUME ServerIInv, NEW s \in Senders, DispatchCancel(s) PROVE ServerIInv'
<1> USE DEF ServerIInv
<1> DEFINE m == Head(senderQueue[s])[2]
           ms == CancelledBy(m)
<1>0. /\ senderQueue[s] # <<>> /\ Head(senderQueue[s])[1] = "cancel"
      /\ senderQueue' = [senderQueue EXCEPT ![s] = Tail(@)]
      /\ cancelSignal' = cancelSignal \ ms /\ held' = held \ ms
      /\ m_subscribed' = m_subscribed \ (ms \cap cancelSignal)
      /\ m_subscriptions' = m_subscriptions \ (ms \cap cancelSignal)
      /\ UNCHANGED <<stage, answers, busCancels, addFailed, closed>>
  BY DEF DispatchCancel
<1>dispatched. /\ Head(senderQueue[s]) \in {"request", "cancel"} \X Messages
               /\ SenderOf[Head(senderQueue[s])[2]] = s
               /\ senderQueue' \in [Senders -> Seq({"request", "cancel"} \X Messages)]
               /\ RequestsFirst'
               /\ \A t \in Senders : \A i \in Places(t)' :
                    /\ \E j \in Places(t) : senderQueue'[t][i] = senderQueue[t][j]
                    /\ senderQueue'[t][i] # <<"request", Head(senderQueue[s])[2]>>
               /\ \A n \in Messages : n = Head(senderQueue[s])[2] => ~Queued(n)'
               /\ \A n \in Messages :
                    /\ Head(senderQueue[s]) # <<"request", n>> => (Queued(n) => Queued(n)')
                    /\ Head(senderQueue[s]) # <<"cancel", n>> => (CancelWaits(n) => CancelWaits(n)')
  <2> HIDE DEF ServerIInv, m, ms
  <2>1. ServerTypeOK /\ RequestsFirst
    BY DEF ServerIInv
  <2> QED BY ONLY <1>0, <2>1, DispatchKeeps
<1>1. /\ Head(senderQueue[s]) \in {"request", "cancel"} \X Messages
      /\ SenderOf[m] = s
      /\ senderQueue' \in [Senders -> Seq({"request", "cancel"} \X Messages)]
      /\ RequestsFirst'
  BY <1>dispatched
<1>moved. \A t \in Senders : \A i \in Places(t)' : \E j \in Places(t) : senderQueue'[t][i] = senderQueue[t][j]
  BY <1>dispatched
<1>waits. \A n \in Messages : /\ n = m => ~Queued(n)'
                              /\ Queued(n) => Queued(n)'
                              /\ n # m => (CancelWaits(n) => CancelWaits(n)')
  <2>1. TAKE n \in Messages
  <2>2. Head(senderQueue[s]) # <<"request", n>>
    BY <1>0
  <2>3. n # m => Head(senderQueue[s]) # <<"cancel", n>>
    OBVIOUS
  <2> QED BY <2>2, <2>3, <1>dispatched
<1>2. m \in Messages /\ ms = {m} \cap m_subscriptions
  BY <1>1 DEF CancelledBy, SubscriptionKey, ServerTypeOK
<1> HIDE DEF m, ms
<1>3. m \in m_subscribed => m \in cancelSignal
  BY <1>waits, <1>2 DEF KeptOrQueued
<1>4. ServerTypeOK'
  BY <1>0, <1>1 DEF ServerTypeOK
<1>5. QueuedStages'
  <2> SUFFICES ASSUME NEW t \in Senders, NEW i \in Places(t)'
               PROVE  /\ stage'[senderQueue'[t][i][2]] # "new"
                      /\ senderQueue'[t][i][1] = "request" => stage'[senderQueue'[t][i][2]] = "queued"
    BY DEF QueuedStages
  <2>1. PICK j \in Places(t) : senderQueue'[t][i] = senderQueue[t][j]
    BY <1>moved
  <2> QED BY <1>0, <2>1 DEF QueuedStages
<1>6. MessageStages' /\ AnsweredOnce' /\ m_subscribed' = m_subscriptions' \ addFailed'
  BY <1>0 DEF MessageStages, AnsweredOnce
<1>7. KeptOrQueued'
  <2> SUFFICES ASSUME NEW n \in m_subscribed' PROVE n \in held' \/ Queued(n)'
    BY <1>0 DEF KeptOrQueued
  <2>1. n \in Messages /\ n \in m_subscribed /\ (n = m => m \notin m_subscribed')
    BY <1>0, <1>2, <1>3 DEF ServerTypeOK
  <2>2. n \in held \/ Queued(n)
    BY <2>1 DEF KeptOrQueued
  <2> QED BY <1>0, <1>2, <1>waits, <2>1, <2>2
<1>8. CancelComes'
  <2> SUFFICES ASSUME NEW n \in m_subscribed' PROVE n \in busCancels' \/ CancelWaits(n)'
    BY DEF CancelComes
  <2>1. n \in Messages /\ n \in m_subscribed /\ n # m
    BY <1>0, <1>2, <1>3 DEF ServerTypeOK
  <2>2. n \in busCancels \/ CancelWaits(n)
    BY <2>1 DEF CancelComes
  <2> QED BY <1>0, <1>waits, <2>1, <2>2
<1>9. ClosedRests'
  BY <1>0 DEF ClosedRests
<1> QED BY <1>1, <1>4, <1>5, <1>6, <1>7, <1>8, <1>9

\* Nothing is queued when the service closes, so each subscription has its cancel slot.
LEMMA CloseServiceKeeps == ASSUME ServerIInv, CloseService PROVE ServerIInv'
<1> USE DEF ServerIInv
<1>0. /\ closed' = "yes" /\ \A s \in Senders : senderQueue[s] = <<>>
      /\ held' = held \ m_subscriptions /\ m_subscribed' = m_subscribed \ cancelSignal
      /\ cancelSignal' = cancelSignal \ m_subscriptions
      /\ m_subscriptions' = m_subscriptions \ cancelSignal
      /\ UNCHANGED <<stage, senderQueue, answers, busCancels, addFailed>>
  BY DEF CloseService
<1>1. \A m \in Messages : ~Queued(m)
  BY <1>0, ServiceAssumption DEF Queued
<1>2. m_subscribed \subseteq cancelSignal
  BY <1>1 DEF KeptOrQueued, ServerTypeOK
<1>3. ServerTypeOK'
  BY <1>0 DEF ServerTypeOK
<1>4. RequestsFirst' /\ QueuedStages'
  BY <1>0 DEF RequestsFirst, QueuedStages, Places
<1>5. MessageStages' /\ AnsweredOnce' /\ m_subscribed' = m_subscriptions' \ addFailed'
  BY <1>0 DEF MessageStages, AnsweredOnce
<1>6. KeptOrQueued' /\ CancelComes'
  BY <1>0, <1>2 DEF KeptOrQueued, CancelComes
<1>7. ClosedRests'
  BY <1>0, <1>2 DEF ClosedRests
<1> QED BY <1>3, <1>4, <1>5, <1>6, <1>7

\* The invariant of the subscriptions.
LEMMA ServerStep == ASSUME ServerIInv, [ServerNext]_serverVars PROVE ServerIInv'
<1>1. CASE UNCHANGED serverVars
  <2>1. ServerTypeOK' /\ RequestsFirst' /\ QueuedStages'
    BY <1>1 DEF ServerIInv, ServerTypeOK, RequestsFirst, QueuedStages, Places, serverVars
  <2>2. MessageStages' /\ AnsweredOnce' /\ (m_subscribed = m_subscriptions \ addFailed)'
    BY <1>1 DEF ServerIInv, MessageStages, AnsweredOnce, serverVars
  <2>3. KeptOrQueued' /\ CancelComes' /\ ClosedRests'
    BY <1>1 DEF ServerIInv, KeptOrQueued, Queued, CancelComes, CancelWaits, ClosedRests, serverVars
  <2> QED BY <2>1, <2>2, <2>3 DEF ServerIInv
<1> QED
  BY <1>1, HandleRequestKeeps, RefuseRequestKeeps, NotifyKeeps, HandleCancelKeeps, DispatchCancelKeeps,
     DispatchRequestKeeps, CloseServiceKeeps
  DEF ServerNext

\* The map of subscriptions, the flags of the messages and the slots of their cancels
\* agree, a message that was dispatched is answered once, and neither a cancel nor close()
\* leaves a subscription (MojService, MojServiceMessage, MojLunaService::handleCancel).
THEOREM SubscriptionsEnd == ServerInit /\ [][ServerNext]_serverVars => []SubscriptionsKept
<1>1. ServerInit => ServerIInv
  BY DEF ServerInit, ServerIInv, ServerTypeOK, RequestsFirst, QueuedStages, Places, MessageStages,
     KeptOrQueued, CancelComes, ClosedRests, AnsweredOnce
<1> QED BY <1>1, ServerInvImplies, ServerStep, PTL
-----------------------------------------------------------------------------
(* The requests the service makes of others.                               *)

\* A request is sent once; only a database that is open purges or has a locale, and the
\* activity is held as long as its adoption is open.
InternalIInv ==
  /\ calls \in [CallNames -> {"none", "open", "ended"}]
  /\ m_handled \in BOOLEAN /\ space \in BOOLEAN
  /\ purges \in 0..1 /\ (~m_handled => purges = 0) /\ alerts \in Nat
  /\ calls["adopt"] = "none" => ~m_handled /\ purges = 0 /\ calls["complete"] = "none" /\ activity = "none"
  /\ calls["bootStatus"] # "none" => calls["adopt"] = "none" /\ calls["preferences"] = "none"
  /\ calls["bootStatus"] = "none" => alerts = 0
  /\ calls["preferences"] = "none" => locale = "none"
  /\ PurgedOnce

\* Every reply, of whatever request, keeps it.
LEMMA InternalStep == ASSUME InternalIInv, [InternalNext]_internalVars PROVE InternalIInv'
<1> USE DEF InternalIInv, PurgedOnce
<1>0. CallNames = {"adopt", "complete", "bootStatus", "alert", "preferences"}
  BY DEF CallNames
<1>1. CASE UNCHANGED internalVars
  BY <1>1 DEF internalVars
<1>2. ASSUME NEW check \in BOOLEAN, ScheduledPurge(check) PROVE InternalIInv'
  BY <1>0, <1>2 DEF ScheduledPurge, Set
<1>3. CASE AdoptFails
  BY <1>0, <1>3 DEF AdoptFails, Takes, Set, Lost
<1>4. CASE HandleAdopt
  <2>1. CASE m_handled
    BY <1>0, <1>4, <2>1 DEF HandleAdopt, Takes
  <2>2. CASE ~m_handled
    <3>1. /\ calls["adopt"] = "open" /\ calls' = [c \in CallNames |-> IF c = "complete" THEN "open" ELSE calls[c]]
          /\ m_handled' = TRUE /\ purges = 0 /\ purges' = IF space THEN 0 ELSE 1
          /\ UNCHANGED <<space, activity, alerts, locale>>
      BY <1>4, <2>2 DEF HandleAdopt, Takes, Set
    <3> QED BY <1>0, <2>2, <3>1
  <2> QED BY <2>1, <2>2
<1>5. CASE PurgeFails
  BY <1>0, <1>5 DEF PurgeFails, Takes, Set
<1>6. ASSUME NEW ok \in BOOLEAN, HandleComplete(ok) PROVE InternalIInv'
  BY <1>0, <1>6 DEF HandleComplete, Takes, Set, Lost
<1>7. ASSUME NEW finished \in BOOLEAN, HandleBootStatus(finished) PROVE InternalIInv'
  BY <1>0, <1>7 DEF HandleBootStatus, Takes, Set
<1>8. CASE BootStatusFails \/ HandleAlert
  BY <1>0, <1>8 DEF BootStatusFails, HandleAlert, Takes, Set
<1>9. CASE LocaleEnds
  BY <1>0, <1>9 DEF LocaleEnds, Takes, Set
<1>10. ASSUME NEW new \in {"en", "fr"}, HandleLocale(new) PROVE InternalIInv'
  BY <1>0, <1>10 DEF HandleLocale, Takes
<1> QED BY <1>1, <1>2, <1>3, <1>4, <1>5, <1>6, <1>7, <1>8, <1>9, <1>10 DEF InternalNext

\* A scheduled purge is done at most once and its activity completed only after it, however
\* often the activity manager replies and whichever call fails
\* (MojDbServiceHandlerInternal::PurgeHandler).
THEOREM ScheduledPurges == InternalInit /\ [][InternalNext]_internalVars => []PurgedOnce
<1>1. InternalInit => InternalIInv
  <2> SUFFICES ASSUME InternalInit PROVE InternalIInv
    OBVIOUS
  <2>1. PICK first \in {"bootStatus", "preferences"} :
          calls = [c \in CallNames |-> IF c = first THEN "open" ELSE "none"]
    BY DEF InternalInit
  <2>2. /\ ~m_handled /\ ~space /\ purges = 0 /\ activity = "none" /\ alerts = 0 /\ locale = "none"
        /\ m_handled \in BOOLEAN /\ space \in BOOLEAN
    BY DEF InternalInit
  <2>3. /\ calls \in [CallNames -> {"none", "open", "ended"}]
        /\ calls["adopt"] = "none" /\ calls["complete"] = "none"
        /\ calls["bootStatus"] # "none" => calls["preferences"] = "none"
    BY <2>1 DEF CallNames
  <2> QED BY <2>2, <2>3 DEF InternalIInv, PurgedOnce
<1>2. InternalIInv => PurgedOnce
  BY DEF InternalIInv
<1> QED BY <1>1, <1>2, InternalStep, PTL
-----------------------------------------------------------------------------
(* The methods of the database on the bus.                                 *)

Members(s) == {s[i] : i \in DOMAIN s}
Results == {j \in DOMAIN call : call[j][2].result # "none"}

\* What a method does: without a result and a reply it does nothing.
EffectOK(e) ==
  /\ e.writes \in BOOLEAN /\ e.replied \in BOOLEAN
  /\ e.result = "none" /\ ~e.replied => e = NoEffect

ReplyRecords == [to : {"ok", "error"}, results : Seq(Nat), whole : BOOLEAN]

HandlerTypeOK ==
  /\ Len(call) \in Nat /\ DOMAIN call = 1..Len(call)
  /\ \A i \in DOMAIN call : EffectOK(call[i][2])
  /\ inBatch \in BOOLEAN /\ (~inBatch => Len(call) = 1)
  /\ nextOp \in 1..(Len(call) + 1)
  /\ data \in Seq(Nat) /\ work \in Seq(Nat) /\ storedOps \in Seq(Nat)
  /\ replies \in Seq(ReplyRecords)
  /\ handling \in {"calling", "ok", "answered"} \cup Errors /\ commitFailed \in BOOLEAN

\* What an attempt has done is in its transaction or committed in parts.
WorkDone ==
  /\ Members(work) \subseteq Writers /\ Members(storedOps) \subseteq Writers \cup {0}
  /\ handling # "calling" => work = <<>>
  /\ handling = "calling" => {j \in Writers : j < nextOp} \subseteq Members(work) \cup Members(storedOps)
  /\ handling = "ok" => nextOp = Len(call) + 1 /\ Writers \subseteq Members(storedOps)

\* Without parts, nothing is stored before the end, and then all of it, in order; an error
\* that is tried again has stored nothing, another one all of it when it came from the commit.
StoredAtEnd ==
  ~CommitsBefore =>
    /\ handling \in {"calling", "deadlock", "indexOnDel"} => storedOps = <<>>
    /\ handling \in {"invalid", "fatal"} => storedOps = <<>> \/ (commitFailed /\ Lists(storedOps, Writers))
    /\ handling = "calling" => Lists(work, {j \in Writers : j < nextOp})
    /\ handling = "ok" => Lists(storedOps, Writers)

\* The writer has the results so far, and the reply is left to the service.
WriterHolds ==
  ~RepliesItself =>
    /\ handling \in {"calling", "ok"} => Lists(data, {j \in Results : j < nextOp})
    /\ handling # "answered" => replies = <<>>

\* An error is the last thing that is sent.
NoErrorBefore ==
  handling # "answered" => \A i \in DOMAIN replies : replies[i].to = "ok"

HandlerIInv ==
  HandlerTypeOK /\ WorkDone /\ StoredAtEnd /\ WriterHolds /\ NoErrorBefore /\ HandlerAnswers

\* The effects of the methods.
LEMMA MethodEffects ==
  ASSUME NEW m \in PublicMethods \cup PrivateMethods PROVE EffectOK(m[2])
<1> USE DEF Effect, Refused, NoEffect, Reads, Writes, Replies, EffectOK
<1>1. \A keys : EffectOK(HandleDel(keys))
  BY DEF HandleDel
<1>2. \A keys : EffectOK(HandleMerge(keys))
  BY DEF HandleMerge
<1>3. \A keys : EffectOK(HandleFind(keys)) /\ EffectOK(HandleSearch(keys))
  BY DEF HandleFind, HandleSearch
<1>4. EffectOK(HandleGet({})) /\ EffectOK(HandlePut({}))
  BY DEF HandleGet, HandlePut
<1>5. \A count : EffectOK(HandleReserveIds(count))
  BY DEF HandleReserveIds
<1>6. /\ EffectOK(HandleDelKind) /\ EffectOK(HandlePurgeStatus) /\ EffectOK(HandlePutKind)
      /\ EffectOK(HandlePutPermissions) /\ EffectOK(HandleWatch(FALSE))
  BY DEF HandleDelKind, HandlePurgeStatus, HandlePutKind, HandlePutPermissions, HandleWatch
<1>7. /\ EffectOK(HandleCompact) /\ EffectOK(HandleDump) /\ EffectOK(HandleLoad) /\ EffectOK(HandlePurge)
      /\ EffectOK(HandlePutQuotas) /\ EffectOK(HandleQuotaStats) /\ EffectOK(HandleStats) /\ EffectOK(HandleKinds)
  BY DEF HandleCompact, HandleDump, HandleLoad, HandlePurge, HandlePutQuotas, HandleQuotaStats, HandleStats,
         HandleKinds
<1> HIDE DEF EffectOK
<1>8. CASE m \in BatchMethods
  BY <1>1, <1>2, <1>3, <1>4, <1>8 DEF BatchMethods
<1>9. CASE m \in PublicMethods \ BatchMethods
  <2>1. CASE \E count \in 0..MaxReserveIdCount + 1 : m = <<"reserveIds", HandleReserveIds(count)>>
    BY <1>5, <2>1
  <2>2. CASE m \in {<<"delKind", HandleDelKind>>, <<"purgeStatus", HandlePurgeStatus>>,
                    <<"putKind", HandlePutKind>>, <<"putPermissions", HandlePutPermissions>>,
                    <<"watch", HandleWatch(FALSE)>>}
    <3>1. PICK name, e : m = <<name, e>> /\ EffectOK(e)
      BY ONLY <1>6, <2>2
    <3> QED BY <3>1
  <2> QED BY <1>9, <2>1, <2>2 DEF PublicMethods
<1>10. CASE m \in PrivateMethods
  BY <1>7, <1>10 DEF PrivateMethods
<1> QED BY <1>8, <1>9, <1>10

\* A sequence that lists a set up to a number, with that number.
LEMMA ListsNext ==
  ASSUME NEW S, S \subseteq Nat, NEW n \in Nat, NEW s \in Seq(Nat), Lists(s, {j \in S : j < n})
  PROVE  /\ n \in S => Lists(Append(s, n), {j \in S : j < n + 1})
         /\ n \notin S => Lists(s, {j \in S : j < n + 1})
<1>1. \A j \in S : j < n + 1 <=> j < n \/ j = n
  OBVIOUS
<1>2. ASSUME n \notin S PROVE {j \in S : j < n + 1} = {j \in S : j < n}
  BY <1>1, <1>2
<1>3. ASSUME n \in S PROVE Lists(Append(s, n), {j \in S : j < n + 1})
  <2> DEFINE t == Append(s, n)
  <2>1. /\ DOMAIN t = 1..(Len(s) + 1) /\ t[Len(s) + 1] = n /\ DOMAIN s = 1..Len(s) /\ Len(s) \in Nat
        /\ \A i \in 1..Len(s) : t[i] = s[i] /\ s[i] \in Nat
    OBVIOUS
  <2>2. \A i \in DOMAIN s : s[i] \in S /\ s[i] < n
    BY DEF Lists
  <2>3. \A j \in S : j < n => \E i \in DOMAIN s : s[i] = j
    BY DEF Lists
  <2> HIDE DEF t
  <2>4. {t[i] : i \in DOMAIN t} = {j \in S : j < n + 1}
    <3>1. \A i \in DOMAIN t : t[i] \in S /\ t[i] < n + 1
      BY <1>1, <1>3, <2>1, <2>2
    <3>2. ASSUME NEW j \in S, j < n + 1 PROVE \E i \in DOMAIN t : t[i] = j
      <4>1. CASE j = n
        BY <2>1, <4>1
      <4>2. CASE j < n
        <5>1. PICK i \in DOMAIN s : s[i] = j
          BY <2>3, <4>2
        <5> QED BY <2>1, <5>1
      <4> QED BY <1>1, <3>2, <4>1, <4>2
    <3> QED BY <3>1, <3>2
  <2>5. \A i, j \in DOMAIN t : i < j => t[i] < t[j]
    <3> SUFFICES ASSUME NEW i \in DOMAIN t, NEW j \in DOMAIN t, i < j PROVE t[i] < t[j]
      OBVIOUS
    <3>1. i \in DOMAIN s /\ t[i] = s[i]
      BY <2>1
    <3>2. CASE j \in DOMAIN s
      BY <2>1, <3>1, <3>2 DEF Lists
    <3>3. CASE j = Len(s) + 1
      BY <2>1, <2>2, <3>1, <3>3
    <3> QED BY <2>1, <3>2, <3>3
  <2> QED BY <2>4, <2>5 DEF Lists, t
<1> QED BY <1>2, <1>3

\* A longer sequence has the members of both.
LEMMA MembersOf ==
  /\ Members(<<>>) = {}
  /\ \A s \in Seq(Nat), n \in Nat : Members(Append(s, n)) = Members(s) \cup {n}
  /\ \A s \in Seq(Nat), t \in Seq(Nat) : s \o t \in Seq(Nat) /\ Members(s \o t) = Members(s) \cup Members(t)
  /\ \A s \in Seq(Nat) : <<>> \o s = s
<1>1. Members(<<>>) = {}
  BY DEF Members
<1>2. ASSUME NEW s \in Seq(Nat), NEW n \in Nat PROVE Members(Append(s, n)) = Members(s) \cup {n}
  <2>1. /\ DOMAIN Append(s, n) = 1..(Len(s) + 1) /\ Append(s, n)[Len(s) + 1] = n /\ DOMAIN s = 1..Len(s)
        /\ Len(s) \in Nat /\ \A i \in 1..Len(s) : Append(s, n)[i] = s[i]
    OBVIOUS
  <2>2. \A i \in DOMAIN Append(s, n) : Append(s, n)[i] \in Members(s) \cup {n}
    BY <2>1 DEF Members
  <2>3. \A x \in Members(s) \cup {n} : \E i \in DOMAIN Append(s, n) : Append(s, n)[i] = x
    BY <2>1 DEF Members
  <2> QED BY <2>2, <2>3 DEF Members
<1>3. ASSUME NEW s \in Seq(Nat), NEW t \in Seq(Nat)
      PROVE  s \o t \in Seq(Nat) /\ Members(s \o t) = Members(s) \cup Members(t)
  <2> DEFINE u == s \o t
  <2>1. /\ u \in Seq(Nat) /\ Len(u) = Len(s) + Len(t)
        /\ \A i \in 1..(Len(s) + Len(t)) : u[i] = IF i <= Len(s) THEN s[i] ELSE t[i - Len(s)]
    BY ConcatProperties
  <2>2. /\ DOMAIN u = 1..Len(u) /\ DOMAIN s = 1..Len(s) /\ DOMAIN t = 1..Len(t) /\ Len(s) \in Nat /\ Len(t) \in Nat
    BY <2>1
  <2> HIDE DEF u
  <2>3. ASSUME NEW i \in DOMAIN u PROVE u[i] \in Members(s) \cup Members(t)
    <3>1. CASE i <= Len(s)
      BY <2>1, <2>2, <3>1 DEF Members
    <3>2. CASE ~(i <= Len(s))
      <4>1. u[i] = t[i - Len(s)] /\ i - Len(s) \in DOMAIN t
        BY <2>1, <2>2, <3>2
      <4> QED BY <4>1 DEF Members
    <3> QED BY <3>1, <3>2
  <2>4. ASSUME NEW i \in DOMAIN s PROVE s[i] \in Members(u)
    <3>1. i \in DOMAIN u /\ u[i] = s[i]
      BY <2>1, <2>2
    <3> QED BY <3>1 DEF Members
  <2>5. ASSUME NEW i \in DOMAIN t PROVE t[i] \in Members(u)
    <3>1. /\ i + Len(s) \in 1..(Len(s) + Len(t)) /\ ~(i + Len(s) <= Len(s)) /\ (i + Len(s)) - Len(s) = i
      BY <2>2
    <3>2. i + Len(s) \in DOMAIN u /\ u[i + Len(s)] = t[i]
      BY <2>1, <2>2, <3>1
    <3> QED BY <3>2 DEF Members
  <2>6. Members(u) = Members(s) \cup Members(t)
    BY <2>3, <2>4, <2>5 DEF Members
  <2> QED BY <2>1, <2>6 DEF u
<1>4. \A s \in Seq(Nat) : <<>> \o s = s
  BY ConcatEmptySeq
<1> QED BY <1>1, <1>2, <1>3, <1>4

\* What an appended sequence holds.
LEMMA AppendIs ==
  ASSUME NEW S, NEW s \in Seq(S), NEW x \in S
  PROVE  /\ Append(s, x) \in Seq(S)
         /\ \A i \in DOMAIN Append(s, x) : Append(s, x)[i] = x \/ (i \in DOMAIN s /\ Append(s, x)[i] = s[i])
OBVIOUS

\* An operation leaves its result in the writer, or replies, and notes what it wrote.
LEMMA OperationKeeps == ASSUME HandlerIInv, Operation PROVE HandlerIInv'
<1> DEFINE effect == call[nextOp][2]
           results == IF effect.result = "none" THEN data ELSE Append(data, nextOp)
<1> USE DEF HandlerIInv
<1>1. /\ handling = "calling" /\ nextOp <= Len(call) /\ nextOp' = nextOp + 1
      /\ work' = IF effect.writes THEN Append(work, nextOp) ELSE work
      /\ IF effect.replied THEN replies' = Append(replies, Reply(results)) /\ data' = <<>>
                           ELSE data' = results /\ replies' = replies
      /\ UNCHANGED <<call, inBatch, storedOps, handling, commitFailed>>
  BY DEF Operation
<1>2. /\ nextOp \in DOMAIN call /\ nextOp \in Nat /\ EffectOK(effect)
      /\ Writers \subseteq Nat /\ Results \subseteq Nat
      /\ effect.writes <=> nextOp \in Writers
      /\ effect.result # "none" <=> nextOp \in Results
      /\ data \in Seq(Nat) /\ work \in Seq(Nat)
      /\ \A j \in Writers : j < nextOp + 1 <=> j < nextOp \/ j = nextOp
  <2>1. nextOp \in DOMAIN call /\ nextOp \in Nat /\ DOMAIN call \subseteq Nat
    BY <1>1 DEF HandlerTypeOK
  <2>2. EffectOK(effect) /\ data \in Seq(Nat) /\ work \in Seq(Nat)
    BY <2>1 DEF HandlerTypeOK
  <2>3. Writers \subseteq Nat /\ Results \subseteq Nat
    BY <2>1 DEF Writers, Results
  <2>4. (effect.writes <=> nextOp \in Writers) /\ (effect.result # "none" <=> nextOp \in Results)
    BY <2>1 DEF Writers, Results
  <2>5. \A j \in Writers : j < nextOp + 1 <=> j < nextOp \/ j = nextOp
    BY <2>1, <2>3
  <2> QED BY <2>1, <2>2, <2>3, <2>4, <2>5
<1>3. Writers' = Writers /\ Results' = Results /\ (RepliesItself' <=> RepliesItself) /\ (CommitsBefore' <=> CommitsBefore)
  BY <1>1 DEF Writers, Results, RepliesItself, CommitsBefore
<1>4. results \in Seq(Nat) /\ Reply(results).to = "ok"
      /\ Reply(results) \in ReplyRecords
  BY <1>2 DEF Reply, ReplyRecords
<1>5. effect.replied => RepliesItself
  BY <1>2 DEF RepliesItself
<1>6. Members(work') = IF effect.writes THEN Members(work) \cup {nextOp} ELSE Members(work)
  BY <1>1, <1>2, MembersOf
<1> HIDE DEF effect, results
<1>7. HandlerTypeOK'
  <2>1. replies' \in Seq(ReplyRecords)
    <3>1. replies \in Seq(ReplyRecords)
      BY DEF HandlerTypeOK
    <3>2. Append(replies, Reply(results)) \in Seq(ReplyRecords)
      BY ONLY <1>4, <3>1, AppendIs
    <3>3. replies' = replies \/ replies' = Append(replies, Reply(results))
      BY ONLY <1>1
    <3> QED BY ONLY <3>1, <3>2, <3>3
  <2>3. data' \in Seq(Nat)
    <3>1. data' = <<>> \/ data' = results
      BY ONLY <1>1
    <3>2. results \in Seq(Nat) /\ <<>> \in Seq(Nat)
      BY <1>4
    <3> QED BY ONLY <3>1, <3>2
  <2>2. work' \in Seq(Nat) /\ nextOp' \in 1..(Len(call) + 1)
    BY <1>1, <1>2 DEF HandlerTypeOK
  <2> QED BY <1>1, <2>1, <2>2, <2>3 DEF HandlerTypeOK
<1>8. WorkDone'
  BY <1>1, <1>2, <1>3, <1>6 DEF WorkDone
<1>9. StoredAtEnd'
  BY <1>1, <1>2, <1>3, ListsNext DEF StoredAtEnd
<1>10. WriterHolds'
  <2> SUFFICES ASSUME ~RepliesItself
               PROVE  replies' = <<>> /\ Lists(data', {j \in Results : j < nextOp + 1})
    BY <1>1, <1>3 DEF WriterHolds
  <2>1. ~effect.replied /\ replies = <<>> /\ Lists(data, {j \in Results : j < nextOp})
    BY <1>1, <1>5 DEF WriterHolds
  <2>2. CASE nextOp \in Results
    <3>1. results = Append(data, nextOp)
      BY <1>2, <2>2 DEF results
    <3> QED BY <1>1, <1>2, <2>1, <2>2, <3>1, ListsNext
  <2>3. CASE nextOp \notin Results
    <3>1. results = data
      BY <1>2, <2>3 DEF results
    <3> QED BY <1>1, <1>2, <2>1, <2>3, <3>1, ListsNext
  <2> QED BY <2>2, <2>3
<1>11. NoErrorBefore'
  <2>1. CASE effect.replied
    <3>1. \A i \in DOMAIN replies' : replies'[i] = Reply(results) \/ (i \in DOMAIN replies /\ replies'[i] = replies[i])
      <4>1. replies \in Seq(ReplyRecords) /\ replies' = Append(replies, Reply(results))
        BY <1>1, <2>1 DEF HandlerTypeOK
      <4> QED BY ONLY <1>4, <4>1, AppendIs
    <3> QED BY <1>1, <1>4, <3>1 DEF NoErrorBefore
  <2>2. CASE ~effect.replied
    BY <1>1, <2>2 DEF NoErrorBefore
  <2> QED BY <2>1, <2>2
<1>12. HandlerAnswers'
  BY <1>1, <1>11 DEF HandlerAnswers, AnswerTells, ErrorTells, NoErrorBefore
<1> QED BY <1>7, <1>8, <1>9, <1>10, <1>11, <1>12

\* Only methods that commit in parts do so before they return.
LEMMA CommitPartKeeps == ASSUME HandlerIInv, CommitPart PROVE HandlerIInv'
<1> USE DEF HandlerIInv
<1>1. /\ handling = "calling" /\ nextOp \in DOMAIN call /\ CommitsParts(call[nextOp][1])
      /\ storedOps = <<>> /\ storedOps' = work \o <<0>> /\ work' = <<>>
      /\ UNCHANGED <<call, inBatch, nextOp, data, replies, handling, commitFailed>>
  BY DEF CommitPart, HandlerTypeOK
<1>2. CommitsBefore
  BY <1>1 DEF CommitsBefore
<1>3. Writers' = Writers /\ Results' = Results /\ (RepliesItself' <=> RepliesItself) /\ (CommitsBefore' <=> CommitsBefore)
  BY <1>1 DEF Writers, Results, RepliesItself, CommitsBefore
<1>4. <<0>> \in Seq(Nat) /\ Members(<<0>>) = {0} /\ work \in Seq(Nat)
  BY DEF Members, HandlerTypeOK
<1>5. storedOps' \in Seq(Nat) /\ Members(storedOps') = Members(work) \cup {0}
  <2>1. \A t \in Seq(Nat) : work \o t \in Seq(Nat) /\ Members(work \o t) = Members(work) \cup Members(t)
    BY <1>4, MembersOf
  <2> QED BY ONLY <1>1, <1>4, <2>1
<1>6. HandlerTypeOK'
  BY <1>1, <1>5 DEF HandlerTypeOK
<1>7. WorkDone'
  BY <1>1, <1>3, <1>5, MembersOf DEF WorkDone
<1>8. StoredAtEnd' /\ WriterHolds' /\ NoErrorBefore'
  BY <1>1, <1>2, <1>3 DEF StoredAtEnd, WriterHolds, NoErrorBefore
<1>9. HandlerAnswers'
  BY <1>1, <1>8 DEF HandlerAnswers, AnswerTells, ErrorTells, NoErrorBefore
<1> QED BY <1>6, <1>7, <1>8, <1>9

\* All operations were done, and their writes are committed.
LEMMA EndBatchKeeps == ASSUME HandlerIInv, EndBatch PROVE HandlerIInv'
<1> USE DEF HandlerIInv
<1>0. nextOp \in 1..(Len(call) + 1) /\ Len(call) \in Nat
  BY DEF HandlerTypeOK
<1>1. /\ handling = "calling" /\ nextOp = Len(call) + 1 /\ storedOps' = storedOps \o work
      /\ work' = <<>> /\ handling' = "ok"
      /\ UNCHANGED <<call, inBatch, nextOp, data, replies, commitFailed>>
  <2>1. nextOp = Len(call) + 1
    BY ONLY <1>0, EndBatch DEF EndBatch
  <2> QED BY ONLY <2>1, EndBatch DEF EndBatch
<1>2. /\ \A j \in Writers \cup Results : j < nextOp
      /\ {j \in Writers : j < nextOp} = Writers /\ {j \in Results : j < nextOp} = Results
  BY <1>1 DEF HandlerTypeOK, Writers, Results
<1>3. Writers' = Writers /\ Results' = Results /\ (RepliesItself' <=> RepliesItself) /\ (CommitsBefore' <=> CommitsBefore)
  BY <1>1 DEF Writers, Results, RepliesItself, CommitsBefore
<1>4. storedOps' \in Seq(Nat) /\ Members(storedOps') = Members(storedOps) \cup Members(work)
  BY <1>1, MembersOf DEF HandlerTypeOK
<1>5. HandlerTypeOK'
  BY <1>1, <1>4 DEF HandlerTypeOK
<1>6. WorkDone'
  BY <1>1, <1>2, <1>3, <1>4, MembersOf DEF WorkDone
<1>7. StoredAtEnd'
  <2> SUFFICES ASSUME ~CommitsBefore PROVE storedOps' = work /\ Lists(work, Writers)
    BY <1>1, <1>3 DEF StoredAtEnd, Errors
  <2> QED BY <1>1, <1>2, MembersOf DEF StoredAtEnd, HandlerTypeOK
<1>8. WriterHolds' /\ NoErrorBefore'
  BY <1>1, <1>3 DEF WriterHolds, NoErrorBefore
<1>9. HandlerAnswers'
  BY <1>1, <1>8 DEF HandlerAnswers, AnswerTells, ErrorTells, NoErrorBefore
<1> QED BY <1>5, <1>6, <1>7, <1>8, <1>9

\* What the transaction of a failed attempt has written is gone.
LEMMA FailsKeeps == ASSUME HandlerIInv, NEW err \in Errors, Fails(err) PROVE HandlerIInv'
<1> USE DEF HandlerIInv
<1>1. /\ handling = "calling" /\ work' = <<>> /\ handling' = err
      /\ UNCHANGED <<call, inBatch, nextOp, data, storedOps, replies, commitFailed>>
      /\ handling' \notin {"calling", "ok", "answered"}
  BY DEF Fails, Errors
<1>2. Writers' = Writers /\ Results' = Results /\ (RepliesItself' <=> RepliesItself) /\ (CommitsBefore' <=> CommitsBefore)
  BY <1>1 DEF Writers, Results, RepliesItself, CommitsBefore
<1>3. HandlerTypeOK'
  BY <1>1 DEF HandlerTypeOK
<1>4. WorkDone'
  BY <1>1, <1>2, MembersOf DEF WorkDone
<1>5. StoredAtEnd' /\ WriterHolds' /\ NoErrorBefore'
  BY <1>1, <1>2 DEF StoredAtEnd, WriterHolds, NoErrorBefore
<1>6. HandlerAnswers'
  BY <1>1, <1>5 DEF HandlerAnswers, AnswerTells, ErrorTells, NoErrorBefore
<1> QED BY <1>3, <1>4, <1>5, <1>6

\* A commit that returns an error has stored nothing, or all when it is not tried again.
LEMMA CommitFailsKeeps == ASSUME HandlerIInv, NEW err \in Errors, CommitFails(err) PROVE HandlerIInv'
<1> USE DEF HandlerIInv
<1>1. /\ handling = "calling" /\ work' = <<>> /\ handling' = err /\ commitFailed' = TRUE
      /\ UNCHANGED <<call, inBatch, nextOp, data, replies>>
      /\ handling' \notin {"calling", "ok", "answered"}
      /\ storedOps' = storedOps \/ (err \in {"invalid", "fatal"} /\ storedOps' = storedOps \o work)
      /\ nextOp <= Len(call) => CommitsParts(call[nextOp][1])
  BY DEF CommitFails, Errors
<1>2. Writers' = Writers /\ Results' = Results /\ (RepliesItself' <=> RepliesItself) /\ (CommitsBefore' <=> CommitsBefore)
  BY <1>1 DEF Writers, Results, RepliesItself, CommitsBefore
<1>3. storedOps' \in Seq(Nat) /\ Members(storedOps') \subseteq Members(storedOps) \cup Members(work)
  <2>1. storedOps \in Seq(Nat) /\ work \in Seq(Nat)
    BY DEF HandlerTypeOK
  <2>2. storedOps \o work \in Seq(Nat) /\ Members(storedOps \o work) = Members(storedOps) \cup Members(work)
    BY <2>1, MembersOf
  <2>3. storedOps' = storedOps \/ storedOps' = storedOps \o work
    BY <1>1
  <2> QED BY ONLY <2>1, <2>2, <2>3
<1>4. HandlerTypeOK'
  BY <1>1, <1>3 DEF HandlerTypeOK
<1>5. WorkDone'
  BY <1>1, <1>2, <1>3, MembersOf DEF WorkDone
<1>6. ASSUME ~CommitsBefore PROVE storedOps' = <<>> \/ (err \in {"invalid", "fatal"} /\ Lists(storedOps', Writers))
  <2>1. nextOp = Len(call) + 1
    <3>1. nextOp \in 1..Len(call) + 1 /\ Len(call) \in Nat /\ DOMAIN call = 1..Len(call)
      BY DEF HandlerTypeOK
    <3>2. nextOp \notin DOMAIN call
      BY <1>1, <1>6, <3>1 DEF CommitsBefore
    <3> QED BY ONLY <3>1, <3>2
  <2>2. {j \in Writers : j < nextOp} = Writers
    BY <2>1 DEF HandlerTypeOK, Writers
  <2>3. storedOps = <<>> /\ Lists(work, Writers) /\ work \in Seq(Nat)
    BY <1>1, <1>6, <2>2 DEF StoredAtEnd, HandlerTypeOK
  <2>4. storedOps' = <<>> \/ (err \in {"invalid", "fatal"} /\ storedOps' = work)
    BY <1>1, <2>3, MembersOf
  <2> QED BY <2>3, <2>4
<1>7. StoredAtEnd' /\ WriterHolds' /\ NoErrorBefore'
  BY <1>1, <1>2, <1>6 DEF StoredAtEnd, WriterHolds, NoErrorBefore, Errors
<1>8. HandlerAnswers'
  BY <1>1, <1>7 DEF HandlerAnswers, AnswerTells, ErrorTells, NoErrorBefore
<1> QED BY <1>4, <1>5, <1>7, <1>8

\* Another attempt begins as the first did.
LEMMA RetryKeeps == ASSUME HandlerIInv, Retry PROVE HandlerIInv'
<1> USE DEF HandlerIInv
<1>1. /\ handling \in {"deadlock", "indexOnDel"} /\ data' = <<>> /\ handling' = "calling" /\ nextOp' = 1
      /\ commitFailed' = FALSE
      /\ handling \notin {"calling", "ok", "answered"}
      /\ UNCHANGED <<call, inBatch, work, storedOps, replies>>
  BY DEF Retry, MayRetry, Errors
<1>2. /\ {j \in Writers : j < nextOp'} = {} /\ {j \in Results : j < nextOp'} = {}
      /\ work = <<>> /\ Lists(<<>>, {})
  BY <1>1 DEF HandlerTypeOK, Writers, Results, WorkDone, Lists
<1>3. Writers' = Writers /\ Results' = Results /\ (RepliesItself' <=> RepliesItself) /\ (CommitsBefore' <=> CommitsBefore)
  BY <1>1 DEF Writers, Results, RepliesItself, CommitsBefore
<1>4. HandlerTypeOK'
  <2>1. nextOp' \in 1..(Len(call) + 1) /\ data' \in Seq(Nat)
    BY <1>1 DEF HandlerTypeOK
  <2> QED BY <1>1, <2>1 DEF HandlerTypeOK
<1>5. WorkDone'
  BY <1>1, <1>2, <1>3 DEF WorkDone
<1>6. StoredAtEnd' /\ WriterHolds' /\ NoErrorBefore'
  BY <1>1, <1>2, <1>3 DEF StoredAtEnd, WriterHolds, NoErrorBefore, Errors
<1>7. HandlerAnswers'
  BY <1>1, <1>6 DEF HandlerAnswers, AnswerTells, ErrorTells, NoErrorBefore
<1> QED BY <1>4, <1>5, <1>6, <1>7

\* The reply of the service, if the method sent none.
LEMMA AnswerKeeps == ASSUME HandlerIInv, Answer PROVE HandlerIInv'
<1> USE DEF HandlerIInv
<1>1. /\ handling \in {"ok"} \cup Errors /\ handling' = "answered" /\ handling # "answered"
      /\ handling # "calling" /\ (handling # "ok" => handling \in Errors)
      /\ replies' = IF replies # <<>> THEN replies
                    ELSE IF handling # "ok" THEN <<ErrorReply>>
                    ELSE IF data # <<>> \/ inBatch THEN <<Reply(data)>> ELSE <<>>
      /\ UNCHANGED <<call, inBatch, nextOp, data, work, storedOps, commitFailed>>
  BY DEF Answer, Errors
<1>2. Writers' = Writers /\ Results' = Results /\ (RepliesItself' <=> RepliesItself) /\ (CommitsBefore' <=> CommitsBefore)
  BY <1>1 DEF Writers, Results, RepliesItself, CommitsBefore
<1>3. /\ ErrorReply.to = "error" /\ Reply(data).to = "ok" /\ Reply(data).results = data
      /\ ErrorReply \in ReplyRecords /\ Reply(data) \in ReplyRecords
  BY DEF ErrorReply, Reply, HandlerTypeOK, ReplyRecords
<1>4. HandlerTypeOK'
  BY <1>1, <1>3 DEF HandlerTypeOK
<1>5. WorkDone'
  BY <1>1, <1>2 DEF WorkDone
<1>6. StoredAtEnd' /\ WriterHolds' /\ NoErrorBefore'
  BY <1>1, <1>2 DEF StoredAtEnd, WriterHolds, NoErrorBefore, Errors
<1>7. handling \in Errors => CommitsBefore \/ storedOps = <<>> \/ (commitFailed /\ Lists(storedOps, Writers))
  BY DEF StoredAtEnd, Errors
<1>8. ErrorTells'
  <2> SUFFICES ASSUME NEW i \in DOMAIN replies', replies'[i].to = "error"
               PROVE  i = 1 /\ (CommitsBefore \/ storedOps = <<>> \/ (commitFailed /\ Lists(storedOps, Writers)))
    BY <1>1, <1>2 DEF ErrorTells
  <2>1. replies = <<>>
    BY <1>1 DEF NoErrorBefore
  <2>2. handling # "ok"
    BY <1>1, <1>3, <2>1
  <2> QED BY <1>1, <1>7, <2>1, <2>2
<1>9. AnswerTells'
  <2> SUFFICES ASSUME ~RepliesItself
               PROVE  /\ Len(replies') <= 1
                      /\ replies' = <<>> => ~inBatch /\ call[1][2] = NoEffect
                      /\ \A i \in DOMAIN replies' : replies'[i].to = "ok" =>
                           /\ {storedOps[j] : j \in DOMAIN storedOps} \ {0} = Writers
                           /\ CommitsBefore \/ Lists(storedOps, Writers)
                           /\ Lists(replies'[i].results, {j \in DOMAIN call : call[j][2].result # "none"})
    BY <1>1, <1>2 DEF AnswerTells
  <2>1. replies = <<>>
    BY <1>1 DEF WriterHolds
  <2>2. CASE handling # "ok"
    <3>1. Len(replies') = 1 /\ replies' # <<>> /\ \A i \in DOMAIN replies' : replies'[i] = ErrorReply
      BY <1>1, <2>1, <2>2
    <3> QED BY <1>3, <3>1
  <2>3. ASSUME handling = "ok"
        PROVE  /\ Members(storedOps) \ {0} = Writers /\ (CommitsBefore \/ Lists(storedOps, Writers))
               /\ Lists(data, Results)
    <3>1. {j \in Results : j < nextOp} = Results /\ 0 \notin Writers
      BY <2>3 DEF WorkDone, HandlerTypeOK, Results, Writers
    <3> QED BY <2>3, <3>1 DEF WorkDone, StoredAtEnd, WriterHolds
  <2>4. CASE handling = "ok" /\ (data # <<>> \/ inBatch)
    <3>1. Len(replies') = 1 /\ replies' # <<>> /\ \A i \in DOMAIN replies' : replies'[i] = Reply(data)
      BY <1>1, <2>1, <2>4
    <3>2. \A i \in DOMAIN replies' : replies'[i].to = "ok" /\ replies'[i].results = data
      BY <1>3, <3>1
    <3>3. /\ {storedOps[j] : j \in DOMAIN storedOps} \ {0} = Writers /\ (CommitsBefore \/ Lists(storedOps, Writers))
          /\ Lists(data, {j \in DOMAIN call : call[j][2].result # "none"})
      BY <2>3, <2>4 DEF Members, Results
    <3>4. ASSUME NEW i \in DOMAIN replies'
          PROVE  Lists(replies'[i].results, {j \in DOMAIN call : call[j][2].result # "none"})
      <4>1. replies'[i].results = data
        BY ONLY <3>2
      <4> QED BY ONLY <3>3, <4>1, Zenon
    <3> QED BY ONLY <3>1, <3>2, <3>3, <3>4
  <2>5. CASE handling = "ok" /\ data = <<>> /\ ~inBatch
    <3>1. replies' = <<>> /\ Results = {} /\ 1 \in DOMAIN call
      BY <1>1, <2>1, <2>3, <2>5 DEF Lists, HandlerTypeOK
    <3>2. call[1][2].result = "none" /\ ~call[1][2].replied /\ EffectOK(call[1][2])
      BY <3>1 DEF Results, RepliesItself, HandlerTypeOK
    <3> QED BY <2>5, <3>1, <3>2 DEF EffectOK
  <2> QED BY <1>1, <2>2, <2>4, <2>5
<1> QED BY <1>4, <1>5, <1>6, <1>8, <1>9 DEF HandlerAnswers

\* The invariant of the methods.
LEMMA HandlerStep == ASSUME HandlerIInv, [HandlerNext]_handlerVars PROVE HandlerIInv'
<1>1. CASE UNCHANGED handlerVars
  <2>1. HandlerTypeOK' /\ WorkDone' /\ NoErrorBefore'
    BY <1>1 DEF handlerVars, HandlerIInv, HandlerTypeOK, WorkDone, NoErrorBefore, Writers
  <2>2. StoredAtEnd' /\ WriterHolds'
    BY <1>1 DEF handlerVars, HandlerIInv, StoredAtEnd, WriterHolds, Writers, Results,
        CommitsBefore, RepliesItself
  <2>3. HandlerAnswers'
    <3>1. UNCHANGED <<call, inBatch, storedOps, replies, handling, commitFailed>>
      BY <1>1 DEF handlerVars
    <3>2. AnswerTells' <=> AnswerTells
      BY <3>1 DEF AnswerTells, Writers, CommitsBefore, RepliesItself
    <3>3. ErrorTells' <=> ErrorTells
      BY <3>1 DEF ErrorTells, CommitsBefore, Writers
    <3> QED BY <3>2, <3>3 DEF HandlerIInv, HandlerAnswers
  <2> QED BY <2>1, <2>2, <2>3 DEF HandlerIInv
<1> QED
  BY <1>1, OperationKeeps, CommitPartKeeps, EndBatchKeeps, FailsKeeps, CommitFailsKeeps, RetryKeeps, AnswerKeeps DEF HandlerNext

\* A request is executed once, however often a deadlock or a locked index entry made the
\* service try again, and its one answer tells what was stored
\* (MojDbServiceHandlerBase::invoke, MojDbServiceHandler::handleBatch).
THEOREM MethodsAnswer == HandlerInit /\ [][HandlerNext]_handlerVars => []HandlerAnswers
<1>1. HandlerInit => HandlerIInv
  <2> SUFFICES ASSUME HandlerInit PROVE HandlerIInv
    OBVIOUS
  <2> DEFINE AllMethods == PublicMethods \cup PrivateMethods
  <2>1. BatchMethods \subseteq AllMethods /\ \A bus \in {"public", "private"} : Callable(bus) \subseteq AllMethods
    BY DEF Callable, PublicMethods
  <2>2. /\ call \in Seq(AllMethods) /\ inBatch \in BOOLEAN /\ (~inBatch => Len(call) = 1)
    <3>1. CASE \E bus \in {"public", "private"} : \E m \in Callable(bus) : call = <<m>> /\ inBatch = FALSE
      <4>1. PICK m \in AllMethods : call = <<m>> /\ inBatch = FALSE
        BY <2>1, <3>1
      <4> HIDE DEF AllMethods
      <4>2. call \in Seq(AllMethods) /\ Len(call) = 1
        BY <4>1
      <4> QED BY <4>1, <4>2
    <3>2. CASE \E n \in 0..MaxOperations : call \in [1..n -> BatchMethods] /\ inBatch = TRUE
      <4>1. PICK n \in Nat : call \in [1..n -> AllMethods] /\ inBatch = TRUE
        BY <2>1, <3>2
      <4> HIDE DEF AllMethods
      <4> QED BY <4>1, SeqDef
    <3> QED BY <3>1, <3>2 DEF HandlerInit
  <2> HIDE DEF AllMethods
  <2>3. Len(call) \in Nat /\ DOMAIN call = 1..Len(call) /\ \A i \in DOMAIN call : call[i] \in AllMethods
    BY <2>2
  <2>4. \A i \in DOMAIN call : EffectOK(call[i][2])
    BY <2>3, MethodEffects DEF AllMethods
  <2>5. /\ nextOp = 1 /\ data = <<>> /\ work = <<>> /\ storedOps = <<>> /\ replies = <<>> /\ handling = "calling"
        /\ commitFailed = FALSE
    BY DEF HandlerInit
  <2>6. HandlerTypeOK
    <3>1. commitFailed \in BOOLEAN
      BY <2>5
    <3>2. nextOp \in 1..(Len(call) + 1) /\ <<>> \in Seq(Nat) /\ <<>> \in Seq(ReplyRecords)
      BY <2>3, <2>5
    <3> QED BY <2>2, <2>3, <2>4, <2>5, <3>1, <3>2 DEF HandlerTypeOK
  <2>7. {j \in Writers : j < nextOp} = {} /\ {j \in Results : j < nextOp} = {} /\ Lists(<<>>, {})
    BY <2>3, <2>5 DEF Writers, Results, Lists
  <2>8. WorkDone /\ StoredAtEnd /\ WriterHolds /\ NoErrorBefore
    <3>1. WorkDone
      BY <2>5, <2>7, MembersOf DEF WorkDone
    <3>2. StoredAtEnd /\ WriterHolds
      BY <2>5, <2>7 DEF StoredAtEnd, WriterHolds, Errors
    <3>3. NoErrorBefore
      BY <2>5 DEF NoErrorBefore
    <3> QED BY <3>1, <3>2, <3>3
  <2>9. HandlerAnswers
    BY <2>5 DEF HandlerAnswers, AnswerTells, ErrorTells
  <2> QED BY <2>6, <2>8, <2>9 DEF HandlerIInv
<1>2. HandlerIInv => HandlerAnswers
  BY DEF HandlerIInv
<1> QED BY <1>1, <1>2, HandlerStep, PTL
=============================================================================
