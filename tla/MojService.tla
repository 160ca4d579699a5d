------------------------------ MODULE MojService ------------------------------
(***************************************************************************)
(* MojService and its binding to the Luna bus.  The service sends requests  *)
(* and dispatches their replies, and receives requests of clients, some of  *)
(* which are subscriptions that live until the client cancels.              *)
(*                                                                         *)
(* All replies are in one queue of the dispatcher, so one thread at a time  *)
(* handles them; requests and cancels are in a queue per sender.  Requests  *)
(* are sent, and subscriptions notified, on any thread.                     *)
(***************************************************************************)
EXTENDS Naturals, Sequences, FiniteSets

CONSTANTS
  Requests,     \* outgoing requests; a token stands for its request
  Expected,     \* per request, m_numRepliesExpected: 1, or more for LSCall
  MaxReplies,   \* bound: the replies the bus delivers to a request
  Messages,     \* incoming requests
  Senders, SenderOf,
  NoMessage

ASSUME ServiceAssumption ==
  /\ NoMessage \notin Requests \cup Messages
  /\ Expected \in [Requests -> Nat \ {0}]
  /\ SenderOf \in [Messages -> Senders]

VARIABLES
  m_requests,     \* the requests a reply is expected for
  sendPc,         \* per request, how far its send() is; "called": its thread holds m_mutex
  m_numReplies,   \* per request
  slot,           \* the requests whose reply slot is connected
  cancelPc,       \* per request, how far a cancel of its slot is
  m_cancelled,    \* the requests LSCallCancel was called for
  cancelCalls,    \* history: how often it was
  delivered,      \* per request, the replies the bus delivered
  replyQueue,     \* the queue "__reply__": <<request, kind of reply>>
  reply,          \* the reply being dispatched, or NoMessage
  replyPc,        \* how far its dispatch is
  remove,         \* the local of dispatchReplyImpl: no more replies are expected
  dropped,        \* history: the requests a reply came for that was not found
  early           \* history: the requests whose slot was cancelled before the call
callVars == <<m_cancelled, cancelCalls>>
replyVars == <<reply, replyPc, remove>>
clientVars == <<m_requests, sendPc, m_numReplies, slot, cancelPc, callVars,
                delivered, replyQueue, replyVars, dropped, early>>

ClientInit ==
  /\ m_requests = {} /\ sendPc = [r \in Requests |-> "new"]
  /\ m_numReplies = [r \in Requests |-> 0]
  /\ slot = {} /\ cancelPc = [r \in Requests |-> "no"]
  /\ m_cancelled = {} /\ cancelCalls = [r \in Requests |-> 0]
  /\ delivered = [r \in Requests |-> 0] /\ replyQueue = <<>>
  /\ reply = NoMessage /\ replyPc = "idle" /\ remove = FALSE
  /\ dropped = {} /\ early = {}
-----------------------------------------------------------------------------
(* Requests to other services. *)

ReplyKinds == {"ok", "error", "subscribedError"}

\* A payload that does not parse counts as an error, as does "returnValue":false,
\* with "errorCode" or without.
ErrCode(kind) == IF kind = "ok" THEN "none" ELSE "error"

\* The call is made with LSCallOneReply when one reply is expected, otherwise with LSCall.
RepliesOfCall(r) == IF Expected[r] = 1 THEN 1 ELSE MaxReplies

\* send() holds m_mutex from the call to the entry in the table.
MutexFree == \A r \in Requests : sendPc[r] # "called"

\* MojServiceRequest::send connects the slot.
ConnectSlot(r) ==
  /\ sendPc[r] = "new"
  /\ slot' = slot \cup {r}
  /\ sendPc' = [sendPc EXCEPT ![r] = "connected"]
  /\ UNCHANGED <<m_requests, m_numReplies, cancelPc, callVars, delivered, replyQueue, replyVars, dropped, early>>

\* MojService::send takes m_mutex, and sendImpl makes the call.  When that fails the
\* sender lets the request go, and the slot with it unless its cancel holds the request.
LSCall(r) ==
  /\ sendPc[r] = "connected" /\ MutexFree
  /\ \/ sendPc' = [sendPc EXCEPT ![r] = "called"] /\ UNCHANGED slot
     \/ /\ sendPc' = [sendPc EXCEPT ![r] = "failed"]
        /\ slot' = IF cancelPc[r] = "no" THEN slot \ {r} ELSE slot
  /\ UNCHANGED <<m_requests, m_numReplies, cancelPc, callVars, delivered, replyQueue, replyVars, dropped, early>>

\* addRequest(), still under m_mutex; the sender keeps no reference.
AddRequest(r) ==
  /\ sendPc[r] = "called"
  /\ m_requests' = m_requests \cup {r}
  /\ sendPc' = [sendPc EXCEPT ![r] = "sent"]
  /\ UNCHANGED <<m_numReplies, slot, cancelPc, callVars, delivered, replyQueue, replyVars, dropped, early>>

\* handleResponse: the bus delivers a reply, to a call made with LSCallOneReply
\* only one, to another until it is cancelled.
HandleResponse(r, kind) ==
  /\ sendPc[r] \in {"called", "sent"} /\ r \notin m_cancelled
  /\ delivered[r] < RepliesOfCall(r)
  /\ delivered' = [delivered EXCEPT ![r] = @ + 1]
  /\ replyQueue' = Append(replyQueue, <<r, kind>>)
  /\ UNCHANGED <<m_requests, sendPc, m_numReplies, slot, cancelPc, callVars, replyVars, dropped, early>>

\* dispatchReply takes the next reply; one whose request is not in the table is an error
\* and forgotten.
LookUp ==
  /\ replyPc = "idle" /\ replyQueue # <<>>
  /\ replyQueue' = Tail(replyQueue)
  /\ IF Head(replyQueue)[1] \in m_requests
     THEN reply' = Head(replyQueue) /\ replyPc' = "found" /\ UNCHANGED dropped
     ELSE dropped' = dropped \cup {Head(replyQueue)[1]} /\ UNCHANGED <<reply, replyPc>>
  /\ UNCHANGED <<m_requests, sendPc, m_numReplies, slot, cancelPc, callVars, delivered, remove, early>>

\* Mutant: getRequest does not wait for the mutex.
GetRequestUnlocked == LookUp

\* getRequest: the request is looked up under m_mutex.
GetRequest == MutexFree /\ LookUp

\* removeRequest and cancelImpl: a request found in the table is removed, under m_mutex;
\* then, if more replies may come, its call is cancelled, unless it has been.
RemoveRequest(r) == MutexFree /\ m_requests' = m_requests \ {r}
CancelImpl(r) ==
  IF Expected[r] > 1 /\ r \notin m_cancelled
  THEN /\ m_cancelled' = m_cancelled \cup {r}
       /\ cancelCalls' = [cancelCalls EXCEPT ![r] = @ + 1]
  ELSE UNCHANGED callVars

\* The dispatch lets the request go: its slot goes with the last reference.
EndReply(requests) ==
  /\ reply' = NoMessage /\ replyPc' = "idle" /\ remove' = FALSE
  /\ slot' = IF reply[1] \in requests \/ cancelPc[reply[1]] # "no" THEN slot ELSE slot \ {reply[1]}

\* More replies are not expected: the last one, or an error that does not say
\* "subscribed".  Looked at before the handler is called.
IsLastReply(r, kind) ==
  m_numReplies[r] + 1 >= Expected[r] \/ (ErrCode(kind) # "none" /\ kind # "subscribedError")

\* dispatchReplyImpl and dispatchReply: the slot is looked at under the mutex of the
\* signal.  Its handler is called without it, beside a cancel that begins now.
CallHandler ==
  /\ replyPc = "found"
  /\ m_numReplies' = [m_numReplies EXCEPT ![reply[1]] = @ + 1]
  /\ LET last == IsLastReply(reply[1], reply[2]) IN
       \/ /\ reply[1] \in slot \/ last
          /\ replyPc' = IF reply[1] \in slot THEN "invoked" ELSE "remove"
          /\ remove' = last /\ UNCHANGED <<reply, slot>>
       \/ reply[1] \notin slot /\ ~last /\ EndReply(m_requests)
  /\ UNCHANGED <<m_requests, sendPc, cancelPc, callVars, delivered, replyQueue, dropped, early>>

\* The handler returns; one that fails gets no more replies.
HandlerReturns(fails) ==
  /\ replyPc = "invoked"
  /\ IF remove \/ fails THEN replyPc' = "remove" /\ UNCHANGED <<reply, remove, slot>>
                        ELSE EndReply(m_requests)
  /\ UNCHANGED <<m_requests, sendPc, m_numReplies, cancelPc, callVars, delivered, replyQueue, dropped, early>>

\* dispatchReplyImpl after the last reply: removeRequest, or cancel if more could come.
RemoveReplied ==
  /\ replyPc = "remove"
  /\ RemoveRequest(reply[1])
  /\ IF Expected[reply[1]] > 1 /\ reply[1] \in m_requests
     THEN replyPc' = "cancel" /\ UNCHANGED <<reply, remove, slot>>
     ELSE EndReply(m_requests')
  /\ UNCHANGED <<sendPc, m_numReplies, cancelPc, callVars, delivered, replyQueue, dropped, early>>

CancelReplied ==
  /\ replyPc = "cancel"
  /\ CancelImpl(reply[1])
  /\ EndReply(m_requests)
  /\ UNCHANGED <<m_requests, sendPc, m_numReplies, cancelPc, delivered, replyQueue, dropped, early>>

\* A slot is cancelled, by a handler or any other thread.  While it is connected the
\* request is there, and the cancel takes a reference to it.
CancelSlot(r) ==
  /\ r \in slot /\ cancelPc[r] = "no"
  /\ cancelPc' = [cancelPc EXCEPT ![r] = "remove"]
  /\ UNCHANGED <<m_requests, sendPc, m_numReplies, slot, callVars, delivered, replyQueue, replyVars, dropped, early>>

\* handleCancel: MojService::cancel.  Before the call the request has no token yet.
CancelRemoves(r) ==
  /\ cancelPc[r] = "remove"
  /\ RemoveRequest(r)
  /\ cancelPc' = [cancelPc EXCEPT ![r] = IF r \in m_requests THEN "cancel" ELSE "disconnect"]
  /\ early' = IF sendPc[r] = "connected" THEN early \cup {r} ELSE early
  /\ UNCHANGED <<sendPc, m_numReplies, slot, callVars, delivered, replyQueue, replyVars, dropped>>

CancelCalls(r) ==
  /\ cancelPc[r] = "cancel"
  /\ CancelImpl(r)
  /\ cancelPc' = [cancelPc EXCEPT ![r] = "disconnect"]
  /\ UNCHANGED <<m_requests, sendPc, m_numReplies, slot, delivered, replyQueue, replyVars, dropped, early>>

\* The slot is disconnected, under the mutex of the signal.
Disconnect(r) ==
  /\ cancelPc[r] = "disconnect"
  /\ slot' = slot \ {r}
  /\ cancelPc' = [cancelPc EXCEPT ![r] = "no"]
  /\ UNCHANGED <<m_requests, sendPc, m_numReplies, callVars, delivered, replyQueue, replyVars, dropped, early>>

SendNext(r) ==
  ConnectSlot(r) \/ LSCall(r) \/ AddRequest(r) \/ \E kind \in ReplyKinds : HandleResponse(r, kind)
CancelNext(r) == CancelSlot(r) \/ CancelRemoves(r) \/ CancelCalls(r) \/ Disconnect(r)
DispatchNext ==
  GetRequest \/ CallHandler \/ (\E fails \in BOOLEAN : HandlerReturns(fails)) \/ RemoveReplied \/ CancelReplied

ClientNext == DispatchNext \/ \E r \in Requests : SendNext(r) \/ CancelNext(r)
-----------------------------------------------------------------------------
(* Requests from clients. *)

VARIABLES
  stage,          \* per message: new, queued, done, or silent when it was not answered
  senderQueue,    \* per sender, what the dispatcher has of it: <<"request"/"cancel", message>>
  m_subscriptions,\* the messages in the service's map
  m_subscribed,   \* the messages with the flag
  cancelSignal,   \* the messages whose cancel signal is connected
  held,           \* the messages their handler refers to
  answers,        \* per message, the replies sent: "data", "error"
  busCancels,     \* the messages the client may still cancel: LSSubscriptionAdd was made
  addFailed,      \* the messages LSSubscriptionAdd failed for
  closed          \* the service
serverVars == <<stage, senderQueue, m_subscriptions, m_subscribed, cancelSignal, held,
                answers, busCancels, addFailed, closed>>

ServerInit ==
  /\ stage = [m \in Messages |-> "new"]
  /\ senderQueue = [s \in Senders |-> <<>>]
  /\ m_subscriptions = {} /\ m_subscribed = {} /\ cancelSignal = {} /\ held = {}
  /\ answers = [m \in Messages |-> <<>>]
  /\ busCancels = {} /\ addFailed = {}
  /\ closed = "no"

\* A message is destroyed when neither its queue nor its handler has it.
Queued(m) == \E i \in DOMAIN senderQueue[SenderOf[m]] : senderQueue[SenderOf[m]][i] = <<"request", m>>
Alive(m) == m \in held \/ Queued(m)

\* The bus tells the end of a subscription by a message of its sender, which is
\* scheduled behind the sender's requests.
Schedule(kind, m) == senderQueue' = [senderQueue EXCEPT ![SenderOf[m]] = Append(@, <<kind, m>>)]

AddSubscriptions(ms) == m_subscriptions' = m_subscriptions \cup ms
LSSubscriptionAdd(ms) == busCancels' = busCancels \cup ms
EnableSubscriptions(ms) ==
  /\ AddSubscriptions(ms)
  /\ LSSubscriptionAdd(ms)
  /\ m_subscribed' = m_subscribed \cup ms

\* handleRequest: processSubscriptions enables the subscription a payload with
\* "watch" or "subscribe" asks for, before the message is scheduled.
HandleRequest(m, subscribes) ==
  /\ stage[m] = "new" /\ closed = "no"
  /\ stage' = [stage EXCEPT ![m] = "queued"]
  /\ Schedule("request", m)
  /\ EnableSubscriptions(subscribes)
  /\ UNCHANGED <<cancelSignal, held, answers, addFailed, closed>>

\* handleRequest: processSubscriptions fails, and the request is answered at
\* once.  The payload may not parse, or LSSubscriptionAdd may fail, when the map
\* has the message but it is not flagged, so that its end leaves the map as it is.
RefuseRequest(m, adds) ==
  /\ stage[m] = "new" /\ closed = "no"
  /\ stage' = [stage EXCEPT ![m] = "done"]
  /\ AddSubscriptions(adds)
  /\ addFailed' = addFailed \cup adds
  /\ answers' = [answers EXCEPT ![m] = <<"error">>]
  /\ UNCHANGED <<senderQueue, m_subscribed, cancelSignal, held, busCancels, closed>>

\* What a method does: replies at once; fails before or after its reply; leaves
\* data to be replied for it; connects a Watcher, which keeps the message, to the
\* cancel signal and replies, or fails after that, since a query is read after
\* its Watcher is connected; returns without a reply or data, as handleSpaceCheck
\* does and handleDel without "ids" and "query".
Methods == {"reply", "fail", "replyFail", "data", "watch", "watchFail", "silent"}
Connects(does) == does \in {"watch", "watchFail"}

\* dispatchRequest: an error is answered, and data sent, only without a reply.
AnswersOf(does) ==
  IF does \in {"reply", "replyFail", "data", "watch"} THEN <<"data">>
  ELSE IF does = "silent" THEN <<>> ELSE <<"error">>

\* Mutant: a first reply leaves the subscription.
SubscribedKept(m, does) == m \in m_subscribed \/ Connects(does)

\* The first reply subscribes a message whose cancel signal is connected and
\* removes the subscription of another; the end of a message removes it as well.
SubscribedAfter(m, does) == Connects(does)

\* dispatchRequest invokes the method of the category's handler.
DispatchRequest(s, does) ==
  /\ senderQueue[s] # <<>> /\ Head(senderQueue[s])[1] = "request"
  /\ LET m == Head(senderQueue[s])[2]
         subscribed == SubscribedAfter(m, does) IN
       /\ senderQueue' = [senderQueue EXCEPT ![s] = Tail(@)]
       /\ stage' = [stage EXCEPT ![m] = IF does = "silent" THEN "silent" ELSE "done"]
       /\ answers' = [answers EXCEPT ![m] = AnswersOf(does)]
       /\ m_subscribed' = IF subscribed THEN m_subscribed \cup {m} ELSE m_subscribed \ {m}
       /\ m_subscriptions' = IF subscribed THEN m_subscriptions \cup {m} ELSE m_subscriptions \ {m}
       /\ busCancels' = busCancels \cup (IF subscribed THEN {m} ELSE {})
       /\ cancelSignal' = IF Connects(does) THEN cancelSignal \cup {m} ELSE cancelSignal
       /\ held' = IF Connects(does) THEN held \cup {m} ELSE held
  /\ UNCHANGED <<addFailed, closed>>

\* A handler is done: it cancels its slot, by which the message's handleCancel
\* removes the subscription, replies and lets the message go.
Notify(m) ==
  /\ m \in held /\ answers[m] = <<"data">>
  /\ answers' = [answers EXCEPT ![m] = Append(@, "data")]
  /\ m_subscribed' = m_subscribed \ {m}
  /\ m_subscriptions' = m_subscriptions \ {m}
  /\ cancelSignal' = cancelSignal \ {m}
  /\ held' = held \ {m}
  /\ UNCHANGED <<stage, senderQueue, busCancels, addFailed, closed>>

\* The client cancels, or leaves the bus: handleCancel schedules a message with
\* the token.  The bus is not told of subscriptions that ended.
HandleCancel(m) ==
  /\ m \in busCancels /\ closed = "no"
  /\ busCancels' = busCancels \ {m}
  /\ Schedule("cancel", m)
  /\ UNCHANGED <<stage, m_subscriptions, m_subscribed, cancelSignal, held, answers, addFailed, closed>>

\* dispatchCancel finds the message by its sender and its token, the message
\* itself here.
SubscriptionKey(m) == <<SenderOf[m], m>>
CancelledBy(m) == {n \in m_subscriptions : SubscriptionKey(n) = SubscriptionKey(m)}

\* The cancel signal disconnects the slot and calls the handler, which lets the
\* message go; the end of the message removes the subscription.
DispatchCancel(s) ==
  /\ senderQueue[s] # <<>> /\ Head(senderQueue[s])[1] = "cancel"
  /\ LET ms == CancelledBy(Head(senderQueue[s])[2]) IN
       /\ cancelSignal' = cancelSignal \ ms
       /\ held' = held \ ms
       /\ m_subscribed' = m_subscribed \ (ms \cap cancelSignal)
       /\ m_subscriptions' = m_subscriptions \ (ms \cap cancelSignal)
  /\ senderQueue' = [senderQueue EXCEPT ![s] = Tail(@)]
  /\ UNCHANGED <<stage, answers, busCancels, addFailed, closed>>

\* close(), once the reactor has ended and the dispatcher handled what was
\* scheduled: every subscription is cancelled.
CloseService ==
  /\ closed = "no" /\ \A s \in Senders : senderQueue[s] = <<>>
  /\ closed' = "yes"
  /\ held' = held \ m_subscriptions
  /\ m_subscribed' = m_subscribed \ cancelSignal
  /\ cancelSignal' = cancelSignal \ m_subscriptions
  /\ m_subscriptions' = m_subscriptions \ cancelSignal
  /\ UNCHANGED <<stage, senderQueue, answers, busCancels, addFailed>>

ServerNext ==
  \/ \E m \in Messages : \/ \E ms \in SUBSET {m} : HandleRequest(m, ms) \/ RefuseRequest(m, ms)
                         \/ Notify(m) \/ HandleCancel(m)
  \/ \E s \in Senders : DispatchCancel(s) \/ \E does \in Methods : DispatchRequest(s, does)
  \/ CloseService
-----------------------------------------------------------------------------
(* Properties. *)

\* A reply whose request is not found is one of a request that was given up:
\* send() and the dispatch of its first reply do not cross.
DroppedWereGivenUp == \A r \in dropped : r \in slot => cancelPc[r] # "no"

\* When no reply of a request is dispatched and no cancel under way, the table, the slots
\* and the calls agree: a request in the table still has its slot and an open call that more
\* replies are expected of; one that left the table has neither, and its call was cancelled.
\* A slot cancelled before the call leaves an open call without a slot.
CallsAgree ==
  \A r \in Requests :
    sendPc[r] = "sent" /\ r \notin early /\ cancelPc[r] = "no" /\ (replyPc # "idle" => reply[1] # r) =>
      IF r \in m_requests
      THEN r \in slot /\ m_numReplies[r] < Expected[r]
      ELSE r \notin slot /\ (Expected[r] > 1 => cancelCalls[r] = 1)

\* Whoever gives a request up, the handler of a last reply or threads that cancel, its call
\* is cancelled at most once, and never while the request is in the table; and it is handed
\* no more replies than it expects.
CancelledOnce ==
  \A r \in Requests : /\ cancelCalls[r] <= IF r \in m_requests THEN 0 ELSE 1
                      /\ m_numReplies[r] <= Expected[r]

\* The service's map refers to messages by plain pointers: those are messages
\* that exist and know it.  Where LSSubscriptionAdd failed it does not hold.
SubscriptionsLive ==
  /\ m_subscribed = m_subscriptions \ addFailed
  /\ \A m \in m_subscribed : Alive(m)
  /\ \A m \in m_subscribed : answers[m] # <<>> => m \in cancelSignal

\* A request is answered, by its first reply an error or not, and never with an
\* error after that, unless its method is silent.
AnsweredOnce ==
  \A m \in Messages :
    /\ stage[m] = "done" => answers[m] # <<>>
    /\ \A i \in DOMAIN answers[m] : answers[m][i] = "error" => i = 1

\* Once the cancel of a client is handled, nothing is left of the subscription.
CancelEnds ==
  \A m \in Messages :
    stage[m] # "queued" /\ m \notin busCancels /\ m \in m_subscribed =>
      \E i \in DOMAIN senderQueue[SenderOf[m]] : senderQueue[SenderOf[m]][i] = <<"cancel", m>>

\* The assertion of close(): no subscription is left, but the failed ones.
ClosedEmpty == closed = "yes" => m_subscriptions \subseteq addFailed

\* The requests of the service and their replies: no reply is lost in the window
\* between the call and the entry in the table, a cancel may come at any step of send() and
\* of the dispatch, and every open call is cancelled once (MojService, MojLunaService).
RepliesKept == DroppedWereGivenUp /\ CallsAgree /\ CancelledOnce

\* The subscriptions of clients: the map of the service has exactly the messages
\* that wait, each is answered, and neither a cancel nor close() leaves one.
SubscriptionsKept == SubscriptionsLive /\ AnsweredOnce /\ CancelEnds /\ ClosedEmpty
=============================================================================
