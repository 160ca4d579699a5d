------------------------- MODULE MojDbServiceHandler -------------------------
(***************************************************************************)
(* MojDbServiceHandler: the methods of the database on the bus.  A method   *)
(* is called in a batch of the database; what it writes to the message is   *)
(* sent when it has returned, after the commit, unless it replied itself.   *)
(* A deadlock, or an index entry another transaction holds, is tried again. *)
(***************************************************************************)
EXTENDS Naturals, Sequences

CONSTANTS
  MaxDeadlockRetries, MaxIndexlockRetries,
  MaxReserveIdCount,
  MaxOperations     \* bound: operations of a batch

ASSUME HandlerAssumption ==
  /\ MaxDeadlockRetries \in Nat \ {0} /\ MaxIndexlockRetries \in Nat \ {0}
  /\ MaxReserveIdCount \in Nat

VARIABLES
  call,      \* the methods called: one, or the operations of a "batch"
  inBatch,   \* the request is a "batch"
  nextOp,    \* the operation to do
  data,      \* what the writer holds: the results of operations
  work,      \* the operations of the open transaction that write
  storedOps,    \* history: the operations committed
  retries,
  replies,   \* the replies: "ok" with the results in it, or "error"
  handling,  \* "calling", "ok", an error, "answered"
  commitFailed, \* history: the error came from the commit
  stopped    \* the reactor
handlerVars == <<call, inBatch, nextOp, data, work, storedOps, retries, replies, handling, commitFailed, stopped>>
-----------------------------------------------------------------------------
(* What a method does with a payload, of which only the keys matter: it      *)
(* refuses it, or reads or writes the database; it leaves results in the     *)
(* writer, or replies itself.  A watched query keeps the message.            *)

Effect(writes, result, replied) == [writes |-> writes, result |-> result, replied |-> replied]
Refused  == Effect(FALSE, "refused", FALSE)
NoEffect == Effect(FALSE, "none", FALSE)
Reads(result)  == Effect(FALSE, result, FALSE)
Writes(result) == Effect(TRUE, result, FALSE)
Replies(writes) == Effect(writes, "none", TRUE)

\* "ids" and "query" exclude each other; with neither nothing is done or written.
HandleDel(keys) ==
  IF "ids" \in keys THEN (IF "query" \in keys THEN Refused ELSE Writes("results"))
  ELSE IF "query" \in keys THEN Writes("count") ELSE NoEffect

HandleMerge(keys) ==
  IF "objects" \in keys THEN (IF "query" \in keys THEN Refused ELSE Writes("results"))
  ELSE IF keys \cap {"query", "ignoreMissing"} = {"query"} /\ "props" \in keys
       THEN Writes("count") ELSE Refused

\* findImpl replies itself to a watched query.
HandleFind(keys) == IF "watch" \in keys THEN Effect(FALSE, "results", TRUE) ELSE Reads("results")
HandleSearch(keys) == HandleFind(keys)

HandleGet(keys) == Reads("results")
HandlePut(keys) == Writes("results")

\* The limit is looked at when the array of ids is begun.
HandleReserveIds(count) == IF count > MaxReserveIdCount THEN Refused ELSE Reads("results")

HandleDump       == Reads("count")
HandleLoad       == Writes("count")
HandlePurge      == Writes("count")
HandleKinds      == Reads("results")
HandleStats      == Reads("results")
HandleQuotaStats == Reads("results")

\* These reply before the batch of the request has ended.
HandleCompact        == Replies(FALSE)
HandlePurgeStatus    == Replies(FALSE)
HandleDelKind        == Replies(TRUE)
HandlePutKind        == Replies(TRUE)
HandlePutPermissions == Replies(TRUE)
HandlePutQuotas      == Replies(TRUE)

\* A query whose watch fired at once is not answered "ok" but "fired".
HandleWatch(fired) == Replies(FALSE)

\* The keys of a payload the schemas let through.
DelArgs   == SUBSET {"ids", "query"}
MergeKeys == SUBSET {"objects", "query", "ignoreMissing"} \cup {k \cup {"query", "props"} : k \in SUBSET {"objects", "ignoreMissing"}}
FindKeys  == SUBSET {"watch"}

BatchMethods ==
  {<<"del", HandleDel(keys)>> : keys \in DelArgs} \cup
  {<<"merge", HandleMerge(keys)>> : keys \in MergeKeys} \cup
  {<<"find", HandleFind(keys)>> : keys \in FindKeys} \cup
  {<<"search", HandleSearch(keys)>> : keys \in FindKeys} \cup
  {<<"get", HandleGet({})>>, <<"put", HandlePut({})>>}

PublicMethods == BatchMethods \cup
  {<<"reserveIds", HandleReserveIds(count)>> : count \in 0..MaxReserveIdCount + 1} \cup
  {<<"delKind", HandleDelKind>>, <<"purgeStatus", HandlePurgeStatus>>, <<"putKind", HandlePutKind>>,
   <<"putPermissions", HandlePutPermissions>>, <<"watch", HandleWatch(FALSE)>>}

PrivateMethods ==
  {<<"compact", HandleCompact>>, <<"dump", HandleDump>>, <<"load", HandleLoad>>, <<"purge", HandlePurge>>,
   <<"putQuotas", HandlePutQuotas>>, <<"quotaStats", HandleQuotaStats>>, <<"stats", HandleStats>>,
   <<"kinds", HandleKinds>>}

\* addCategory: the public bus has the public methods, the private one all.
Callable(bus) == IF bus = "public" THEN PublicMethods ELSE PublicMethods \cup PrivateMethods

\* These commit what they did so far in batches of their own.
CommitsParts(method) == method \in {"del", "delKind", "purge", "load"}
-----------------------------------------------------------------------------
\* invokeImpl begins a batch of the database: one method, or the operations of handleBatch.  The
\* key "watch" is looked for in the payload of the batch, where its schema does
\* not allow one, and not in the parameters of the operations.
HandlerInit ==
  /\ \/ \E bus \in {"public", "private"} : \E m \in Callable(bus) : call = <<m>> /\ inBatch = FALSE
     \/ \E n \in 0..MaxOperations : call \in [1..n -> BatchMethods] /\ inBatch = TRUE
  /\ nextOp = 1 /\ data = <<>> /\ work = <<>> /\ storedOps = <<>> /\ retries = 0
  /\ replies = <<>> /\ handling = "calling" /\ commitFailed = FALSE /\ stopped = FALSE

\* The reply takes what the writer holds and empties it.
Reply(content) == [to |-> "ok", results |-> content, whole |-> inBatch => nextOp > Len(call)]
ErrorReply == [to |-> "error", results |-> <<>>, whole |-> TRUE]

\* The callback of the next operation.
Operation ==
  /\ handling = "calling" /\ nextOp <= Len(call)
  /\ LET effect == call[nextOp][2]
         results == IF effect.result = "none" THEN data ELSE Append(data, nextOp) IN
       /\ effect.result # "refused"
       /\ work' = IF effect.writes THEN Append(work, nextOp) ELSE work
       /\ IF effect.replied THEN replies' = Append(replies, Reply(results)) /\ data' = <<>>
                            ELSE data' = results /\ UNCHANGED replies
  /\ nextOp' = nextOp + 1
  /\ UNCHANGED <<call, inBatch, storedOps, retries, handling, commitFailed, stopped>>

\* commitBatch and load end the batch and begin another one.
CommitPart ==
  /\ handling = "calling" /\ nextOp <= Len(call) /\ CommitsParts(call[nextOp][1])
  /\ call[nextOp][2].writes /\ storedOps = <<>>
  /\ storedOps' = work \o <<0>>
  /\ work' = <<>>
  /\ UNCHANGED <<call, inBatch, nextOp, data, retries, replies, handling, commitFailed, stopped>>

\* The callback has returned.
EndBatch ==
  /\ handling = "calling" /\ nextOp > Len(call)
  /\ storedOps' = storedOps \o work
  /\ work' = <<>>
  /\ handling' = "ok"
  /\ UNCHANGED <<call, inBatch, nextOp, data, retries, replies, commitFailed, stopped>>

\* An error of an operation: the request's destructor aborts.
Errors == {"invalid", "deadlock", "indexOnDel", "fatal"}
Fails(err) ==
  /\ handling = "calling" /\ nextOp <= Len(call)
  /\ call[nextOp][2].result = "refused" => err = "invalid"
  /\ work' = <<>>
  /\ handling' = err
  /\ UNCHANGED <<call, inBatch, nextOp, data, storedOps, retries, replies, commitFailed, stopped>>

\* The commit at the end, or that of a part, returns an error.  One of the engine that is
\* tried again came before anything was written; another may come from the write of
\* another table, or from a slot, the quota engine or a watcher after the writes.
CommitFails(err) ==
  /\ handling = "calling"
  /\ nextOp <= Len(call) => CommitsParts(call[nextOp][1]) /\ call[nextOp][2].writes /\ storedOps = <<>>
  /\ \/ UNCHANGED storedOps
     \/ err \in {"invalid", "fatal"} /\ storedOps' = storedOps \o work
  /\ work' = <<>>
  /\ handling' = err /\ commitFailed' = TRUE
  /\ UNCHANGED <<call, inBatch, nextOp, data, retries, replies, stopped>>

\* invoke counts retries of both kinds together and has a limit for each.
MayRetry == \/ handling = "deadlock" /\ retries + 1 < MaxDeadlockRetries
            \/ handling = "indexOnDel" /\ retries + 1 < MaxIndexlockRetries

\* Mutant: what the failed attempt wrote to the message stays.
RetryKeepsData ==
  /\ MayRetry
  /\ retries' = retries + 1
  /\ handling' = "calling" /\ nextOp' = 1 /\ commitFailed' = FALSE
  /\ UNCHANGED <<call, inBatch, data, work, storedOps, replies, stopped>>

\* invoke empties the writer, sleeps and tries again.
Retry ==
  /\ MayRetry
  /\ retries' = retries + 1
  /\ data' = <<>>
  /\ handling' = "calling" /\ nextOp' = 1 /\ commitFailed' = FALSE
  /\ UNCHANGED <<call, inBatch, work, storedOps, replies, stopped>>

\* dispatchRequest: an error is sent, or the data of the writer, if no reply was.
\* A fatal error of the database ends the reactor.
Answer ==
  /\ handling \in {"ok"} \cup Errors /\ ~MayRetry
  /\ stopped' = (handling = "fatal")
  /\ replies' = IF replies # <<>> THEN replies
                ELSE IF handling # "ok" THEN <<ErrorReply>>
                ELSE IF data # <<>> \/ inBatch THEN <<Reply(data)>> ELSE <<>>
  /\ handling' = "answered"
  /\ UNCHANGED <<call, inBatch, nextOp, data, work, storedOps, retries, commitFailed>>

HandlerNext == Operation \/ CommitPart \/ EndBatch \/ (\E err \in Errors : Fails(err) \/ CommitFails(err)) \/ Retry \/ Answer
-----------------------------------------------------------------------------
(* Properties. *)

RepliesItself == \E i \in DOMAIN call : call[i][2].replied
CommitsBefore == \E i \in DOMAIN call : CommitsParts(call[i][1])
Writers == {i \in DOMAIN call : call[i][2].writes}

\* A sequence has the members of a set, once each, in order.
Lists(s, S) ==
  /\ {s[i] : i \in DOMAIN s} = S
  /\ \A i, j \in DOMAIN s : i < j => s[i] < s[j]

\* The answer to a request whose methods leave the reply to the service tells
\* what was done: one answer, and an "ok" says that all of it was stored once, however
\* often it was tried, with the result of every operation in its place.
AnswerTells ==
  handling = "answered" /\ ~RepliesItself =>
    /\ Len(replies) <= 1
    /\ replies = <<>> => ~inBatch /\ call[1][2] = NoEffect
    /\ \A i \in DOMAIN replies : replies[i].to = "ok" =>
         /\ {storedOps[j] : j \in DOMAIN storedOps} \ {0} = Writers
         /\ CommitsBefore \/ Lists(storedOps, Writers)
         /\ Lists(replies[i].results, {j \in DOMAIN call : call[j][2].result # "none"})

\* A method that replies itself, before the commit, is never answered with an error after
\* that.  An error means that nothing was stored, except of methods that commit in parts;
\* only when the commit itself returned it, everything may have been, and then once.
ErrorTells ==
  \A i \in DOMAIN replies : replies[i].to = "error" =>
    i = 1 /\ (\/ CommitsBefore \/ storedOps = <<>>
              \/ commitFailed /\ Lists(storedOps, Writers))

\* What handleBatch says: no watched query in a batch.  findImpl replies to one
\* at once, since "it cannot be part of a batch".
RepliesAreWhole == \A i \in DOMAIN replies : replies[i].whole

\* A request is executed once, whatever errors were met and retried, and its
\* answer tells what was done (AnswerTells, ErrorTells).
HandlerAnswers == AnswerTells /\ ErrorTells
=============================================================================
