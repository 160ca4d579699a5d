-------------------------- MODULE MojDbServiceClient --------------------------
(***************************************************************************)
(* MojDbServiceClient and MojDbServiceClientBatch: the methods of the database *)
(* as messages to its service.  A request is written to the message event by  *)
(* event; a batch stays open between the calls that add to it.  The service   *)
(* builds the value again, checks its properties against the schema of the    *)
(* method and reads the arguments from it.                                  *)
(*                                                                         *)
(* A call is its method and its arguments by name.  The types inside an       *)
(* argument are not checked here (MojSchema does it).                        *)
(***************************************************************************)
EXTENDS MojObject, TLC
LOCAL INSTANCE SequencesExt

CONSTANTS
  ClientArrays,     \* the arrays of objects and of ids that calls are made with
  ClientQueries,    \* the queries, as values
  MaxBatchCalls     \* bound: calls in a batch

VARIABLES
  asked,         \* the calls made for the request being written or sent, in order
  batch,         \* m_req of the batch: the events written so far, none if there is no batch
  message        \* the message sent, its method "" if there is none
serviceClientVars == <<asked, batch, message>>
-----------------------------------------------------------------------------
Key ==
  [operations |-> <<1>>, method |-> <<2>>, params |-> <<3>>, query |-> <<4>>, props |-> <<5>>, objects |-> <<6>>,
   ids |-> <<7>>, purge |-> <<8>>, count |-> <<9>>, watch |-> <<10>>, id |-> <<11>>, owner |-> <<12>>,
   permissions |-> <<13>>, type |-> <<14>>, object |-> <<15>>, window |-> <<16>>]
BatchMethod ==
  [put |-> <<TypeString, <<1>>>>, get |-> <<TypeString, <<2>>>>, del |-> <<TypeString, <<3>>>>,
   merge |-> <<TypeString, <<4>>>>, find |-> <<TypeString, <<5>>>>, search |-> <<TypeString, <<6>>>>]
Yes == <<TypeBool, 1>>
One == <<TypeInt, 1>>
Flags(f) == [k \in f |-> Yes]

\* What the client is asked: single calls and calls for a batch.
ArrayCalls ==
  {[method |-> p[1], args |-> (p[2] :> <<TypeArray, s>>) @@ Flags(f)] :
     p \in {<<"put", "objects">>, <<"merge", "objects">>, <<"del", "ids">>}, s \in ClientArrays, f \in SUBSET {"purge"}}
  \cup {[method |-> "get", args |-> [ids |-> <<TypeArray, s>>]] : s \in ClientArrays}
QueryCalls(answers) ==
  {[method |-> "del", args |-> [query |-> q] @@ Flags(f)] : q \in ClientQueries, f \in SUBSET {"purge"}}
  \cup {[method |-> m, args |-> [query |-> q] @@ Flags(f)] :
          m \in {"find", "search"}, q \in ClientQueries, f \in SUBSET answers}
MergeCalls ==
  {[method |-> "merge", args |-> [query |-> q, props |-> EmptyObject] @@ Flags(f)] :
     q \in ClientQueries, f \in SUBSET {"purge"}}
OtherCalls ==
  {[method |-> "watch", args |-> [query |-> q]] : q \in ClientQueries}
  \cup {[method |-> "putPermissions", args |-> [permissions |-> <<TypeArray, s>>]] : s \in ClientArrays}
  \cup {[method |-> "putKind", args |-> [id |-> Null, owner |-> Null]],
        [method |-> "delKind", args |-> [id |-> Null]],
        [method |-> "getPermissions", args |-> [type |-> Null, object |-> Null]],
        [method |-> "purge", args |-> [window |-> One]],
        [method |-> "reserveIds", args |-> [count |-> One]]}
  \cup {[method |-> m, args |-> <<>>] : m \in {"kinds", "compact", "purgeStatus"}}
BatchCalls == ArrayCalls \cup QueryCalls({"count"}) \cup MergeCalls
SingleCalls == ArrayCalls \cup QueryCalls({"count", "watch"}) \cup MergeCalls \cup OtherCalls
-----------------------------------------------------------------------------
(* Writing. *)

Named(k, es) == <<Event("propName", Key[k])>> \o es
Braced(es) == <<Event("beginObject", 0)>> \o es \o <<Event("endObject", 0)>>
Visits(vs) == FlattenSeq([i \in DOMAIN vs |-> Visit(vs[i])])

\* Of the flags only purge is passed on.
FormatFlags(args) == IF "purge" \in DOMAIN args THEN Named("purge", Visit(Yes)) ELSE <<>>
FormatArrayParams(k, args) ==
  Braced(FormatFlags(args) \o Named(k, <<Event("beginArray", 0)>> \o Visits(args[k][2]) \o <<Event("endArray", 0)>>))
FormatQueryParams(args) ==
  Braced(FormatFlags(args) \o Named("query", Visit(args.query))
           \o (IF "count" \in DOMAIN args THEN Named("count", Visit(Yes)) ELSE <<>>)
           \o (IF "watch" \in DOMAIN args THEN Named("watch", Visit(Yes)) ELSE <<>>))
\* merge of a query: its flags are not passed on.
FormatMergeParams(args) == Braced(Named("query", Visit(args.query)) \o Named("props", Visit(args.props)))
FormatOtherParams(args) ==
  LET ks == SetToSeq(DOMAIN args) IN Braced(FlattenSeq([i \in DOMAIN ks |-> Named(ks[i], Visit(args[ks[i]]))]))

Params(args) ==
  LET arrays == DOMAIN args \cap {"objects", "ids", "permissions"} IN
    CASE arrays # {} -> FormatArrayParams(CHOOSE k \in arrays : TRUE, args)
      [] "props" \in DOMAIN args -> FormatMergeParams(args)
      [] "query" \in DOMAIN args -> FormatQueryParams(args)
      [] OTHER -> FormatOtherParams(args)

NumReplies(call) ==
  IF call.method = "watch" \/ (call.method \in {"find", "search"} /\ "watch" \in DOMAIN call.args) THEN 2 ELSE 1

NoRequest == [method |-> "", events |-> <<>>, replies |-> 0]

Request(call) ==
  /\ batch = <<>> /\ message = NoRequest
  /\ asked' = <<call>>
  /\ message' = [method |-> call.method, events |-> Params(call.args), replies |-> NumReplies(call)]
  /\ UNCHANGED batch

CreateBatch ==
  /\ batch = <<>> /\ message = NoRequest
  /\ batch' = <<Event("beginObject", 0), Event("propName", Key.operations), Event("beginArray", 0)>>
  /\ asked' = <<>> /\ UNCHANGED message

StartRequest(m) == Named("method", Visit(BatchMethod[m])) \o <<Event("propName", Key.params)>>

\* merge of a query writes its arguments where the others write method and params.
BatchRequest(call) ==
  IF "props" \in DOMAIN call.args THEN FormatMergeParams(call.args)
  ELSE Braced(StartRequest(call.method) \o Params(call.args))

AddToBatch(call) ==
  /\ batch # <<>> /\ message = NoRequest /\ Len(asked) < MaxBatchCalls
  /\ batch' = batch \o BatchRequest(call)
  /\ asked' = Append(asked, call) /\ UNCHANGED message

Execute ==
  /\ batch # <<>> /\ message = NoRequest
  /\ message' = [method |-> "batch", events |-> batch \o <<Event("endArray", 0), Event("endObject", 0)>>, replies |-> 1]
  /\ UNCHANGED <<asked, batch>>

ServiceClientInit == asked = <<>> /\ batch = <<>> /\ message = NoRequest
ServiceClientNext ==
  \/ \E c \in SingleCalls : Request(c)
  \/ CreateBatch
  \/ \E c \in BatchCalls : AddToBatch(c)
  \/ Execute
-----------------------------------------------------------------------------
(* Reading, by the service. *)

PayloadOf(es) == FoldLeft(LAMBDA b, e : Build(b, e), NewBuilder, es).obj
KeysIn(v) == {k \in DOMAIN Key : \E i \in DOMAIN v[2] : v[2][i][1] = Key[k]}
ArgOf(v, k) == v[2][CHOOSE i \in DOMAIN v[2] : v[2][i][1] = Key[k]][2]

\* The schemas: the properties a method needs and may have.
MethodAllows(m, ks) ==
  CASE m = "put" -> ks = {"objects"}
    [] m = "get" -> ks = {"ids"}
    [] m = "del" -> ks \subseteq {"query", "ids", "purge"}
    [] m = "merge" -> ks \subseteq {"query", "objects", "props"} /\ ("props" \in ks => "query" \in ks)
    [] m \in {"find", "search"} -> "query" \in ks /\ ks \subseteq {"query", "count", "watch"}
    [] m = "watch" -> ks = {"query"}
    [] m = "putKind" -> ks = {"id", "owner"}
    [] m = "delKind" -> ks = {"id"}
    [] m = "putPermissions" -> ks = {"permissions"}
    [] m = "purge" -> ks \subseteq {"window"}
    [] m = "reserveIds" -> ks = {"count"}
    [] m \in {"kinds", "compact", "purgeStatus"} -> ks = {}
    [] OTHER -> FALSE
CallOf(m, v) == [method |-> m, args |-> [k \in KeysIn(v) |-> ArgOf(v, k)]]

\* A batch is read whole or refused: each operation has a method and its parameters.
OperationRead(v) ==
  IF KeysIn(v) # {"method", "params"} THEN [method |-> "", args |-> <<>>]
  ELSE CallOf(CHOOSE m \in DOMAIN BatchMethod : BatchMethod[m] = ArgOf(v, "method"), ArgOf(v, "params"))
CallsRead(msg) ==
  LET v == PayloadOf(msg.events) IN
    IF msg.method # "batch" THEN <<CallOf(msg.method, v)>>
    ELSE LET os == ArgOf(v, "operations")[2] IN [i \in DOMAIN os |-> OperationRead(os[i])]
Accepts(msg) == LET cs == CallsRead(msg) IN \A i \in DOMAIN cs : MethodAllows(cs[i].method, DOMAIN cs[i].args)

\* A watched find answers with what is found and once more; a watch that something
\* happened already to answers only once.
ServerReplies(call) ==
  IF call.method = "watch" THEN {1, 2}
  ELSE IF call.method \in {"find", "search"} /\ "watch" \in DOMAIN call.args THEN {2} ELSE {1}
-----------------------------------------------------------------------------
\* Calls the client makes in another way than the service reads: the flag of a put or a
\* merge, merge by query in a batch, a method the service does not have.
Misread(call) ==
  \/ "purge" \in DOMAIN call.args /\ call.method # "del"
  \/ message.method = "batch" /\ "props" \in DOMAIN call.args
  \/ call.method = "getPermissions"

\* Whatever is written, alone or into a batch left open, the service reads back the very
\* calls made, in their order, and the client waits for as many replies as the service may
\* send; but for the calls named above (startRequest, the format methods, numReplies).
ClientReadBack ==
  message # NoRequest /\ (\A i \in DOMAIN asked : ~Misread(asked[i])) =>
    /\ Accepts(message) /\ CallsRead(message) = asked
    /\ \A i \in DOMAIN asked : \A n \in ServerReplies(asked[i]) : n <= message.replies

\* The same of all calls a batch takes.
BatchReadBack == message.method = "batch" => CallsRead(message) = asked
=============================================================================
