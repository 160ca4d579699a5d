------------------------------ MODULE MCMojCore ------------------------------
(***************************************************************************)
(* Instances for TLC of the modules that stand beside the database: what its *)
(* service and its clients do with messages, the containers and values it is *)
(* built from, text search, and the Sandwich engine.  They share no state, so *)
(* a behaviour is one of one of them, which unit names; the others stay as    *)
(* they begin.                                                                *)
(***************************************************************************)
EXTENDS MojDbSeq, MojService, MojDbServiceHandler, MojDbServiceHandlerInternal, MojDbServiceClient,
        MojRbTree, MojShared, MojHashMap, MojJson, MojSchema, MojObjectFilter, MojDbSearch, MojDbSandwich

CONSTANT Units      \* the modules to be checked

VARIABLE unit

serviceSideVars == <<clientVars, serverVars, handlerVars, internalVars, serviceClientVars>>
containerVars == <<treeVars, sharedVars, hashVars>>
valueVars == <<obj, selected, numberVars, jsonVars, schemaVars>>
storeVars == <<vars, queryVars, searchVars, sandwichVars, envVars>>
MCvars == <<unit, serviceSideVars, containerVars, valueVars, storeVars>>
-----------------------------------------------------------------------------
(* The instances. *)

MCExpected == [r \in {"q1", "q2"} |-> IF r = "q1" THEN 1 ELSE 3]
MCSenderOf == [m \in {"m1", "m2", "m3"} |-> IF m = "m3" THEN "c2" ELSE "c1"]

\* Keys whose value changes, at the root and below.
MCTreeVals == [k \in 1..7 |-> IF k \in {2, 4} THEN {0, 1} ELSE {0}]

\* A value of each type; numbers on both sides of the bounds of the encodings.
Num(n) == <<TypeInt, n>>
Dec(n) == <<TypeDecimal, n>>
Str(s) == <<TypeString, s>>
Bool(b) == <<TypeBool, b>>
OneProp(k, v) == <<TypeObject, <<<<k, v>>>>>>
TwoProps(k, v, l, w) == <<TypeObject, <<<<k, v>>, <<l, w>>>>>>
List(s) == <<TypeArray, s>>
MCPropKeys == {<<1>>, <<1, 1>>}
MCScalars == {Null, Bool(1), Str(<<>>), Str(<<1, 1>>), Dec(-2), Dec(1)} \cup {Num(n) : n \in {-128, -1, 0, 3, 4, 15, 16}}

MCPaths == {<<<<1>>>>, <<<<1>>, <<1>>>>, <<<<1>>, <<1, 1>>>>, <<<<1, 1>>>>, <<<<1>>, <<1>>, <<1, 1>>>>}
\* What is filtered has one kind of leaf: bound.
OneLeaf(v) == \A i \in DOMAIN Visit(v) : Visit(v)[i].ev = "value" => Visit(v)[i].arg \in {Num(1), Null}

\* Values whose text has every kind of token, two and three levels deep.
JsonKey == <<97>>
MCJsonScalars ==
  {Null, Bool(0), Bool(1), Str(<<>>), Str(<<97, 34, 92, 10, 1, 47>>)} \cup
  {Num(n) : n \in {-57, 0, 7, 1023}} \cup {Dec(n) : n \in {-1, 0, 15, 20}}
InOne(v) == {List(<<v>>), OneProp(JsonKey, v)}
JsonDeep == UNION {InOne(v) : v \in InOne(Null) \cup {EmptyArray}}
MCJsonValues ==
  MCJsonScalars \cup {EmptyArray, EmptyObject} \cup UNION {InOne(v) : v \in MCJsonScalars} \cup JsonDeep
  \cup {PutProp(OneProp(JsonKey, v), <<34, 1>>, w) : v, w \in JsonDeep}
  \cup {List(<<v, w>>) : v, w \in JsonDeep \cup MCJsonScalars}
MCAnyChars == {"{", "}", "[", "]", "\"", ":", ",", "1", "/", "\\", " "}

\* An argument or two of every keyword; values each of them tells apart.
MCSchemaArgs ==
  [type |-> {<<"type", "integer">>, <<"type", "number">>, <<"type", "any">>, <<"union", <<>>>>},
   additionalProperties |-> {<<"bool", FALSE>>, <<"bool", TRUE>>}, disallow |-> {<<"type", "string">>},
   optional |-> BOOLEAN, required |-> {TRUE}, requires |-> {<<1>>},
   minimum |-> {4}, maximum |-> {4}, minimumCanEqual |-> {FALSE}, divisibleBy |-> {0, 2},
   minItems |-> {1}, maxItems |-> {1}, uniqueItems |-> BOOLEAN,
   minLength |-> {1}, maxLength |-> {1}, pattern |-> {{<<1>>}}, enum |-> {<<Num(2), Str(<<1>>)>>}]
MCSchemaValues ==
  {Null, Num(2), Num(3), Dec(5), Dec(4), Str(<<>>), Str(<<1>>), Str(<<1, 1>>), EmptyObject, OneProp(<<1>>, Num(2)),
   OneProp(<<1, 1>>, Str(<<1>>)), TwoProps(<<1>>, Num(3), <<1, 1>>, Null), OneProp(<<1>>, OneProp(<<1>>, Num(2))),
   TwoProps(<<1>>, List(<<Num(2)>>), <<1, 2>>, Null)} \cup
  {List(s) : s \in {<<>>, <<Num(2)>>, <<Num(2), Num(2)>>, <<Str(<<1>>), Num(3)>>, <<Str(<<1>>), Num(3), Null>>,
                    <<OneProp(<<1>>, Num(2))>>}}

\* Texts of which two differ in case only (the ninth character ends a word), and
\* searches with and without order, distinct, filter and a limit that makes pages.
MCSearchIds == {<<1, 0>>, <<1, 16>>, <<2, 32>>, <<3, 1>>}
MCSearchObjects ==
  {TwoProps(<<1>>, Str(t[1]), <<2>>, Num(t[2])) : t \in {<<<<1, 9, 11, 2>>, 1>>, <<<<11, 2>>, 2>>, <<<<1, 3, 9, 2>>, 1>>}}
SearchFor(op, text, filter, order, distinct, desc, limit) ==
  [prop |-> <<<<1>>>>, op |-> op, text |-> Str(text), filter |-> filter, order |-> order, distinct |-> distinct,
   desc |-> desc, limit |-> limit, coll |-> "primary"]
MCSearchQueries ==
  {SearchFor("?", <<1>>, NoClauses, <<<<2>>>>, <<>>, FALSE, 1), SearchFor("?", <<1>>, NoClauses, <<>>, <<>>, TRUE, 1),
   SearchFor("?", <<1, 9, 1, 2>>, NoClauses, <<<<2>>>>, <<>>, TRUE, 2), SearchFor("?", <<1>>, NoClauses, <<>>, <<<<2>>>>, FALSE, 1),
   SearchFor("=", <<1, 2>>, NoClauses, <<>>, <<>>, FALSE, 2),
   SearchFor("?", <<2, 9, 1>>, WithClause(NoClauses, <<2>>, "<=", Num(1), NoOp), <<>>, <<>>, FALSE, 1)}
MCQueryVals == {Num(1), List(<<Num(1), Num(2)>>)}
MCQueryProps == {<<2>>}

MCClientArrays == {<<>>, <<OneProp(<<1>>, Null), One>>}
MCClientQueries == {EmptyObject, OneProp(<<4>>, OneProp(<<9>>, Yes))}

MCStoredValues == {[size |-> 0, prop |-> 2], [size |-> 1, prop |-> 1]}
-----------------------------------------------------------------------------
MCInit ==
  /\ unit \in Units
  /\ ClientInit /\ ServerInit /\ ServiceClientInit
  /\ InternalInit /\ (unit # "internal" => calls["bootStatus"] = "none")
  /\ IF unit = "handler" THEN HandlerInit ELSE HandlerInit /\ call = <<>> /\ inBatch
  /\ TreeInit /\ HashInit
  /\ SharedInit /\ (unit # "shared" => container = "vector")
  /\ FilterInit /\ (unit # "filter" => selected = {})
  /\ NumberInit /\ SchemaInit
  /\ JsonInit /\ (unit # "json" => want = Undefined)
  /\ Init /\ (unit # "seq" => sync)
  /\ QueryInit /\ SandwichInit /\ EnvInit
  /\ SearchInit /\ (unit # "search" => sstore = [id \in {} |-> Null] /\ squery.op = "=")

ServiceSideNext ==
  /\ \/ unit = "client" /\ ClientNext /\ UNCHANGED <<serverVars, handlerVars, internalVars, serviceClientVars>>
     \/ unit = "server" /\ ServerNext /\ UNCHANGED <<clientVars, handlerVars, internalVars, serviceClientVars>>
     \/ unit = "handler" /\ HandlerNext /\ UNCHANGED <<clientVars, serverVars, internalVars, serviceClientVars>>
     \/ unit = "internal" /\ InternalNext /\ UNCHANGED <<clientVars, serverVars, handlerVars, serviceClientVars>>
     \/ unit = "serviceClient" /\ ServiceClientNext /\ UNCHANGED <<clientVars, serverVars, handlerVars, internalVars>>
  /\ UNCHANGED <<unit, containerVars, valueVars, storeVars>>

ContainerNext ==
  /\ \/ unit = "tree" /\ TreeNext /\ UNCHANGED <<sharedVars, hashVars>>
     \/ unit = "shared" /\ SharedNext /\ UNCHANGED <<treeVars, hashVars>>
     \/ unit = "hash" /\ HashNext /\ UNCHANGED <<treeVars, sharedVars>>
  /\ UNCHANGED <<unit, serviceSideVars, valueVars, storeVars>>

ValueNext ==
  /\ \/ unit = "object" /\ ObjectNext /\ UNCHANGED <<selected, numberVars, jsonVars, schemaVars>>
     \/ unit = "filter" /\ FilterNext /\ OneLeaf(obj') /\ UNCHANGED <<numberVars, jsonVars, schemaVars>>
     \/ unit = "number" /\ NumberNext /\ UNCHANGED <<filterVars, jsonVars, schemaVars>>
     \/ unit = "json" /\ JsonNext /\ UNCHANGED <<filterVars, numberVars, schemaVars>>
     \/ unit = "schema" /\ SchemaNext /\ UNCHANGED <<filterVars, numberVars, jsonVars>>
  /\ UNCHANGED <<unit, serviceSideVars, containerVars, storeVars>>

StoreNext ==
  /\ \/ unit = "seq" /\ Next /\ UNCHANGED <<queryVars, searchVars, sandwichVars, envVars>>
     \/ unit = "query" /\ QueryNext /\ UNCHANGED <<vars, searchVars, sandwichVars, envVars>>
     \/ unit = "search" /\ SearchNext /\ UNCHANGED <<vars, queryVars, sandwichVars, envVars>>
     \/ unit = "sandwich" /\ SandwichNext /\ UNCHANGED <<vars, queryVars, searchVars, envVars>>
     \/ unit = "env" /\ EnvNext /\ UNCHANGED <<vars, queryVars, searchVars, sandwichVars>>
  /\ UNCHANGED <<unit, serviceSideVars, containerVars, valueVars>>

MCNext == ServiceSideNext \/ ContainerNext \/ ValueNext \/ StoreNext
MCSpec == MCInit /\ [][MCNext]_MCvars
-----------------------------------------------------------------------------
(* The properties of the modules, each of the behaviours that are its own. *)

\* What a client writes of its calls and its queries is what the service reads of them
\* (MojDbServiceClient, MojDbQuery::toObject and fromObject).
CallsReadBack == (unit = "serviceClient" => ClientReadBack) /\ (unit = "query" => QueryReadBack)

\* The red-black tree and the hash map hold what was put and not deleted, balanced and
\* linked as their algorithms need it; a handle of shared elements reads what was written
\* to it, whatever others do with theirs (MojRbTreeBase, MojHashMap, MojVector, MojString).
ContainersKept ==
  (unit = "tree" => TreeKept) /\ (unit = "hash" => HashKept) /\ (unit = "shared" => SharedKept)

\* The bytes of a value are read as the value, and compare as values do (MojObject,
\* MojObjectSerialization).
ObjectsKept == unit = "object" => ObjectReadBack /\ OrderAgrees

\* A text is read as the number it spells, rounded, or refused, and the text of a value as
\* the value however it is cut and spaced (MojDecimal, MojJsonWriter, MojJsonParser).
TextsRead == (unit = "number" => NumberKept) /\ (unit = "json" => JsonKept)

\* The compiled rules of a schema accept the values its keywords do (MojSchema).
SchemasDecide == unit = "schema" => SchemaDecides

\* A query that selects properties gets those and no more (MojObjectFilter).
FiltersProject == unit = "filter" => FilterProjects

\* The pages of a search have each object that matches once, in order (MojDbSearchCursor).
SearchesCover == unit = "search" => SearchPagesCover

\* The Sandwich engine counts the bytes it stores, keeps the indexes of what it stores, and
\* scans a range of them exactly (MojDbSandwichDatabase, MojDbSandwichQuery).
SandwichKept == unit = "sandwich" => QuotaCountsBytes /\ ScanExact
=============================================================================
