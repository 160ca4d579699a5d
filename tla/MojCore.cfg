CONSTANTS
  Threads = {t1, t2, t3}
  Idle = Idle
  Page = 2
  PutMayFail = TRUE
  MaxNext = 4
  Requests = {"q1", "q2"}
  Expected <- MCExpected
  MaxReplies = 2
  Messages = {"m1", "m2", "m3"}
  Senders = {"c1", "c2"}
  SenderOf <- MCSenderOf
  NoMessage = NoMessage
  MaxDeadlockRetries = 3
  MaxIndexlockRetries = 2
  MaxReserveIdCount = 1
  MaxOperations = 2
  MaxReplyCount = 5
  ClientArrays <- MCClientArrays
  ClientQueries <- MCClientQueries
  MaxBatchCalls = 2
  MaxTreeKey = 7
  TreeVals <- MCTreeVals
  Handles = {h1, h2}
  MaxArrays = 3
  Elems = {x, y}
  NoElem = x
  MinCapacity = 1
  MaxLen = 3
  HashKeys = {1, 2, 3, 4, 5}
  HashVals = {0, 1}
  FillFactor = 2
  InitialBuckets = 1
  PropKeys <- MCPropKeys
  Scalars <- MCScalars
  MaxProps = 2
  MaxElems = 2
  MaxNesting = 2
  MaxTokens = 1
  Paths <- MCPaths
  Dot = 2
  NumberChars = {"0", "1", "6", "-", "+", ".", "e"}
  MaxUInt = 2047
  MaxInt = 1023
  MaxPow10 = 3
  Precision = 1
  ExponentBound = 1
  MaxText = 6
  JsonValues <- MCJsonValues
  MaxDepth = 3
  AnyChars <- MCAnyChars
  MaxChars = 5
  MaxFillers = 2
  SchemaArgs <- MCSchemaArgs
  SchemaValues <- MCSchemaValues
  MaxKeywords = 2
  MaxSchemaDepth = 1
  QueryProps <- MCQueryProps
  QueryVals <- MCQueryVals
  QueryCollations = {"none", "primary"}
  MaxClauses = 2
  SearchIds <- MCSearchIds
  SearchObjects <- MCSearchObjects
  SearchQueries <- MCSearchQueries
  MaxSearchWrites = 1
  Txns = {t1, t2}
  MaxId = 2
  MaxProp = 2
  MaxIndex = 1
  Values <- MCStoredValues
  Instances = {p1, p2, p3}
  MaxFiles = 3
  MaxWrites = 2
  Units = {"seq", "client", "server", "handler", "internal", "serviceClient", "tree", "shared", "hash", "object", "filter", "number", "json", "schema", "query", "search", "sandwich", "env"}
SPECIFICATION MCSpec
INVARIANTS
  IssuedIsDurable RepliesKept SubscriptionsKept HandlerAnswers PurgedOnce CallsReadBack
  ContainersKept ObjectsKept TextsRead SchemasDecide FiltersProject SearchesCover SandwichKept
  OneInstanceUnraced
PROPERTY SupplySpec
CHECK_DEADLOCK FALSE
