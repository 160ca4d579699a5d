--------------------------- MODULE MojDbKindState ---------------------------
(* The tokens that stand for property names in the stored objects of a     *)
(* kind, and the token that stands for the kind in their headers           *)
(* (src/db/MojDbKindState.cpp, MojDbObjectHeader.cpp, MojDbKindEngine.cpp, *)
(* src/core/MojTokenSet.cpp, MojObjectSerialization.cpp).                  *)
(*                                                                         *)
(* Requests that put objects of the kind share the MojDbKindState, each    *)
(* with a copy of its tokens.  A new token is stored at once, in a         *)
(* transaction of its own, not with the objects of the request.  Schema    *)
(* changes hold the schema lock as writers and replace the state.  What is *)
(* written is a log, of which a crash keeps a prefix.                      *)
EXTENDS Integers, FiniteSets, Sequences

CONSTANTS
  Putters,       \* requests
  Props,         \* property names, numbered in their order
  Objects,       \* sets of names that objects hold
  Schemas,       \* sets of names that the schema of the kind may hold
  TokenMax,      \* number of tokens between TokenStartMarker and MojUInt8Max
  MaxLog,        \* bound: writes
  MaxKind        \* bound: kind tokens drawn

(* A schema has finitely many strings.                                     *)
ASSUME KindStateAssumption == \A strings \in Schemas : IsFiniteSet(strings)

VARIABLES
  shared,        \* MojDbKindState: tokens (m_tokensObj), vec (m_tokenVec), kind (m_kindToken)
  inKinds,    \* the kind is in m_kinds
  puts,          \* per request: pc, copy of the tokens, names to write, names written
  tokenLog,      \* what was written, oldest first
  nextKind,      \* the sequence that kind tokens are drawn from
  reload,        \* a putKind failed and has not yet reloaded the kind
  lapsed         \* history: the objects written meanwhile

kstateVars == <<shared, inKinds, puts, tokenLog, nextKind, reload, lapsed>>

NoToken == 0     \* InvalidToken, the name is written out; or: no kind token
NoTokens == [p \in {} |-> NoToken]
IdlePut == [pc |-> "idle", tokens |-> NoTokens, todo |-> {}, obj |-> NoTokens]
Empty == [tokens |-> NoTokens, vec |-> <<>>, kind |-> NoToken]

TokensWrite(f) == [what |-> "tokens", val |-> f, kind |-> NoToken]
ObjWrite(f, k) == [what |-> "object", val |-> f, kind |-> k]
KindWrite(k) == [what |-> "kind", val |-> NoTokens, kind |-> k]

-----------------------------------------------------------------------------
(* readObj: the last write of its kind in what a crash left.               *)
LastOf(log, what, default) ==
  LET at == {i \in 1..Len(log) : log[i].what = what} IN
  IF at = {} THEN default ELSE log[CHOOSE i \in at : \A j \in at : j <= i]

StoredTokens(log) == LastOf(log, "tokens", TokensWrite(NoTokens)).val
StoredKind(log) == LastOf(log, "kind", KindWrite(NoToken)).kind

(* initTokens: the vector filled from the stored tokens.  There is no      *)
(* vector when a token lies past the number of tokens.                     *)
Loads(f) == \A p \in DOMAIN f : f[p] \in 1..Cardinality(DOMAIN f)
VecOf(f) ==
  [i \in 1..Cardinality(DOMAIN f) |->
     IF \E p \in DOMAIN f : f[p] = i THEN CHOOSE p \in DOMAIN f : f[p] = i ELSE 0]
Loaded(log, k) ==
  [tokens |-> StoredTokens(log), vec |-> VecOf(StoredTokens(log)), kind |-> k]

(* addPropImpl: a name that has no token is given the next one, while      *)
(* there are tokens.                                                       *)
HasRoom(s) == Len(s.vec) < TokenMax
WithToken(s, p) ==
  [tokens |-> [q \in DOMAIN s.tokens \cup {p} |-> IF q = p THEN Len(s.vec) + 1 ELSE s.tokens[q]],
   vec |-> Append(s.vec, p), kind |-> s.kind]

AddString(s, p) == IF p \in DOMAIN s.tokens \/ ~HasRoom(s) THEN s ELSE WithToken(s, p)

(* Those that are missing, in their order.                                 *)
Nth(names, i) == CHOOSE p \in names : Cardinality({q \in names : q <= p}) = i
AddStrings(s, strings) ==
  LET missing == strings \ DOMAIN s.tokens
      after[i \in 0..Cardinality(missing)] ==
        IF i = 0 THEN s ELSE AddString(after[i - 1], Nth(missing, i))
  IN after[Cardinality(missing)]

Write(w) == tokenLog' = Append(tokenLog, w)
Exclusive == \A r \in Putters : puts[r].pc = "idle"     \* the schema lock

KStateInit ==
  /\ shared = Empty
  /\ inKinds = FALSE
  /\ puts = [r \in Putters |-> IdlePut]
  /\ tokenLog = <<>>
  /\ nextKind = 1
  /\ reload = FALSE
  /\ lapsed = {}

-----------------------------------------------------------------------------
(* Putting an object.                                                      *)

(* kindEngine.update leaves the request a copy of the tokens.              *)
BeginObj(r, props) ==
  /\ puts[r].pc = "idle" /\ inKinds
  /\ puts' = [puts EXCEPT ![r] = [pc |-> "write", tokens |-> shared.tokens, todo |-> props, obj |-> NoTokens]]
  /\ UNCHANGED <<shared, inKinds, tokenLog, nextKind, reload, lapsed>>

Wrote(r, p, token, tokens) ==
  puts' = [puts EXCEPT ![r] = [pc |-> "write", tokens |-> tokens, todo |-> @.todo \ {p},
             obj |-> [q \in DOMAIN @.obj \cup {p} |-> IF q = p THEN token ELSE @.obj[q]]]]

NextProp(r, p) ==
  puts[r].pc = "write" /\ p \in puts[r].todo /\ \A q \in puts[r].todo : p <= q

(* tokenFromString: the name is in the copy of the request.                *)
KnownProp(r, p) ==
  /\ NextProp(r, p) /\ p \in DOMAIN puts[r].tokens
  /\ Wrote(r, p, puts[r].tokens[p], puts[r].tokens)
  /\ UNCHANGED <<shared, inKinds, tokenLog, nextKind, reload, lapsed>>

Unknown(r, p) == NextProp(r, p) /\ p \notin DOMAIN puts[r].tokens

(* addToken: another request gave the name its token, or the tokens are    *)
(* used up and the name is written out.  The request is left without a     *)
(* copy.                                                                   *)
SharedProp(r, p) ==
  /\ Unknown(r, p)
  /\ p \in DOMAIN shared.tokens \/ ~HasRoom(shared)
  /\ Wrote(r, p, IF p \in DOMAIN shared.tokens THEN shared.tokens[p] ELSE NoToken, NoTokens)
  /\ UNCHANGED <<shared, inKinds, tokenLog, nextKind, reload, lapsed>>

AddTokenLater(r, p) ==    \* mutant
  /\ Unknown(r, p)
  /\ p \notin DOMAIN shared.tokens /\ HasRoom(shared)
  /\ shared' = WithToken(shared, p)
  /\ Wrote(r, p, shared'.tokens[p], shared'.tokens)
  /\ UNCHANGED <<inKinds, tokenLog, nextKind, reload, lapsed>>

(* addToken: the tokens are stored, then changed in memory.                *)
AddToken(r, p) ==
  /\ Unknown(r, p)
  /\ p \notin DOMAIN shared.tokens /\ HasRoom(shared)
  /\ shared' = WithToken(shared, p)
  /\ Write(TokensWrite(shared'.tokens))
  /\ Wrote(r, p, shared'.tokens[p], shared'.tokens)
  /\ UNCHANGED <<inKinds, nextKind, reload, lapsed>>

(* The tokens or the object cannot be written.                             *)
AbortObj(r) ==
  /\ puts[r].pc = "write"
  /\ puts' = [puts EXCEPT ![r] = IdlePut]
  /\ UNCHANGED <<shared, inKinds, tokenLog, nextKind, reload, lapsed>>

CommitObj(r) ==
  /\ puts[r].pc = "write" /\ puts[r].todo = {}
  /\ Write(ObjWrite(puts[r].obj, shared.kind))
  /\ puts' = [puts EXCEPT ![r] = IdlePut]
  /\ lapsed' = IF reload THEN lapsed \cup {Len(tokenLog')} ELSE lapsed
  /\ UNCHANGED <<shared, inKinds, nextKind, reload>>

-----------------------------------------------------------------------------
(* Putting the kind.                                                       *)

(* id: the token that is stored, else a new one.                           *)
KindToken(log) == IF StoredKind(log) = NoToken THEN nextKind ELSE StoredKind(log)
DrawKind == nextKind' = IF StoredKind(tokenLog) = NoToken THEN nextKind + 1 ELSE nextKind

(* init: the tokens are loaded, the missing strings of the schema added    *)
(* and stored together.                                                    *)
InitState(strings) == AddStrings(Loaded(tokenLog, KindToken(tokenLog)), strings)
Missing(strings) == strings \ DOMAIN StoredTokens(tokenLog) # {}

(* putKind, with the id of the kind, when it is new, in its transaction.   *)
ConfigureKind(strings) ==
  /\ Exclusive /\ ~reload
  /\ shared' = InitState(strings)
  /\ inKinds' = TRUE
  /\ DrawKind
  /\ tokenLog' = tokenLog
       \o (IF Missing(strings) THEN <<TokensWrite(shared'.tokens)>> ELSE <<>>)
       \o (IF StoredKind(tokenLog) = NoToken THEN <<KindWrite(shared'.kind)>> ELSE <<>>)
  /\ UNCHANGED <<puts, reload, lapsed>>

(* The tokens are stored, the kind is not: the transaction is aborted, the *)
(* schema lock released, and until reloadKind takes it again requests see  *)
(* the new state.                                                          *)
ConfigureAborted(strings) ==
  /\ Exclusive /\ ~reload
  /\ shared' = InitState(strings)
  /\ inKinds' = TRUE
  /\ DrawKind
  /\ tokenLog' = tokenLog \o (IF Missing(strings) THEN <<TokensWrite(shared'.tokens)>> ELSE <<>>)
  /\ reload' = TRUE
  /\ UNCHANGED <<puts, lapsed>>

(* The tokens cannot be stored: a kind that is new is not put in the map,  *)
(* one that is being changed has them in memory.                           *)
ConfigureFails(strings) ==
  /\ Exclusive /\ inKinds /\ ~reload /\ Missing(strings)
  /\ shared' = InitState(strings)
  /\ reload' = TRUE
  /\ UNCHANGED <<inKinds, puts, tokenLog, nextKind, lapsed>>

(* reloadKind: the state is made again from what is stored; a kind that is *)
(* not stored is deleted.                                                  *)
ReloadKind ==
  /\ reload /\ Exclusive
  /\ inKinds' = (StoredKind(tokenLog) # NoToken)
  /\ shared' = Loaded(tokenLog, StoredKind(tokenLog))
  /\ reload' = FALSE
  /\ UNCHANGED <<puts, tokenLog, nextKind, lapsed>>

CrashAndOpen(n) ==
  /\ tokenLog' = SubSeq(tokenLog, 1, n)
  /\ shared' = Loaded(tokenLog', StoredKind(tokenLog'))
  /\ inKinds' = (StoredKind(tokenLog') # NoToken)
  /\ puts' = [r \in Putters |-> IdlePut]
  /\ reload' = FALSE
  /\ lapsed' = lapsed \cap 1..n
  /\ UNCHANGED nextKind

KStateNext ==
  \/ \E r \in Putters :
       \/ \E props \in Objects : BeginObj(r, props)
       \/ \E p \in Props : KnownProp(r, p) \/ SharedProp(r, p) \/ (Len(tokenLog) < MaxLog /\ AddToken(r, p))
       \/ AbortObj(r)
       \/ Len(tokenLog) < MaxLog /\ CommitObj(r)
  \/ \E strings \in Schemas :
       Len(tokenLog) < MaxLog /\ nextKind <= MaxKind
       /\ (ConfigureKind(strings) \/ ConfigureAborted(strings) \/ ConfigureFails(strings))
  \/ ReloadKind
  \/ \E n \in 0..Len(tokenLog) : CrashAndOpen(n)

-----------------------------------------------------------------------------
(* Every stored object can be read, now with the tokens in memory and      *)
(* after a crash with those that the crash left: each token stands for the *)
(* name it was written for, the token of the header for the kind.  Except  *)
(* what was written between a putKind that failed and its reloadKind.      *)
Resolves(log, i, tokens, vec) ==
  \A p \in DOMAIN log[i].val : log[i].val[p] # NoToken =>
    /\ log[i].val[p] <= Len(vec) /\ vec[log[i].val[p]] = p
    /\ tokens[p] = log[i].val[p]

EveryTokenResolves ==
  \A i \in 1..Len(tokenLog) :
    tokenLog[i].what = "object" /\ i \notin lapsed =>
      /\ Resolves(tokenLog, i, shared.tokens, shared.vec)
      /\ \A n \in i..Len(tokenLog) :
           LET left == SubSeq(tokenLog, 1, n) IN
           /\ Loads(StoredTokens(left))
           /\ Resolves(left, i, StoredTokens(left), VecOf(StoredTokens(left)))
           /\ StoredKind(left) = tokenLog[i].kind
=============================================================================
