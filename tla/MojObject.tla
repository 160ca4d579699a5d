------------------------------ MODULE MojObject ------------------------------
(***************************************************************************)
(* MojObject: the values everything is made of, how they are compared, how   *)
(* a visitor sees them, and the bytes they are stored as (MojObjectWriter,   *)
(* MojObjectReader, MojTokenSet, MojObjectBuilder).  Index keys are these     *)
(* bytes: the order of an index is the order of the bytes.                  *)
(*                                                                         *)
(* A value is <<type, payload>>: the properties of an object are a sequence  *)
(* of <<key, value>> in the order of the keys, as the tree of MojMap keeps    *)
(* them; a string is a sequence of characters, none of them NUL.  The widths  *)
(* of the integers in the bytes are the code's; a digit is a bit, not a byte. *)
(***************************************************************************)
EXTENDS Integers, Sequences
LOCAL INSTANCE SequencesExt

CONSTANTS
  PropKeys,            \* names of properties
  Scalars,             \* the values that are put into objects and arrays
  MaxProps, MaxElems,  \* bounds: of one object, of one array
  MaxNesting,          \* bound: levels of a value that is not changed any more
  MaxTokens            \* strings a token set has room for

TypeUndefined == 0
TypeNull == 1
TypeObject == 2
TypeArray == 3
TypeString == 4
TypeBool == 5
TypeDecimal == 6
TypeInt == 7

Undefined == <<TypeUndefined, 0>>
Null == <<TypeNull, 0>>
EmptyObject == <<TypeObject, <<>>>>
EmptyArray == <<TypeArray, <<>>>>

VARIABLE
  obj          \* the value a user is making
objectVars == <<obj>>
-----------------------------------------------------------------------------
(* Comparing. *)

Sign(n) == IF n < 0 THEN -1 ELSE IF n > 0 THEN 1 ELSE 0

RECURSIVE CompareBytes(_, _)
CompareBytes(s, t) ==
  IF s = <<>> \/ t = <<>> THEN Sign(Len(s) - Len(t))
  ELSE IF s[1] # t[1] THEN Sign(s[1] - t[1]) ELSE CompareBytes(Tail(s), Tail(t))

RECURSIVE CompareValues(_, _), CompareArrays(_, _), CompareProps(_, _)
CompareValues(v, w) ==
  IF v[1] # w[1] THEN Sign(v[1] - w[1])
  ELSE CASE v[1] = TypeObject -> CompareProps(v[2], w[2])
         [] v[1] = TypeArray -> CompareArrays(v[2], w[2])
         [] v[1] = TypeString -> CompareBytes(v[2], w[2])
         [] OTHER -> Sign(v[2] - w[2])
CompareArrays(s, t) ==
  IF s = <<>> \/ t = <<>> THEN Sign(Len(s) - Len(t))
  ELSE IF CompareValues(s[1], t[1]) # 0 THEN CompareValues(s[1], t[1]) ELSE CompareArrays(Tail(s), Tail(t))
CompareProps(s, t) ==
  IF s = <<>> \/ t = <<>> THEN Sign(Len(s) - Len(t))
  ELSE IF s[1][1] # t[1][1] THEN CompareBytes(s[1][1], t[1][1])
  ELSE IF CompareValues(s[1][2], t[1][2]) # 0 THEN CompareValues(s[1][2], t[1][2]) ELSE CompareProps(Tail(s), Tail(t))

\* operator==: by type, size and elements.
RECURSIVE EqualValues(_, _)
EqualValues(v, w) ==
  /\ v[1] = w[1]
  /\ CASE v[1] = TypeArray ->
            Len(v[2]) = Len(w[2]) /\ \A i \in DOMAIN v[2] : EqualValues(v[2][i], w[2][i])
       [] v[1] = TypeObject -> Len(v[2]) = Len(w[2]) /\ CompareProps(v[2], w[2]) = 0
       [] OTHER -> v[2] = w[2]
-----------------------------------------------------------------------------
(* Changing. *)

\* ensureObject, ensureArray: a value of another type is thrown away.
AsObject(v) == IF v[1] = TypeObject THEN v ELSE EmptyObject
AsArray(v) == IF v[1] = TypeArray THEN v ELSE EmptyArray

PutProp(v, k, x) ==
  LET ps == AsObject(v)[2]
      less == SelectSeq(ps, LAMBDA p : CompareBytes(p[1], k) < 0)
      more == SelectSeq(ps, LAMBDA p : CompareBytes(p[1], k) > 0) IN
    <<TypeObject, less \o <<<<k, x>>>> \o more>>
DelProp(v, k) == IF v[1] # TypeObject THEN v ELSE <<TypeObject, SelectSeq(v[2], LAMBDA p : p[1] # k)>>
Push(v, x) == <<TypeArray, Append(AsArray(v)[2], x)>>
\* setAt fills an array that is too short with undefined values.
SetAt(v, i, x) ==
  LET d == AsArray(v)[2]
      n == IF Len(d) > i THEN Len(d) ELSE i + 1 IN
    <<TypeArray, [j \in 1..n |-> IF j = i + 1 THEN x ELSE IF j <= Len(d) THEN d[j] ELSE Undefined]>>

RECURSIVE Nesting(_)
Nesting(v) ==
  LET inner == CASE v[1] = TypeObject -> {v[2][i][2] : i \in DOMAIN v[2]}
                 [] v[1] = TypeArray -> {v[2][i] : i \in DOMAIN v[2]}
                 [] OTHER -> {} IN
    IF v[1] \notin {TypeObject, TypeArray} THEN 0
    ELSE IF inner = {} THEN 1 ELSE 1 + CHOOSE n \in {Nesting(x) : x \in inner} : \A x \in inner : Nesting(x) <= n

\* Bounds.
Small(v) == (v[1] = TypeObject => Len(v[2]) <= MaxProps) /\ (v[1] = TypeArray => Len(v[2]) <= MaxElems)

ObjectInit == obj = Undefined
ObjectNext ==
  /\ Nesting(obj) < MaxNesting
  /\ \/ \E x \in Scalars, k \in PropKeys : obj' = PutProp(obj, k, x) \/ obj' = DelProp(obj, k)
     \/ \E x \in Scalars : obj' = x \/ obj' = Push(obj, x) \/ \E i \in 0..MaxElems - 1 : obj' = SetAt(obj, i, x)
     \/ \E k \in PropKeys : obj' = PutProp(EmptyObject, k, obj) \/ obj' = PutProp(obj, k, obj)
     \/ obj' \in {Push(EmptyArray, obj), Push(obj, obj), EmptyObject, EmptyArray, Undefined}
  /\ Small(obj')
-----------------------------------------------------------------------------
(* What a visitor sees; a builder makes the value again. *)

Event(e, x) == [ev |-> e, arg |-> x]

RECURSIVE Visit(_)
Visit(v) ==
  CASE v[1] = TypeObject ->
         <<Event("beginObject", 0)>>
           \o FlattenSeq([i \in DOMAIN v[2] |-> <<Event("propName", v[2][i][1])>> \o Visit(v[2][i][2])])
           \o <<Event("endObject", 0)>>
    [] v[1] = TypeArray ->
         <<Event("beginArray", 0)>> \o FlattenSeq([i \in DOMAIN v[2] |-> Visit(v[2][i])]) \o <<Event("endArray", 0)>>
    [] v[1] \in {TypeUndefined, TypeNull} -> <<Event("value", Null)>>
    [] OTHER -> <<Event("value", v)>>

\* m_obj, m_propName and m_stack: the containers begun, each with the name it
\* will be put under.  m_ok: the assertions of pop and value.
NewBuilder == [obj |-> Undefined, name |-> <<>>, stack |-> <<>>, ok |-> TRUE]

BuildValue(b, v) ==
  LET n == Len(b.stack) IN
    IF n = 0 THEN [b EXCEPT !.obj = v]
    ELSE [b EXCEPT !.stack[n][1] = IF @[1] = TypeObject THEN PutProp(@, b.name, v) ELSE Push(@, v)]

\* Mutant: the name of a container is not taken up again when it ends.
BuildPopForgetsName(b) ==
  IF b.stack = <<>> THEN [b EXCEPT !.ok = FALSE]
  ELSE LET n == Len(b.stack) IN BuildValue([b EXCEPT !.stack = SubSeq(@, 1, n - 1)], b.stack[n][1])

BuildPop(b) ==
  IF b.stack = <<>> THEN [b EXCEPT !.ok = FALSE]
  ELSE LET n == Len(b.stack) IN
         BuildValue([b EXCEPT !.stack = SubSeq(@, 1, n - 1), !.name = b.stack[n][2]], b.stack[n][1])

Build(b, e) ==
  CASE e.ev = "beginObject" -> [b EXCEPT !.stack = Append(@, <<EmptyObject, b.name>>)]
    [] e.ev = "beginArray" -> [b EXCEPT !.stack = Append(@, <<EmptyArray, b.name>>)]
    [] e.ev \in {"endObject", "endArray"} -> BuildPop(b)
    [] e.ev = "propName" -> [b EXCEPT !.name = e.arg]
    [] OTHER -> BuildValue(b, e.arg)
-----------------------------------------------------------------------------
(* The bytes. *)

ObjectEnd == 0
NullValue == 1
ObjectBegin == 2
ArrayBegin == 3
StringValue == 4
FalseValue == 5
TrueValue == 6
NegativeDecimal == 7
PositiveDecimal == 8
NegativeInt == 9
ZeroInt == 10
UInt8Value == 11
UInt16Value == 12
UInt32Value == 13
Int64Value == 14
Extension == 15
TokenStart == 32

\* width digits, the highest first; a negative number as its two's complement.
Digits(n, width) == [i \in 1..width |-> ((n % 2^width) \div 2^(width - i)) % 2]
Number(ds) == FoldLeft(LAMBDA n, d : 2 * n + d, 0, ds)
Signed(ds) == Number(ds) - ds[1] * 2^Len(ds)

IntBytes(n) ==
  CASE n < 0 -> <<NegativeInt>> \o Digits(n, 8)
    [] n = 0 -> <<ZeroInt>>
    [] n = 1 -> <<UInt8Value>> \o Digits(n, 1)
    [] n \in 2..3 -> <<UInt16Value>> \o Digits(n, 2)
    [] n \in 4..15 -> <<UInt32Value>> \o Digits(n, 4)
    [] OTHER -> <<Int64Value>> \o Digits(n, 8)

\* The writer: its bytes and the strings of its token set.  NoTokens: m_tokenSet
\* is NULL.  The name of a property becomes a token; a string is written as one
\* only if it is one already.
NoTokens == <<"none">>
TokenOf(ts, s) == CHOOSE i \in DOMAIN ts : ts[i] = s
WriteString(w, s, add) ==
  IF w.tokens = NoTokens THEN [w EXCEPT !.bytes = @ \o <<StringValue>> \o s \o <<0>>]
  ELSE IF \E i \in DOMAIN w.tokens : w.tokens[i] = s
  THEN [w EXCEPT !.bytes = Append(@, TokenStart - 1 + TokenOf(w.tokens, s))]
  ELSE IF add /\ Len(w.tokens) < MaxTokens
  THEN [bytes |-> Append(w.bytes, TokenStart + Len(w.tokens)), tokens |-> Append(w.tokens, s)]
  ELSE [w EXCEPT !.bytes = @ \o <<StringValue>> \o s \o <<0>>]

DecimalBytes(n) == <<IF n < 0 THEN NegativeDecimal ELSE PositiveDecimal>> \o Digits(n, 8)
ScalarBytes(v) ==
  CASE v[1] = TypeNull -> <<NullValue>>
    [] v[1] = TypeBool -> <<FalseValue + v[2]>>
    [] v[1] = TypeInt -> IntBytes(v[2])
    [] v[1] = TypeDecimal -> DecimalBytes(v[2])

WriteEvent(w, e) ==
  CASE e.ev = "beginObject" -> [w EXCEPT !.bytes = Append(@, ObjectBegin)]
    [] e.ev = "beginArray" -> [w EXCEPT !.bytes = Append(@, ArrayBegin)]
    [] e.ev \in {"endObject", "endArray"} -> [w EXCEPT !.bytes = Append(@, ObjectEnd)]
    [] e.ev = "propName" -> WriteString(w, e.arg, TRUE)
    [] e.arg[1] = TypeString -> WriteString(w, e.arg[2], FALSE)
    [] OTHER -> [w EXCEPT !.bytes = @ \o ScalarBytes(e.arg)]
WriteValue(v, ts) == FoldLeft(WriteEvent, [bytes |-> <<>>, tokens |-> ts], Visit(v))

\* The reader: the bytes left, the tokens, m_stack, m_skipBeginObj, the builder
\* it visits, and whether it has given up.
NewReader(bytes, ts, skip, b) == [left |-> bytes, tokens |-> ts, stack |-> <<>>, skip |-> skip, b |-> b, err |-> FALSE]

GiveUp(r) == [r EXCEPT !.err = TRUE, !.left = <<>>]
Drop(r, n) == [r EXCEPT !.left = SubSeq(@, n + 1, Len(@))]
See(r, e) == [r EXCEPT !.b = Build(@, e)]
PushState(r, s) == [r EXCEPT !.stack = Append(@, s)]
PopState(r) == [r EXCEPT !.stack = SubSeq(@, 1, Len(@) - 1)]

\* A NUL-terminated string, as a value or as a name, or the string of a token.
NameEvent(s) == Event("propName", s)
TextEvent(ev, s) == IF ev = "value" THEN Event("value", <<TypeString, s>>) ELSE NameEvent(s)
ReadString(r, ev) ==
  LET ends == {i \in DOMAIN r.left : r.left[i] = 0} IN
    IF ends = {} THEN GiveUp(r)
    ELSE LET n == CHOOSE i \in ends : \A j \in ends : i <= j IN See(Drop(r, n), TextEvent(ev, SubSeq(r.left, 1, n - 1)))
ReadToken(r, marker, ev) ==
  IF r.tokens = NoTokens \/ marker - TokenStart + 1 \notin DOMAIN r.tokens THEN GiveUp(r)
  ELSE See(r, TextEvent(ev, r.tokens[marker - TokenStart + 1]))
\* The integers of less than eight bytes have no sign.
ReadDigits(r, width, type) ==
  LET digits == SubSeq(r.left, 1, width) IN
    IF Len(r.left) < width THEN GiveUp(r)
    ELSE See(Drop(r, width), Event("value", <<type, IF width < 8 THEN Number(digits) ELSE Signed(digits)>>))

\* StateValue: what the marker that has just been read begins.
ReadValue(r, marker) ==
  CASE marker = ObjectBegin ->
         IF r.skip THEN PushState([r EXCEPT !.skip = FALSE], "object") ELSE See(PushState(r, "object"), Event("beginObject", 0))
    [] marker = ArrayBegin -> See(PushState(r, "array"), Event("beginArray", 0))
    [] marker = StringValue -> ReadString(r, "value")
    [] marker = NullValue -> See(r, Event("value", Null))
    [] marker \in {FalseValue, TrueValue} -> See(r, Event("value", <<TypeBool, marker - FalseValue>>))
    [] marker \in {NegativeDecimal, PositiveDecimal} -> ReadDigits(r, 8, TypeDecimal)
    [] marker = ZeroInt -> See(r, Event("value", <<TypeInt, 0>>))
    [] marker = UInt8Value -> ReadDigits(r, 1, TypeInt)
    [] marker = UInt16Value -> ReadDigits(r, 2, TypeInt)
    [] marker = UInt32Value -> ReadDigits(r, 4, TypeInt)
    [] marker \in {NegativeInt, Int64Value} -> ReadDigits(r, 8, TypeInt)
    [] marker = Extension ->
         IF Len(r.left) < 4 + Number(SubSeq(r.left, 1, 4)) THEN GiveUp(r) ELSE Drop(r, 4 + Number(SubSeq(r.left, 1, 4)))
    [] OTHER -> ReadToken(r, marker, "value")

\* next: one marker and what goes with it.
ReadNext(r0) ==
  LET marker == r0.left[1]
      r == Drop(IF r0.stack = <<>> THEN PushState(r0, "value") ELSE r0, 1)
      state == r.stack[Len(r.stack)]
      ended == PopState(See(r, Event(IF state = "array" THEN "endArray" ELSE "endObject", 0))) IN
    CASE state = "value" -> ReadValue(PopState(r), marker)
      [] state # "value" /\ marker = ObjectEnd -> ended
      [] state = "object" /\ marker = StringValue -> PushState(ReadString(r, "propName"), "value")
      [] state = "object" /\ marker \notin {ObjectEnd, StringValue} -> PushState(ReadToken(r, marker, "propName"), "value")
      [] state = "array" /\ marker # ObjectEnd -> ReadValue(r, marker)

RECURSIVE ReadAll(_)
ReadAll(r) == IF r.left = <<>> THEN r ELSE ReadAll(ReadNext(r))
-----------------------------------------------------------------------------
(* Properties. *)

\* A visitor is told of an undefined value as of a null one.
RECURSIVE Settled(_)
Settled(v) ==
  CASE v[1] = TypeUndefined -> Null
    [] v[1] = TypeObject -> <<TypeObject, [i \in DOMAIN v[2] |-> <<v[2][i][1], Settled(v[2][i][2])>>]>>
    [] v[1] = TypeArray -> <<TypeArray, [i \in DOMAIN v[2] |-> Settled(v[2][i])]>>
    [] OTHER -> v

Rebuilt(r, v) == ~r.err /\ r.b.ok /\ r.stack = <<>> /\ r.b.stack = <<>> /\ r.b.obj = v

\* Bytes, with or without tokens, with an extension before them, or after the
\* beginning of an object the reader of an item's header has begun itself, are
\* read back as the value they were written from.
ObjectReadBack ==
  LET plain == WriteValue(obj, NoTokens).bytes
      short == WriteValue(obj, <<>>)
      k == CHOOSE key \in PropKeys : TRUE
      begun == Build(Build(Build(NewBuilder, Event("beginObject", 0)), NameEvent(k)), Event("value", Null)) IN
    /\ Rebuilt(ReadAll(NewReader(plain, NoTokens, FALSE, NewBuilder)), Settled(obj))
    /\ Rebuilt(ReadAll(NewReader(short.bytes, short.tokens, FALSE, NewBuilder)), Settled(obj))
    /\ Rebuilt(ReadAll(NewReader(<<Extension, 0, 0, 0, 1, 9>> \o plain, NoTokens, FALSE, NewBuilder)), Settled(obj))
    /\ (obj[1] = TypeObject /\ \A i \in DOMAIN obj[2] : obj[2][i][1] # k) =>
         Rebuilt(ReadAll(NewReader(plain, NoTokens, TRUE, begun)), PutProp(Settled(obj), k, Null))

\* Values to compare with: what can be made with a step or two.
Samples == Scalars \cup {EmptyObject, EmptyArray} \cup
  {PutProp(EmptyObject, k, x) : k \in PropKeys, x \in Scalars} \cup {Push(EmptyArray, x) : x \in Scalars} \cup
  {PutProp(PutProp(EmptyObject, j, x), k, Push(EmptyArray, x)) : j, k \in PropKeys, x \in Scalars} \cup
  {Push(Push(EmptyArray, x), y) : x, y \in Scalars}

\* The order of the bytes is the order of the values, which is what the markers
\* are numbered for and what every range of an index relies on.
OrderAgrees ==
  \A w \in Samples :
    LET v == Settled(obj)
        c == CompareValues(v, w) IN
      /\ c = CompareBytes(WriteValue(v, NoTokens).bytes, WriteValue(w, NoTokens).bytes)
      /\ CompareValues(w, v) = 0 - c
      /\ EqualValues(v, w) <=> c = 0
=============================================================================
