------------------------------- MODULE MojJson -------------------------------
(***************************************************************************)
(* JSON texts: MojJsonWriter makes one of a value, MojJsonParser reads one     *)
(* that comes in pieces of any length, a character at a time, and tells a     *)
(* visitor (MojObjectBuilder) of what it has read.  A character is a string    *)
(* of one; in the strings of a value it is its code, as in MojObject.        *)
(***************************************************************************)
EXTENDS MojObject, MojNumber
LOCAL INSTANCE SequencesExt

CONSTANTS
  JsonValues,          \* the values that are written
  MaxDepth,            \* records of m_stack
  AnyChars,            \* characters of a text that comes from elsewhere
  MaxChars,            \* bound: how many of them
  MaxFillers           \* bound: spaces and comments in a text that is written

ASSUME JsonAssumption == MaxDepth \in Nat \ {0} /\ MaxChars \in Nat /\ MaxFillers \in Nat

VARIABLES
  want,        \* the value that was written, or Undefined: any characters come
  tokens,      \* what is left of its text, token by token
  parser,
  read         \* history: how much of the text has been read
jsonVars == <<want, tokens, parser, read>>

CharCodes ==
  <<<<"nl", 10>>, <<" ", 32>>, <<"\"", 34>>, <<"\\", 92>>, <<"/", 47>>, <<"*", 42>>, <<"{", 123>>, <<"}", 125>>, <<"[", 91>>,
    <<"]", 93>>, <<":", 58>>, <<",", 44>>, <<"+", 43>>, <<"-", 45>>, <<".", 46>>, <<"a", 97>>, <<"e", 101>>, <<"f", 102>>,
    <<"l", 108>>, <<"n", 110>>, <<"r", 114>>, <<"s", 115>>, <<"t", 116>>, <<"u", 117>>, <<"A", 65>>, <<"NUL", 0>>>>
    \o [d \in DOMAIN DigitChars |-> <<DigitChars[d], 47 + d>>]
Code(c) == CharCodes[CHOOSE i \in DOMAIN CharCodes : CharCodes[i][1] = c][2]
Char(n) == CharCodes[CHOOSE i \in DOMAIN CharCodes : CharCodes[i][2] = n][1]

NullText == <<"n", "u", "l", "l">>
TrueText == <<"t", "r", "u", "e">>
FalseText == <<"f", "a", "l", "s", "e">>
-----------------------------------------------------------------------------
(* The writer. *)

HexDigits == <<"0", "1", "2", "3", "4", "5", "6", "7", "8", "9", "A", "B", "C", "D", "E", "F">>
Escaped(n) ==
  CASE n = 10 -> <<"\\", "n">>
    [] n \in {34, 92} -> <<"\\", Char(n)>>
    [] n < 32 /\ n # 10 -> <<"\\", "u", "0", "0", HexDigits[n \div 16 + 1], HexDigits[(n % 16) + 1]>>
    [] OTHER -> <<Char(n)>>
StringText(s) == <<"\"">> \o FlattenSeq([i \in DOMAIN s |-> Escaped(s[i])]) \o <<"\"">>
IntText(n) ==
  (IF n < 0 THEN <<"-">> ELSE <<>>)
    \o (IF n = 0 THEN <<"0">> ELSE [i \in DOMAIN DigitsOf(Abs(n)) |-> DigitChars[DigitsOf(Abs(n))[Len(DigitsOf(Abs(n))) + 1 - i] + 1]])
ScalarText(v) ==
  CASE v[1] = TypeNull -> NullText
    [] v[1] = TypeBool -> IF v[2] = 1 THEN TrueText ELSE FalseText
    [] v[1] = TypeInt -> IntText(v[2])
    [] v[1] = TypeDecimal -> TextOfDecimal(v[2])
    [] v[1] = TypeString -> StringText(v[2])

\* The tokens so far and m_writeComma.
Comma(w) == [text |-> IF w.comma THEN Append(w.text, <<",">>) ELSE w.text, comma |-> TRUE]
WriteToken(w, token, comma) == [text |-> Append(w.text, token), comma |-> comma]
WriteJson(w, e) ==
  CASE e.ev = "beginObject" -> WriteToken(Comma(w), <<"{">>, FALSE)
    [] e.ev = "beginArray" -> WriteToken(Comma(w), <<"[">>, FALSE)
    [] e.ev = "endObject" -> WriteToken(w, <<"}">>, TRUE)
    [] e.ev = "endArray" -> WriteToken(w, <<"]">>, TRUE)
    [] e.ev = "propName" -> WriteToken(WriteToken(Comma(w), StringText(e.arg), TRUE), <<":">>, FALSE)
    [] OTHER -> WriteToken(Comma(w), ScalarText(e.arg), TRUE)
JsonTokens(v) == FoldLeft(WriteJson, [text |-> <<>>, comma |-> FALSE], Visit(v)).text
-----------------------------------------------------------------------------
(* The parser: m_stack of <<m_state, m_savedState>>, the last being that of   *)
(* m_depth, and what it collects.                                            *)

NewParser ==
  [stack |-> <<<<"EatWhitespace", "Start">>>>, str |-> <<>>, strPos |-> 0, match |-> <<>>, isDecimal |-> FALSE, ucs |-> 0,
   b |-> NewBuilder, err |-> "none", done |-> FALSE]

State(p) == p.stack[Len(p.stack)][1]
Saved(p) == p.stack[Len(p.stack)][2]
Go(p, s) == [p EXCEPT !.stack[Len(p.stack)][1] = s]
Save(p, s) == [p EXCEPT !.stack[Len(p.stack)][2] = s]
EatThen(p, s) == Save(Go(p, "EatWhitespace"), s)
Tell(p, e) == [p EXCEPT !.b = Build(@, e)]
ParseError(p, e) == [p EXCEPT !.err = e]
AppendCode(p, n) == [p EXCEPT !.str = Append(@, n)]
ClearStr(p) == [p EXCEPT !.str = <<>>]

\* Mutant: the state of an enclosing level is not kept.
PushLevelInPlace(p) == EatThen(p, "Start")

PushLevel(p) ==
  IF Len(p.stack) >= MaxDepth THEN ParseError(p, "MaxDepth")
  ELSE [p EXCEPT !.stack = Append(@, <<"EatWhitespace", "Start">>)]
PopLevel(p) == [p EXCEPT !.stack = SubSeq(@, 1, Len(@) - 1)]

NumberStart == {DigitChars[d] : d \in DOMAIN DigitChars} \cup {"-"}
NumberChar == NumberStart \cup {".", "e", "+"}
HexChar == (NumberStart \ {"-"}) \cup {"a", "e", "f", "A"}
HexValue(c) == IF c \in {"a", "A"} THEN 10 ELSE IF c = "e" THEN 14 ELSE IF c = "f" THEN 15 ELSE DigitOf(c)

\* strtoll with base 0: a leading zero makes it octal; at the end of its range it
\* stays there.  all: the whole of the text was a number.
StrToInt64(s) ==
  LET signed == s # <<>> /\ s[1] \in {"-", "+"}
      ds   == IF signed THEN Tail(s) ELSE s
      base == IF Len(ds) > 1 /\ ds[1] = "0" THEN 8 ELSE 10
      isNumber == ds # <<>> /\ \A i \in DOMAIN ds : IsDigit(ds[i]) /\ DigitOf(ds[i]) < base
      n == FoldLeft(LAMBDA m, c : IF m > MaxInt THEN m ELSE m * base + DigitOf(c), 0, IF isNumber THEN ds ELSE <<>>) IN
    [all |-> isNumber,
     value |-> IF signed /\ s[1] = "-" THEN (IF n > MaxInt THEN 0 - MaxInt - 1 ELSE 0 - n) ELSE IF n > MaxInt THEN MaxInt ELSE n]

\* A number ends with the first character that cannot be part of it.
NumberEnd(p) ==
  LET text == [i \in DOMAIN p.str |-> Char(p.str[i])]
      d == DecimalOfText(text)
      n == StrToInt64(text) IN
    IF p.isDecimal
    THEN IF d.err # "none" THEN ParseError(p, d.err) ELSE EatThen(Tell(p, Event("value", <<TypeDecimal, d.rep>>)), "Finish")
    ELSE IF n.all THEN EatThen(Tell(p, Event("value", <<TypeInt, n.value>>)), "Finish")
    ELSE ParseError(Tell(p, Event("value", <<TypeInt, n.value>>)), "Int")

\* The bytes of a character of 16 bits.
Utf8(n) ==
  IF n < 128 THEN <<n>>
  ELSE IF n < 2048 THEN <<192 + n \div 64, 128 + (n % 64)>> ELSE <<224 + n \div 4096, 128 + ((n \div 64) % 64), 128 + (n % 64)>>

Match(p, c, e) ==
  IF c # p.match[p.strPos + 1] THEN ParseError(p, "Literal")
  ELSE IF p.strPos + 1 < Len(p.match) THEN [p EXCEPT !.strPos = @ + 1]
  ELSE EatThen(Tell(p, e), "Finish")

EndOf(p, e) == EatThen(Tell(p, Event(e, 0)), "Finish")
InString(p, c, ended) ==
  IF c = "\"" THEN ended
  ELSE IF c = "\\" THEN Go(Save(p, State(p)), "StringEscape") ELSE AppendCode(p, Code(c))

Escape(p, c) ==
  IF c = "u" THEN Go([p EXCEPT !.ucs = 0, !.strPos = 0], "EscapeUnicode")
  ELSE IF c \in {"\"", "\\", "/"} THEN Go(AppendCode(p, Code(c)), Saved(p))
  ELSE IF c = "n" THEN Go(AppendCode(p, 10), Saved(p)) ELSE ParseError(p, "Escape")
EscapeUnicode(p, c) ==
  LET n == p.ucs + HexValue(c) * 16^(3 - p.strPos) IN
    IF c \notin HexChar \/ (p.strPos = 3 /\ n = 0) THEN ParseError(p, "Escape")
    ELSE IF p.strPos = 3 THEN Go([p EXCEPT !.str = @ \o Utf8(n)], Saved(p))
    ELSE [p EXCEPT !.ucs = n, !.strPos = @ + 1]

\* One character of parseChunk.
RECURSIVE Feed(_, _)
FeedStart(p, c) ==
  CASE c = "{" -> EatThen(Tell(p, Event("beginObject", 0)), "ObjFieldStart")
    [] c = "[" -> EatThen(Tell(p, Event("beginArray", 0)), "Array")
    [] c = "n" -> Feed(Go([p EXCEPT !.strPos = 0, !.match = NullText], "Null"), c)
    [] c \in {"t", "f"} -> Feed(Go([p EXCEPT !.strPos = 0, !.match = IF c = "t" THEN TrueText ELSE FalseText], "Bool"), c)
    [] c = "\"" -> Go(ClearStr(p), "String")
    [] c \in NumberStart -> Feed(Go([ClearStr(p) EXCEPT !.isDecimal = FALSE], "Number"), c)
    [] c = "NUL" -> p
    [] OTHER -> ParseError(p, "Unexpected")

FeedContainer(p, c) ==
  CASE State(p) = "Array" -> IF c = "]" THEN EndOf(p, "endArray")
                             ELSE LET q == PushLevel(Go(p, "ArraySep")) IN IF q.err # "none" THEN q ELSE Feed(q, c)
    [] State(p) = "ArraySep" -> IF c = "]" THEN EndOf(p, "endArray")
                                ELSE IF c = "," THEN EatThen(p, "Array") ELSE ParseError(p, "Array")
    [] State(p) = "ObjFieldStart" -> IF c = "}" THEN EndOf(p, "endObject")
                                     ELSE IF c = "\"" THEN Go(ClearStr(p), "ObjField") ELSE ParseError(p, "PropName")
    [] State(p) = "ObjField" -> InString(p, c, EatThen(Tell(p, Event("propName", p.str)), "ObjFieldEnd"))
    [] State(p) = "ObjFieldEnd" -> IF c = ":" THEN EatThen(p, "ObjValue") ELSE ParseError(p, "PropName")
    [] State(p) = "ObjValue" -> LET q == PushLevel(EatThen(p, "ObjSep")) IN IF q.err # "none" THEN q ELSE Feed(q, c)
    [] State(p) = "ObjSep" -> IF c = "}" THEN EndOf(p, "endObject")
                              ELSE IF c = "," THEN EatThen(p, "ObjFieldStart") ELSE ParseError(p, "ValueSep")

FeedComment(p, c) ==
  CASE State(p) = "CommentStart" -> IF c = "*" THEN Go(p, "Comment") ELSE IF c = "/" THEN Go(p, "CommentEol") ELSE ParseError(p, "Comment")
    [] State(p) = "Comment" -> IF c = "*" THEN Go(p, "CommentEnd") ELSE p
    [] State(p) = "CommentEol" -> IF c = "nl" THEN Go(p, "EatWhitespace") ELSE p
    [] State(p) = "CommentEnd" -> IF c = "/" THEN Go(p, "EatWhitespace") ELSE Feed(Go(p, "Comment"), c)

Feed(p, c) ==
  CASE State(p) = "EatWhitespace" -> IF c \in {" ", "nl"} THEN p
                                     ELSE IF c = "/" THEN Go(p, "CommentStart") ELSE Feed(Go(p, Saved(p)), c)
    [] State(p) = "Start" -> FeedStart(p, c)
    [] State(p) = "Finish" -> IF Len(p.stack) = 1 THEN [p EXCEPT !.done = TRUE] ELSE Feed(PopLevel(p), c)
    [] State(p) = "Null" -> Match(p, c, Event("value", Null))
    [] State(p) = "Bool" -> Match(p, c, Event("value", <<TypeBool, IF p.match = TrueText THEN 1 ELSE 0>>))
    [] State(p) = "String" -> InString(p, c, EatThen(Tell(p, Event("value", <<TypeString, p.str>>)), "Finish"))
    [] State(p) = "StringEscape" -> Escape(p, c)
    [] State(p) = "EscapeUnicode" -> EscapeUnicode(p, c)
    [] State(p) = "Number" ->
         IF c \in NumberChar THEN [AppendCode(p, Code(c)) EXCEPT !.isDecimal = @ \/ c \in {".", "e"}]
         ELSE LET q == NumberEnd(p) IN IF q.err # "none" THEN q ELSE Feed(q, c)
    [] State(p) \in {"CommentStart", "Comment", "CommentEol", "CommentEnd"} -> FeedComment(p, c)
    [] OTHER -> FeedContainer(p, c)

Stopped(p) == p.err # "none" \/ p.done
FeedOne(p, c) == IF Stopped(p) THEN p ELSE Feed(p, c)
FeedAll(p, cs) == FoldLeft(FeedOne, p, cs)
-----------------------------------------------------------------------------
JsonInit ==
  /\ want \in JsonValues \cup {Undefined}
  /\ tokens = IF want = Undefined THEN <<>> ELSE JsonTokens(want)
  /\ parser = NewParser
  /\ read = [chars |-> 0, ended |-> FALSE, fillers |-> 0]

\* A piece of the text that is written, with what may stand between two tokens:
\* white space, comments, and a comma before the end of a container of some
\* elements; or any character.
Fillers == {<<" ">>, <<"/", "*", "*", "/">>, <<"/", "/", "a", "nl">>} \cup
  (IF tokens # <<>> /\ tokens[1] \in {<<"}">>, <<"]">>} /\ State(parser) \notin {"Array", "ObjFieldStart"} /\
      Saved(parser) \notin {"Array", "ObjFieldStart"} THEN {<<",">>} ELSE {})

ReadTokens ==
  /\ want # Undefined /\ ~read.ended /\ tokens # <<>>
  /\ parser' = FeedAll(parser, tokens[1])
  /\ tokens' = Tail(tokens)
  /\ read' = [read EXCEPT !.chars = @ + Len(tokens[1])]
  /\ UNCHANGED want
ReadFiller ==
  /\ want # Undefined /\ ~read.ended /\ read.fillers < MaxFillers
  /\ \E f \in Fillers : parser' = FeedAll(parser, f) /\ read' = [read EXCEPT !.chars = @ + Len(f), !.fillers = @ + 1]
  /\ UNCHANGED <<want, tokens>>
ReadAny ==
  /\ want = Undefined /\ ~read.ended /\ read.chars < MaxChars /\ ~Stopped(parser)
  /\ \E c \in AnyChars : parser' = FeedOne(parser, c)
  /\ read' = [read EXCEPT !.chars = @ + 1]
  /\ UNCHANGED <<want, tokens>>

\* end: a NUL; parse fails if that does not finish the value.
ReadEnd ==
  /\ ~read.ended /\ tokens = <<>>
  /\ LET p == FeedOne(parser, "NUL") IN parser' = IF Stopped(p) THEN p ELSE ParseError(p, "Eof")
  /\ read' = [read EXCEPT !.ended = TRUE]
  /\ UNCHANGED <<want, tokens>>

JsonNext == ReadTokens \/ ReadFiller \/ ReadAny \/ ReadEnd
-----------------------------------------------------------------------------
(* Properties. *)

RECURSIVE Levels(_)
Levels(v) ==
  LET inner == IF v[1] = TypeObject THEN {Levels(v[2][i][2]) : i \in DOMAIN v[2]}
               ELSE IF v[1] = TypeArray THEN {Levels(v[2][i]) : i \in DOMAIN v[2]} ELSE {} IN
    IF inner = {} THEN 0 ELSE 1 + CHOOSE n \in inner : \A k \in inner : k <= n

\* The text of a value, however it is spaced and cut into pieces, is read as the
\* value unless it is nested too deep.  Whatever is read, containers end in the
\* order they began: the levels of the parser and the stack of its builder agree,
\* and a text that is taken leaves no container open.
JsonKept ==
  /\ want # Undefined /\ read.ended =>
       IF Levels(want) < MaxDepth THEN parser.err = "none" /\ parser.b.obj = want ELSE parser.err = "MaxDepth"
  /\ parser.b.ok
  /\ parser.err = "none" =>
       LET inside == {Saved(parser), State(parser)} \cap
                       {"Array", "ArraySep", "ObjFieldStart", "ObjField", "ObjFieldEnd", "ObjValue", "ObjSep"} IN
         Len(parser.b.stack) = Len(parser.stack) - (IF inside = {} THEN 1 ELSE 0)
  /\ parser.err = "none" /\ read.ended => parser.done /\ parser.b.stack = <<>>
=============================================================================
