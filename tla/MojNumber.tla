------------------------------ MODULE MojNumber ------------------------------
(***************************************************************************)
(* A decimal from its text and back: MojNumber::Lexer, which is a visitor's   *)
(* guide through the characters, MojNumber::Parser, the visitor, and         *)
(* MojDecimal.  The words are narrow: MaxUInt is 2^64 - 1 in the code, MaxInt *)
(* 2^63 - 1, MaxPow10 18, Precision 6.  Characters are strings of one.       *)
(***************************************************************************)
EXTENDS Integers, Sequences
LOCAL INSTANCE SequencesExt

CONSTANTS
  MaxUInt, MaxInt, MaxPow10, Precision, ExponentBound,
  NumberChars,         \* characters a text is made of
  MaxText              \* bound: characters of a text

ASSUME NumberAssumption ==
  /\ MaxUInt = 2 * MaxInt + 1 /\ MaxPow10 \in Nat /\ Precision \in Nat \ {0}
  /\ 10^MaxPow10 <= MaxInt /\ 10^(MaxPow10 + 1) > MaxInt

Numerator == 10^Precision
Bound == (MaxUInt - 9) \div 10
Word(n) == n % (MaxUInt + 1)

VARIABLES
  lexer,       \* the state of the lexer
  number,      \* the visitor
  spelt        \* history: sign, digits, fraction, exponent as they are spelt
numberVars == <<lexer, number, spelt>>

DigitChars == <<"0", "1", "2", "3", "4", "5", "6", "7", "8", "9">>
IsDigit(c) == \E i \in DOMAIN DigitChars : DigitChars[i] = c
DigitOf(c) == (CHOOSE i \in DOMAIN DigitChars : DigitChars[i] = c) - 1

NewNumber == [positive |-> TRUE, value |-> 0, valueExp |-> 0, exponentPositive |-> TRUE, exponent |-> 0, wrapped |-> FALSE]
-----------------------------------------------------------------------------
(* The visitor.  "refused" is the error all of them report. *)

RefusedNumber == [NewNumber EXCEPT !.value = -1]
IsRefused(p) == p.value = -1

\* npow(10, n): it wraps, at last to nothing.  Ten times ten, n times.
Pow10[n \in Nat] == IF n = 0 THEN 1 ELSE Word(10 * Pow10[n - 1])

\* Zeros that were put off are multiplied in, whatever that is (wrapped says it
\* was too much for a word).
Realign(p) ==
  IF p.valueExp > 0
  THEN [p EXCEPT !.value = Word(@ * Pow10[p.valueExp]), !.valueExp = 0, !.wrapped = @ \/ p.value * 10^p.valueExp > MaxUInt]
  ELSE p
PushDigit(p, x) == IF p.value > Bound THEN RefusedNumber ELSE [p EXCEPT !.value = @ * 10 + x]

Digit(p, x) == IF p.value # 0 /\ x = 0 THEN [p EXCEPT !.valueExp = @ + 1] ELSE PushDigit(Realign(p), x)
FractionDigit(p, x) == PushDigit([Realign(p) EXCEPT !.valueExp = @ - 1], x)
ExponentDigit(p, x) ==
  IF p.exponent = 0 /\ x = 0 THEN p
  ELSE IF p.exponent >= ExponentBound THEN RefusedNumber ELSE [p EXCEPT !.exponent = @ * 10 + x]
Ended(p) == IF p.exponentPositive THEN p ELSE [p EXCEPT !.exponent = 0 - @]

\* The visitor's members keep an error that came before.
Visited(p, q) == IF IsRefused(p) THEN p ELSE q

\* toDecimal: [err |-> "none", rep |-> ...], or the value is too large, or the
\* divisor has wrapped to 0 and the division is not defined.
Decimal(err, n) == [err |-> err, rep |-> n]
ToDecimal(p) ==
  LET align == Precision + p.valueExp + p.exponent
      over  == IF align < -1 THEN Pow10[0 - align - 1] ELSE 1
      kept  == p.value \div over
      rounded == IF (kept % 10) * 2 > 10 THEN kept \div 10 + 1 ELSE kept \div 10
      signed(n) == IF p.positive THEN n ELSE 0 - n IN
    IF IsRefused(p) THEN Decimal("refused", 0)
    ELSE IF align < 0 THEN IF over = 0 THEN Decimal("undefined", 0) ELSE Decimal("none", signed(rounded))
    ELSE IF align > MaxPow10 \/ p.value > MaxInt \div Pow10[align] THEN Decimal("range", 0)
    ELSE Decimal("none", signed(p.value * Pow10[align]))
-----------------------------------------------------------------------------
(* The lexer: one character. *)

Step(l, p) == [lexer |-> l, number |-> p]
Unexpected(p) == Step("error", p)

Magnitude(p, c) ==
  IF IsDigit(c) THEN Step("magnitudeDigits", Visited(p, Digit(p, DigitOf(c))))
  ELSE IF c = "." THEN Step("fraction", p)
  ELSE IF c = "e" THEN Step("exponent", p) ELSE Unexpected(p)
Exponent(p, c) ==
  IF IsDigit(c) THEN Step("exponentDigits", Visited(p, ExponentDigit(p, DigitOf(c)))) ELSE Unexpected(p)

Lex(l, p, c) ==
  CASE l = "number" ->
         IF c = "-" THEN Step("magnitude", [p EXCEPT !.positive = FALSE])
         ELSE IF c = "+" THEN Step("magnitude", p) ELSE IF IsDigit(c) THEN Magnitude(p, c) ELSE Unexpected(p)
    [] l \in {"magnitude", "magnitudeDigits"} -> Magnitude(p, c)
    [] l \in {"fraction", "fractionDigits"} ->
         IF IsDigit(c) THEN Step("fractionDigits", Visited(p, FractionDigit(p, DigitOf(c))))
         ELSE IF l = "fractionDigits" /\ c = "e" THEN Step("exponent", p) ELSE Unexpected(p)
    [] l = "exponent" ->
         IF c = "-" THEN Step("exponentFirstDigit", [p EXCEPT !.exponentPositive = FALSE])
         ELSE IF c = "+" THEN Step("exponentFirstDigit", p) ELSE Exponent(p, c)
    [] l \in {"exponentFirstDigit", "exponentDigits"} -> Exponent(p, c)
    [] OTHER -> Unexpected(p)

Accepted(l) == l \in {"magnitudeDigits", "fractionDigits", "exponentDigits"}

\* MojDecimal::assign of a text.
RECURSIVE LexAll(_, _)
LexAll(s, chars) == IF chars = <<>> THEN s ELSE LexAll(Lex(s.lexer, s.number, chars[1]), Tail(chars))
DecimalOfText(chars) ==
  LET s == LexAll(Step("number", NewNumber), chars) IN
    IF Accepted(s.lexer) THEN ToDecimal(Visited(s.number, Ended(s.number))) ELSE Decimal("refused", 0)

\* stringValue: the digits from behind, at least one on each side of the point,
\* no zeros at the end.
RECURSIVE DigitsOf(_)
DigitsOf(n) == IF n = 0 THEN <<>> ELSE <<n % 10>> \o DigitsOf(n \div 10)
Abs(n) == IF n < 0 THEN 0 - n ELSE n
TextOfDecimal(rep) ==
  LET ds    == DigitsOf(Abs(rep))
      all   == ds \o [i \in 1..Precision + 1 - Len(ds) |-> 0]
      used  == {i \in DOMAIN ds : ds[i] # 0}
      least == CHOOSE i \in used \cup {Precision} : \A j \in used \cup {Precision} : i <= j
      char(i) == <<DigitChars[all[i] + 1]>> IN
    (IF rep < 0 THEN <<"-">> ELSE <<>>)
      \o FlattenSeq([k \in 1..Len(all) - least + 1 |->
            LET i == Len(all) + 1 - k IN IF i = Precision + 1 THEN Append(char(i), ".") ELSE char(i)])
-----------------------------------------------------------------------------
Nothing == [minus |-> FALSE, digits |-> <<>>, fraction |-> 0, expMinus |-> FALSE, exp |-> 0, length |-> 0]

NumberInit == lexer = "number" /\ number = NewNumber /\ spelt = Nothing

Spell(c) ==
  LET s == [spelt EXCEPT !.length = @ + 1] IN
    IF lexer = "exponent" \/ lexer = "exponentFirstDigit" \/ lexer = "exponentDigits"
    THEN IF IsDigit(c) THEN [s EXCEPT !.exp = @ * 10 + DigitOf(c)] ELSE [s EXCEPT !.expMinus = c = "-"]
    ELSE IF IsDigit(c)
    THEN [s EXCEPT !.digits = Append(@, DigitOf(c)), !.fraction = IF lexer \in {"fraction", "fractionDigits"} THEN @ + 1 ELSE @]
    ELSE IF c = "-" THEN [s EXCEPT !.minus = TRUE] ELSE s

NumberNext ==
  /\ lexer # "error" /\ spelt.length < MaxText
  /\ \E c \in NumberChars :
       LET n == Lex(lexer, number, c) IN
         lexer' = n.lexer /\ number' = n.number /\ spelt' = Spell(c)
-----------------------------------------------------------------------------
(* Properties. *)

Mantissa == FoldLeft(LAMBDA n, d : 10 * n + d, 0, spelt.digits)

\* 10^n as far as it can tell a number from one that is too large.
Capped10(n) == IF n > MaxPow10 THEN 10^(MaxPow10 + 1) ELSE 10^n

\* Zeros multiplied in, or a divisor, that a word does not hold.
Wraps == number.wrapped \/ Precision + number.valueExp + Ended(number).exponent < 0 - MaxPow10 - 1

\* A number spelled right is refused for its digits only when they, the point left
\* out, come within nine of what a word holds or beyond it, and for its exponent only when
\* a digit follows the bound; so 1.0 with enough zeros is refused although it fits.
\* One that is not refused there is read as what it says, rounded at the last of the digits
\* that are kept, or refused because it is too large for a decimal; a zero with a large
\* exponent is refused as well.  What a decimal is written as is read as the same
\* decimal.  Where a power of ten wraps (Wraps) nothing is said of what is read.
NumberKept ==
  LET d == ToDecimal(Ended(number))
      shift == Precision - spelt.fraction + (IF spelt.expMinus THEN 0 - spelt.exp ELSE spelt.exp)
      unit == IF shift >= 0 THEN 1 ELSE 10^(0 - shift)
      exact == IF shift >= 0 THEN Mantissa * Capped10(shift) ELSE Mantissa \div unit
      rest == IF shift >= 0 THEN 0 ELSE Mantissa % unit IN
    Accepted(lexer) =>
      /\ IsRefused(number) => Mantissa > MaxUInt - 9 \/ spelt.exp >= 10 * ExponentBound
      /\ ~IsRefused(number) /\ ~Wraps =>
           /\ d.err \in {"none", "range"}
           /\ d.err = "none" =>
                /\ (d.rep > 0 => ~spelt.minus) /\ (d.rep < 0 => spelt.minus)
                /\ Abs(d.rep) = exact \/ (Abs(d.rep) = exact + 1 /\ 2 * rest > unit)
                /\ 10 * rest >= 6 * unit => Abs(d.rep) = exact + 1
                /\ Abs(d.rep) <= MaxInt /\ DecimalOfText(TextOfDecimal(d.rep)) = d
           /\ d.err = "range" => Mantissa = 0 \/ exact > MaxInt
=============================================================================
