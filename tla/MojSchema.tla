------------------------------ MODULE MojSchema ------------------------------
(***************************************************************************)
(* MojSchema: the schema of a kind, or of the payload of a request, made into *)
(* rules once and then applied to every object that is put.                   *)
(*                                                                         *)
(* A schema is a function from the keywords it has to their arguments; the    *)
(* names under "properties" come in the order of the keys of an object.  A    *)
(* pattern is the set of texts it matches.  The message of a Result, and the  *)
(* strings a schema collects for the tokens of its kind, are left out.        *)
(***************************************************************************)
EXTENDS MojObject, FiniteSets
LOCAL INSTANCE SequencesExt
LOCAL INSTANCE Functions

CONSTANTS
  SchemaArgs,          \* the arguments each keyword may be given
  SchemaValues,        \* the values that are validated
  MaxKeywords,         \* bound: of one schema
  MaxSchemaDepth       \* bound: schemas inside of each other

VARIABLES
  accepted,    \* the schema an application last had accepted
  rule         \* m_rule
schemaVars == <<accepted, rule>>

DecimalUnit == 2       \* the decimal 1.0
-----------------------------------------------------------------------------
(* fromObject. *)

TypesOf(name) ==
  CASE name = "null" -> {TypeNull}
    [] name = "object" -> {TypeObject}
    [] name = "array" -> {TypeArray}
    [] name = "string" -> {TypeString}
    [] name = "boolean" -> {TypeBool}
    [] name = "integer" -> {TypeInt}
    [] name = "number" -> {TypeDecimal, TypeInt}
    [] OTHER -> {}

NoRule == [kind |-> "none"]

Given(s, key, default) == IF key \in DOMAIN s THEN s[key] ELSE default

\* The order the rules are added, and tried, in.
RuleOrder == <<"properties", "type", "disallow", "items", "pattern", "requires", "minimum", "maximum", "minItems",
               "maxItems", "uniqueItems", "minLength", "maxLength", "enum", "divisibleBy">>

RECURSIVE SchemaRule(_)
TypeRule(name) == [kind |-> "type", types |-> TypesOf(name)]
Alternative(a) == IF a[1] = "type" THEN TypeRule(a[2]) ELSE SchemaRule(a[2])
Alternatives(as) == [i \in DOMAIN as |-> Alternative(as[i])]
TypeOrUnion(arg) == IF arg[1] = "union" THEN [kind |-> "union", rules |-> Alternatives(arg[2])] ELSE TypeRule(arg[2])

AdditionalPropertiesRule(arg) ==
  IF arg[1] = "bool" THEN [kind |-> "additional", allow |-> arg[2], schema |-> NoRule]
  ELSE [kind |-> "additional", allow |-> TRUE, schema |-> SchemaRule(arg[2])]
AdditionalOf(s) ==
  IF "additionalProperties" \in DOMAIN s THEN AdditionalPropertiesRule(s.additionalProperties) ELSE NoRule

PropertiesRule(s) ==
  LET ps == Given(s, "properties", <<>>) IN
    [kind |-> "properties", props |-> [i \in DOMAIN ps |-> <<ps[i][1], SchemaRule(ps[i][2])>>], more |-> AdditionalOf(s)]

\* What addRule is given for a keyword: no rule when the keyword is not there,
\* but for properties, which are looked at for the additional ones too.
RulesOf(s, key) ==
  LET arg == s[key] IN
    CASE key = "properties" ->
           IF {key, "additionalProperties"} \cap DOMAIN s = {} THEN <<>> ELSE <<PropertiesRule(s)>>
      [] key \notin DOMAIN s \cup {"properties"} -> <<>>
      [] key = "type" /\ key \in DOMAIN s -> <<TypeOrUnion(arg)>>
      [] key = "disallow" /\ key \in DOMAIN s -> <<[kind |-> "disallow", rule |-> TypeOrUnion(arg)]>>
      [] key = "items" /\ key \in DOMAIN s ->
           IF arg[1] = "tuple" THEN <<[kind |-> "tuple", rules |-> Alternatives(arg[2]), more |-> AdditionalOf(s)]>>
           ELSE <<[kind |-> "items", rule |-> SchemaRule(arg[2])]>>
      [] key \in {"minimum", "maximum"} /\ key \in DOMAIN s ->
           <<[kind |-> key, arg |-> arg, canEqual |-> Given(s, key \o "CanEqual", TRUE)]>>
      [] key = "uniqueItems" /\ key \in DOMAIN s -> IF arg THEN <<[kind |-> key]>> ELSE <<>>
      [] OTHER -> <<[kind |-> key, arg |-> arg]>>

\* A property is optional unless the schema says otherwise, in either way.
OptionalOf(s) == Given(s, "optional", ~Given(s, "required", FALSE))
SchemaRule(s) ==
  [kind |-> "schema", rules |-> FlattenSeq([i \in DOMAIN RuleOrder |-> RulesOf(s, RuleOrder[i])]), optional |-> OptionalOf(s)]

\* The schemas and the names of types directly in a schema.
Inner(s) ==
  LET alts == UNION {Range(s[k][2]) : k \in {j \in {"type", "disallow"} \cap DOMAIN s : s[j][1] = "union"}
                                        \cup {j \in {"items"} \cap DOMAIN s : s[j][1] = "tuple"}}
      props == Given(s, "properties", <<>>) IN
    {a[2] : a \in {b \in alts : b[1] = "schema"}}
      \cup {props[i][2] : i \in DOMAIN props}
      \cup {s[k][2] : k \in {j \in {"items", "additionalProperties"} \cap DOMAIN s : s[j][1] = "schema"}}
NamesOf(s) ==
  LET given == {s[k] : k \in {"type", "disallow"} \cap DOMAIN s} IN
    {g[2] : g \in {h \in given : h[1] = "type"}}
      \cup {a[2] : a \in {b \in UNION {Range(g[2]) : g \in {h \in given : h[1] = "union"}} : b[1] = "type"}}

\* fromObject fails: both ways of saying optional, or a type there is not.
RECURSIVE SchemaRefused(_)
SchemaRefused(s) ==
  \/ {"optional", "required"} \subseteq DOMAIN s /\ s.optional = s.required
  \/ \E name \in NamesOf(s) : TypesOf(name) = {}
  \/ \E t \in Inner(s) : SchemaRefused(t)
-----------------------------------------------------------------------------
(* validate: what becomes of the Result a rule is given. *)

DecimalValueOf(v) == IF v[1] = TypeInt THEN v[2] * DecimalUnit ELSE v[2]
IntValueOf(v) == IF v[1] = TypeInt THEN v[2] ELSE Sign(v[2]) * ((Sign(v[2]) * v[2]) \div DecimalUnit)
IsNumber(v) == v[1] \in {TypeInt, TypeDecimal}
\* stringValue: the text of a value that is not a string is not one of the strings.
TextOf(v) == IF v[1] = TypeString THEN v[2] ELSE <<0 - v[1]>>
PropsIn(v) == IF v[1] = TypeObject THEN v[2] ELSE <<>>
ItemsIn(v) == IF v[1] = TypeArray THEN v[2] ELSE <<>>
HasProp(v, k) == \E i \in DOMAIN PropsIn(v) : PropsIn(v)[i][1] = k
\* operator% keeps the sign of what is divided.
Divides(m, n) == m # 0 /\ n % (IF m < 0 THEN 0 - m ELSE m) = 0

InRange(r, n) ==
  IF r.kind = "minimum" THEN n > r.arg \/ (r.canEqual /\ n = r.arg) ELSE n < r.arg \/ (r.canEqual /\ n = r.arg)

\* The rules that look at the value alone.
Fails1(r, v, parent) ==
  CASE r.kind = "type" -> v[1] \notin r.types
    [] r.kind = "pattern" -> TextOf(v) \notin r.arg
    [] r.kind = "requires" -> ~HasProp(parent, r.arg)
    [] r.kind \in {"minimum", "maximum"} -> IsNumber(v) /\ ~InRange(r, DecimalValueOf(v))
    [] r.kind = "minItems" -> v[1] = TypeArray /\ Len(v[2]) < r.arg
    [] r.kind = "maxItems" -> v[1] = TypeArray /\ Len(v[2]) > r.arg
    [] r.kind = "minLength" -> v[1] = TypeString /\ Len(v[2]) < r.arg
    [] r.kind = "maxLength" -> v[1] = TypeString /\ Len(v[2]) > r.arg
    [] r.kind = "uniqueItems" ->
         \E i, j \in DOMAIN ItemsIn(v) : i < j /\ EqualValues(ItemsIn(v)[i], ItemsIn(v)[j])
    [] r.kind = "enum" -> \A i \in DOMAIN r.arg : CompareValues(r.arg[i], v) # 0
    [] r.kind = "divisibleBy" ->
         IsNumber(v) /\ ~(Divides(r.arg, IntValueOf(v)) /\ (v[1] = TypeDecimal => v[2] % DecimalUnit = 0))

RECURSIVE Validate(_, _, _, _), ValidateEach(_, _, _), ValidateUnion(_, _, _, _), ValidateProps(_, _, _, _, _)

\* Rules with values, one after the other, until one fails.
ValidateEach(pairs, parent, valid) ==
  IF pairs = <<>> THEN valid
  ELSE LET v == Validate(pairs[1][1], pairs[1][2], parent, valid) IN
         IF v THEN ValidateEach(Tail(pairs), parent, v) ELSE FALSE

\* Mutant: the Result is not made valid again before the next alternative.
ValidateUnionStale(rules, val, parent, valid) ==
  IF rules = <<>> THEN FALSE
  ELSE LET v == valid /\ Validate(rules[1], val, parent, valid) IN
         v \/ ValidateUnion(Tail(rules), val, parent, v)

\* An alternative begins with a valid Result; when none is left it is not valid.
ValidateUnion(rules, val, parent, valid) ==
  IF rules = <<>> THEN FALSE
  ELSE Validate(rules[1], val, parent, TRUE) \/ ValidateUnion(Tail(rules), val, parent, FALSE)

\* m_props and the properties of the object, both in the order of their names.
ValidateProps(rules, props, more, val, valid) ==
  LET comp == IF rules = <<>> THEN 1 ELSE IF props = <<>> THEN -1 ELSE CompareBytes(rules[1][1], props[1][1]) IN
    IF ~valid THEN FALSE
    ELSE IF rules = <<>> /\ props = <<>> THEN valid
    ELSE IF comp > 0 THEN
      ValidateProps(rules, Tail(props), more, val, IF more = NoRule THEN valid ELSE Validate(more, props[1][2], val, valid))
    ELSE IF comp < 0 THEN ValidateProps(Tail(rules), props, more, val, valid /\ rules[1][2].optional)
    ELSE ValidateProps(Tail(rules), Tail(props), more, val, Validate(rules[1][2], props[1][2], val, valid))

\* The rules of a tuple, then the additional rule for the items after them.
ValidateTuple(r, val, valid) ==
  LET items == ItemsIn(val)
      both == {Len(items), Len(r.rules)}
      n == CHOOSE m \in both : \A k \in both : m <= k
      checked == ValidateEach([i \in 1..n |-> <<r.rules[i], items[i]>>], val, valid) IN
    IF val[1] # TypeArray THEN valid
    ELSE IF ~checked \/ n < Len(r.rules) THEN FALSE
    ELSE IF r.more = NoRule THEN checked
    ELSE ValidateEach([i \in 1..(Len(items) - n) |-> <<r.more, items[n + i]>>], val, checked)

Validate(r, val, parent, valid) ==
  CASE r.kind = "schema" -> ValidateEach([i \in DOMAIN r.rules |-> <<r.rules[i], val>>], parent, valid)
    [] r.kind = "union" -> ValidateUnion(r.rules, val, parent, valid)
    [] r.kind = "disallow" -> IF Validate(r.rule, val, parent, TRUE) THEN FALSE ELSE valid
    [] r.kind = "additional" ->
         IF ~r.allow THEN FALSE ELSE IF r.schema = NoRule THEN valid ELSE Validate(r.schema, val, parent, valid)
    [] r.kind = "properties" -> ValidateProps(r.props, PropsIn(val), r.more, val, valid)
    [] r.kind = "items" -> ValidateEach([i \in DOMAIN ItemsIn(val) |-> <<r.rule, ItemsIn(val)[i]>>], val, valid)
    [] r.kind = "tuple" -> ValidateTuple(r, val, valid)
    [] OTHER -> valid /\ ~Fails1(r, val, parent)

\* MojSchema::validate.
SchemaAllows(r, v) == r = NoRule \/ Validate(r, v, Undefined, TRUE)
-----------------------------------------------------------------------------
(* Writing a schema. *)

RECURSIVE SchemaDepth(_)
SchemaDepth(s) ==
  IF Inner(s) = {} THEN 0
  ELSE 1 + CHOOSE d \in {SchemaDepth(t) : t \in Inner(s)} : \A t \in Inner(s) : SchemaDepth(t) <= d

Keep(s, key, arg) == [k \in DOMAIN s \cup {key} |-> IF k = key THEN arg ELSE s[k]]

\* A keyword that takes a schema is given the one written so far, or one made
\* beside it.
Nested(s) ==
  {<<"items", <<"schema", s>>>>, <<"items", <<"tuple", <<<<"schema", s>>>>>>>>, <<"items", <<"tuple", <<<<"type", "string">>, <<"schema", s>>>>>>>>,
   <<"additionalProperties", <<"schema", s>>>>, <<"type", <<"union", <<<<"type", "string">>, <<"schema", s>>>>>>>>,
   <<"disallow", <<"union", <<<<"schema", s>>>>>>>>}
    \cup {<<"properties", <<<<k, s>>>>>> : k \in PropKeys}
    \cup {<<"properties", <<<<k, s>>, <<j, s>>>>>> : k, j \in PropKeys}

Sorted(props) == \A i \in DOMAIN props : i > 1 => CompareBytes(props[i - 1][1], props[i][1]) < 0

EmptySchema == [k \in {} |-> 0]

SchemaInit == accepted = EmptySchema /\ rule = NoRule

\* fromObject: m_rule stays what it was when it fails.
FromObject(s) ==
  IF SchemaRefused(s) THEN UNCHANGED schemaVars ELSE accepted' = s /\ rule' = SchemaRule(s)

AddKeyword ==
  /\ Cardinality(DOMAIN accepted) < MaxKeywords
  /\ \E key \in DOMAIN SchemaArgs : \E arg \in SchemaArgs[key] : FromObject(Keep(accepted, key, arg))
NestSchema ==
  /\ SchemaDepth(accepted) < MaxSchemaDepth
  /\ \E n \in Nested(accepted) : (n[1] = "properties" => Sorted(n[2])) /\ FromObject(Keep(EmptySchema, n[1], n[2]))

SchemaNext == AddKeyword \/ NestSchema
-----------------------------------------------------------------------------
(* Properties. *)

\* What a schema says of a value, keyword by keyword.
RECURSIVE Meets(_, _, _)
MeetsAlternative(a, v, parent) == IF a[1] = "type" THEN v[1] \in TypesOf(a[2]) ELSE Meets(a[2], v, parent)
MeetsType(arg, v, parent) ==
  IF arg[1] = "union" THEN \E i \in DOMAIN arg[2] : MeetsAlternative(arg[2][i], v, parent)
  ELSE v[1] \in TypesOf(arg[2])
MeetsAdditional(s, v, parent) ==
  "additionalProperties" \in DOMAIN s =>
    IF s.additionalProperties[1] = "bool" THEN s.additionalProperties[2] ELSE Meets(s.additionalProperties[2], v, parent)
MeetsProps(s, v) ==
  LET named == Given(s, "properties", <<>>)
      held == PropsIn(v) IN
    /\ \A i \in DOMAIN named :
         LET t == named[i][2] IN
           /\ ~OptionalOf(t) => HasProp(v, named[i][1])
           /\ \A j \in DOMAIN held : held[j][1] = named[i][1] => Meets(t, held[j][2], v)
    /\ \A j \in DOMAIN held :
         (\A i \in DOMAIN named : named[i][1] # held[j][1]) => MeetsAdditional(s, held[j][2], v)
MeetsItems(s, v) ==
  LET arg == s["items"] IN
    IF arg[1] = "schema" THEN \A i \in DOMAIN ItemsIn(v) : Meets(arg[2], ItemsIn(v)[i], v)
    ELSE v[1] = TypeArray =>
           /\ Len(v[2]) >= Len(arg[2])
           /\ \A i \in DOMAIN v[2] :
                IF i <= Len(arg[2]) THEN MeetsAlternative(arg[2][i], v[2][i], v) ELSE MeetsAdditional(s, v[2][i], v)
Meets(s, v, parent) ==
  /\ MeetsProps(s, v)
  /\ \A key \in DOMAIN s \ {"properties", "additionalProperties", "optional", "required", "minimumCanEqual", "maximumCanEqual"} :
       CASE key = "items" -> MeetsItems(s, v)
         [] key = "type" -> MeetsType(s[key], v, parent)
         [] key = "disallow" -> ~MeetsType(s[key], v, parent)
         [] key = "uniqueItems" /\ ~s[key] -> TRUE
         [] OTHER -> ~Fails1([kind |-> key, arg |-> s[key], canEqual |-> Given(s, key \o "CanEqual", TRUE)], v, parent)

\* A value passes the rules exactly when it meets every keyword of the last
\* schema that was accepted, at every level: the merge of two sorted lists, the
\* Result the alternatives share and the order of the rules do not show.
SchemaDecides ==
  \A v \in SchemaValues : SchemaAllows(rule, v) <=> Meets(accepted, v, Undefined)
=============================================================================
