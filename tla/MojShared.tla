------------------------------ MODULE MojShared ------------------------------
(***************************************************************************)
(* The values that are shared until they are written: MojVector, MojString   *)
(* and, under MojMap, MojSet and MojHashMap, the implementation of a tree or  *)
(* a hash.  A handle points to an array with a count of the handles that do; *)
(* a copy of a handle takes the array and counts; a handle that writes to an *)
(* array it does not have for itself makes its own first.                   *)
(*                                                                         *)
(* Handles are used by threads of their own.  A handle is copied from one    *)
(* no thread is changing: that is for the users to see to, who pass values   *)
(* in messages and under locks; the count is all that two threads share.    *)
(* What a map stores is the elements here (its nodes: MojRbTree, MojHashMap). *)
(***************************************************************************)
EXTENDS Naturals, Sequences, FiniteSets

CONSTANTS
  Handles, Elems,
  MaxArrays,           \* bound: arrays at a time
  NoElem,              \* what T() makes
  MinCapacity,         \* InitialSize, MojStringInitialSize
  MaxLen               \* bound: elements of a value

NoArray == 0
Arrays == 1..MaxArrays

ASSUME SharedAssumption ==
  NoElem \in Elems /\ MaxArrays \in Nat /\ MinCapacity \in Nat /\ MaxLen \in Nat /\ IsFiniteSet(Handles)

VARIABLES
  container,   \* "vector", "string" or "map"
  arr,         \* per handle: its array or NoArray (the empty string: s_emptyString)
  arrays,      \* per array: refs, data, capacity
  editing,     \* per handle: "idle", "copy", "release", "write"
  edit,        \* per handle: the change under way
  old,         \* per handle: the array it has replaced and not yet released
  value        \* history: what the users of each handle made of it
sharedVars == <<container, arr, arrays, editing, edit, old, value>>

Free == [refs |-> 0, data |-> <<>>, capacity |-> 0]
NoEdit == [op |-> "none", at |-> 0, n |-> 0, elem |-> NoElem]

SharedInit ==
  /\ container \in {"vector", "string", "map"}
  /\ arr = [h \in Handles |-> NoArray]
  /\ arrays = [a \in Arrays |-> Free]
  /\ editing = [h \in Handles |-> "idle"]
  /\ edit = [h \in Handles |-> NoEdit]
  /\ old = arr
  /\ value = [h \in Handles |-> <<>>]

Min2(x, y) == IF x < y THEN x ELSE y
Max2(x, y) == IF x < y THEN y ELSE x

Data(h) == IF arr[h] = NoArray THEN <<>> ELSE arrays[arr[h]].data
Capacity(h) == IF arr[h] = NoArray THEN 0 ELSE arrays[arr[h]].capacity
RefCount(h) == arrays[arr[h]].refs

\* The last one to release an array destroys its elements and frees it.
Released(as, a) ==
  IF a = NoArray THEN as
  ELSE [as EXCEPT ![a] = IF @.refs = 1 THEN Free ELSE [@ EXCEPT !.refs = @ - 1]]
Retained(as, a) == IF a = NoArray THEN as ELSE [as EXCEPT ![a].refs = @ + 1]
-----------------------------------------------------------------------------
(* The changes, as the code makes them in the array. *)

\* shift makes room for n elements at i: new elements at the end, first empty
\* ones, then copies of those that move past it; the others move from the last.
Shift(d, i, n) ==
  LET moved  == Len(d) - i
      copied == Min2(n, moved)
      grown  == d \o [k \in 1..n - copied |-> NoElem]
      filled == grown \o [k \in 1..copied |-> grown[Len(grown) + k - n]] IN
    [p \in 1..Len(d) + n |-> IF p \in i + n + 1..Len(d) THEN filled[p - n] ELSE filled[p]]

Erase(d, i, n) ==
  LET moved == [p \in DOMAIN d |-> IF p \in i + 1..Len(d) - n THEN d[p + n] ELSE d[p]] IN
    SubSeq(moved, 1, Len(d) - n)

Edited(d, e) ==
  CASE e.op = "insert"  -> [p \in 1..Len(d) + e.n |-> IF p \in e.at + 1..e.at + e.n THEN e.elem ELSE Shift(d, e.at, e.n)[p]]
    [] e.op = "erase"   -> Erase(d, e.at, e.n)
    [] e.op = "set"     -> [d EXCEPT ![e.at] = e.elem]
    [] e.op = "reverse" -> [p \in DOMAIN d |-> d[Len(d) + 1 - p]]

\* What they mean for the value.
Meant(v, e) ==
  CASE e.op = "insert"  -> SubSeq(v, 1, e.at) \o [k \in 1..e.n |-> e.elem] \o SubSeq(v, e.at + 1, Len(v))
    [] e.op = "erase"   -> SubSeq(v, 1, e.at) \o SubSeq(v, e.at + e.n + 1, Len(v))
    [] e.op = "set"     -> [v EXCEPT ![e.at] = e.elem]
    [] e.op = "reverse" -> [p \in DOMAIN v |-> v[Len(v) + 1 - p]]

\* push, append, insert and resize; pop, erase and truncate; setAt; reverse.
\* A string is only changed at its end, a map by one element.
Inserts(len) ==
  {[op |-> "insert", at |-> i, n |-> n, elem |-> x] : i \in 0..len, n \in 1..MaxLen - len, x \in Elems \ {NoElem}}
Erases(len) == {[op |-> "erase", at |-> i, n |-> n, elem |-> NoElem] : i \in 0..len, n \in 1..len}
Sets(len) == {[op |-> "set", at |-> i, n |-> 0, elem |-> x] : i \in 1..len, x \in Elems \ {NoElem}}
Edits(len) ==
  {e \in Inserts(len) \cup Erases(len) \cup Sets(len) \cup {[NoEdit EXCEPT !.op = "reverse"]} :
     /\ e.op = "erase" => e.at + e.n <= len
     /\ container = "string" /\ e.op = "insert" => e.at = len
     /\ container = "string" /\ e.op = "erase" => e.at + e.n = len
     /\ container = "map" /\ e.op \in {"insert", "erase"} => e.n = 1
     /\ e.op = "reverse" => container = "vector" /\ len > 1}
-----------------------------------------------------------------------------
(* The handles. *)

NeedsSpace(h, e) == container # "map" /\ e.op = "insert" /\ Len(Data(h)) + e.n > Capacity(h)

\* ensureSpace and ensureWritable: is there room, and is the array this handle's?
BeginEdit(h, e) ==
  /\ editing[h] = "idle"
  /\ edit' = [edit EXCEPT ![h] = e]
  /\ editing' = [editing EXCEPT ![h] =
                   IF arr[h] = NoArray \/ NeedsSpace(h, e) \/ RefCount(h) > 1 THEN "copy" ELSE "write"]
  /\ UNCHANGED <<container, arr, arrays, old, value>>

\* Room for more than MaxLen elements is not told from room for MaxLen.  A
\* string that is shared doubles with each append.
Grown(h, e) == Min2(MaxLen, Max2(Max2(MinCapacity, Capacity(h) * 2), Len(Data(h)) + e.n))
NewCapacity(h, e) ==
  IF NeedsSpace(h, e) \/ (container = "string" /\ e.op = "insert") THEN Grown(h, e)
  ELSE IF container = "vector" THEN Capacity(h) ELSE Len(Data(h))

\* realloc or clone: a new array with copies of the elements.
Copy(h) ==
  /\ editing[h] = "copy"
  /\ \E a \in Arrays :
       /\ arrays[a].refs = 0 /\ \A b \in 1..a - 1 : arrays[b].refs > 0
       /\ arrays' = [arrays EXCEPT ![a] = [refs |-> 1, data |-> Data(h), capacity |-> NewCapacity(h, edit[h])]]
       /\ arr' = [arr EXCEPT ![h] = a]
  /\ old' = [old EXCEPT ![h] = arr[h]]
  /\ editing' = [editing EXCEPT ![h] = "release"]
  /\ UNCHANGED <<container, edit, value>>

\* No memory: the change is given up and the handle keeps what it has.
AllocFails(h) ==
  /\ editing[h] = "copy"
  /\ editing' = [editing EXCEPT ![h] = "idle"]
  /\ edit' = [edit EXCEPT ![h] = NoEdit]
  /\ UNCHANGED <<container, arr, arrays, old, value>>

ReleaseOld(h) ==
  /\ editing[h] = "release"
  /\ arrays' = Released(arrays, old[h])
  /\ old' = [old EXCEPT ![h] = NoArray]
  /\ editing' = [editing EXCEPT ![h] = "write"]
  /\ UNCHANGED <<container, arr, edit, value>>

Write(h) ==
  /\ editing[h] = "write"
  /\ arrays' = [arrays EXCEPT ![arr[h]].data = Edited(@, edit[h])]
  /\ value' = [value EXCEPT ![h] = Meant(@, edit[h])]
  /\ editing' = [editing EXCEPT ![h] = "idle"]
  /\ edit' = [edit EXCEPT ![h] = NoEdit]
  /\ UNCHANGED <<container, arr, old>>

\* assign releases what the handle has, then takes and counts the other's array;
\* an empty string is not shared.  A vector is not guarded against itself: it
\* would keep an array it has freed, and is not assigned to itself.
Assign(h, g) ==
  /\ editing[h] = "idle" /\ editing[g] = "idle"
  /\ container = "vector" => h # g
  /\ IF h = g THEN UNCHANGED <<arr, arrays>>
     ELSE LET a == IF container = "string" /\ Data(g) = <<>> THEN NoArray ELSE arr[g] IN
            /\ arrays' = Retained(Released(arrays, arr[h]), a)
            /\ arr' = [arr EXCEPT ![h] = a]
  /\ value' = [value EXCEPT ![h] = value[g]]
  /\ UNCHANGED <<container, editing, edit, old>>

Swap(h, g) ==
  /\ editing[h] = "idle" /\ editing[g] = "idle" /\ h # g
  /\ arr' = [arr EXCEPT ![h] = arr[g], ![g] = arr[h]]
  /\ value' = [value EXCEPT ![h] = value[g], ![g] = value[h]]
  /\ UNCHANGED <<container, arrays, editing, edit, old>>

\* clear keeps the array when it is this handle's alone; a map never does.
Clear(h) ==
  /\ editing[h] = "idle" /\ arr[h] # NoArray
  /\ IF container # "map" /\ Data(h) = <<>> THEN UNCHANGED <<arr, arrays>>
     ELSE IF container # "map" /\ RefCount(h) = 1
     THEN arrays' = [arrays EXCEPT ![arr[h]].data = <<>>] /\ UNCHANGED arr
     ELSE arrays' = Released(arrays, arr[h]) /\ arr' = [arr EXCEPT ![h] = NoArray]
  /\ value' = [value EXCEPT ![h] = <<>>]
  /\ UNCHANGED <<container, editing, edit, old>>

\* The handle is destroyed and another one made in its place.
Destroy(h) ==
  /\ editing[h] = "idle" /\ arr[h] # NoArray
  /\ arrays' = Released(arrays, arr[h])
  /\ arr' = [arr EXCEPT ![h] = NoArray]
  /\ value' = [value EXCEPT ![h] = <<>>]
  /\ UNCHANGED <<container, editing, edit, old>>

SharedNext ==
  \E h \in Handles :
    \/ \E e \in Edits(Len(Data(h))) : BeginEdit(h, e)
    \/ Copy(h) \/ AllocFails(h) \/ ReleaseOld(h) \/ Write(h) \/ Clear(h) \/ Destroy(h)
    \/ \E g \in Handles : Assign(h, g) \/ Swap(h, g)
-----------------------------------------------------------------------------
(* Properties. *)

Holders(a) == Cardinality({h \in Handles : arr[h] = a}) + Cardinality({h \in Handles : old[h] = a})

\* Whatever the other handles of an array and their threads do, a handle reads
\* what was written to it; an array is there as long as a handle has it and is
\* freed by the last; only an array of one handle is written.
SharedKept ==
  /\ \A h \in Handles : Data(h) = value[h]
  /\ \A a \in Arrays : arrays[a].refs = Holders(a) /\ Len(arrays[a].data) <= arrays[a].capacity + (IF container = "map" THEN MaxLen ELSE 0)
  /\ \A h \in Handles : editing[h] = "write" => RefCount(h) = 1
=============================================================================
