---------------------------- MODULE MojObjectFilter ----------------------------
(***************************************************************************)
(* MojObjectFilter: the visitor between a stored object and the reader of a    *)
(* query that selects properties.  It is told of the object event by event     *)
(* and passes on what lies under a selected path, with the objects and arrays   *)
(* around it, which it begins only when there is something to put in them.      *)
(*                                                                         *)
(* A selected property is a path, the sequence of its names; the tree of        *)
(* nodes is made from the paths in the order of the dotted strings.             *)
(***************************************************************************)
EXTENDS MojObject, FiniteSets
LOCAL INSTANCE SequencesExt

CONSTANTS
  Paths,               \* the properties a query may select
  Dot                  \* the character between the names of a path

VARIABLE
  selected             \* the properties this one does
filterVars == <<obj, selected>>

Dotted(path) == FoldLeft(LAMBDA s, name : IF s = <<>> THEN name ELSE s \o <<Dot>> \o name, <<>>, path)
InOrder(paths) == SetToSortSeq(paths, LAMBDA p, q : CompareBytes(Dotted(p), Dotted(q)) < 0)
-----------------------------------------------------------------------------
(* init: the tree of the selected names.  A node is [name, children]; a        *)
(* pointer is a sequence of at most one node.                                 *)

NewNode(name) == [name |-> name, children |-> <<>>]
ChildAt(node, name) == CHOOSE i \in DOMAIN node.children : node.children[i].name = name
HasChild(node, name) == \E i \in DOMAIN node.children : node.children[i].name = name

\* A path that goes on under a childless node adds nothing: that one is
\* selected with all there is under it.
RECURSIVE AddPath(_, _)
AddPath(node, path) ==
  IF path = <<>> THEN node
  ELSE IF ~HasChild(node, path[1])
  THEN [node EXCEPT !.children = Append(@, AddPath(NewNode(path[1]), Tail(path)))]
  ELSE LET i == ChildAt(node, path[1]) IN
         IF node.children[i].children = <<>> THEN node
         ELSE [node EXCEPT !.children[i] = AddPath(@, Tail(path))]

TreeOf(paths) == FoldLeft(AddPath, NewNode(<<>>), InOrder(paths))
-----------------------------------------------------------------------------
(* The visitor.  A state: m_node, m_child, m_includeCount, m_included, m_array. *)

SizeMax == 1000
NewState(node) == [node |-> node, child |-> 1, count |-> 0, included |-> TRUE, array |-> FALSE]
NewFilter(root) == [stack |-> <<>>, state |-> NewState(<<root>>), next |-> <<root>>, b |-> NewBuilder]

Forward(f, e) == [f EXCEPT !.b = Build(@, e)]
TellBegin(f, array) == Forward(f, Event(IF array THEN "beginArray" ELSE "beginObject", 0))

\* include and includeParents: what is begun late is begun in order.
Include(f, s, inArray) ==
  TellBegin(IF inArray THEN f ELSE Forward(f, NameEvent(s.node[1].name)), s.array)
IncludeParents(f) ==
  LET states == Append(f.stack, f.state)
      late == SelectSeq([i \in DOMAIN states |-> i], LAMBDA i : ~states[i].included)
      told == FoldLeft(LAMBDA g, i : Include(g, states[i], states[i - 1].array), f, late) IN
    [told EXCEPT !.stack = [i \in DOMAIN @ |-> [@[i] EXCEPT !.included = TRUE]], !.state.included = TRUE]

\* propName: on to the child with this name, over those with smaller ones.
FilterName(f0, name) ==
  LET st == f0.state
      kids == IF st.node = <<>> THEN <<>> ELSE st.node[1].children
      over == {i \in DOMAIN kids : i >= st.child /\ \A j \in st.child..i : CompareBytes(kids[j].name, name) < 0}
      at == st.child + Cardinality(over)
      hit == at <= Len(kids) /\ kids[at].name = name
      whole == hit /\ kids[at].children = <<>>
      count == IF st.node = <<>> THEN st.count ELSE IF whole THEN 1 ELSE 0
      f == [f0 EXCEPT !.state.child = IF st.node = <<>> THEN @ ELSE at, !.state.count = count,
                      !.next = IF hit /\ ~whole THEN <<kids[at]>> ELSE <<>>] IN
    IF count = 0 THEN f ELSE Forward(IF st.included THEN f ELSE IncludeParents(f), NameEvent(name))

FilterValue(f, e) == IF f.state.count = 0 THEN f ELSE Forward([f EXCEPT !.state.count = @ - 1], e)

FilterBegin(f, array) ==
  LET included == f.state.count > 0 \/ f.stack = <<>>
      st == [node |-> f.next, child |-> 1, count |-> IF f.state.count > 0 THEN SizeMax ELSE 0,
             included |-> included, array |-> array]
      g == [f EXCEPT !.stack = Append(@, f.state), !.state = st] IN
    IF included THEN TellBegin(g, array) ELSE g

\* Mutant: the node is not kept for the next element of an array.
FilterEndForgets(f, e) ==
  LET g == IF f.state.included THEN Forward(f, e) ELSE f
      outer == f.stack[Len(f.stack)] IN
    [g EXCEPT !.next = <<>>, !.stack = SubSeq(@, 1, Len(@) - 1),
              !.state = [outer EXCEPT !.count = IF @ = 0 THEN 0 ELSE @ - 1]]

FilterEnd(f, e) ==
  LET g == IF f.state.included THEN Forward(f, e) ELSE f
      outer == f.stack[Len(f.stack)] IN
    [g EXCEPT !.next = f.state.node, !.stack = SubSeq(@, 1, Len(@) - 1),
              !.state = [outer EXCEPT !.count = IF @ = 0 THEN 0 ELSE @ - 1]]

FilterEvent(f, e) ==
  CASE e.ev = "propName" -> FilterName(f, e.arg)
    [] e.ev \in {"beginObject", "beginArray"} -> FilterBegin(f, e.ev = "beginArray")
    [] e.ev \in {"endObject", "endArray"} -> FilterEnd(f, e)
    [] OTHER -> FilterValue(f, e)

Filtered(v, paths) == FoldLeft(FilterEvent, NewFilter(TreeOf(paths)), Visit(v))
-----------------------------------------------------------------------------
FilterInit == ObjectInit /\ selected \in SUBSET Paths
FilterNext == ObjectNext /\ UNCHANGED selected

\* What a query that selects these paths asks for: under a whole path
\* everything, in an array what each element has, and no empty shells.
Under(paths, name) == {Tail(p) : p \in {q \in paths : q[1] = name}}
RECURSIVE Project(_, _)
Project(v, paths) ==
  LET Shown(x, ps) == IF <<>> \in ps THEN <<x>> ELSE IF ps = {} THEN <<>> ELSE Project(x, ps)
      props == FlattenSeq([i \in DOMAIN v[2] |->
                 LET p == v[2][i] IN [j \in DOMAIN Shown(p[2], Under(paths, p[1])) |->
                                        <<p[1], Shown(p[2], Under(paths, p[1]))[j]>>]])
      items == FlattenSeq([i \in DOMAIN v[2] |-> Project(v[2][i], paths)]) IN
    CASE v[1] = TypeObject -> IF props = <<>> THEN <<>> ELSE <<<<TypeObject, props>>>>
      [] v[1] = TypeArray -> IF items = <<>> THEN <<>> ELSE <<<<TypeArray, items>>>>
      [] OTHER -> <<>>

\* The nodes of every level lie in the order the names of an object come in.
RECURSIVE NodesInOrder(_)
NodesInOrder(node) ==
  \A i \in DOMAIN node.children :
    /\ i > 1 => CompareBytes(node.children[i - 1].name, node.children[i].name) < 0
    /\ NodesInOrder(node.children[i])

\* The object, and what could hold it.
Holding == {obj} \cup {PutProp(EmptyObject, k, x) : k \in PropKeys, x \in {obj, Push(Push(EmptyArray, obj), obj), Push(EmptyArray, Push(EmptyArray, obj))}}

Projected(v, paths) ==
  LET f == Filtered(v, paths)
      shown == Project(v, paths) IN
    f.b.ok /\ f.b.stack = <<>> /\ f.b.obj = IF shown = <<>> THEN <<v[1], <<>>>> ELSE shown[1]

\* A reader is shown the selected part of the object and nothing else, in a
\* form that can be built again.  The properties of an object come sorted; the
\* paths do so only while no name has a character before the dot.
FilterProjects ==
  NodesInOrder(TreeOf(selected)) => \A v \in Holding : v[1] \in {TypeObject, TypeArray} => Projected(Settled(v), selected)

\* The same whatever the names are.
FilterProjectsAll ==
  \A v \in Holding : v[1] \in {TypeObject, TypeArray} => Projected(Settled(v), selected)
=============================================================================
