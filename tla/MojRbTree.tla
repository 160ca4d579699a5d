------------------------------- MODULE MojRbTree -------------------------------
(***************************************************************************)
(* MojRbTreeBase, under MojMap and MojSet: a red-black tree changed on the   *)
(* way down.  A node is named by its key, which it keeps; a dummy node is    *)
(* the parent of the root while the tree is changed.                        *)
(***************************************************************************)
EXTENDS Integers, FiniteSets

CONSTANTS MaxTreeKey,    \* bound: keys are 1..MaxTreeKey
          TreeVals       \* the values a key is put with

ASSUME TreeAssumption ==
  MaxTreeKey \in Nat /\ TreeVals \in [1..MaxTreeKey -> SUBSET Nat \ {{}}]

Nil == 0 - 1
Dummy == 0
Keys == 1..MaxTreeKey
Left == 0
Right == 1
Other(d) == 1 - d

\* nodes: child, parent and color; m_root, m_size, and the values.
VARIABLES
  tree,
  before,    \* history: the tree before the last operation,
  done       \* and what that was
treeVars == <<tree, before, done>>

Leaf == [d \in {Left, Right} |-> Nil]
EmptyTree ==
  [child |-> [n \in {Dummy} \cup Keys |-> Leaf], parent |-> [n \in {Dummy} \cup Keys |-> Nil],
   red |-> {Dummy}, root |-> Nil, size |-> 0, val |-> [k \in Keys |-> 0]]

NothingDone == [op |-> "del", key |-> Nil, val |-> 0]
TreeInit == tree = EmptyTree /\ before = EmptyTree /\ done = NothingDone

Red(h, n) == n # Nil /\ n \in h.red
Child(h, n, d) == h.child[n][d]
Paint(h, reds, blacks) == [h EXCEPT !.red = (@ \ blacks) \cup reds]

SetChild(h, n, d, c) ==
  [h EXCEPT !.child[n][d] = c, !.parent = IF c = Nil THEN @ ELSE [@ EXCEPT ![c] = n]]

\* The heap after the rotation; the node on top then is Child(h, n, Other(d)).
Rotate(h, n, d) ==
  LET save == Child(h, n, Other(d)) IN
    Paint(SetChild(SetChild(h, n, Other(d), Child(h, save, d)), save, d, n), {n}, {save})
RotateDouble(h, n, d) ==
  LET c == Child(h, n, Other(d)) IN
    Rotate(SetChild(Rotate(h, c, Other(d)), n, Other(d), Child(h, c, d)), n, d)

\* The child d of n is set to the node the rotation of c leaves on top.
RotateUnder(h, n, d, c, rd) == SetChild(Rotate(h, c, rd), n, d, Child(h, c, Other(rd)))
RotateDoubleUnder(h, n, d, c, rd) ==
  SetChild(RotateDouble(h, c, rd), n, d, Child(h, Child(h, c, Other(rd)), rd))

\* node takes the place of old; a child that is node itself is left out.
Replace(h, old, node) ==
  LET kid(d) == IF Child(h, old, d) = node THEN Nil ELSE Child(h, old, d)
      h1 == SetChild(SetChild(h, node, Left, kid(Left)), node, Right, kid(Right))
      h2 == IF old \in h.red THEN Paint(h1, {node}, {}) ELSE Paint(h1, {}, {node})
      up == h.parent[old] IN
    SetChild(h2, up, IF Child(h2, up, Left) = old THEN Left ELSE Right, node)

\* The dummy is a new node, red; at the end it is gone and the root black.
WithDummy(h) == SetChild([h EXCEPT !.child[Dummy] = Leaf], Dummy, Right, h.root)
Rooted(h) ==
  LET top == Child(h, Dummy, Right)
      h1 == [h EXCEPT !.root = top, !.child[Dummy] = Leaf] IN
    IF top = Nil THEN h1 ELSE Paint([h1 EXCEPT !.parent[top] = Nil], {}, {top})
-----------------------------------------------------------------------------
(* put *)

Flip(h, q) == Paint(h, {q}, {Child(h, q, Left), Child(h, q, Right)})

\* A red node under a red one is rotated up, once or twice.
Straighten(h, t, g, p, q, last) ==
  IF ~(Red(h, q) /\ Red(h, p)) THEN h
  ELSE LET d == IF Child(h, t, Right) = g THEN Right ELSE Left IN
         IF q = Child(h, p, last) THEN RotateUnder(h, t, d, g, Other(last))
         ELSE RotateDoubleUnder(h, t, d, g, Other(last))

\* One step down: insert at the bottom, or flip two red children; then straighten.
RECURSIVE Descend(_, _, _, _, _, _, _, _)
Descend(h, k, t, g, p, q, dir, last) ==
  IF q = Nil
  THEN LET h1 == SetChild(Paint([h EXCEPT !.size = @ + 1, !.child[k] = Leaf], {k}, {}), p, dir, k) IN
         Straighten(h1, t, g, p, k, last)
  ELSE LET h1 == IF Red(h, Child(h, q, Left)) /\ Red(h, Child(h, q, Right)) THEN Flip(h, q) ELSE h
           h2 == Straighten(h1, t, g, p, q, last)
           down == IF q < k THEN Right ELSE Left IN
         IF q = k THEN h2
         ELSE Descend(h2, k, IF g # Nil THEN g ELSE t, p, q, Child(h2, q, down), down, dir)

\* The node of the key in its place, the root black.
Placed(h, k) ==
  IF h.root = Nil
  THEN [h EXCEPT !.root = k, !.size = 1, !.child[k] = Leaf, !.parent[k] = Nil, !.red = @ \ {k}]
  ELSE Rooted(Descend(WithDummy(h), k, Dummy, Nil, Nil, h.root, Left, Left))

\* Mutant: a node that is there stays, with its value.
PutKeepsOld(h, k, v) ==
  LET h1 == Placed(h, k) IN IF h1.size = h.size THEN h1 ELSE [h1 EXCEPT !.val[k] = v]

\* A node that is there is replaced by one with the new value.
Put(h, k, v) == [Placed(h, k) EXCEPT !.val[k] = v]
-----------------------------------------------------------------------------
(* del *)

\* q is rotated down, under its red child on the other side.
Turns(h, q, dir) == ~Red(h, q) /\ ~Red(h, Child(h, q, dir)) /\ Red(h, Child(h, q, Other(dir)))

\* A red is pushed down into q, which has none above it or under it on the way.
PushRed(h, g, p, q, dir, last) ==
  IF Red(h, q) \/ Red(h, Child(h, q, dir)) THEN h
  ELSE IF Turns(h, q, dir) THEN RotateUnder(h, p, last, q, dir)
  ELSE LET s == Child(h, p, Other(last)) IN
    IF s = Nil THEN h
    ELSE IF ~Red(h, Child(h, s, Left)) /\ ~Red(h, Child(h, s, Right)) THEN Paint(h, {s, q}, {p})
    ELSE LET d == IF Child(h, g, Right) = p THEN Right ELSE Left
             h1 == IF Red(h, Child(h, s, last)) THEN RotateDoubleUnder(h, g, d, p, last)
                   ELSE RotateUnder(h, g, d, p, last)
             top == Child(h1, g, d) IN
           Paint(h1, {q, top}, {Child(h1, top, Left), Child(h1, top, Right)})

\* Down to the node that has no child on the way to the key; f is the one found.
RECURSIVE Seek(_, _, _, _, _, _, _)
Seek(h, k, g, p, q, f, dir) ==
  LET n == Child(h, q, dir) IN
  IF n = Nil THEN [h |-> h, p |-> p, q |-> q, f |-> f]
  ELSE LET down == IF n < k THEN Right ELSE Left
           h1 == PushRed(h, p, q, n, down, dir)
           above == IF Turns(h, n, down) THEN Child(h1, q, dir) ELSE q IN
         Seek(h1, k, p, above, n, IF n = k THEN n ELSE f, down)

\* The node at the bottom takes the place of the one found.
Del(h, k) ==
  IF h.root = Nil THEN h
  ELSE LET e == Seek(WithDummy(h), k, Nil, Nil, Dummy, Nil, Right)
           c == Child(e.h, e.q, IF Child(e.h, e.q, Left) = Nil THEN Right ELSE Left)
           h1 == Replace(e.h, e.f, e.q)
           h2 == SetChild(h1, e.p, IF Child(h1, e.p, Right) = e.q THEN Right ELSE Left, c) IN
         IF e.f = Nil THEN Rooted(e.h)
         ELSE [Rooted([h2 EXCEPT !.size = @ - 1]) EXCEPT !.val[k] = 0, !.child[k] = Leaf, !.parent[k] = Nil, !.red = @ \ {k}]
-----------------------------------------------------------------------------
(* Reading. *)

RECURSIVE Outmost(_, _, _), Ancestor(_, _, _), SearchFrom(_, _, _)
Outmost(h, n, d) == IF Child(h, n, d) = Nil THEN n ELSE Outmost(h, Child(h, n, d), d)
Ancestor(h, n, d) ==
  LET up == h.parent[n] IN IF up # Nil /\ Child(h, up, d) = n THEN Ancestor(h, up, d) ELSE up

NextNode(h, n, d) == IF Child(h, n, d) # Nil THEN Outmost(h, Child(h, n, d), Other(d)) ELSE Ancestor(h, n, d)
Begin(h) == IF h.root = Nil THEN Nil ELSE Outmost(h, h.root, Left)

\* search ends at the key or at the last node on the way to it.
SearchFrom(h, n, k) ==
  LET next == Child(h, n, IF n < k THEN Right ELSE Left) IN IF n = k \/ next = Nil THEN n ELSE SearchFrom(h, next, k)
Search(h, k) == IF h.root = Nil THEN Nil ELSE SearchFrom(h, h.root, k)

Find(h, k)       == IF Search(h, k) = k THEN k ELSE Nil
LowerBound(h, k) == LET n == Search(h, k) IN IF n = Nil \/ n >= k THEN n ELSE NextNode(h, n, Right)
UpperBound(h, k) == LET n == Search(h, k) IN IF n = Nil \/ n > k THEN n ELSE NextNode(h, n, Right)

\* compareFull: by key, then by value.
CompareNodes(h, n, i, m) == IF n # m THEN n - m ELSE h.val[n] - i.val[m]

RECURSIVE CompareFrom(_, _, _, _), DiffFrom(_, _, _, _)
CompareFrom(h, n, i, m) ==
  IF n = Nil THEN (IF m = Nil THEN 0 ELSE 0 - 1)
  ELSE IF m = Nil THEN 1
  ELSE IF CompareNodes(h, n, i, m) # 0 THEN CompareNodes(h, n, i, m)
  ELSE CompareFrom(h, NextNode(h, n, Right), i, NextNode(i, m, Right))
Compare(h, i) == CompareFrom(h, Begin(h), i, Begin(i))

\* diff: what h has and i has not, value included.
DiffFrom(h, n, i, m) ==
  IF n = Nil THEN {}
  ELSE LET comp == IF m = Nil THEN 0 - 1 ELSE CompareNodes(h, n, i, m) IN
    (IF comp < 0 THEN {n} ELSE {}) \cup
    DiffFrom(h, IF comp <= 0 THEN NextNode(h, n, Right) ELSE n, i, IF comp >= 0 THEN NextNode(i, m, Right) ELSE m)
Diff(h, i) == DiffFrom(h, Begin(h), i, Begin(i))

TreeNext ==
  /\ \/ \E k \in Keys : \E v \in TreeVals[k] : tree' = Put(tree, k, v) /\ done' = [op |-> "put", key |-> k, val |-> v]
     \/ \E k \in Keys : tree' = Del(tree, k) /\ done' = [op |-> "del", key |-> k, val |-> 0]
  /\ before' = tree
-----------------------------------------------------------------------------
(* Properties. *)

RECURSIVE Nodes(_, _), BlackHeight(_, _)
Nodes(h, n) == IF n = Nil THEN {} ELSE {n} \cup Nodes(h, Child(h, n, Left)) \cup Nodes(h, Child(h, n, Right))

\* 0 when the subtree is no red-black tree: validate's assertions.
BlackHeight(h, n) ==
  IF n = Nil THEN 1
  ELSE LET l == Child(h, n, Left)
           r == Child(h, n, Right)
           lh == BlackHeight(h, l) IN
    IF /\ \A m \in Nodes(h, l) : m < n
       /\ \A m \in Nodes(h, r) : m > n
       /\ \A c \in {l, r} \ {Nil} : h.parent[c] = n
       /\ Red(h, n) => ~Red(h, l) /\ ~Red(h, r)
       /\ lh > 0 /\ lh = BlackHeight(h, r)
    THEN (IF Red(h, n) THEN lh ELSE lh + 1) ELSE 0

Contents(h) == {<<n, h.val[n]>> : n \in Nodes(h, h.root)}

TreeValid ==
  /\ BlackHeight(tree, tree.root) > 0 /\ ~Red(tree, tree.root)
  /\ tree.root # Nil => tree.parent[tree.root] = Nil
  /\ tree.size = Cardinality(Nodes(tree, tree.root))

\* The last operation put its key with its value, or took its key away, and left every
\* other entry as it was.
OneChange ==
  LET others == {e \in Contents(before) : e[1] # done.key} IN
    Contents(tree) = IF done.op = "put" THEN others \cup {<<done.key, done.val>>} ELSE others

\* Lookups, bounds, the order of iteration, comparison and difference are those
\* of the set of keys with their values.
Least(s) == IF s = {} THEN Nil ELSE CHOOSE n \in s : \A m \in s : n <= m
ReadsAgree ==
  LET ks == Nodes(tree, tree.root) IN
    /\ \A k \in Keys :
         /\ (Find(tree, k) = k) <=> (k \in ks)
         /\ LowerBound(tree, k) = Least({n \in ks : n >= k})
         /\ UpperBound(tree, k) = Least({n \in ks : n > k})
    /\ \A k \in ks : NextNode(tree, k, Right) = Least({n \in ks : n > k})
    /\ Begin(tree) = Least(ks)
    /\ Diff(tree, before) = {n \in ks : <<n, tree.val[n]>> \notin Contents(before)}
    /\ (Compare(tree, before) = 0) <=> (Contents(tree) = Contents(before))
    /\ (Compare(tree, before) < 0) <=> (Compare(before, tree) > 0)

\* After any sequence of put and del the tree is a red-black tree of the keys that were put
\* and not deleted since, each with the value put last, and reading it gives those, in order
\* (MojRbTreeBase).
TreeKept == TreeValid /\ OneChange /\ ReadsAgree
=============================================================================
