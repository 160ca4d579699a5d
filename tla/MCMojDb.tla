------------------------------- MODULE MCMojDb -------------------------------
(***************************************************************************)
(* Instances for TLC of MojDbKind, MojDbTxn and MojDbIndexing.  The first  *)
(* looks at what an operation on a kind does to kinds and their indexes,   *)
(* each under the schema lock; the second at how requests interleave, with *)
(* or without it; the third at one index from its definition to its        *)
(* entries, and at what is left when its commit is cut off.  They share no *)
(* state: a behaviour is one of one of them, which unit names.             *)
(***************************************************************************)
EXTENDS MojDbKind, MojDbTxn, MojDbIndexing, TLC

CONSTANTS k1, k2, k3, o1,            \* kinds and an object
          c1, c2, i1, i2, a, b,      \* clients, ids and values of the indexed property
          Units                      \* the modules to be checked

VARIABLE unit
MCvars == <<unit, kindVars, vars, ixVars>>

\* Two kinds that may extend each other and a third above the first.
MCMayExtend == {<<k1, k2>>, <<k2, k1>>, <<k1, k3>>}

PutOp(id, val, rev) == [do |-> "put", id |-> id, val |-> val, rev |-> rev]
MergeOp(id, val)    == [do |-> "merge", id |-> id, val |-> val]
ForceOp(id, val)    == [do |-> "force", id |-> id, val |-> val]

MCPrograms == {
  <<PutOp(i1, a, "seen")>>,
  <<ForceOp(i1, b), PutOp(i2, a, "none"), MergeOp(i2, b)>>,
  <<[do |-> "del", id |-> i1]>>,
  <<[do |-> "purge", id |-> i1]>>,
  <<[do |-> "delQuery", val |-> a]>>,
  <<[do |-> "putKind"]>>,
  <<[do |-> "delKind", ids |-> {i2}]>> }

\* The kind has as many objects as a batch.
MCKindPrograms == { <<PutOp(i1, a, "seen"), ForceOp(i2, b)>>, <<[do |-> "delKind", ids |-> {i1, i2}]>> }

Symmetry == Permutations({c1, c2})

MCInit == unit \in Units /\ KindInit /\ Init /\ IxInit /\ (unit # "txn" => engine = "leveldb")

\* Nothing is said of an index that has parted from its entries, nor of torn objects: no
\* further steps are looked at.
NotParted == unit = "indexing" => ~parted /\ tornObjs # IxObjects

MCNext ==
  \/ unit = "kinds" /\ KindNext /\ UNCHANGED <<unit, vars, ixVars>>
  \/ unit = "txn" /\ Next /\ UNCHANGED <<unit, kindVars, ixVars>>
  \/ unit = "indexing" /\ IxNext /\ UNCHANGED <<unit, kindVars, vars>>
MCSpec == MCInit /\ [][MCNext]_MCvars
=============================================================================
