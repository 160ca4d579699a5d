---------------------------- MODULE MCMojDbQueries ----------------------------
(***************************************************************************)
(* Instances for TLC of MojDbQueries and MojDbAdmin.  They share no state: a  *)
(* behaviour is one of one of them, which unit names.                         *)
(***************************************************************************)
EXTENDS MojDbQueries, MojDbAdmin

CONSTANTS o1, o2, o3,    \* objects of backups and purges
          Units          \* the modules to be checked

VARIABLE unit
MCvars == <<unit, vars, adminVars>>
-----------------------------------------------------------------------------
(* Queries: two objects, values among which one is a prefix of another and one *)
(* ends with the greatest byte, an index with and one without deleted objects.  *)

MCEnd == KeySpace

a  == StringValue(<<1>>)
ab == StringValue(<<1, 2>>)
n  == IntValue(ByteMax)

Plain   == [id |-> 2, props |-> <<"p">>, incDel |-> FALSE]
WithDel == [id |-> 2, props |-> <<"_del", "p">>, incDel |-> TRUE]

MCNeighbours == {Key(<<1, 5, 1, 1>>), Key(<<3, 1, 1>>)}

MCMergeValues == {n}

Live1(p) == [p |-> p, del |-> FALSE]
MCObjects == {Absent, Live1({a}), Live1({ab}), Live1({a, n}), [p |-> {a}, del |-> TRUE]}

Query(where, order, d, limit) == [where |-> where, order |-> order, desc |-> d, limit |-> limit]
On(clause) == [p \in {"p"} |-> clause]
Everywhere == [p \in {} |-> NoClause]

Clauses == {
  Clause("eq", {a}, "none", {}), Clause("eq", {a, n}, "none", {}), Clause("prefix", {a, ab}, "none", {}),
  Clause("ne", {ab}, "none", {}), Clause("gt", {a}, "none", {}), Clause("ge", {ab}, "none", {}),
  Clause("gt", {n}, "none", {}), Clause("none", {}, "lt", {n}), Clause("none", {}, "le", {ab}),
  Clause("ge", {a}, "lt", {ab}), Clause("gt", {a}, "le", {n}) }

Searches == {Query(On(c), "", d, l) : c \in Clauses, d \in BOOLEAN, l \in {1, NoLimit}}
            \cup {Query(Everywhere, "p", d, l) : d \in BOOLEAN, l \in {1, 2}}
            \cup {Query([p \in {"_del"} |-> IncludeDeleted], "p", d, 1) : d \in BOOLEAN}
            \cup {Query(("_del" :> IncludeDeleted) @@ ("p" :> Clause("ge", {ab}, "none", {})), "p", d, 2) : d \in BOOLEAN}
All(d, l) == Query(Everywhere, "p", d, l)

Request(op, index0, query0, batch, others) ==
  [op |-> op, index |-> index0, query |-> query0, batch |-> batch, others |-> others]

MCRequests ==
  {Request(op, ix, q, 0, 0) : op \in {"find", "count"}, ix \in {Plain, WithDel}, q \in Searches}
  \cup {Request("find", ix, All(d, 1), 0, 1) : ix \in {Plain, WithDel}, d \in BOOLEAN}
  \cup {Request("find", Plain, All(d, 2), 1, 0) : d \in BOOLEAN}
  \cup {Request(op, ix, All(d, l), 1, 0) : op \in {"del", "purge", "merge"}, ix \in {Plain, WithDel},
                                          d \in BOOLEAN, l \in {1, NoLimit}}
  \cup {Request(op, ix, All(d, NoLimit), 0, 1) : op \in {"del", "purge", "merge"}, ix \in {Plain, WithDel}, d \in BOOLEAN}
-----------------------------------------------------------------------------
(* Purges, backups and restores: purges without backups over several days, and *)
(* backups with few writes.                                                   *)

MCOrder == o1 :> 1 @@ o2 :> 2 @@ o3 :> 3
MCBounds == {[writes |-> 3, days |-> 1, dumps |-> 0],
             [writes |-> 2, days |-> 2, dumps |-> 0],
             [writes |-> 2, days |-> 0, dumps |-> 2],
             [writes |-> 1, days |-> 0, dumps |-> 3]}
-----------------------------------------------------------------------------
MCInit ==
  /\ unit \in Units /\ AdminInit /\ Init
  /\ unit = "admin" => req = Request("find", Plain, All(FALSE, 1), 0, 1) /\ \A i \in Ids : objs[i] = Absent
  /\ unit = "queries" => bounds.dumps = 3 /\ \A o \in Objs : objects[o].st = "live"
MCNext ==
  \/ unit = "queries" /\ Next /\ UNCHANGED <<unit, adminVars>>
  \/ unit = "admin" /\ AdminNext /\ UNCHANGED <<unit, vars>>

\* The fairness of each module: what a dispatcher thread took up is worked on to its end,
\* and the client of a search asks for all pages.
MCSpec ==
  /\ MCInit /\ [][MCNext]_MCvars
  /\ WF_MCvars(unit = "queries" /\ Run /\ UNCHANGED <<unit, adminVars>>)
  /\ WF_MCvars(unit = "admin" /\ CommitWrite /\ UNCHANGED <<unit, vars>>)
  /\ WF_MCvars(unit = "admin" /\ PurgeGoesOn /\ UNCHANGED <<unit, vars>>)
-----------------------------------------------------------------------------
\* The pages of a find together have each key selected once and in order, the end key of a
\* page divides what was returned from what is to come, and a count has all keys, whatever
\* others write meanwhile (MojDbIsamQuery, MojDbLevelQuery, MojDbServiceHandler::findImpl).
FindsExact == unit = "queries" => TypeOK /\ PagesCoverOnce /\ EndKeyDivides /\ CountsAll

\* A search ends, also one whose writes move objects ahead of its cursor, and so does a
\* purge (MojDb::delImpl, MojDbIsamQuery::getImpl, MojDb::purgeImpl).
RequestsEnd == (unit = "queries" => Terminates) /\ PurgeEnds
=============================================================================
