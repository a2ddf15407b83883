----------------------------- MODULE CypherQuery -----------------------------
(***************************************************************************)
(* Queries of MATCH, OPTIONAL MATCH, WHERE, WITH and RETURN over patterns  *)
(* of fixed length, and what they mean: the bag of rows each returns, by   *)
(* enumeration of the bindings, clause after clause.                       *)
(*                                                                         *)
(* A predicate is the set of the assignments to its variables that satisfy *)
(* it; a property access is abstracted to the variable it reads.           *)
(***************************************************************************)
EXTENDS Integers, FiniteSets, Sequences, SequencesExt

CONSTANTS Node,      \* the rows of the node tables, by id
          Null,      \* what OPTIONAL MATCH binds where it finds nothing
          EdgeRow,   \* the rows of the edge table
          Src, Dst,  \* its endpoint columns
          Labelled,  \* the nodes of each label
          Queries    \* the queries the runs submit

(* Referential integrity, which the planner assumes of the edge tables.    *)
ASSUME GraphAssumption ==
  /\ Null \notin Node \cup EdgeRow
  /\ Src \in [EdgeRow -> Node] /\ Dst \in [EdgeRow -> Node]
  /\ \A l \in DOMAIN Labelled : Labelled[l] \subseteq Node

(***************************************************************************)
(* A query is the sequence of its parts, one for each WITH and the RETURN. *)
(*   part    clauses, then the variables it keeps, with COUNT(counted) AS  *)
(*           as for each group of them when counted is not ""              *)
(*   clause  optional, its pattern, its WHERE as a set of conjuncts        *)
(*   pattern the entities in order, nodes and relationships alternating;   *)
(*           two nodes in a row where a comma stood                        *)
(***************************************************************************)
NodeEntity(alias, label) ==
  [sort |-> "node", alias |-> alias, label |-> label, dir |-> ""]
RelationshipEntity(alias, label, dir) ==
  [sort |-> "rel", alias |-> alias, label |-> label, dir |-> dir]
MatchClause(optional, pattern, where) ==
  [optional |-> optional, pattern |-> pattern, where |-> where]
PartialQuery(clauses, keys, counted, as) ==
  [clauses |-> clauses, keys |-> keys, counted |-> counted, as |-> as]

Aggregates(part) == part.counted # ""
AliasesOf(pattern) == {pattern[k].alias : k \in DOMAIN pattern}
EntitiesOf(q) ==
  FoldLeft(LAMBDA entities, p :
             FoldLeft(LAMBDA es, c : es \o c.pattern, entities, p.clauses), << >>, q)

-----------------------------------------------------------------------------
(* The bindings of a pattern that extend env.  Two relationships may bind  *)
(* the same edge, as docs/limitations.md has it.                           *)
NodesOf(label) == IF label = "" THEN Node ELSE Labelled[label]
Joins(dir, e, m, n) == \/ dir \in {"out", "any"} /\ Src[e] = m /\ Dst[e] = n
                       \/ dir \in {"in", "any"} /\ Src[e] = n /\ Dst[e] = m

IsMatch(pattern, f) ==
  \A k \in DOMAIN pattern :
    LET x == pattern[k]
    IN  IF x.sort = "rel"
          THEN Joins(x.dir, f[x.alias], f[pattern[k-1].alias], f[pattern[k+1].alias])
          ELSE f[x.alias] \in NodesOf(x.label)

NewAliases(env, pattern, sort) ==
  {x.alias : x \in {y \in Range(pattern) : y.sort = sort}} \ DOMAIN env
Bindings(env, pattern) ==
  {f \in {m @@ e @@ env : m \in [NewAliases(env, pattern, "node") -> Node],
                          e \in [NewAliases(env, pattern, "rel") -> EdgeRow]} :
     IsMatch(pattern, f)}

Holds(predicate, env) == [v \in predicate.on |-> env[v]] \in predicate.sat

(* A row is its bindings, and those of the earlier parts, which keep two   *)
(* rows that agree on what a WITH keeps apart.  The WHERE of an OPTIONAL   *)
(* MATCH is part of what it looks for.                                     *)
ClauseRows(rows, clause) ==
  LET Found(r) == {[r EXCEPT !.env = f] :
                     f \in {g \in Bindings(r.env, clause.pattern) :
                              \A p \in clause.where : Holds(p, g)}}
      Missing(r) == [r EXCEPT !.env =
                       @ @@ [v \in AliasesOf(clause.pattern) \ DOMAIN @ |-> Null]]
      Extended(r) == IF clause.optional /\ Found(r) = {} THEN {Missing(r)} ELSE Found(r)
  IN  UNION {Extended(r) : r \in rows}

PartRows(rows, part) ==
  LET Kept(r) == Restrict(r.env, part.keys)
      Count(g) == Cardinality({r \in rows : Kept(r) = g /\ r.env[part.counted] # Null})
  IN  IF Aggregates(part)
        THEN {[env |-> g @@ (part.as :> Count(g)), past |-> << >>] :
                g \in {Kept(r) : r \in rows}}
        ELSE {[env |-> Kept(r), past |-> Append(r.past, r.env)] : r \in rows}

(* The bag of the values of a set of rows.                                 *)
BagOf(rows, Value(_)) ==
  [t \in {Value(r) : r \in rows} |-> Cardinality({r \in rows : Value(r) = t})]

Answer(q) ==
  BagOf(FoldLeft(LAMBDA rows, p : PartRows(FoldLeft(ClauseRows, rows, p.clauses), p),
                 {[env |-> << >>, past |-> << >>]}, q),
        LAMBDA r : r.env)
=============================================================================
