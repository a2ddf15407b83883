------------------------------ MODULE QueryPlan ------------------------------
(***************************************************************************)
(* The operators of a logical plan and the SQL SQLRenderer writes for      *)
(* them, as the rows it yields.  An operator is named by its position in   *)
(* ops; its inputs were created before it.                                 *)
(*                                                                         *)
(* A row is a function from columns to values.  The column of an entity is *)
(* the number of its data source, that of a count the number of the        *)
(* operator that counts; column -i holds the two endpoints of edge source  *)
(* i as the SQL exposes them.  No column is ever dropped, so that the set  *)
(* of rows stands for the bag: what a name means is up to the scope.       *)
(***************************************************************************)
EXTENDS CypherQuery

NoEntity == NodeEntity("", "")
NoPart == PartialQuery(<< >>, {}, "", "")

(* kind "join" is an INNER JOIN, "left" a LEFT JOIN; schema holds the      *)
(* names of the output schema computed when the plan was made.             *)
Operator(kind, ins, schema) ==
  [kind |-> kind, ins |-> ins, outs |-> << >>, schema |-> schema,
   entity |-> NoEntity, pairs |-> {}, filter |-> {}, part |-> NoPart]
JoinKinds == {"join", "left"}

(* JoinKeyPair.                                                            *)
Pair(node, other, type) == [node |-> node, other |-> other, type |-> type]

Left(ops, i) == ops[i].ins[1]
Right(ops, i) == ops[i].ins[2]
BoundaryJoin(ops, i) == ops[Left(ops, i)].kind = "boundary"

Upstream(ops) ==
  LET up[i \in DOMAIN ops] == {i} \cup UNION {up[j] : j \in Range(ops[i].ins)}
  IN  up

-----------------------------------------------------------------------------
(* Where each operator finds the columns of a name, from where its inputs  *)
(* find theirs.  A join looks left first; behind a boundary only the       *)
(* counts are values of their own, and an entity is found where the MATCH  *)
(* after it bound it again.                                                *)
ScopeOf(ops, i, inputs) ==
  CASE ops[i].kind = "source"   -> ops[i].entity.alias :> i
    [] ops[i].kind \in JoinKinds -> IF BoundaryJoin(ops, i) THEN inputs[2] @@ inputs[1]
                                                            ELSE inputs[1] @@ inputs[2]
    [] ops[i].kind = "select"   -> inputs[1]
    [] ops[i].kind = "project"  ->
         LET kept == Restrict(inputs[1], ops[i].part.keys \cap DOMAIN inputs[1])
         IN  IF Aggregates(ops[i].part) THEN kept @@ (ops[i].part.as :> i) ELSE kept
    [] ops[i].kind = "boundary" -> ops[i].part.as :> i
Scopes(ops, needed) ==
  LET s[i \in needed] == ScopeOf(ops, i, [k \in DOMAIN ops[i].ins |-> s[ops[i].ins[k]]])
  IN  s

(* The pairs that become conditions: the others name a field the schema of *)
(* the join does not have, and are skipped.                                *)
Conditions(ops, i) ==
  {p \in ops[i].pairs :
     IF BoundaryJoin(ops, i) THEN p.node \in ops[Left(ops, i)].part.keys
                             ELSE {p.node, p.other} \subseteq ops[i].schema}

NodeOnLeft(ops, i, p) == p.node \in ops[Left(ops, i)].schema

(* The names an operator reads are found in its input.                     *)
VariablesOf(filter) == UNION {p.on : p \in filter}
Reads(op) ==
  VariablesOf(op.filter) \cup op.part.keys
    \cup IF Aggregates(op.part) THEN {op.part.counted} ELSE {}
Resolves(ops, scope, i) ==
  CASE ops[i].kind = "source" -> TRUE
    [] ops[i].kind \in JoinKinds ->
         BoundaryJoin(ops, i) \/
         \A p \in Conditions(ops, i) :
           LET nodeSide == IF NodeOnLeft(ops, i, p) THEN Left(ops, i) ELSE Right(ops, i)
               otherSide == IF NodeOnLeft(ops, i, p) THEN Right(ops, i) ELSE Left(ops, i)
           IN  p.node \in DOMAIN scope[nodeSide] /\ p.other \in DOMAIN scope[otherSide]
    [] OTHER -> Reads(ops[i]) \subseteq DOMAIN scope[Left(ops, i)]

-----------------------------------------------------------------------------
(* DataSourceOperator: the rows of its table that pass the type filter and *)
(* the predicate pushed into it.                                           *)
EdgeRowOf(i, e, source, sink) == (i :> e) @@ ((-i) :> <<source, sink>>)
Stored(i) == {EdgeRowOf(i, e, Src[e], Dst[e]) : e \in EdgeRow}
TableRows(i, entity) ==
  IF entity.sort = "node" THEN {i :> n : n \in NodesOf(entity.label)} ELSE Stored(i)
SourceRows(ops, i) ==
  {r \in TableRows(i, ops[i].entity) :
     \A p \in ops[i].filter : Holds(p, ops[i].entity.alias :> r[i])}

(* An undirected relationship is the UNION ALL of both directions, without *)
(* the second copy of a self-loop; of the predicates only the type filter  *)
(* is rendered in its branches.                                            *)
UndirectedRows(ops, i) ==
  Stored(i) \cup {EdgeRowOf(i, e, Dst[e], Src[e]) : e \in {x \in EdgeRow : Src[x] # Dst[x]}}
EitherTypes == {"either_source", "either_sink"}
ExpandsUndirected(ops, i) ==
  /\ \E p \in ops[i].pairs : p.type \in EitherTypes
  /\ ops[Right(ops, i)].entity.sort = "rel"

(* The value a pair compares the node with.                                *)
JoinKey(row, column, type) ==
  CASE type = "node"                       -> row[column]
    [] type \in {"source", "either_source"} -> row[-column][1]
    [] type \in {"sink", "either_sink"}     -> row[-column][2]

(* GROUP BY the columns of the keys, COUNT of the rows where it is not     *)
(* NULL.                                                                   *)
GroupRows(rows, scope, i, part) ==
  LET Key(r) == Restrict(r, {scope[v] : v \in part.keys})
      Count(g) == Cardinality({r \in rows : Key(r) = g /\ r[scope[part.counted]] # Null})
  IN  {g @@ (i :> Count(g)) : g \in {Key(r) : r \in rows}}

JoinsOn(ops, scope, i, x, y) ==
  LET l == scope[Left(ops, i)]
      r == scope[Right(ops, i)]
      keys == IF BoundaryJoin(ops, i) THEN scope[Left(ops, Left(ops, i))] ELSE l
      Equal(p) ==
        IF NodeOnLeft(ops, i, p)
          THEN x[keys[p.node]] # Null /\ x[keys[p.node]] = JoinKey(y, r[p.other], p.type)
          ELSE y[r[p.node]] # Null /\ y[r[p.node]] = JoinKey(x, l[p.other], p.type)
  IN  \A p \in Conditions(ops, i) :
        IF BoundaryJoin(ops, i) THEN x[keys[p.node]] = y[r[p.node]] ELSE Equal(p)
JoinRows(ops, scope, i, leftRows, rightRows) ==
  LET joined == {w \in leftRows \X rightRows : JoinsOn(ops, scope, i, w[1], w[2])}
      Nulls == [c \in Range(scope[Right(ops, i)]) |-> Null]
      alone == {x \in leftRows : ops[i].kind = "left" /\ \A y \in rightRows : <<x, y>> \notin joined}
  IN  {z[1] @@ z[2] : z \in joined} \cup {x @@ Nulls : x \in alone}

(* The rows a WHERE lets pass.                                             *)
Passing(filter, columns, rows) ==
  {r \in rows : \A p \in filter : [v \in p.on |-> r[columns[v]]] \in p.sat}

(* The rows of an operator, from those of its inputs.                      *)
RowsAt(ops, scope, i, inputs) ==
  LET below == scope[Left(ops, i)]
      passing == Passing(ops[i].filter, below, inputs[1])
  IN  CASE ops[i].kind = "source" -> SourceRows(ops, i)
        [] ops[i].kind \in JoinKinds ->
             JoinRows(ops, scope, i, inputs[1],
                      IF ExpandsUndirected(ops, i) THEN UndirectedRows(ops, Right(ops, i))
                                                   ELSE inputs[2])
        [] OTHER -> IF ops[i].kind = "select" \/ ~ Aggregates(ops[i].part)
                      THEN passing ELSE GroupRows(passing, below, i, ops[i].part)
RowsOf(ops, needed, scope) ==
  LET rows[i \in needed] ==
        RowsAt(ops, scope, i, [k \in DOMAIN ops[i].ins |-> rows[ops[i].ins[k]]])
  IN  rows

(* What the generated query returns; it fails if a name does not resolve.  *)
Failure == [runs |-> FALSE, bag |-> << >>]
Returns(bag) == [runs |-> TRUE, bag |-> bag]
ResultOf(rows, columns) ==
  BagOf(rows, LAMBDA r : [v \in DOMAIN columns |-> r[columns[v]]])
Meaning(ops, terminal) ==
  LET needed == Upstream(ops)[terminal]
      scope == Scopes(ops, needed)
  IN  IF \A i \in needed : Resolves(ops, scope, i)
        THEN Returns(ResultOf(RowsOf(ops, needed, scope)[terminal], scope[terminal]))
        ELSE Failure
=============================================================================
