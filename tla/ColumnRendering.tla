-------------------------- MODULE ColumnRendering --------------------------
(***************************************************************************)
(* The columns of the SQL of each operator: the schemas the plan           *)
(* propagates, the columns the whole query requires, what each nested      *)
(* SELECT outputs under which name, and the order of the CTEs.             *)
(*                                                                         *)
(* A relation is what an engine makes of an operator's SQL:                *)
(*   cols   its columns, each with the term it holds                       *)
(*   did    what has happened to its rows                                  *)
(*   wrong  why an engine refuses it                                       *)
(***************************************************************************)
EXTENDS ColumnScopes
LOCAL INSTANCE SequencesExt

IsPrefixed(column) == column[1] # ""

-----------------------------------------------------------------------------
(* Schemas.  A field has an alias, and is an entity with its key and its   *)
(* properties, or a value with the column it is expected under.            *)

EntityField(v, properties) == [alias |-> v, sort |-> SortOf(v), cols |-> {<<v, p>> : p \in properties}]
ValueField(v, column) == [alias |-> v, sort |-> "value", cols |-> {column}]
IsEntityField(field) == field.sort # "value"
KeyColumns(v) == IF IsRelationship(v) THEN {<<v, "src">>, <<v, "dst">>} ELSE {<<v, "id">>}

(* The first field of an alias, the only one looked up.                    *)
FieldsOf(schema, alias) == {i \in DOMAIN schema : schema[i].alias = alias}
FirstField(schema, at) == schema[CHOOSE i \in at : \A j \in at : i <= j]
IsEntityIn(schema, alias) ==
    FieldsOf(schema, alias) # {} /\ IsEntityField(FirstField(schema, FieldsOf(schema, alias)))
AllColumns(schema) == UNION {schema[i].cols : i \in DOMAIN schema}

(* The target of a variable-length pattern comes twice, first as the       *)
(* traversal declares it, with its id alone.                               *)
PatternSchema(op) ==
    LET Whole(v) == EntityField(v, PropertiesOf(SortOf(v)))
        target == op.names[Len(op.names)]
    IN IF op.long THEN <<Whole(op.names[1]), EntityField(target, {"id"}), Whole(target)>>
       ELSE [i \in DOMAIN op.names |-> Whole(op.names[i])]

(* What a projection declares for an item: the field of an entity under    *)
(* its own name; the column of a value, which is its alias unless it was a *)
(* prefixed one.                                                           *)
ProjectionField(item, schema) ==
    LET v == item.expr.ref[1]
        entities == {i \in FieldsOf(schema, v) : IsEntityField(schema[i])}
        values == FieldsOf(schema, v) \ entities
        entity == FirstField(schema, entities)
        column == CHOOSE c \in FirstField(schema, values).cols : TRUE
    IN CASE item.expr.op # "" -> ValueField(item.as, <<item.as, "">>)
         [] item.expr.ref[2] # "" -> ValueField(item.as, item.expr.ref)
         [] entities # {} /\ item.as = v -> entity
         [] entities # {} /\ entity.sort = "rel" -> ValueField(item.as, <<v, "id">>)
         [] entities # {} /\ entity.sort = "node" ->
              ValueField(item.as, IF entity.cols = {<<v, "id">>} THEN <<v, "id">> ELSE <<"", item.as>>)
         [] entities = {} /\ values # {} ->
              ValueField(item.as, IF IsPrefixed(column) THEN column ELSE <<"", item.as>>)
         [] OTHER -> ValueField(item.as, <<item.as, "">>)

OutSchema(op, schemas) ==
    CASE op.kind = "pattern" -> PatternSchema(op)
      [] op.kind = "join" -> schemas[op.in[1]] \o schemas[op.in[2]]
      [] op.kind \in {"select", "union"} -> schemas[op.in[1]]
      [] op.kind = "unwind" -> Append(schemas[op.in[1]], ValueField(op.as, <<"", op.as>>))
      [] op.kind = "boundary" -> [i \in DOMAIN op.items |-> ValueField(op.items[i].as, <<"", op.items[i].as>>)]
      [] OTHER -> [i \in DOMAIN op.items |-> ProjectionField(op.items[i], schemas[op.in[1]])]

Schemas(ops) == FoldLeft(LAMBDA done, op : Append(done, OutSchema(op, done)), <<>>, ops)

-----------------------------------------------------------------------------
(* Column pruning: the columns any operator below the root reads.          *)

(* All columns of the entities projected, or collected, whole.             *)
EntityColumns(op, schema) ==
    LET whole == {i \in DOMAIN op.items : op.items[i].expr.ref[2] = "" /\ op.items[i].expr.op \in {"", "collect"}}
        of(i) == {f \in FieldsOf(schema, op.items[i].expr.ref[1]) : IsEntityField(schema[f])}
    IN UNION {FirstField(schema, of(i)).cols : i \in {j \in whole : of(j) # {}}}

(* The keys of the joins inside a pattern and between clauses, but not of  *)
(* a join of a single node with a variable-length pattern, whose traversal *)
(* is expected to provide them.                                            *)
SingleNode(op) == op.kind = "pattern" /\ Len(op.names) = 1
Traversal(op) == op.kind = "pattern" /\ op.long
JoinKeyColumns(ops, schemas, op) ==
    LET l == ops[op.in[1]]
        r == ops[op.in[2]]
        schema == OutSchema(op, schemas)
        ends == {pair[1] : pair \in op.pairs} \cup ({pair[2] : pair \in op.pairs} \ {"boundary"})
    IN IF (SingleNode(l) /\ Traversal(r)) \/ (Traversal(l) /\ SingleNode(r)) THEN {}
       ELSE UNION {KeyColumns(v) : v \in {e \in ends : IsEntityIn(schema, e)}}

(* Mutant: the keys of joins are not required.                             *)
RequiredByProjections(ops, schemas, op) ==
    IF op.kind = "project" THEN EntityColumns(op, schemas[op.in[1]]) ELSE {}

RequiredBy(ops, schemas, op) ==
    CASE op.kind = "project" -> EntityColumns(op, schemas[op.in[1]])
      [] op.kind = "join" -> JoinKeyColumns(ops, schemas, op)
      [] op.kind = "pattern" -> IF op.long \/ SingleNode(op) THEN {}
                                ELSE UNION {KeyColumns(v) : v \in ToSet(op.names)}
      [] OTHER -> {}

(* The columns the query requires, and the variables it refers to whole.   *)
(* "expanded" are the columns the resolver adds for an entity.             *)
Required(ops, schemas, resolved, expanded) ==
    [columns |-> UNION {{resolved[k][ref] : ref \in DOMAIN resolved[k]} \cup expanded[k]
                            \cup RequiredBy(ops, schemas, ops[k]) : k \in Reached(ops)},
     variables |-> UNION {{ref[1] : ref \in {q \in DOMAIN resolved[k] : q[2] = ""}} : k \in Reached(ops)}]

-----------------------------------------------------------------------------
(* Relations of patterns and joins.                                        *)

NoRelation == [cols |-> <<>>, did |-> {}, wrong |-> {}]
Read(rel, column) == IF column \in DOMAIN rel.cols THEN rel.cols[column] ELSE <<"missing", column>>
Missing(rel, columns) == IF columns \subseteq DOMAIN rel.cols THEN {} ELSE {"missing column"}

(* The two sources of a traversal are joined to it only where one of their *)
(* columns is required, and then with all of them; a single source always  *)
(* has its id; the joins of a pattern always pass the keys of a            *)
(* relationship on.                                                        *)
PatternColumns(op, required) ==
    LET All(v) == {<<v, p>> : p \in PropertiesOf(SortOf(v))}
        wanted(v) == All(v) \cap required.columns
        Kept(v) == CASE op.long -> IF \E c \in required.columns : c[1] = v THEN All(v) ELSE {}
                     [] SingleNode(op) \/ IsRelationship(v) -> KeyColumns(v) \cup wanted(v)
                     [] OTHER -> wanted(v)
    IN UNION {Kept(v) : v \in ToSet(op.names)}

(* A pattern some of whose nodes are joined to what is known already.      *)
PatternRelation(op, required, bound) ==
    LET Entity(v) == IF v \in DOMAIN bound THEN bound[v] ELSE <<SortOf(v), op.clause, v>>
    IN [cols |-> [c \in PatternColumns(op, required) |-> <<"prop", Entity(c[1]), c[2]>>],
        did |-> {<<"match", op.clause, [i \in DOMAIN op.names |-> Entity(op.names[i])]>>},
        wrong |-> {}]

(* Two keys that are equal are of the same node.                           *)
Unified(left, columnOf) ==
    LET known == {v \in DOMAIN columnOf : Read(left, columnOf[v])[1] = "prop"}
    IN [v \in known |-> Read(left, columnOf[v])[2]]
Joined(op, left, right, fromLeft, fromRight, wrong) ==
    [cols |-> [c \in fromLeft \cup fromRight |-> IF c \in fromLeft THEN Read(left, c) ELSE Read(right, c)],
     did |-> left.did \cup {IF op.optional THEN [d EXCEPT ![1] = "optional"] ELSE d : d \in right.did},
     wrong |-> left.wrong \cup wrong]

(* An ordinary join compares each key of an entity both sides declare, and *)
(* takes a column from the side whose schema declares it.                  *)
JoinRelation(op, left, rightOp, leftSchema, rightSchema, required) ==
    LET schema == leftSchema \o rightSchema
        keys == {pair[1] : pair \in {q \in op.pairs : IsEntityIn(schema, q[1]) /\ IsEntityIn(schema, q[2])}}
        keyOf == [v \in keys |-> <<v, "id">>]
        compared == {keyOf[v] : v \in keys}
        right == PatternRelation(rightOp, required, Unified(left, keyOf))
        values == UNION {f.cols : f \in {g \in ToSet(schema) :
                      /\ ~IsEntityField(g)
                      /\ g.alias \in required.variables \/ g.cols \cap required.columns # {}}}
        relationships == UNION {KeyColumns(f.alias) : f \in {g \in ToSet(schema) : g.sort = "rel"}}
        declared == values \cup relationships \cup (AllColumns(schema) \cap required.columns)
        (* required, declared nowhere, of a name of the left side *)
        assumed == {c \in required.columns \ AllColumns(schema) :
                        c[1] \in {leftSchema[i].alias : i \in DOMAIN leftSchema}}
        fromLeft == (declared \cap AllColumns(leftSchema)) \cup assumed
        fromRight == declared \ fromLeft
    IN Joined(op, left, right, fromLeft, fromRight,
              Missing(left, fromLeft \cup compared) \cup Missing(right, fromRight \cup compared)
                  \cup IF declared \cup assumed = {} THEN {"no column"} ELSE {})

(* A join with the CTE of a boundary, on the key of each node it projects; *)
(* the key of a traversal's target is prefixed twice.                      *)
BoundaryJoinRelation(op, boundary, left, rightOp, rightSchema, required) ==
    LET keys == {pair[1] : pair \in {q \in op.pairs : q[1] \in boundary.projected /\ IsEntityIn(rightSchema, q[1])}}
        aliasOf == [v \in keys |-> <<"", v>>]
        twice(v) == rightOp.long /\ v = rightOp.names[Len(rightOp.names)]
        compared == {<<v, IF twice(v) THEN v \o "_id" ELSE "id">> : v \in keys}
        right == PatternRelation(rightOp, required, Unified(left, aliasOf))
        fromRight == AllColumns(rightSchema) \cap (required.columns \cup compared)
    IN Joined(op, left, right, {<<"", boundary.items[i].as>> : i \in DOMAIN boundary.items}, fromRight,
              Missing(left, {aliasOf[v] : v \in keys}) \cup Missing(right, fromRight \cup compared))

-----------------------------------------------------------------------------
(* Relations of the other operators.                                       *)

Filtered(rel, columns) == {<<"filter", Read(rel, c)>> : c \in columns}

SelectRelation(op, rel, resolved) ==
    LET read == {resolved[ref] : ref \in op.where}
    IN [rel EXCEPT !.did = @ \cup Filtered(rel, read), !.wrong = @ \cup Missing(rel, read)]

UnwindRelation(op, rel, resolved) ==
    LET list == Read(rel, resolved[op.list])
    IN [cols |-> (<<"", op.as>> :> <<"each", op.clause, list>>) @@ rel.cols,
        did |-> rel.did \cup {<<"unwind", op.clause, list>>},
        wrong |-> rel.wrong \cup Missing(rel, {resolved[op.list]})]

(* An entity rendered as a structure: that entity when the columns are all *)
(* the properties of one.                                                  *)
Structure(rel, columns) ==
    LET entities == {Read(rel, c)[2] : c \in {d \in columns : Read(rel, d)[1] = "prop"}}
        whole(e) == {Read(rel, c) : c \in columns} = {<<"prop", e, p>> : p \in PropertiesOf(e[1])}
    IN IF \E e \in entities : whole(e) THEN CHOOSE e \in entities : whole(e)
       ELSE <<"struct", {<<c[2], Read(rel, c)>> : c \in columns}>>

EntityColumnsOf(schema, v) ==
    LET at == {i \in FieldsOf(schema, v) : IsEntityField(schema[i])}
    IN IF at = {} THEN {} ELSE FirstField(schema, at).cols

(* What collect(v) collects: the entity v is in the input schema, else the *)
(* required columns with its prefix, else (in a projection) its column.    *)
CollectedColumns(op, schema, v, resolved, required) ==
    LET prefixed == {c \in required.columns : c[1] = v}
    IN CASE EntityColumnsOf(schema, v) # {} -> EntityColumnsOf(schema, v)
         [] prefixed # {} -> prefixed
         [] op.kind = "boundary" -> {<<v, "id">>}
         [] OTHER -> {resolved[<<v, "">>]}
Collected(rel, columns) ==
    IF \E c \in columns : ~IsPrefixed(c) THEN <<"struct", {<<"id", Read(rel, c)>> : c \in columns}>>
    ELSE Structure(rel, columns)

(* The columns an item reads, and its value; an aggregate over "keys".     *)
ItemColumns(op, item, schema, resolved, required) ==
    IF item.expr.op = "collect" /\ item.expr.ref[2] = ""
    THEN CollectedColumns(op, schema, item.expr.ref[1], resolved, required)
    ELSE {resolved[item.expr.ref]}
ItemValue(rel, item, columns, keys) ==
    LET value == Read(rel, CHOOSE c \in columns : TRUE)
    IN CASE item.expr.op = "" -> value
         [] item.expr.op = "calc" -> <<"calc", value>>
         [] item.expr.op = "count" -> <<"agg", "count", value, keys>>
         [] item.expr.ref[2] = "" -> <<"agg", "collect", Collected(rel, columns), keys>>
         [] OTHER -> <<"agg", "collect", value, keys>>

(* Columns of the entities projected whole that the query requires, passed *)
(* on besides: not their keys, nor what an item reads already.             *)
ExtraColumns(op, resolved, required) ==
    LET whole == {i \in DOMAIN op.items : Bare(op.items[i].expr)}
        projected == {op.items[i].expr.ref : i \in {j \in DOMAIN op.items : op.items[j].expr.op = ""}}
                         \cup {resolved[op.items[i].expr.ref] : i \in whole}
    IN {c \in required.columns \ projected : \E i \in whole : c[1] = op.items[i].expr.ref[1]}

(* The outcome of a SELECT with the output columns "out", grouped by the   *)
(* terms of "by" (when "grouped"): an expression outside of the SELECT     *)
(* list sees the output, then the input where rows are not grouped.        *)
Sees(out, rel, grouped, by, column) ==
    \/ column \in DOMAIN out
    \/ column \in DOMAIN rel.cols /\ (grouped => rel.cols[column] \in by)
SeenAs(out, rel, column) == IF column \in DOMAIN out THEN out[column] ELSE Read(rel, column)
GroupKeys(terms) == Normal(UNION {Identity(t) : t \in terms})
Unseen(columns, Visible(_)) == IF \A c \in columns : Visible(c) THEN {} ELSE {"column not visible"}

(* A projection.  The root renders an entity as a structure under the      *)
(* alias; elsewhere, and where rows are grouped, the column of a variable  *)
(* keeps its own name whatever the alias is.                               *)
ProjectRelation(op, rel, schema, resolved, required, isRoot) ==
    LET items == op.items
        aggregates == Groups(items)
        grouped == aggregates \/ op.distinct
        keepsName(i) == Bare(items[i].expr) /\ (aggregates \/ ~isRoot)
        isStructure(i) == Bare(items[i].expr) /\ ~keepsName(i) /\ EntityColumnsOf(schema, items[i].expr.ref[1]) # {}
        columns(i) == IF isStructure(i) THEN EntityColumnsOf(schema, items[i].expr.ref[1])
                      ELSE ItemColumns(op, items[i], schema, resolved, required)
        extras == IF aggregates \/ ~isRoot THEN ExtraColumns(op, resolved, required) ELSE {}
        (* an item that refers to the alias of an aggregate is no key *)
        ofAggregate(ref) == ref[2] = "" /\ \E i \in DOMAIN items : Aggregated(items[i].expr) /\ items[i].as = ref[1]
        isKey(i) == ~Aggregated(items[i].expr) /\ (aggregates => ~ofAggregate(items[i].expr.ref))
        Plain(i) == IF isStructure(i) THEN Structure(rel, columns(i)) ELSE ItemValue(rel, items[i], columns(i), {})
        by == {Plain(i) : i \in {j \in DOMAIN items : isKey(j)}}
                  \cup IF aggregates THEN {Read(rel, c) : c \in extras} ELSE {}
        keys == GroupKeys(by)
        Value(i) == IF isStructure(i) THEN Plain(i) ELSE ItemValue(rel, items[i], columns(i), keys)
        Output(i) == IF keepsName(i) THEN resolved[items[i].expr.ref] ELSE <<"", items[i].as>>
        outputs == {Output(i) : i \in DOMAIN items}
        (* of a group without aggregates, any row's *)
        Passed(c) == IF ~aggregates /\ op.distinct /\ Normal(keys \cup {Read(rel, c)}) # keys
                     THEN <<"any", Read(rel, c)>> ELSE Read(rel, c)
        out == [c \in outputs \cup extras |->
                   IF c \in outputs THEN Value(CHOOSE i \in DOMAIN items : Output(i) = c) ELSE Passed(c)]
        visible(c) == Sees(out, rel, grouped, by, c)
        where == {resolved[ref] : ref \in op.having}
        outer == ~aggregates /\ \E ref \in op.having : ref[2] = "" /\ \E i \in DOMAIN items : items[i].as = ref[1]
        inner == ~aggregates /\ ~outer
        SortColumn(ref) ==
            LET same == {i \in DOMAIN items : items[i].expr = [op |-> "", ref |-> ref]}
            IN IF same = {} THEN resolved[ref] ELSE <<"", items[CHOOSE i \in same : TRUE].as>>
        inStructure(ref) == \E i \in DOMAIN items : isStructure(i) /\ ref \in columns(i)
        Sort(ref) == IF inStructure(ref) THEN Read(rel, ref) ELSE SeenAs(out, rel, SortColumn(ref))
        sorted == [k \in DOMAIN op.order |-> Sort(op.order[k])]
        read == rel.did \cup IF inner THEN Filtered(rel, where) ELSE {}
        afterGroup == IF grouped THEN {<<"group", keys, read>>} ELSE read
        having == afterGroup \cup IF aggregates THEN {<<"filter", SeenAs(out, rel, c)>> : c \in where} ELSE {}
        limited == IF op.limit THEN {<<"limit", sorted, having>>} ELSE having
    IN [cols |-> out,
        did |-> limited \cup IF outer THEN {<<"filter", IF c \in DOMAIN out THEN out[c] ELSE <<"missing", c>>>> : c \in where} ELSE {},
        wrong |-> rel.wrong
            \cup Missing(rel, extras \cup UNION {columns(i) : i \in DOMAIN items})
            \cup (IF \E i, j \in DOMAIN items : i # j /\ Output(i) = Output(j) THEN {"ambiguous column"} ELSE {})
            \cup (IF \E i \in DOMAIN items : aggregates /\ ~Aggregated(items[i].expr) /\ ~isKey(i)
                  THEN {"not grouped"} ELSE {})
            \cup (IF outer /\ ~(where \subseteq DOMAIN out) THEN {"missing column"} ELSE {})
            \cup (IF inner THEN Missing(rel, where) ELSE {})
            \cup (IF inner /\ where # {} /\ op.distinct THEN {"WHERE after GROUP BY"} ELSE {})
            \cup (IF aggregates THEN Unseen(where, visible) ELSE {})
            \cup Unseen({SortColumn(op.order[k]) : k \in {n \in DOMAIN op.order : ~inStructure(op.order[n])}}, visible)]

(* A boundary's CTE: each item under its alias, grouped by the keys.       *)
BoundaryRelation(op, rel, schema, resolved, required) ==
    LET items == op.items
        columns(i) == ItemColumns(op, items[i], schema, resolved, required)
        by == {ItemValue(rel, items[i], columns(i), {}) : i \in {j \in DOMAIN items : ~Aggregated(items[j].expr)}}
        keys == GroupKeys(by)
        out == [c \in {<<"", items[i].as>> : i \in DOMAIN items} |->
                   LET i == CHOOSE j \in DOMAIN items : items[j].as = c[2]
                   IN ItemValue(rel, items[i], columns(i), keys)]
        visible(c) == Sees(out, rel, TRUE, by, c)
        where == {resolved[ref] : ref \in op.having}
        order == {resolved[ref] : ref \in ToSet(op.order)}
        having == {<<"group", keys, rel.did>>} \cup {<<"filter", SeenAs(out, rel, c)>> : c \in where}
        sorted == [k \in DOMAIN op.order |-> SeenAs(out, rel, resolved[op.order[k]])]
    IN [cols |-> out,
        did |-> IF op.limit THEN {<<"limit", sorted, having>>} ELSE having,
        wrong |-> rel.wrong \cup Missing(rel, UNION {columns(i) : i \in DOMAIN items})
                      \cup Unseen(where \cup order, visible)]

(* The renderer finds no column for the ORDER BY of a boundary unless an   *)
(* item or its WHERE has the same reference.                               *)
Unrenderable(op, resolved) == op.kind = "boundary" /\ ~(ToSet(op.order) \subseteq DOMAIN resolved)

-----------------------------------------------------------------------------
(* The SQL of a plan.                                                      *)

Above(ops, at) == {k \in DOMAIN ops : at \in ToSet(ops[k].in)}
IsRoot(ops, at) == \A k \in Above(ops, at) : ops[k].kind = "union"

Relation(ops, schemas, resolved, required, done, at) ==
    LET op == ops[at]
        left == done[op.in[1]]
        leftOp == ops[op.in[1]]
    IN CASE op.kind = "pattern" -> PatternRelation(op, required, <<>>)
         [] op.kind = "join" /\ leftOp.kind = "boundary" ->
              BoundaryJoinRelation(op, leftOp, left, ops[op.in[2]], schemas[op.in[2]], required)
         [] op.kind = "join" ->
              JoinRelation(op, left, ops[op.in[2]], schemas[op.in[1]], schemas[op.in[2]], required)
         [] op.kind = "select" -> SelectRelation(op, left, resolved[at])
         [] op.kind = "unwind" -> UnwindRelation(op, left, resolved[at])
         [] op.kind = "boundary" -> BoundaryRelation(op, left, schemas[op.in[1]], resolved[at], required)
         [] op.kind = "project" ->
              ProjectRelation(op, left, schemas[op.in[1]], resolved[at], required, IsRoot(ops, at))
         [] OTHER -> left
Relations(ops, resolved, expanded) ==
    LET schemas == Schemas(ops)
        required == Required(ops, schemas, resolved, expanded)
        reached == Reached(ops)
        Render(done, at) == IF at \in reached
                            THEN Append(done, Relation(ops, schemas, resolved, required, done, at))
                            ELSE Append(done, NoRelation)
    IN FoldLeft(Render, <<>>, [at \in DOMAIN ops |-> at])

(* The CTEs, in the order they are written: from each source up to the     *)
(* root, what was not visited before.                                      *)
Upwards(ops, at) ==
    FoldLeft(LAMBDA path, k : IF \E below \in ToSet(ops[k].in) : below \in ToSet(path) THEN Append(path, k) ELSE path,
             <<at>>, [n \in 1..(Len(ops) - at) |-> at + n])
CTEs(ops) ==
    LET isCTE(k) == ops[k].kind = "boundary" \/ Traversal(ops[k])
        sources == SelectSeq([k \in DOMAIN ops |-> k], LAMBDA k : ops[k].kind = "pattern")
        Once(visited, k) == IF k \in ToSet(visited) THEN visited ELSE Append(visited, k)
        visited == FoldLeft(LAMBDA v, s : FoldLeft(Once, v, Upwards(ops, s)), <<>>, sources)
    IN SelectSeq(visited, isCTE)

(* A CTE that reads a traversal written after it has a name for it that    *)
(* the traversal, numbered when it is written, will not have.              *)
UnknownCTEs(ops) ==
    LET ctes == CTEs(ops)
    IN {j \in DOMAIN ctes : \E i \in 1..(j - 1) : ctes[j] \in ToSet(Upstream(ops, ctes[i]))}
=============================================================================
