---------------------------- MODULE Expressions ----------------------------
(***************************************************************************)
(* One operator of a plan and the expressions it carries, from Cypher text *)
(* to the value the SQL computes: the visitor builds the ASTs, the column  *)
(* resolver walks them in order over one symbol table, the renderer writes *)
(* each with the references the resolver left, and the engine runs them on *)
(* a row.  A query is refused as soon as a step raises.                    *)
(***************************************************************************)
EXTENDS ExpressionRenderer, ExpressionMeaning, SqlEngine

CONSTANTS Queries,     \* [where: the place of the expressions, trees, shared tables]
          Rows,        \* variable -> value
          Symbols,     \* variable -> Entity or ValueAlias
          Params, Nodes, Edges

VARIABLES query, phase, asts, walk, sqls, row, results
vars == <<query, phase, asts, walk, sqls, row, results>>

Places == {"where", "return", "edge"}
PlaceContext == [where |-> Where, return |-> Clause, edge |-> EdgeFilter]

------------------------------------------------------------------------
(* The row, as Cypher and as the engine see it *)

Environment(r) == [vars |-> r, params |-> Params, nodes |-> Nodes, edges |-> Edges]

EntityColumns(r) ==
    [k \in UNION {{<<n, p>> : p \in DOMAIN r[n][2]} : n \in {m \in DOMAIN r : Symbols[m] = Entity}}
        |-> r[k[1]][2][k[2]]]
AliasColumns(r) == [k \in {<<n>> : n \in {m \in DOMAIN r : Symbols[m] = ValueAlias}} |-> r[k[1]]]
NoColumns == [k \in {} |-> Null]

\* An edge filter is run inside the traversal, where only the edge is in scope.
Scope(r) ==
    LET inside == query.where = "edge"
    IN  [cols |-> IF inside THEN NoColumns ELSE EntityColumns(r) @@ AliasColumns(r),
         lam |-> IF inside THEN [n \in {"e"} |-> r[n]] ELSE NoColumns,
         params |-> Params, nodes |-> Nodes, edges |-> Edges, shared |-> query.shared]

------------------------------------------------------------------------
Init ==
    /\ query \in Queries
    /\ phase = "text"
    /\ asts = <<>> /\ walk = <<>> /\ sqls = <<>> /\ results = <<>>
    /\ row = NoColumns

Parse ==
    /\ phase = "text"
    /\ asts' = [i \in DOMAIN query.trees |-> VisitExpression(query.trees[i])]
    /\ phase' = "parsed"
    /\ UNCHANGED <<query, walk, sqls, row, results>>

\* The expressions of the operator, one after the other, over one symbol table:
\* what each leaves in the table is there for the next.
Walks(as) ==
    LET Start(symbols) == [symbols |-> symbols, refs |-> [k \in {} |-> Null], failed |-> FALSE]
    IN  FoldLeft(LAMBDA ws, a :
                    Append(ws, Resolve(a, Start(IF ws = <<>> THEN Symbols ELSE Last(ws).symbols))),
                 <<>>, as)

ResolveOperator ==
    /\ phase = "parsed"
    /\ walk' = IF query.where = "edge" THEN <<>> ELSE Walks(asts)
    /\ phase' = IF \E i \in DOMAIN walk' : walk'[i].failed THEN "refused" ELSE "resolved"
    /\ UNCHANGED <<query, asts, sqls, row, results>>

\* A reference is looked up by its text: the first expression of the operator
\* that has it decides.
OperatorRefs(ws) == FoldRight(LAMBDA w, refs : w.refs @@ refs, ws, [k \in {} |-> Null])

RenderOperator ==
    /\ phase = "resolved"
    /\ sqls' = [i \in DOMAIN asts |-> Render(asts[i], PlaceContext[query.where], OperatorRefs(walk))]
    /\ phase' = IF \E i \in DOMAIN sqls' : Raised(sqls'[i]) # {} THEN "refused" ELSE "rendered"
    /\ UNCHANGED <<query, asts, walk, row, results>>

RunOperator ==
    /\ phase = "rendered"
    /\ row' \in Rows
    /\ results' = [i \in DOMAIN sqls |-> Execute(sqls[i], Scope(row'))]
    /\ phase' = "answered"
    /\ UNCHANGED <<query, asts, walk, sqls>>

Next == Parse \/ ResolveOperator \/ RenderOperator \/ RunOperator

Spec == Init /\ [][Next]_vars

------------------------------------------------------------------------
(* The shapes the translation reads otherwise than openCypher does: they   *)
(* are named one by one, so that every other expression is checked.        *)

\* Rules the visitor decides by their text, or folds into something else.
Misread(t) ==
    \E u \in Subtrees(t) :
        \/ Kind(u) = "not" /\ First(u) % 2 = 0
        \/ FirstWord(u) \in SpelledNot
        \/ Kind(u) = "cmp" /\ Len(Info(u)) > 1
        \/ /\ Kind(u) = "suffix" /\ First(u) \in {"starts", "ends", "contains"}
           /\ WordsIn(Kid(u, 2)) \cap (SpelledStarts \cup SpelledEnds) # {}
        \/ Kind(u) = "dot" /\ Kind(Kid(u, 1)) # "var"
        \/ Kind(u) = "case" /\ Info(u) = <<TRUE, FALSE>>
        \/ Kind(u) = "slice" /\ Leaf("lit", <<Null>>) \in Range(Kids(u))

\* Every subexpression with the way it is written.
RECURSIVE Sites(_, _)
Sites(a, c) ==
    {<<a, c>>} \cup UNION {Sites(Kid(a, i), KidContext(a, c, i)) : i \in DOMAIN Kids(a)}

MayBeNull(a) ==
    \E u \in Subtrees(a) : \/ Kind(u) = "prop" /\ Info(u)[2] # NoProperty
                           \/ u = Value(Null)
                           \/ Kind(u) = "case" /\ ~Info(u)[2]
                           \/ Kind(u) = "fun" /\ First(u) = "LIST_INDEX"

Mentions(a, name) == \E u \in Subtrees(a) : Kind(u) = "prop" /\ Info(u)[1] = name

\* A list literal is a row of SQL, but for the operand of IN and of a concatenation.
RowForArray(u, c) ==
    \E i \in DOMAIN Kids(u) :
        /\ Kind(Kid(u, i)) = "list"
        /\ ~(u[1] = "bin" /\ First(u) = "in" /\ i = 2 /\ Kids(Kid(u, i)) # <<>>)
        /\ ~(u[1] = "bin" /\ First(u) = "+" /\ c.way = "clause")

\* ANY and NONE written with ARRAY_CONTAINS.
AsMembership(u) == Kind(u) = "quant" /\ First(u) \in {"any", "none"} /\ EqualitySide(u) # 0
MemberSought(u) == Kid(Kid(u, 2), EqualitySide(u))

\* An EXISTS of one relationship, pointing where the plan has noted it, whose
\* far node is free and has a label the schema distinguishes.
PlainPattern(u, c) ==
    LET p == First(u)
    IN  /\ ~p.subquery
        /\ Len(p.rels) = 1
        /\ p.rels[1].dir = "FORWARD" \/ (p.rels[1].dir = "BACKWARD" /\ c.directed)
        /\ p.nodes[2] \notin DOMAIN Symbols
        /\ ~query.shared
        /\ \A i \in DOMAIN Kids(u) : ~(Kind(Kid(u, i)) = "bin" /\ First(Kid(u, i)) \in {"or", "xor"})

UnlikeCypher(u, c) ==
    \/ Kind(u) = "bin" /\ First(u) = "/"
    \/ Kind(u) = "bin" /\ First(u) = "in" /\ Kind(Kid(u, 2)) = "param" /\ MayBeNull(Kid(u, 1))
    \/ Kind(u) = "fun" /\ First(u) = "LIST_SLICE"
          /\ \E i \in {2, 3} : Kid(u, i) # Value(Null) /\ MayBeNull(Kid(u, i))
    \/ Kind(u) = "fun" /\ First(u) = "RANGE"
          /\ ((\A i \in {1, 2} : Kind(Kid(u, i)) = "value") => First(Kid(u, 1))[2] > First(Kid(u, 2))[2])
    \/ Kind(u) = "fun" /\ First(u) \in {"DURATION", "DATETIME"} /\ c.way = "edge"
          /\ \E v \in Range(Kids(u)) : First(u) = "DATETIME" \/ Len(First(v)[2]) > 1 \/ First(v)[2][1][2] = "W"
    \/ AsMembership(u) /\ MayBeNull(MemberSought(u))
    \/ Kind(u) = "quant" /\ First(u) = "single" /\ MayBeNull(u)
    \/ RowForArray(u, c)
    \/ Kind(u) = "exists" /\ ~PlainPattern(u, c)

LambdaNames(u) ==
    CASE Kind(u) = "quant" -> {Info(u)[2]}
      [] Kind(u) = "compr" -> {First(u)}
      [] Kind(u) = "reduce" -> Range(Info(u))
      [] OTHER -> {}

\* A lambda variable of the operator is named like an entity of the row, and
\* the bare name is looked up somewhere in the operator.
HidesEntity ==
    LET sites == UNION {Sites(asts[j], Clause) : j \in DOMAIN asts}
    IN  \E x, y \in sites : \E n \in LambdaNames(x[1]) :
            n \in DOMAIN Symbols /\ Symbols[n] = Entity /\ y[1] = Property(n, NoProperty) /\ n \notin y[2].vars

Refusable(u, c) ==
    \/ Kind(u) \in {"raise", "agg"} \/ (Kind(u) = "fun" /\ First(u) \in {"INVALID", "TYPE"})
    \/ Kind(u) = "prop" /\ InvalidProperty(Entity, Info(u)[1], Info(u)[2])
    \/ Kind(u) = "prop" /\ Info(u)[2] # NoProperty /\ c.way # "edge"
          /\ Info(u)[1] \notin c.vars \cup DOMAIN EntityProperties
    \/ Kind(u) = "bin" /\ First(u) = "in" /\ Kind(Kid(u, 2)) # "list"
          /\ ~(Kind(Kid(u, 2)) = "param" /\ c.way = "clause" /\ Kid(u, 1) # Value(Null))
    \/ Kind(u) = "bin" /\ First(u) = "+"
          /\ \/ c.way # "clause" /\ \E i \in {1, 2} : IsArray(Kid(u, i)) \/ IsString(Kid(u, i))
             \/ \A i \in {1, 2} : StaticType(Kid(u, i)) = "unknown"
             \/ Cardinality({i \in {1, 2} : IsArray(Kid(u, i))}) = 1
                   /\ \E i \in {1, 2} : StaticType(Kid(u, i)) \in {"int", "str", "bool"}
    \/ c.way = "edge" /\ Kind(u) \notin EdgeKinds
    \/ c.way \in {"edge", "reduce"} /\ Kind(u) = "fun" /\ First(u) \in {"LIST_INDEX", "LIST_SLICE"}
    \/ c.way = "reduce" /\ Kind(u) = "fun" /\ First(u) \in {"DURATION", "DATETIME"}
    \/ Kind(u) = "fun" /\ First(u) = "SIZE"
          /\ StaticType(Kid(u, 1)) \notin {"list"} /\ (c.way \in {"edge", "reduce"} \/ Kind(Kid(u, 1)) = "fun")
    \/ Kind(u) = "exists" /\ (c.way = "lambda"
          \/ \E k \in Range(Kids(u)) : \E n \in Range(First(u).nodes) : n \notin DOMAIN Symbols /\ Mentions(k, n))
    \/ AsMembership(u) /\ (Mentions(MemberSought(u), Info(u)[2]) \/ MemberSought(u) = Value(Null))

Listed(i, Shape(_, _)) ==
    \/ Misread(query.trees[i])
    \/ Kind(asts[i]) = "list"
    \/ \E site \in Sites(asts[i], PlaceContext[query.where]) : Shape(site[1], site[2])

Meaning(i, r) == Means(query.trees[i], Environment(r))

------------------------------------------------------------------------
(* Properties *)

\* The SQL of an expression that runs has the value openCypher gives the
\* expression, null included, wherever the expression is written: in a clause,
\* in a lambda of a lambda, in a reducer, in an edge filter.  (The renderer's
\* four methods re-implement each other's cases; the tests compare SQL text.)
\* Left out: trees the visitor reads as others (Misread), lists and subtrees the
\* renderer gives another value (UnlikeCypher), and operators in which a lambda
\* variable hides an entity (HidesEntity).
ValueIsCyphers ==
    phase = "answered" =>
        \A i \in DOMAIN results :
            \/ results[i] \in {Meaning(i, row), Err} \/ Meaning(i, row) = Err
            \/ Listed(i, UnlikeCypher) \/ HidesEntity

\* An expression with a value is translated and runs, unless it has one of the
\* shapes listed (those of ValueIsCyphers, and Refusable): nothing else is
\* refused, and nothing else fails in the engine.
RunsUnlessListed ==
    LET Excused(i) == Listed(i, UnlikeCypher) \/ Listed(i, Refusable) \/ HidesEntity
    IN  /\ phase = "refused" =>
              \E i \in DOMAIN asts : Excused(i) \/ \A r \in Rows : Meaning(i, r) = Err
        /\ phase = "answered" =>
              \A i \in DOMAIN results : results[i] # Err \/ Meaning(i, row) = Err \/ Excused(i)

\* An expression is accepted and rendered the same whatever else its operator
\* carries: the lambdas of one expression leave the names of the next as they
\* were, and the references of one are taken for those of another only if the
\* two use one text for two things (Clash).
TogetherAsAlone ==
    LET Alone(i) == Walks(<<asts[i]>>)[1]
        Clash(i) == \E j \in DOMAIN asts : \E k \in DOMAIN Alone(j).refs \cap DOMAIN Alone(i).refs :
                        Alone(j).refs[k] # Alone(i).refs[k]
    IN  query.where # "edge" =>
        /\ phase \in {"resolved", "refused"} => \A i \in DOMAIN asts : walk[i].failed => Alone(i).failed
        /\ phase = "rendered" => \A i \in DOMAIN asts :
              \/ sqls[i] = Render(asts[i], PlaceContext[query.where], Alone(i).refs)
              \/ Alone(i).failed \/ Clash(i)

\* A predicate on one value holds for it alike as a filter in the traversal, as
\* the body of a lambda over it, and in a clause, except a predicate that is
\* Misread or a list, or has a part the renderer writes UnlikeCypher: there one
\* of the three methods may differ from the others.
PlacesAgree ==
    phase = "answered" /\ query.where = "edge" =>
        \A i \in DOMAIN asts :
            LET refs == OperatorRefs(Walks(<<asts[i]>>))
                e == [n \in {"e"} |-> row["e"]]
                lambda == Execute(Render(asts[i], Lambda("e"), refs), [Scope(row) EXCEPT !.lam = e])
                clause == Execute(Render(asts[i], Clause, refs), [Scope(row) EXCEPT !.lam = NoColumns, !.cols = EntityColumns(row)])
                Values == {results[i], lambda, clause} \ {Err}
            IN  Cardinality(Values) <= 1 \/ Listed(i, UnlikeCypher)
=============================================================================
