----------------------------- MODULE SqlEngine -----------------------------
(***************************************************************************)
(* What Databricks SQL computes for a rendered expression.  The engine is  *)
(* outside the repository: this is its documented behaviour for the        *)
(* operators the renderer writes.  A scope gives the columns of the row,   *)
(* the values bound by enclosing lambdas, the parameters and the tables.   *)
(* Err is a query the engine refuses or that fails while it runs.          *)
(***************************************************************************)
EXTENDS ExpressionVisitor

WithLambda(sc, names, vs) ==
    [sc EXCEPT !.lam = [n \in Range(names) |-> vs[CHOOSE i \in DOMAIN names : names[i] = n]] @@ @]

Column(sc, name) == IF name \in DOMAIN sc.cols THEN sc.cols[name] ELSE Err

RunName(sc, name) == IF name \in DOMAIN sc.lam THEN sc.lam[name] ELSE Column(sc, <<name>>)

RunField(sc, name, field) ==
    CASE RunName(sc, name) = Null -> Null
      [] Type(RunName(sc, name)) = "struct" /\ field \in DOMAIN RunName(sc, name)[2] ->
            RunName(sc, name)[2][field]
      [] OTHER -> Err

\* "/" is the division of doubles.
Divide(a, b) ==
    LET Apply(x, y) == CASE {Type(x), Type(y)} # {"int"} \/ y[2] = 0 -> Err
                         [] Remainder(x[2], y[2]) = 0 -> Number(Quotient(x[2], y[2]))
                         [] OTHER -> Frac(x[2], y[2])
    IN  Strict2(a, b, Apply)

RunOp(op, a, b) ==
    CASE op = "and" -> And3(a, b)
      [] op = "or" -> Or3(a, b)
      [] op = "xor" -> Or3(And3(a, Not3(b)), And3(Not3(a), b))
      [] op \in {"=", "<>", "<", ">", "<=", ">="} -> Compare3(op, a, b)
      [] op = "/" -> Divide(a, b)
      [] OTHER -> Arith(op, a, b)

OnList(v, Op(_)) == IF Type(v) = "list" THEN Op(v[2]) ELSE IF IsNull(v) THEN Null ELSE Err

RunPredicate(f, conds) ==
    CASE f = "FORALL" -> All3(conds)
      [] f = "EXISTS" -> Any3(conds)

\* LEAST and GREATEST skip nulls, so a null bound normalises to the length.
Norm(v, n) == IF IsNull(v) THEN n
              ELSE IF v[2] < 0 THEN (IF n + v[2] < 0 THEN 0 ELSE n + v[2])
              ELSE IF v[2] > n THEN n ELSE v[2]

\* A literal NULL bound was replaced by the open end when the SQL was written.
RunSlice(s, vs) ==
    OnList(vs[1], LAMBDA q :
        LET start == IF Kid(s, 2) = Leaf("lit", <<Null>>) THEN 0 ELSE Norm(vs[2], Len(q))
        IN  IF Err \in Range(vs) THEN Err ELSE List(SubSeq(q, start + 1, Norm(vs[3], Len(q)))))

RunSequence(a, b) ==
    LET Count(x, y) == IF x[2] <= y[2]
                       THEN List([i \in 1..y[2] - x[2] + 1 |-> Number(x[2] + i - 1)])
                       ELSE List([i \in 1..x[2] - y[2] + 1 |-> Number(x[2] - i + 1)])
    IN  Strict2(a, b, Count)

RunConcat(a, b) ==
    LET Join(x, y) == IF {Type(x), Type(y)} \in {{"list"}, {"str"}} THEN <<Type(x), x[2] \o y[2]>> ELSE Err
    IN  Strict2(a, b, Join)

RunString(f, a, b) ==
    LET Test(x, y) ==
            CASE {Type(x), Type(y)} # {"str"} -> Err
              [] f = "STARTSWITH" -> Bool(IsPrefix(y[2], x[2]))
              [] f = "ENDSWITH" -> Bool(IsSuffix(y[2], x[2]))
              [] OTHER -> Bool(\E i \in 0..Len(x[2]) - Len(y[2]) : SubSeq(x[2], i + 1, i + Len(y[2])) = y[2])
    IN  Strict2(a, b, Test)

ArrayContains(vs) ==
    IF Null \in Range(vs) THEN Null ELSE OnList(vs[1], LAMBDA q : In3(vs[2], q))

RunFunction(s, vs) ==
    LET f == First(s)
    IN  CASE f = "COALESCE" -> LET at == {i \in DOMAIN vs : ~IsNull(vs[i])}
                               IN  IF at = {} THEN Null ELSE vs[CHOOSE i \in at : \A j \in at : i <= j]
          [] f # "COALESCE" /\ Err \in Range(vs) -> Err
          [] f = "NOT" -> Not3(vs[1])
          [] f = "-" -> Arith("-", Number(0), vs[1])
          [] f = "IS NULL" -> Bool(IsNull(vs[1]))
          [] f = "IS NOT NULL" -> Bool(~IsNull(vs[1]))
          [] f \in {"STARTSWITH", "ENDSWITH", "CONTAINS"} -> RunString(f, vs[1], vs[2])
          [] f = "SEQUENCE" -> RunSequence(vs[1], vs[2])
          [] f = "SIZE" -> OnList(vs[1], LAMBDA q : Number(Len(q)))
          [] f = "LENGTH" -> IF Type(vs[1]) = "str" THEN Number(Len(vs[1][2])) ELSE IF IsNull(vs[1]) THEN Null ELSE Err
          [] f = "ABS" -> IF Type(vs[1]) = "int" /\ vs[1][2] < 0 THEN Number(-vs[1][2]) ELSE vs[1]
          [] f = "GET" -> OnList(vs[1], LAMBDA q :
                LET at == IF IsNull(vs[2]) THEN -1 ELSE IF vs[2][2] < 0 THEN Len(q) + vs[2][2] ELSE vs[2][2]
                IN  IF at \in 0..Len(q) - 1 THEN q[at + 1] ELSE Null)
          [] f = "SLICE" -> RunSlice(s, vs)
          [] f = "CONCAT" -> RunConcat(vs[1], vs[2])
          [] f = "ARRAY_CONTAINS" -> ArrayContains(vs)
          [] f = "CURRENT_TIMESTAMP" -> Now
          [] f = "TO_TIMESTAMP" -> vs[1]
          [] f = "PERCENTILE_CONT" -> vs[1]

\* The subquery of a pattern: rows of the edge table, joined with the table of
\* the last node when it has a label.  A table that holds every type of edge,
\* or of node, is not filtered by type.
RowsOf(x, sc) ==
    {e \in sc.edges : /\ sc.shared \/ e.type = x.type
                      /\ x.label = "" \/ (\E n \in sc.nodes : n.props["id"] = e[x.far] /\ (sc.shared \/ n.label = x.label))}

RunExists(x, conds, sc) ==
    LET outer == Column(sc, <<x.outer, "id">>)
        Row(e) == IF x.disjoined THEN (e[x.near] = outer /\ conds[1] = True) \/ conds[2] = True
                  ELSE e[x.near] = outer /\ \A i \in DOMAIN conds : conds[i] = True
    IN  IF outer = Err \/ Err \in Range(conds) THEN Err ELSE Bool(\E e \in RowsOf(x, sc) : Row(e))

RECURSIVE Run(_, _)
Run(s, sc) ==
    LET vs == [i \in DOMAIN Kids(s) |-> Run(Kid(s, i), sc)]
        Each(names, q) == [j \in DOMAIN q |-> Run(Last(Kids(s)), WithLambda(sc, names, <<q[j]>>))]
    IN  CASE Kind(s) = "lit" -> First(s)
          [] Kind(s) = "bind" -> sc.params[First(s)]
          [] Kind(s) = "col" -> Column(sc, Info(s))
          [] Kind(s) = "ident" -> RunName(sc, First(s))
          [] Kind(s) = "field" -> RunField(sc, Info(s)[1], Info(s)[2])
          [] Kind(s) = "interval" -> DurationOf(First(s))
          [] Kind(s) = "op" /\ First(s) = "in" ->
                In3(vs[1], [i \in DOMAIN Kids(Kid(s, 2)) |-> Run(Kid(Kid(s, 2), i), sc)])
          [] Kind(s) = "op" /\ First(s) # "in" -> RunOp(First(s), vs[1], vs[2])
          [] Kind(s) = "row" -> IF Kids(s) = <<>> \/ Err \in Range(vs) THEN Err
                                ELSE IF Len(vs) = 1 THEN vs[1] ELSE <<"row", vs>>
          [] Kind(s) = "array" -> AsList(vs)
          [] Kind(s) = "fn" -> RunFunction(s, vs)
          [] Kind(s) = "case" ->
                LET first == IF First(s) THEN 2 ELSE 1
                    n == (Len(vs) - (first - 1)) \div 2
                    Taken(k) == IF First(s) THEN Eq3(vs[1], vs[first + 2 * k]) ELSE vs[first + 2 * k]
                    hits == {k \in 0..n - 1 : Taken(k) = True}
                IN  IF \E k \in 0..n - 1 : ~Logical(Taken(k)) THEN Err
                    ELSE IF hits # {} THEN vs[first + 2 * (CHOOSE k \in hits : \A l \in hits : k <= l) + 1]
                    ELSE IF Info(s)[2] THEN Last(vs) ELSE Null
          [] Kind(s) = "hof" -> OnList(vs[1], LAMBDA q :
                LET each == Each(<<Info(s)[2]>>, q)
                IN  CASE First(s) = "TRANSFORM" -> AsList(each)
                      [] First(s) = "FILTER" -> IF \E i \in DOMAIN each : ~Logical(each[i]) THEN Err
                                                ELSE List(Keep(q, each))
                      [] OTHER -> RunPredicate(First(s), each))
          [] Kind(s) = "aggregate" -> OnList(vs[2], LAMBDA q :
                FoldLeft(LAMBDA acc, v : Run(Kid(s, 3), WithLambda(sc, Info(s), <<acc, v>>)), vs[1], q))
          [] Kind(s) = "exists" -> IF First(s).known THEN RunExists(First(s), vs, sc) ELSE True
          [] OTHER -> Err

\* The engine analyses the whole statement before it runs it: every column
\* exists, a membership has a list of values, nothing is left untranslated.
RECURSIVE Analyses(_, _)
Analyses(s, sc) ==
    LET Under(i) == CASE Kind(s) = "hof" /\ i = 2 -> WithLambda(sc, <<Info(s)[2]>>, <<Null>>)
                      [] Kind(s) = "aggregate" /\ i = 3 -> WithLambda(sc, Info(s), <<Null, Null>>)
                      [] OTHER -> sc
    IN  /\ \A i \in DOMAIN Kids(s) : Analyses(Kid(s, i), Under(i))
        /\ Kind(s) = "col" => Info(s) \in DOMAIN sc.cols
        /\ Kind(s) = "ident" => RunName(sc, First(s)) # Err
        /\ Kind(s) = "field" => RunName(sc, Info(s)[1]) # Err
        /\ Kind(s) = "row" => Kids(s) # <<>>
        /\ Kind(s) = "op" /\ First(s) = "in" => Kind(Kid(s, 2)) = "row"
        /\ Kind(s) = "fn" /\ First(s) = "ARRAY_CONTAINS" => Kid(s, 2) # Leaf("lit", <<Null>>)
        /\ Kind(s) \notin {"cypher", "raise"}

Execute(s, sc) == IF Analyses(s, sc) THEN Run(s, sc) ELSE Err
=============================================================================
