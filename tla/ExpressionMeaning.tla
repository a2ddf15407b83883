------------------------- MODULE ExpressionMeaning -------------------------
(***************************************************************************)
(* What openCypher says a parse tree means in an environment: a value per  *)
(* variable and parameter, and the graph the patterns are matched in.      *)
(* This is the specification the translated SQL is compared with.          *)
(***************************************************************************)
EXTENDS ExpressionVisitor

Known(env, name) == name \in DOMAIN env.vars
With(env, name, v) == [env EXCEPT !.vars = (name :> v) @@ @]

ListOp(v, Op(_)) == IF IsNull(v) THEN Null ELSE IF Type(v) = "list" THEN Op(v[2]) ELSE Err

\* xs[i]: from 0, or from the end when negative; null outside the list.
ElementAt(vs, i) ==
    IF Type(i) # "int" THEN (IF IsNull(i) THEN Null ELSE Err)
    ELSE LET at == IF i[2] < 0 THEN Len(vs) + i[2] ELSE i[2]
         IN  IF at \in 0..Len(vs) - 1 THEN vs[at + 1] ELSE Null

\* xs[a..b]: the end is excluded, negative bounds count from the end, and a
\* null bound makes the slice null.
Clamp(i, n) == IF i < 0 THEN (IF n + i < 0 THEN 0 ELSE n + i) ELSE IF i > n THEN n ELSE i
SliceOf(vs, a, b) ==
    IF Null \in {a, b} THEN Null ELSE List(SubSeq(vs, Clamp(a[2], Len(vs)) + 1, Clamp(b[2], Len(vs))))

MeansArith(op, a, b) ==
    CASE op = "+" /\ "null" \notin {Type(a), Type(b)} /\ "list" \in {Type(a), Type(b)} ->
            LET Elements(v) == IF Type(v) = "list" THEN v[2] ELSE <<v>>
            IN  IF Err \in {a, b} THEN Err ELSE List(Elements(a) \o Elements(b))
      [] op = "+" /\ {Type(a), Type(b)} = {"str"} -> Str(a[2] \o b[2])
      [] op = "/" -> IF {Type(a), Type(b)} # {"int"} \/ b = Number(0) THEN Strict2(a, b, LAMBDA x, y : Err)
                     ELSE Number(Quotient(a[2], b[2]))
      [] OTHER -> Arith(op, a, b)

StringTest(kind, s, t) ==
    CASE kind = "starts" -> Bool(IsPrefix(t, s))
      [] kind = "ends" -> Bool(IsSuffix(t, s))
      [] kind = "contains" -> Bool(\E i \in 0..Len(s) - Len(t) : SubSeq(s, i + 1, i + Len(t)) = t)

MeansSuffix(kind, vs) ==
    CASE Err \in Range(vs) -> Err
      [] kind = "isnull" -> Bool(IsNull(vs[1]))
      [] kind = "isnotnull" -> Bool(~IsNull(vs[1]))
      [] kind = "in" -> ListOp(vs[2], LAMBDA q : In3(vs[1], q))
      [] OTHER -> Strict2(vs[1], vs[2], LAMBDA s, t :
                      IF {Type(s), Type(t)} = {"str"} THEN StringTest(kind, s[2], t[2]) ELSE Err)

\* single() is unknown when an unknown element could change the count.
Single(conds) ==
    LET holds == Cardinality({i \in DOMAIN conds : conds[i] = True})
        unknown == \E i \in DOMAIN conds : IsNull(conds[i])
    IN  IF holds > 1 THEN False ELSE IF unknown THEN Null ELSE Bool(holds = 1)

Quantified(type, conds) ==
    CASE type = "all" -> All3(conds)
      [] type = "any" -> Any3(conds)
      [] type = "none" -> Not3(Any3(conds))
      [] type = "single" -> IF Err \in Range(conds) THEN Err ELSE Single(conds)

MeansCall(f, vs) ==
    CASE f # "coalesce" /\ Err \in Range(vs) -> Err
      [] f = "size" -> IF Type(vs[1]) \in {"list", "str"} THEN Number(Len(vs[1][2]))
                       ELSE IF IsNull(vs[1]) THEN Null ELSE Err
      [] f = "coalesce" -> LET at == {i \in DOMAIN vs : ~IsNull(vs[i])}
                           IN  IF at = {} THEN Null ELSE vs[CHOOSE i \in at : \A j \in at : i <= j]
      [] f = "range" -> Strict2(vs[1], vs[2], LAMBDA a, b :
                            List([i \in 1..(IF b[2] < a[2] THEN 0 ELSE b[2] - a[2] + 1) |-> Number(a[2] + i - 1)]))
      [] f = "abs" -> IF Type(vs[1]) = "int" THEN Number(IF vs[1][2] < 0 THEN -vs[1][2] ELSE vs[1][2]) ELSE vs[1]
      [] f = "duration" -> DurationOf(vs[1][2])
      [] f = "datetime" -> IF vs = <<>> THEN Now ELSE vs[1]
      [] f = "percentilecont" -> vs[1]              \* of a group of one row
      [] f = "head" -> ListOp(vs[1], LAMBDA q : ElementAt(q, Number(0)))
      [] OTHER -> Err

\* A pattern holds if its nodes can be bound, those that are bound already to
\* themselves, with an edge of the type and direction between neighbours.
Matches(pattern, env, binding) ==
    /\ \A i \in DOMAIN pattern.nodes :
          /\ pattern.labels[i] \in {"", binding[i].label}
          /\ Known(env, pattern.nodes[i]) => env.vars[pattern.nodes[i]] = Struct(binding[i].props)
    /\ \A i, j \in DOMAIN pattern.nodes : pattern.nodes[i] = pattern.nodes[j] => binding[i] = binding[j]
    /\ \A i \in DOMAIN pattern.rels :
          LET Edge(x, y) == [type |-> pattern.rels[i].type, src |-> x.props["id"], dst |-> y.props["id"]]
              forward == Edge(binding[i], binding[i + 1])
              backward == Edge(binding[i + 1], binding[i])
          IN  CASE pattern.rels[i].dir = "FORWARD" -> forward \in env.edges
                [] pattern.rels[i].dir = "BACKWARD" -> backward \in env.edges
                [] OTHER -> {forward, backward} \cap env.edges # {}

BindAll(pattern, env, binding) ==
    [env EXCEPT !.vars = [n \in Range(pattern.nodes) |->
        Struct(binding[CHOOSE i \in DOMAIN pattern.nodes : pattern.nodes[i] = n].props)] @@ @]

RECURSIVE Means(_, _)
Means(t, env) ==
    LET vs == [i \in DOMAIN Kids(t) |-> Means(Kid(t, i), env)]
        Under(name, v, i) == Means(Kid(t, i), With(env, name, v))
        Each(name, q, i) == [j \in DOMAIN q |-> Under(name, q[j], i)]
        Chain(Op(_, _, _)) == FoldLeftDomain(LAMBDA v, i : IF i = 1 THEN v ELSE Op(Info(t)[i - 1], v, vs[i]), vs[1], vs)
    IN  CASE Kind(t) = "or" -> Any3(vs)
          [] Kind(t) = "and" -> All3(vs)
          [] Kind(t) = "xor" -> FoldLeft(Xor3, False, vs)
          [] Kind(t) = "not" -> IF First(t) % 2 = 1 THEN Not3(vs[1]) ELSE Not3(Not3(vs[1]))
          [] Kind(t) = "cmp" -> All3([i \in DOMAIN Info(t) |-> Compare3(Info(t)[i], vs[i], vs[i + 1])])
          [] Kind(t) = "suffix" -> MeansSuffix(First(t), vs)
          [] Kind(t) \in {"add", "mul", "pow"} -> Chain(MeansArith)
          [] Kind(t) = "sign" -> IF First(t) = "-" THEN Arith("-", Number(0), vs[1]) ELSE vs[1]
          [] Kind(t) = "index" -> ListOp(vs[1], LAMBDA q : ElementAt(q, vs[2]))
          [] Kind(t) = "slice" -> ListOp(vs[1], LAMBDA q :
                SliceOf(q, IF Info(t)[1] THEN vs[2] ELSE Number(0),
                           IF Info(t)[2] THEN Last(vs) ELSE Number(Len(q))))
          [] Kind(t) = "dot" -> CASE IsNull(vs[1]) -> Null
                                  [] Type(vs[1]) = "struct" ->
                                        IF First(t) \in DOMAIN vs[1][2] THEN vs[1][2][First(t)] ELSE Null
                                  [] OTHER -> Err
          [] Kind(t) = "paren" -> vs[1]
          [] Kind(t) = "lit" -> First(t)
          [] Kind(t) = "param" -> env.params[First(t)]
          [] Kind(t) = "var" -> IF Known(env, First(t)) THEN env.vars[First(t)] ELSE Err
          [] Kind(t) = "listlit" -> AsList(vs)
          [] Kind(t) = "call" -> MeansCall(First(t), vs)
          [] Kind(t) = "case" ->
                LET first == IF Info(t)[1] THEN 2 ELSE 1
                    n == (Len(vs) - (first - 1)) \div 2
                    Taken(k) == IF Info(t)[1] THEN Eq3(vs[1], vs[first + 2 * k]) ELSE vs[first + 2 * k]
                    hits == {k \in 0..n - 1 : Taken(k) = True}
                IN  IF \E k \in 0..n - 1 : ~Logical(Taken(k)) THEN Err
                    ELSE IF hits # {} THEN vs[first + 2 * (CHOOSE k \in hits : \A l \in hits : k <= l) + 1]
                    ELSE IF Info(t)[2] THEN Last(vs) ELSE Null
          [] Kind(t) = "quant" -> ListOp(vs[1], LAMBDA q : Quantified(First(t), Each(Info(t)[2], q, 2)))
          [] Kind(t) = "compr" -> ListOp(vs[1], LAMBDA q :
                LET kept == IF Info(t)[2] THEN Keep(q, Each(First(t), q, 2)) ELSE q
                IN  IF Info(t)[2] /\ Err \in Range(Each(First(t), q, 2)) THEN Err
                    ELSE AsList(IF Info(t)[3] THEN Each(First(t), kept, Len(vs)) ELSE kept))
          [] Kind(t) = "reduce" -> ListOp(vs[2], LAMBDA q :
                FoldLeft(LAMBDA acc, v : Means(Kid(t, 3), With(With(env, Info(t)[1], acc), Info(t)[2], v)), vs[1], q))
          [] Kind(t) = "exists" ->
                Bool(\E binding \in [DOMAIN First(t).nodes -> env.nodes] :
                        /\ Matches(First(t), env, binding)
                        /\ \A i \in DOMAIN Kids(t) : Means(Kid(t, i), BindAll(First(t), env, binding)) = True)
          [] OTHER -> Err
=============================================================================
