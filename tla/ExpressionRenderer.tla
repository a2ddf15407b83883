------------------------- MODULE ExpressionRenderer -------------------------
(***************************************************************************)
(* From an AST to a SQL tree: the column resolver's walk over one          *)
(* expression, and the renderer, which writes an expression in one of four *)
(* ways: as a clause of a SELECT, as the body of a list lambda, as the     *)
(* body of a REDUCE, and as a filter inside a recursive CTE or script.     *)
(***************************************************************************)
EXTENDS ExpressionVisitor

CONSTANTS EntityProperties,   \* entity variable -> the properties its schema declares
          PropertyType        \* <<variable, property>> -> the declared type, where there is one

------------------------------------------------------------------------
(* Resolution.  A walk carries the symbols in scope (name -> kind), the    *)
(* references resolved so far (<<var, prop>> -> SQL name) and whether one  *)
(* could not be resolved.                                                  *)

Entity == "ENTITY"
ValueAlias == "VALUE"

PrefixedColumn(var, prop) == Leaf("col", <<var, prop>>)
Alias(name) == Leaf("ident", <<name>>)

ResolvesTo(kind, var, prop) ==
    IF prop # NoProperty THEN PrefixedColumn(var, prop)
    ELSE IF kind = ValueAlias THEN Alias(var) ELSE PrefixedColumn(var, "id")

InvalidProperty(kind, var, prop) ==
    kind = Entity /\ prop # NoProperty /\ var \in DOMAIN EntityProperties
        /\ prop \notin EntityProperties[var]

ResolveProperty(a, w) ==
    LET var == Info(a)[1]  prop == Info(a)[2]
    IN  IF var \notin DOMAIN w.symbols \/ InvalidProperty(w.symbols[var], var, prop)
        THEN [w EXCEPT !.failed = TRUE]
        ELSE [w EXCEPT !.refs = (Info(a) :> ResolvesTo(w.symbols[var], var, prop)) @@ @]

\* A lambda variable is defined in the current scope for the time of its body;
\* a symbol it hid is put back, but one that hid nothing stays.
Bind(names, w) == [w EXCEPT !.symbols = [n \in names |-> ValueAlias] @@ @]
\* A slip: what the variable hid is not put back.
UnbindNothing(names, before, w) == w
Unbind(names, before, w) ==
    [w EXCEPT !.symbols = [n \in names \cap DOMAIN before |-> before[n]] @@ @]

PatternEntities(pattern) == [n \in {pattern.nodes[i] : i \in DOMAIN pattern.nodes} |-> Entity]

RECURSIVE Resolve(_, _)
ResolveAll(as, w) == FoldLeft(LAMBDA x, a : Resolve(a, x), w, as)
Resolve(a, w) ==
    LET Under(names, outer, body) ==
            LET before == ResolveAll(outer, w)
            IN  Unbind(names, before.symbols, ResolveAll(body, Bind(names, before)))
    IN  CASE Kind(a) = "prop" -> ResolveProperty(a, w)
          [] Kind(a) = "agg" -> Resolve(Kid(a, 1), w)
          [] Kind(a) = "quant" -> Under({Info(a)[2]}, <<Kid(a, 1)>>, Tail(Kids(a)))
          [] Kind(a) = "compr" -> Under({First(a)}, <<Kid(a, 1)>>, Tail(Kids(a)))
          [] Kind(a) = "reduce" -> Under(Range(Info(a)), SubSeq(Kids(a), 1, 2), <<Kid(a, 3)>>)
          [] Kind(a) = "exists" ->
                [ResolveAll(Kids(a), [w EXCEPT !.symbols = PatternEntities(First(a)) @@ @])
                    EXCEPT !.symbols = w.symbols]
          [] OTHER -> ResolveAll(Kids(a), w)

------------------------------------------------------------------------
(* Static types, for the operators that are polymorphic in Cypher only *)

RECURSIVE StaticType(_)
StaticType(a) ==
    CASE Kind(a) = "value" -> Type(First(a))
      [] Kind(a) \in {"list", "compr"} -> "list"
      [] Kind(a) = "quant" -> "bool"
      [] Kind(a) = "bin" ->
            IF First(a) \in {"+", "-", "*", "/", "%", "^"} THEN StaticType(Kid(a, 1)) ELSE "bool"
      [] Kind(a) = "reduce" -> StaticType(Kid(a, 1))
      [] Kind(a) = "case" -> StaticType(Kid(a, IF First(a) THEN 3 ELSE 2))
      [] OTHER -> "unknown"

Declared(a, type) == Kind(a) = "prop" /\ Info(a) \in DOMAIN PropertyType /\ PropertyType[Info(a)] = type
IsArray(a) == StaticType(a) = "list" \/ Declared(a, "list")

RECURSIVE IsString(_)
IsString(a) ==
    \/ StaticType(a) = "str"
    \/ Declared(a, "str")
    \/ Kind(a) = "bin" /\ First(a) = "+" /\ \E i \in {1, 2} : IsString(Kid(a, i))

------------------------------------------------------------------------
(* SQL trees *)
SqlFunction(f, args) == <<"fn", <<f>>, args>>
HigherOrder(f, var, list, body) == <<"hof", <<f, var>>, <<list, body>>>>
Raise(why) == Leaf("raise", <<why>>)
CypherText == Leaf("cypher", <<>>)           \* str(expr) written into the SQL

\* Where an expression is written: the renderer's method and the names it binds.
\* directed: the plan has recorded the direction of the EXISTS patterns met here.
Clause == [way |-> "clause", vars |-> {}, directed |-> FALSE]
Where == [Clause EXCEPT !.directed = TRUE]
Lambda(var) == [Clause EXCEPT !.way = "lambda", !.vars = {var}]
Reducer(vars) == [Clause EXCEPT !.way = "reduce", !.vars = vars]
EdgeFilter == [Clause EXCEPT !.way = "edge"]

RenderValue(a) == Leaf("lit", Info(a))
RenderParameter(a) == Leaf("bind", Info(a))

RenderProperty(a, c, refs) ==
    LET var == Info(a)[1]  prop == Info(a)[2]
    IN  CASE c.way = "edge" \/ var \in c.vars ->
                IF prop = NoProperty THEN Alias(var) ELSE Leaf("field", Info(a))
          [] Info(a) \in DOMAIN refs -> refs[Info(a)]
          [] OTHER -> Raise("unresolved")

\* List literals are written (a, b) but for the operands of a concatenation.
\* A slip: the literal is concatenated as it is.
AsWritten(s) == s
AsArray(s) == IF Kind(s) = "row" THEN <<"array", <<>>, Kids(s)>> ELSE s

RenderBinary(a, c, sqls) ==
    CASE First(a) = "in" /\ Kind(Kid(a, 2)) = "param" /\ c.way = "clause" ->
            SqlFunction("ARRAY_CONTAINS", <<sqls[2], sqls[1]>>)
      [] First(a) = "+" /\ c.way = "clause" /\ (IsArray(Kid(a, 1)) \/ IsArray(Kid(a, 2))) ->
            SqlFunction("CONCAT", <<AsArray(sqls[1]), AsArray(sqls[2])>>)
      [] First(a) = "+" /\ c.way = "clause" /\ (IsString(Kid(a, 1)) \/ IsString(Kid(a, 2))) ->
            SqlFunction("CONCAT", sqls)
      [] OTHER -> <<"op", Info(a), sqls>>

\* Functions with a template in the dialect; the others need a handler.
Template == [NOT |-> "NOT", NEGATIVE |-> "-", IS_NULL |-> "IS NULL", IS_NOT_NULL |-> "IS NOT NULL",
             STRING_STARTS_WITH |-> "STARTSWITH", STRING_ENDS_WITH |-> "ENDSWITH",
             STRING_CONTAINS |-> "CONTAINS", STRING_TO_UPPER |-> "UPPER", COALESCE |-> "COALESCE",
             RANGE |-> "SEQUENCE", SIZE |-> "SIZE", ABS |-> "ABS"]

\* ISO 8601: a duration is a sequence of <<count, unit>>.
IntervalOf(parts) == Leaf("interval", <<parts>>)
\* A slip: every duration that counts days is one day.
OneDay(parts) == IF parts[1][2] \in {"D", "W"} THEN <<<<1, "D">>>> ELSE SubSeq(parts, 1, 1)
FirstOrOneDay(parts) == IF parts[1][2] = "W" THEN <<<<1, "D">>>> ELSE SubSeq(parts, 1, 1)

RenderFunction(a, c, sqls) ==
    LET f == First(a)
    IN  CASE f = "DURATION" /\ c.way = "edge" -> IntervalOf(FirstOrOneDay(First(Kid(a, 1))[2]))
          [] f = "DATETIME" /\ c.way = "edge" -> SqlFunction("CURRENT_TIMESTAMP", <<>>)
          [] f = "SIZE" /\ c.way \in {"clause", "lambda"} /\ IsString(Kid(a, 1)) -> SqlFunction("LENGTH", sqls)
          [] f \in DOMAIN Template -> SqlFunction(Template[f], sqls)
          [] c.way \in {"edge", "reduce"} -> Raise("unsupported")
          [] f = "LIST_INDEX" -> SqlFunction("GET", sqls)
          [] f = "LIST_SLICE" -> SqlFunction("SLICE", sqls)
          [] f = "DURATION" -> IntervalOf(First(Kid(a, 1))[2])
          [] f = "DATETIME" -> SqlFunction(IF sqls = <<>> THEN "CURRENT_TIMESTAMP" ELSE "TO_TIMESTAMP", sqls)
          [] OTHER -> Raise("unsupported")

RenderAggregation(sqls) == SqlFunction("PERCENTILE_CONT", sqls)
RenderCase(a, sqls) == <<"case", Info(a), sqls>>
RenderReduce(a, sqls) == <<"aggregate", Info(a), sqls>>

\* ANY and NONE over x = value are written with ARRAY_CONTAINS: the side that
\* is not the variable, if the filter is such an equality.
EqualitySide(a) ==
    LET filter == Kid(a, 2)
        IsVariable(u) == Kind(u) = "prop" /\ Info(u) = <<Info(a)[2], NoProperty>>
    IN  IF Kind(filter) # "bin" \/ First(filter) # "=" THEN 0
        ELSE IF IsVariable(Kid(filter, 1)) THEN 2 ELSE IF IsVariable(Kid(filter, 2)) THEN 1 ELSE 0

RenderListPredicate(a, list, filter, equal) ==
    LET Hof(f) == HigherOrder(f, Info(a)[2], list, filter)
        type == First(a)
    IN  CASE EqualitySide(a) # 0 /\ type = "any" -> SqlFunction("ARRAY_CONTAINS", <<list, equal>>)
          [] EqualitySide(a) # 0 /\ type = "none" ->
                SqlFunction("NOT", <<SqlFunction("ARRAY_CONTAINS", <<list, equal>>)>>)
          [] type = "all" -> Hof("FORALL")
          [] type = "any" -> Hof("EXISTS")
          [] type = "none" -> SqlFunction("NOT", <<Hof("EXISTS")>>)
          [] type = "single" -> <<"op", <<"=">>, <<SqlFunction("SIZE", <<Hof("FILTER")>>), Leaf("lit", <<Number(1)>>)>>>>

\* info = <<variable, has WHERE, has a map expression>>
RenderComprehension(a, sqls) ==
    LET filtered == IF Info(a)[2] THEN HigherOrder("FILTER", First(a), sqls[1], sqls[2]) ELSE sqls[1]
    IN  IF Info(a)[3] THEN HigherOrder("TRANSFORM", First(a), filtered, Last(sqls)) ELSE filtered

\* EXISTS: the first node is correlated with the outer row, and the last
\* relationship and the last node are the ones looked up.  The plan records
\* the direction of the first relationship, for the filter of a selection
\* only; until then a pattern counts as pointing away from its first node.
ResolvedBackward(pattern, directed) == directed /\ pattern.rels[1].dir = "BACKWARD"

ExistsLookup(pattern, directed, disjoined) ==
    LET backward == ResolvedBackward(pattern, directed)
    IN  [known |-> ~pattern.subquery,
         disjoined |-> disjoined,
         outer |-> pattern.nodes[1],
         type |-> Last(pattern.rels).type,
         near |-> IF backward THEN "dst" ELSE "src",
         far |-> IF backward THEN "src" ELSE "dst",
         label |-> Last(pattern.labels)]

\* The WHERE of a pattern follows the correlation and an AND, without
\* parentheses: the second half of a disjunction escapes the correlation.
Disjuncts(wheres) ==
    IF wheres = <<>> \/ Kind(wheres[1]) # "op" THEN wheres
    ELSE LET l == Kid(wheres[1], 1)  r == Kid(wheres[1], 2)
             Without(x, y) == <<"op", <<"and">>, <<x, SqlFunction("NOT", <<y>>)>>>>
         IN  CASE First(wheres[1]) = "or" -> <<l, r>>
               [] First(wheres[1]) = "xor" -> <<Without(l, r), Without(r, l)>>
               [] OTHER -> wheres

RenderExists(a, c, sqls) ==
    LET wheres == Disjuncts(sqls)
    IN  <<"exists", <<ExistsLookup(First(a), c.directed, Len(wheres) = 2)>>, wheres>>

\* How each kid of an expression written in context c is written.
KidContext(a, c, i) ==
    CASE Kind(a) \in {"bin", "fun"} -> c
      [] Kind(a) = "list" /\ c.way = "edge" -> c
      [] Kind(a) = "quant" /\ i = 2 -> Lambda(Info(a)[2])
      [] Kind(a) = "compr" /\ i > 1 -> Lambda(First(a))
      [] Kind(a) = "reduce" /\ i = 3 -> Reducer(Range(Info(a)))
      [] OTHER -> Clause

\* In an edge filter only these kinds are written as SQL.
EdgeKinds == {"prop", "bin", "fun", "value", "list", "raise"}

RECURSIVE Render(_, _, _)
Render(a, c, refs) ==
    LET sqls == [i \in DOMAIN Kids(a) |-> Render(Kid(a, i), KidContext(a, c, i), refs)]
        equal == IF EqualitySide(a) = 0 THEN sqls[2]
                 ELSE Render(Kid(Kid(a, 2), EqualitySide(a)), Clause, refs)
    IN  CASE c.way = "edge" /\ Kind(a) \notin EdgeKinds -> CypherText
          [] Kind(a) = "exists" /\ c.way = "lambda" -> Raise("unsupported")
          [] Kind(a) = "fun" /\ First(a) = "TYPE" -> Raise("unsupported")
          [] Kind(a) = "raise" -> a
          [] Kind(a) = "value" -> Leaf("lit", Info(a))
          [] Kind(a) = "param" -> Leaf("bind", Info(a))
          [] Kind(a) = "prop" -> RenderProperty(a, c, refs)
          [] Kind(a) = "bin" -> RenderBinary(a, c, sqls)
          [] Kind(a) = "fun" -> RenderFunction(a, c, sqls)
          [] Kind(a) = "agg" -> RenderAggregation(sqls)
      [] Kind(a) = "list" -> <<"row", <<>>, sqls>>
      [] Kind(a) = "case" -> RenderCase(a, sqls)
      [] Kind(a) = "quant" -> RenderListPredicate(a, sqls[1], sqls[2], equal)
      [] Kind(a) = "compr" -> RenderComprehension(a, sqls)
      [] Kind(a) = "reduce" -> RenderReduce(a, sqls)
      [] Kind(a) = "exists" -> RenderExists(a, c, sqls)

Raised(s) == {First(u) : u \in {v \in Subtrees(s) : Kind(v) = "raise"}}
=============================================================================
