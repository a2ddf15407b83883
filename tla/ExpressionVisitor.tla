------------------------- MODULE ExpressionVisitor -------------------------
(***************************************************************************)
(* From the parse tree of a Cypher expression to the AST.                  *)
(*                                                                         *)
(* Parse trees, ASTs and SQL trees have one shape: <<kind, info, kids>>.   *)
(* A parse tree has one node per grammar rule that says something; a rule  *)
(* with a single child is that child.  The visitor decides several rules   *)
(* by the text of the rule (it starts with NOT, it contains ENDS): the     *)
(* sets below name the identifiers of the model whose spelling matters.    *)
(***************************************************************************)
EXTENDS CypherValue

Kind(t) == t[1]
Info(t) == t[2]
Kids(t) == t[3]
Kid(t, i) == t[3][i]
First(t) == t[2][1]                      \* the first piece of information
Leaf(kind, info) == <<kind, info, <<>>>>

RECURSIVE Subtrees(_)
Subtrees(t) == {t} \cup UNION {Subtrees(Kid(t, i)) : i \in DOMAIN Kids(t)}

\* Identifiers and words spelled like a keyword the visitor looks for.
SpelledNot == {"note"}
SpelledStarts == {"starts"}
SpelledEnds == {"friends"}

------------------------------------------------------------------------
(* AST nodes *)
Value(v) == Leaf("value", <<v>>)
Property(var, prop) == Leaf("prop", <<var, prop>>)
NoProperty == ""
Binary(op, l, r) == <<"bin", <<op>>, <<l, r>>>>
Function(f, args) == <<"fun", <<f>>, args>>
Unsupported == Leaf("raise", <<"unsupported">>)

------------------------------------------------------------------------
(* Text of a rule *)

\* The first word of the rule's text.
RECURSIVE FirstWord(_)
FirstWord(t) ==
    CASE Kind(t) \in {"or", "xor", "and", "cmp", "suffix", "add", "mul", "pow",
                      "index", "slice", "dot", "label"} -> FirstWord(Kid(t, 1))
      [] Kind(t) \in {"var", "call"} -> First(t)
      [] OTHER -> "other"

\* The words of a rule's text: names, properties and the words of its strings.
WordsIn(t) ==
    UNION {CASE Kind(u) \in {"var", "call", "dot"} -> {First(u)}
             [] Kind(u) = "lit" /\ Type(First(u)) = "str" -> Range(First(u)[2])
             [] OTHER -> {} : u \in Subtrees(t)}

------------------------------------------------------------------------
(* The visitor.  VE visits an oC_Expression, VC a comparison and below. *)

\* A slip: the operands change sides.
FoldBinarySwapped(ops, asts) ==
    FoldLeftDomain(LAMBDA l, i : IF i = 1 THEN l ELSE Binary(ops[i - 1], asts[i], l), asts[1], asts)
FoldBinary(ops, asts) ==
    FoldLeftDomain(LAMBDA l, i : IF i = 1 THEN l ELSE Binary(ops[i - 1], l, asts[i]), asts[1], asts)

NotFunction(negated, inner) == IF negated THEN Function("NOT", <<inner>>) ELSE inner

NegatedByText(t) == Kind(t) = "not" \/ FirstWord(t) \in SpelledNot

StringFunction(kind, right) ==
    CASE kind = "starts" \/ WordsIn(right) \cap SpelledStarts # {} -> "STRING_STARTS_WITH"
      [] kind = "ends" \/ WordsIn(right) \cap SpelledEnds # {} -> "STRING_ENDS_WITH"
      [] OTHER -> "STRING_CONTAINS"

Suffix(t, asts) ==
    CASE First(t) = "isnull" -> Function("IS_NULL", asts)
      [] First(t) = "isnotnull" -> Function("IS_NOT_NULL", asts)
      [] First(t) = "in" -> Binary("in", asts[1], asts[2])
      [] OTHER -> Function(StringFunction(First(t), Kid(t, 2)), asts)

\* A lookup renames the property of a property; on anything else it is dropped.
PropertyLookup(t, inner) ==
    IF Kind(inner) = "prop" THEN Property(Info(inner)[1], First(t)) ELSE inner

\* info = <<has a start, has an end>>; a missing bound becomes a NULL literal.
ListSlice(t, asts) ==
    LET start == IF Info(t)[1] THEN asts[2] ELSE Value(Null)
        end == IF Info(t)[2] THEN asts[Len(asts)] ELSE Value(Null)
    IN  Function("LIST_SLICE", <<asts[1], start, end>>)

\* info = <<has a test, has an ELSE>>.  One expression outside the
\* alternatives is taken for the ELSE, two for the test and the ELSE.
CaseExpression(t, asts) ==
    LET first == IF Info(t)[1] THEN 2 ELSE 1
        last == IF Info(t)[2] THEN Len(asts) - 1 ELSE Len(asts)
        alternatives == SubSeq(asts, first, last)
    IN  CASE Info(t) = <<TRUE, TRUE>> -> <<"case", <<TRUE, TRUE>>, asts>>
          [] Info(t) = <<TRUE, FALSE>> -> <<"case", <<FALSE, TRUE>>, alternatives \o <<asts[1]>>>>
          [] OTHER -> <<"case", Info(t), asts>>

SupportedFunction == [size |-> "SIZE", coalesce |-> "COALESCE", range |-> "RANGE", abs |-> "ABS",
                      duration |-> "DURATION", datetime |-> "DATETIME", type |-> "TYPE",
                      toupper |-> "STRING_TO_UPPER"]
Aggregations == {"percentilecont"}

FunctionInvocation(t, args) ==
    CASE First(t) \in Aggregations -> <<"agg", Info(t), args>>
      [] First(t) \in DOMAIN SupportedFunction -> Function(SupportedFunction[First(t)], args)
      [] OTHER -> Function("INVALID", args)

\* One operator per rule: t is the rule and asts the ASTs of its kids.
Connective(t, asts) == FoldBinary([i \in 1..Len(asts) - 1 |-> Kind(t)], asts)
Comparison(t, asts) == FoldBinary(Info(t), asts)
Arithmetic(t, asts) == FoldBinary(Info(t), asts)
Sign(t, asts) == IF First(t) = "-" THEN Function("NEGATIVE", asts) ELSE asts[1]
ListOperator(t, asts) == IF Kind(t) = "index" THEN Function("LIST_INDEX", asts) ELSE ListSlice(t, asts)
NonArithmetic(t, asts) == IF Kind(t) = "label" THEN Unsupported ELSE PropertyLookup(t, asts[1])
Literal(t, asts) == IF Kind(t) = "listlit" THEN <<"list", <<>>, asts>> ELSE Value(First(t))
Parameter(t) == Leaf("param", Info(t))
Variable(t) == Property(First(t), NoProperty)
Quantifier(t, asts) == <<"quant", Info(t), asts>>
ListComprehension(t, asts) == <<"compr", Info(t), asts>>
Reduce(t, asts) == <<"reduce", Info(t), asts>>
PatternPredicate(t, asts) == <<"exists", Info(t), asts>>

Atom(t, asts) ==
    CASE Kind(t) = "paren" -> asts[1]
      [] Kind(t) \in {"lit", "listlit"} -> Literal(t, asts)
      [] Kind(t) = "param" -> Parameter(t)
      [] Kind(t) = "var" -> Variable(t)
      [] Kind(t) = "call" -> FunctionInvocation(t, asts)
      [] Kind(t) = "case" -> CaseExpression(t, asts)
      [] Kind(t) = "quant" -> Quantifier(t, asts)
      [] Kind(t) = "compr" -> ListComprehension(t, asts)
      [] Kind(t) = "reduce" -> Reduce(t, asts)
      [] Kind(t) = "exists" -> PatternPredicate(t, asts)

\* Which kids of a rule are oC_Expressions (the others are operands below a comparison).
ExpressionKid(t, i) ==
    \/ Kind(t) \in {"or", "xor", "and", "paren", "listlit", "call", "case", "quant", "compr",
                    "reduce", "exists"}
    \/ Kind(t) \in {"index", "slice"} /\ i > 1

Assemble(t, asts) ==
    CASE Kind(t) \in {"or", "xor", "and"} -> Connective(t, asts)
      [] Kind(t) = "not" -> asts[1]
      [] Kind(t) = "cmp" -> Comparison(t, asts)
      [] Kind(t) \in {"add", "mul", "pow"} -> Arithmetic(t, asts)
      [] Kind(t) = "suffix" -> Suffix(t, asts)
      [] Kind(t) = "sign" -> Sign(t, asts)
      [] Kind(t) \in {"index", "slice"} -> ListOperator(t, asts)
      [] Kind(t) \in {"dot", "label"} -> NonArithmetic(t, asts)
      [] OTHER -> Atom(t, asts)

RECURSIVE VisitExpression(_), Visit(_)
Visit(t) ==
    Assemble(t, [i \in DOMAIN Kids(t) |->
                    IF ExpressionKid(t, i) THEN VisitExpression(Kid(t, i)) ELSE Visit(Kid(t, i))])
VisitExpression(t) ==
    IF Kind(t) \in {"or", "xor", "and"} THEN Visit(t) ELSE NotFunction(NegatedByText(t), Visit(t))
=============================================================================
