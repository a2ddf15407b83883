---------------------------- MODULE CypherValue ----------------------------
(***************************************************************************)
(* The values a Cypher expression and its SQL translation range over, and  *)
(* the operations on which openCypher and Databricks SQL agree: three-     *)
(* valued logic, comparison and integer arithmetic.  A value is a tuple    *)
(* whose first element is its type.  Err stands for a query that fails     *)
(* when it is run; it propagates through every operation.                  *)
(***************************************************************************)
EXTENDS Integers, Sequences, FiniteSets, Functions, SequencesExt

Null == <<"null">>
Err == <<"error">>
Number(i) == <<"int", i>>
Frac(n, d) == <<"frac", n, d>>
Str(s) == <<"str", s>>
Bool(b) == <<"bool", b>>
List(q) == <<"list", q>>
Struct(f) == <<"struct", f>>

Type(v) == v[1]
IsNull(v) == Type(v) = "null"
True == Bool(TRUE)
False == Bool(FALSE)

\* A strict operation: fails if an operand fails, and is null if one is null.
Strict2(a, b, Op(_, _)) ==
    IF Err \in {a, b} THEN Err ELSE IF Null \in {a, b} THEN Null ELSE Op(a, b)

Logical(v) == Type(v) \in {"bool", "null"}

Not3(v) == IF ~Logical(v) THEN Err ELSE IF IsNull(v) THEN Null ELSE Bool(~v[2])

And3(a, b) ==
    IF ~(Logical(a) /\ Logical(b)) THEN Err
    ELSE IF False \in {a, b} THEN False
    ELSE IF Null \in {a, b} THEN Null ELSE True

Or3(a, b) == Not3(And3(Not3(a), Not3(b)))

Xor3(a, b) == IF ~(Logical(a) /\ Logical(b)) THEN Err
              ELSE IF Null \in {a, b} THEN Null ELSE Bool(a[2] # b[2])

All3(vs) == FoldLeft(And3, True, vs)
Any3(vs) == FoldLeft(Or3, False, vs)

RECURSIVE Eq3(_, _)
Eq3(a, b) ==
    LET Same(x, y) ==
            IF Type(x) # Type(y) THEN Err
            ELSE IF Type(x) # "list" THEN Bool(x = y)
            ELSE IF Len(x[2]) # Len(y[2]) THEN False
            ELSE All3([i \in 1..Len(x[2]) |-> Eq3(x[2][i], y[2][i])])
    IN  Strict2(a, b, Same)

Less3(a, b) ==
    LET Below(x, y) == IF {Type(x), Type(y)} = {"int"} THEN Bool(x[2] < y[2]) ELSE Err
    IN  Strict2(a, b, Below)

Compare3(op, a, b) ==
    CASE op = "="  -> Eq3(a, b)
      [] op = "<>" -> Not3(Eq3(a, b))
      [] op = "<"  -> Less3(a, b)
      [] op = ">"  -> Less3(b, a)
      [] op = "<=" -> Not3(Less3(b, a))
      [] op = ">=" -> Not3(Less3(a, b))

\* Integer division and remainder towards zero, as both languages have them.
Quotient(x, y) == LET q == (IF x < 0 THEN -x ELSE x) \div (IF y < 0 THEN -y ELSE y)
                  IN  IF (x < 0) = (y < 0) THEN q ELSE -q
Remainder(x, y) == x - y * Quotient(x, y)

Arith(op, a, b) ==
    LET Apply(x, y) ==
            CASE {Type(x), Type(y)} # {"int"} -> Err
              [] op = "+" -> Number(x[2] + y[2])
              [] op = "-" -> Number(x[2] - y[2])
              [] op = "*" -> Number(x[2] * y[2])
              [] op = "%" -> IF y[2] = 0 THEN Err ELSE Number(Remainder(x[2], y[2]))
              [] op = "^" -> IF y[2] < 0 THEN Err ELSE Number(x[2] ^ y[2])
    IN  Strict2(a, b, Apply)

\* Membership of a value in the elements of a list, with unknowns.
In3(v, vs) == Any3([i \in 1..Len(vs) |-> Eq3(v, vs[i])])

\* The elements for which a condition holds, and the images of the elements.
Keep(vs, conds) == LET at == SetToSortSeq({i \in 1..Len(vs) : conds[i] = True}, <)
                   IN  [i \in 1..Len(at) |-> vs[at[i]]]

\* A list of values is a value, unless computing an element failed.
AsList(vs) == IF \E i \in 1..Len(vs) : vs[i] = Err THEN Err ELSE List(vs)

\* A duration, <<count, unit>> by <<count, unit>>, as a number of seconds; the
\* present time is some moment.
Seconds == [Y |-> 31536000, M |-> 2592000, W |-> 604800, D |-> 86400, TH |-> 3600, TM |-> 60, TS |-> 1]
DurationOf(parts) == Number(FoldLeft(LAMBDA n, p : n + p[1] * Seconds[p[2]], 0, parts))
Now == Number(99)
=============================================================================
