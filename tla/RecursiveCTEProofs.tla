-------------------------- MODULE RecursiveCTEProofs --------------------------
(***************************************************************************)
(* The WITH RECURSIVE query, for every graph and pattern: what its rows    *)
(* are (AlwaysRows), and from it that no row uses an edge twice and that   *)
(* no path is in the bag twice but where the code's base cases make it so. *)
(***************************************************************************)
EXTENDS RecursiveCTE, WalkTheorems

From(r, i) == P!StepFrom(r.path.steps[i])
To(r, i) == P!StepTo(r.path.steps[i])

(* A row is a path that goes on from where it is, leaves no barrier and no *)
(* NULL but where it starts, and enters no node an earlier step left.      *)
IsRow(r) ==
  /\ r = RowOf(P!Path(r.path.start, r.path.steps), r.zero)
  /\ r.path.start \in query.starts
  /\ r.zero \in BOOLEAN /\ (r.zero => query.lo = 0)
  /\ r.zero \/ Len(r.path.steps) >= 1
  /\ r.path.steps \in Seq(Steps)
  /\ \A i \in DOMAIN r.path.steps :
       /\ i = 1 => From(r, i) = r.path.start
       /\ i > 1 => From(r, i) = To(r, i - 1) /\ From(r, i) # Null
                   /\ From(r, i) \notin query.barriers
  /\ \A i, j \in DOMAIN r.path.steps : i < j => To(r, j) # From(r, i)

Rows ==
  /\ query \in Queries
  /\ delta \subseteq cte
  /\ \A r \in cte : IsRow(r)

(* The ways through an edge that a direction has.                          *)
LEMMA WaysFacts ==
  ASSUME query \in Queries
  PROVE  /\ query.dir \in {"forward", "backward", "undirected"}
         /\ query.dir = "forward" => P!Ways(query.dir) = {"out"}
         /\ query.dir = "backward" => P!Ways(query.dir) = {"in"}
         /\ query.dir = "undirected" => P!Ways(query.dir) = {"out", "in"}
  BY QueryFacts DEF P!Ways

LEMMA RowFacts ==
  ASSUME Rows, NEW r \in cte
  PROVE  /\ Len(r.path.steps) \in Nat
         /\ DOMAIN r.path.steps = 1..Len(r.path.steps)
         /\ \A i \in DOMAIN r.path.steps : r.path.steps[i] \in Steps
         /\ Visited(r) = {From(r, i) : i \in DOMAIN r.path.steps}
         /\ r.path.steps = << >> <=> Len(r.path.steps) = 0
<1>1. r.path.steps \in Seq(Steps)
  BY DEF Rows, IsRow
<1> HIDE DEF Steps
<1>2. /\ Len(r.path.steps) \in Nat
      /\ DOMAIN r.path.steps = 1..Len(r.path.steps)
      /\ \A i \in DOMAIN r.path.steps : r.path.steps[i] \in Steps
      /\ r.path.steps = << >> <=> Len(r.path.steps) = 0
  BY <1>1
<1> QED
  BY <1>2 DEF Visited, From

LEMMA AnchorRows ==
  ASSUME query \in Queries
  PROVE  \A r \in ZeroLengthBase \cup DirectEdges : IsRow(r)
<1>1. ASSUME NEW r \in ZeroLengthBase PROVE IsRow(r)
  <2>1. PICK n \in query.starts : r = RowOf(P!Path(n, << >>), TRUE) /\ query.lo = 0
    BY <1>1 DEF ZeroLengthBase
  <2>2. r.path.start = n /\ r.path.steps = << >> /\ r.zero = TRUE
    BY <2>1 DEF RowOf, P!Path
  <2> HIDE DEF Steps
  <2>3. << >> \in Seq(Steps) /\ Len(<< >>) = 0 /\ DOMAIN << >> = {}
    OBVIOUS
  <2>4. r = RowOf(P!Path(r.path.start, r.path.steps), r.zero)
    BY <2>1, <2>2
  <2>5. DOMAIN r.path.steps = {}
    BY <2>2, <2>3
  <2>6. r.path.steps \in Seq(Steps)
    BY <2>2, <2>3
  <2> QED
    BY <2>1, <2>2, <2>4, <2>5, <2>6 DEF IsRow
<1>2. ASSUME NEW r \in DirectEdges PROVE IsRow(r)
  <2>1. PICK s \in Steps : /\ P!StepFrom(s) \in query.starts
                           /\ r = RowOf(P!Path(P!StepFrom(s), <<s>>), FALSE)
    BY <1>2 DEF DirectEdges
  <2> HIDE DEF Steps
  <2>2. /\ r.path.start = P!StepFrom(s) /\ r.path.steps = <<s>> /\ r.zero = FALSE
    BY <2>1 DEF RowOf, P!Path
  <2>3. /\ <<s>> \in Seq(Steps) /\ Len(<<s>>) = 1 /\ DOMAIN <<s>> = {1} /\ <<s>>[1] = s
    OBVIOUS
  <2>4. r = RowOf(P!Path(r.path.start, r.path.steps), r.zero)
    BY <2>1, <2>2
  <2>5. DOMAIN r.path.steps = {1} /\ r.path.steps[1] = s /\ Len(r.path.steps) = 1
    BY <2>2, <2>3
  <2>6. From(r, 1) = r.path.start
    BY <2>2, <2>5 DEF From
  <2>7. r.path.steps \in Seq(Steps)
    BY <2>2, <2>3
  <2>8. \A i \in DOMAIN r.path.steps :
          /\ i = 1 => From(r, i) = r.path.start
          /\ i > 1 => From(r, i) = To(r, i - 1) /\ From(r, i) # Null
                      /\ From(r, i) \notin query.barriers
    BY <2>5, <2>6
  <2>9. \A i, j \in DOMAIN r.path.steps : i < j => To(r, j) # From(r, i)
    BY <2>5
  <2>10. Len(r.path.steps) >= 1
    BY <2>5
  <2>11. r.path.start \in query.starts /\ r.zero \in BOOLEAN /\ ~ r.zero
    BY <2>1, <2>2
  <2> QED
    BY <2>4, <2>7, <2>8, <2>9, <2>10, <2>11 DEF IsRow
<1> QED
  BY <1>1, <1>2

LEMMA ExtendedFacts ==
  ASSUME Rows, NEW r \in cte, NEW s \in Steps
  PROVE  LET x == Extended(r, s)
             n == Len(r.path.steps)
         IN  /\ x = RowOf(P!Path(x.path.start, x.path.steps), x.zero)
             /\ x.path.start = r.path.start /\ x.zero = r.zero
             /\ x.path.steps \in Seq(Steps)
             /\ Len(x.path.steps) = n + 1
             /\ DOMAIN x.path.steps = 1..(n + 1)
             /\ From(x, n + 1) = P!StepFrom(s) /\ To(x, n + 1) = P!StepTo(s)
             /\ \A i \in 1..n : From(x, i) = From(r, i) /\ To(x, i) = To(r, i)
<1> DEFINE x == Extended(r, s)
           n == Len(r.path.steps)
           t == r.path.steps
<1>1. /\ x.path.start = r.path.start /\ x.path.steps = Append(t, s) /\ x.zero = r.zero
      /\ x = RowOf(P!Path(x.path.start, x.path.steps), x.zero)
  BY DEF Extended, RowOf, P!Path
<1>2. t \in Seq(Steps)
  BY DEF Rows, IsRow
<1> HIDE DEF Steps, x, t
<1>3. /\ Append(t, s) \in Seq(Steps) /\ Len(Append(t, s)) = Len(t) + 1
      /\ DOMAIN Append(t, s) = 1..(Len(t) + 1)
      /\ Append(t, s)[Len(t) + 1] = s
      /\ \A i \in 1..Len(t) : Append(t, s)[i] = t[i]
  BY <1>2
<1> QED
  BY <1>1, <1>3 DEF From, To, x, t

LEMMA IterateRows ==
  ASSUME Rows, NEW r \in cte, NEW s \in Steps, Extends(r, s)
  PROVE  IsRow(Extended(r, s))
<1> DEFINE x == Extended(r, s)
           n == Len(r.path.steps)
<1>1. /\ n \in Nat /\ DOMAIN r.path.steps = 1..n /\ IsRow(r)
      /\ Visited(r) = {From(r, i) : i \in 1..n}
      /\ r.path.steps = << >> <=> n = 0
  BY RowFacts DEF Rows
<1>2. /\ x = RowOf(P!Path(x.path.start, x.path.steps), x.zero)
      /\ x.path.start = r.path.start /\ x.zero = r.zero
      /\ x.path.steps \in Seq(Steps)
      /\ Len(x.path.steps) = n + 1
      /\ DOMAIN x.path.steps = 1..(n + 1)
      /\ From(x, n + 1) = P!StepFrom(s) /\ To(x, n + 1) = P!StepTo(s)
      /\ \A i \in 1..n : From(x, i) = From(r, i) /\ To(x, i) = To(r, i)
  BY ExtendedFacts
<1>3. EndNode(r) = IF n = 0 THEN r.path.start ELSE To(r, n)
  BY <1>1 DEF EndNode, P!EndOf, To
<1>4. /\ EndNode(r) # Null /\ P!StepFrom(s) = EndNode(r)
      /\ P!StepTo(s) \notin Visited(r)
      /\ EndNode(r) \notin query.barriers
  BY QueryFacts DEF Extends, NotAtBarrier, Rows
<1> HIDE DEF x, n
<1>5. ASSUME NEW i \in 1..(n + 1)
      PROVE  /\ i = 1 => From(x, i) = x.path.start
             /\ i > 1 => From(x, i) = To(x, i - 1) /\ From(x, i) # Null
                         /\ From(x, i) \notin query.barriers
  <2>1. CASE i \in 1..n
    <3>1. i > 1 => i - 1 \in 1..n
      BY <1>1, <2>1
    <3> QED
      BY <1>1, <1>2, <2>1, <3>1 DEF IsRow
  <2>2. CASE i = n + 1
    <3>1. n > 0 => n \in 1..n /\ (n + 1) - 1 = n
      BY <1>1
    <3> QED
      BY <1>1, <1>2, <1>3, <1>4, <2>2, <3>1
  <2> QED
    BY <1>1, <2>1, <2>2
<1>6. ASSUME NEW i \in 1..(n + 1), NEW j \in 1..(n + 1), i < j
      PROVE  To(x, j) # From(x, i)
  <2>1. i \in 1..n
    BY <1>1, <1>6
  <2>2. CASE j \in 1..n
    BY <1>1, <1>2, <1>6, <2>1, <2>2 DEF IsRow
  <2>3. CASE j = n + 1
    BY <1>1, <1>2, <1>4, <2>1, <2>3
  <2> QED
    BY <1>1, <2>2, <2>3
<1>7. n + 1 >= 1
  BY <1>1
<1>8. r.path.start \in query.starts /\ r.zero \in BOOLEAN /\ (r.zero => query.lo = 0)
  BY <1>1 DEF IsRow
<1> QED
  BY <1>1, <1>2, <1>5, <1>6, <1>7, <1>8 DEF IsRow, x

LEMMA NextRows == Rows /\ [Next]_vars => Rows'
<1> SUFFICES ASSUME Rows, [Next]_vars PROVE Rows'
  OBVIOUS
<1>1. query' = query /\ pushdown' = pushdown
  BY DEF Next, Anchor, Iterate, EndIteration, Read, vars
<1>2. \A r : IsRow(r) => IsRow(r)'
  BY <1>1 DEF IsRow, Steps, TraversedEdges, From, To, RowOf
<1>3. CASE Anchor
  BY <1>1, <1>2, <1>3, AnchorRows DEF Anchor, Rows
<1>4. CASE Iterate
  <2>1. ASSUME NEW x \in delta' PROVE IsRow(x)
    <3>1. PICK p \in delta \X Steps : Extends(p[1], p[2]) /\ x = Extended(p[1], p[2])
      BY <1>4, <2>1 DEF Iterate
    <3>2. p[1] \in cte /\ p[2] \in Steps
      BY <3>1 DEF Rows
    <3> QED
      BY <3>1, <3>2, IterateRows
  <2> QED
    BY <1>1, <1>2, <1>4, <2>1 DEF Iterate, Rows
<1>5. CASE EndIteration \/ Read \/ UNCHANGED vars
  BY <1>1, <1>2, <1>5 DEF EndIteration, Read, vars, Rows
<1> QED
  BY <1>3, <1>4, <1>5 DEF Next

LEMMA AlwaysRows == Spec => []Rows
<1>1. Init => Rows
  BY DEF Init, Rows
<1> QED
  BY <1>1, NextRows, PTL DEF Spec

-----------------------------------------------------------------------------
(* visited holds nodes, and yet it keeps every edge row from being used    *)
(* twice, self-loops and undirected patterns included.                     *)
THEOREM EachEdgeOnce == Spec => []NoEdgeTwice
<1>1. ASSUME Rows, NEW r \in cte, NEW i \in DOMAIN r.path.steps, NEW j \in DOMAIN r.path.steps,
             i < j, r.path.steps[i].edge = r.path.steps[j].edge
      PROVE  FALSE
  <2>1. /\ i \in Nat /\ j \in Nat /\ j > 1 /\ j - 1 \in DOMAIN r.path.steps
        /\ i + 1 \in DOMAIN r.path.steps /\ i + 1 > 1 /\ (i + 1) - 1 = i /\ i < i + 1
    BY <1>1, RowFacts
  <2>2. IsRow(r)
    BY <1>1 DEF Rows
  <2>3. /\ To(r, j) # From(r, i) /\ From(r, i + 1) = To(r, i) /\ From(r, j) = To(r, j - 1)
        /\ i + 1 < j => To(r, j) # From(r, i + 1)
    BY <1>1, <2>1, <2>2 DEF IsRow
  <2>4. From(r, j) = From(r, i) /\ To(r, j) = To(r, i)
    BY <1>1, <2>3 DEF From, To, P!StepFrom, P!StepTo
  <2>5. i + 1 = j \/ i + 1 < j
    BY <1>1, <2>1
  <2> QED
    BY <2>3, <2>4, <2>5
<1>2. Rows => NoEdgeTwice
  <2> SUFFICES ASSUME Rows, NEW r \in cte
               PROVE  \A i, j \in DOMAIN r.path.steps :
                        r.path.steps[i].edge = r.path.steps[j].edge => i = j
    BY DEF NoEdgeTwice, IsInjective
  <2>1. \A i, j \in DOMAIN r.path.steps : i < j \/ j < i \/ i = j
    BY RowFacts
  <2> QED
    BY <1>1, <2>1
<1> QED
  BY <1>2, AlwaysRows, PTL

-----------------------------------------------------------------------------
(* Two rows with the same start and the same edges, from the same base     *)
(* case: the first step they differ in goes through one edge both ways     *)
(* from one node, so that the edge is a loop of an undirected pattern.     *)
LEMMA SameEdges ==
  ASSUME Rows, NEW r \in cte, NEW s \in cte, r # s, r.zero = s.zero,
         r.path.start = s.path.start, EdgesOf(r) = EdgesOf(s)
  PROVE  query.dir = "undirected" /\ HasSelfLoop(r)
<1> DEFINE n == Len(r.path.steps)
<1>1. /\ n \in Nat /\ DOMAIN r.path.steps = 1..n /\ IsRow(r) /\ IsRow(s)
      /\ DOMAIN s.path.steps = 1..Len(s.path.steps) /\ Len(s.path.steps) \in Nat
      /\ \A i \in 1..n : r.path.steps[i] \in Steps
      /\ \A i \in DOMAIN s.path.steps : s.path.steps[i] \in Steps
  BY RowFacts DEF Rows
<1>2. DOMAIN s.path.steps = 1..n
  BY <1>1 DEF EdgesOf
<1>3. \A i \in 1..n : r.path.steps[i].edge = s.path.steps[i].edge
  BY <1>1, <1>2 DEF EdgesOf
<1> DEFINE D == {i \in 1..n : r.path.steps[i] # s.path.steps[i]}
<1>4. ASSUME D = {} PROVE FALSE
  <2>1. r.path.steps \in Seq(Steps) /\ s.path.steps \in Seq(Steps)
    BY <1>1 DEF IsRow
  <2> HIDE DEF Steps
  <2>2. Len(s.path.steps) = n
    BY <2>1, <1>1, <1>2
  <2>3. \A i \in 1..n : r.path.steps[i] = s.path.steps[i]
    BY <1>4
  <2>4. r.path.steps = s.path.steps
    BY <2>1, <2>2, <2>3
  <2>5. r = RowOf(P!Path(r.path.start, r.path.steps), r.zero)
        /\ s = RowOf(P!Path(s.path.start, s.path.steps), s.zero)
    BY <1>1 DEF IsRow
  <2> QED
    BY <2>4, <2>5
<1>5. D \in SUBSET Nat
  BY <1>1
<1>6. PICK i \in D : \A j \in D : i <= j
  <2> HIDE DEF D
  <2> QED
    BY <1>4, <1>5, LeastNumber
<1> DEFINE u == r.path.steps[i]
           v == s.path.steps[i]
<1>7. i \in 1..n /\ u # v /\ u.edge = v.edge /\ u \in Steps /\ v \in Steps
  BY <1>1, <1>2, <1>3, <1>6
<1>8. u.way # v.way
  BY <1>7 DEF Steps, P!StepsOver
<1>9. From(r, i) = From(s, i)
  <2>1. CASE i = 1
    BY <1>1, <1>2, <1>7, <2>1 DEF IsRow
  <2>2. CASE i > 1
    <3>1. i - 1 \in 1..n /\ i - 1 < i /\ i - 1 \in Nat /\ i \in Nat
      BY <1>1, <1>7, <2>2
    <3>2. r.path.steps[i - 1] = s.path.steps[i - 1]
      BY <1>6, <3>1
    <3>3. From(r, i) = To(r, i - 1) /\ From(s, i) = To(s, i - 1)
      BY <1>1, <1>2, <1>7, <2>2 DEF IsRow
    <3> QED
      BY <3>2, <3>3 DEF To
  <2> QED
    BY <1>7, <2>1, <2>2
<1>10. Src[u.edge] = Dst[u.edge]
  <2>1. P!StepFrom(u) = P!StepFrom(v)
    BY <1>9 DEF From
  <2>2. u.way \in {"out", "in"} /\ v.way \in {"out", "in"}
    BY <1>7, WaysFacts DEF Steps, P!StepsOver, Rows
  <2> QED
    BY <1>7, <1>8, <2>1, <2>2 DEF P!StepFrom
<1>11. HasSelfLoop(r)
  BY <1>1, <1>7, <1>10 DEF HasSelfLoop
<1>12. query.dir = "undirected"
  BY <1>7, <1>8, WaysFacts DEF Steps, P!StepsOver, Rows
<1> QED
  BY <1>11, <1>12

(* The bag holds a path twice only where the zero-length base case derives *)
(* the direct edges again, or where an undirected pattern meets a loop.    *)
THEOREM EachPathOnce == Spec => []NoRowTwice
<1>1. Rows => NoRowTwice
  <2> SUFFICES ASSUME Rows, NEW r \in cte, NEW s \in cte, r # s,
                      r.path.start = s.path.start, EdgesOf(r) = EdgesOf(s)
               PROVE  \/ query.lo = 0 /\ r.zero # s.zero
                      \/ query.dir = "undirected" /\ HasSelfLoop(r)
    BY DEF NoRowTwice
  <2>1. CASE r.zero = s.zero
    BY <2>1, SameEdges
  <2>2. CASE r.zero # s.zero
    BY <2>2 DEF Rows, IsRow
  <2> QED
    BY <2>1, <2>2
<1> QED
  BY <1>1, AlwaysRows, PTL

-----------------------------------------------------------------------------
(* The WITH RECURSIVE query implements PathAnswer, for every graph and     *)
(* pattern: the outer join reads the admitted paths only (OnlyPaths), and  *)
(* a path the iteration missed would have a least prefix that it missed,   *)
(* which an iteration cannot have done (EachPath).                         *)

(* What the iteration leaves: a row that is not of the last one has been   *)
(* extended by every step that extends it.                                 *)
Iterated ==
  /\ pc \in {"anchor", "iterate", "read", "done"}
  /\ pc = "anchor" => cte = {}
  /\ pc # "anchor" => ZeroLengthBase \cup DirectEdges \subseteq cte
  /\ \A r \in cte \ delta : \A s \in Steps : Extends(r, s) => Extended(r, s) \in cte
  /\ pc \in {"read", "done"} => delta = {}
  /\ pc # "done" => answer = {}

LEMMA NextIterated == Rows /\ Iterated /\ [Next]_vars => Iterated'
<1> SUFFICES ASSUME Rows, Iterated, [Next]_vars PROVE Iterated'
  OBVIOUS
<1>1. query' = query /\ pushdown' = pushdown
  BY DEF Next, Anchor, Iterate, EndIteration, Read, vars
<1>2. /\ ZeroLengthBase' = ZeroLengthBase /\ DirectEdges' = DirectEdges /\ Steps' = Steps
      /\ \A r, s : Extends(r, s)' <=> Extends(r, s)
      /\ \A r, s : Extended(r, s)' = Extended(r, s)
  BY <1>1 DEF ZeroLengthBase, DirectEdges, Steps, TraversedEdges, RowOf, Extends,
              Extended, EndNode, Visited, BelowBound, Depth, MaxDepth, NotAtBarrier
<1>3. CASE Anchor
  <2> HIDE DEF ZeroLengthBase, DirectEdges, Steps, Extends, Extended
  <2>1. cte' = ZeroLengthBase \cup DirectEdges /\ delta' = cte' /\ pc' = "iterate"
        /\ answer' = answer /\ pc = "anchor"
    BY <1>3 DEF Anchor
  <2> QED
    BY <1>2, <2>1 DEF Iterated
<1>4. CASE Iterate
  <2>1. /\ cte' = cte \cup delta' /\ pc = "iterate" /\ pc' = "iterate" /\ answer' = answer
        /\ \A r \in delta, s \in Steps : Extends(r, s) => Extended(r, s) \in delta'
    <3> HIDE DEF Steps, Extends, Extended
    <3>1. ASSUME NEW r \in delta, NEW s \in Steps, Extends(r, s)
          PROVE  Extended(r, s) \in delta'
      <4> DEFINE p == <<r, s>>
      <4>1. p \in delta \X Steps /\ p[1] = r /\ p[2] = s
        OBVIOUS
      <4> HIDE DEF p
      <4> QED
        BY <1>4, <3>1, <4>1 DEF Iterate
    <3> QED
      BY <1>4, <3>1 DEF Iterate
  <2> HIDE DEF ZeroLengthBase, DirectEdges, Steps, Extends, Extended
  <2> QED
    BY <1>2, <2>1 DEF Iterated
<1>5. CASE EndIteration \/ Read \/ UNCHANGED vars
  <2> HIDE DEF ZeroLengthBase, DirectEdges, Steps, Extends, Extended
  <2>1. /\ cte' = cte /\ delta' = delta
        /\ \/ pc' = "read" /\ pc = "iterate" /\ delta = {} /\ answer' = answer
           \/ pc' = "done" /\ pc = "read"
           \/ pc' = pc /\ answer' = answer
    BY <1>5 DEF EndIteration, Read, vars
  <2> QED
    BY <1>2, <2>1 DEF Iterated
<1> QED
  BY <1>3, <1>4, <1>5 DEF Next

LEMMA AlwaysIterated == Spec => [](Rows /\ Iterated)
<1>1. Init => Iterated
  BY DEF Init, Iterated
<1> QED
  BY <1>1, AlwaysRows, NextIterated, PTL DEF Spec

-----------------------------------------------------------------------------
(* What a step is: over the edges the pattern admits, between nodes or     *)
(* NULL.                                                                   *)
LEMMA StepFacts ==
  ASSUME query \in Queries, NEW s \in Steps
  PROVE  /\ s \in P!StepsOver(query.edges, query.dir)
         /\ s.edge \in EdgeRow
         /\ P!StepFrom(s) \in Node \cup {Null} /\ P!StepTo(s) \in Node \cup {Null}
<1>1. s.edge \in query.edges /\ s \in P!StepsOver(query.edges, query.dir)
  BY DEF Steps, P!StepsOver, TraversedEdges
<1>2. s.edge \in EdgeRow
  BY <1>1, QueryFacts
<1> QED
  BY <1>1, <1>2, EdgeAssumption DEF P!StepFrom, P!StepTo

(* A row the outer join keeps is an admitted path.                         *)
Admitted(r) == /\ Keeps(query, r.path.start, EndNode(r), Depth(r))
               /\ query.hasNodeFilter => AllNodesOk(r)

LEMMA OnlyPaths ==
  ASSUME Rows, NEW r \in cte, Admitted(r)
  PROVE  r.path \in P!PathsOf(query)
<1> DEFINE n == Len(r.path.steps)
           t == r.path.steps
           T == P!StepsOver(query.edges, query.dir)
<1>1. /\ n \in Nat /\ DOMAIN t = 1..n /\ \A i \in 1..n : t[i] \in Steps
      /\ IsRow(r) /\ t \in Seq(Steps) /\ (t = << >> <=> n = 0)
  BY RowFacts DEF Rows, IsRow
<1>2. /\ n \in query.lo..query.hi /\ EndNode(r) \in query.targets
      /\ query.circular => r.path.start = EndNode(r)
  BY DEF Admitted, Keeps, Depth
<1>3. query.targets \subseteq Node /\ query.starts \subseteq Node
  BY QueryAssumption DEF Rows, QueryType
<1>4. r.path = P!Path(r.path.start, t)
  <2>1. r = RowOf(P!Path(r.path.start, t), r.zero)
    BY <1>1 DEF IsRow
  <2> QED
    BY <2>1 DEF RowOf, P!Path
<1>5. t \in [1..n -> T]
  <2>1. \A i \in 1..n : t[i] \in T
    BY <1>1, StepFacts DEF Rows
  <2> HIDE DEF Steps, T
  <2> QED
    BY <1>1, <2>1
<1>6. r.path.start \in query.starts
  BY <1>1 DEF IsRow
<1>7. EndNode(r) = IF n = 0 THEN r.path.start ELSE To(r, n)
  BY <1>1 DEF EndNode, P!EndOf, To
<1>8. ASSUME NEW i \in 1..n PROVE To(r, i) \in query.nodesOk
  <2>1. To(r, i) # Null
    <3>1. CASE i = n
      BY <1>2, <1>3, <1>7, <3>1, <1>1, NullAssumption
    <3>2. CASE i # n
      <4>1. i + 1 \in 1..n /\ i + 1 > 1 /\ (i + 1) - 1 = i
        BY <1>1, <3>2
      <4> QED
        BY <1>1, <4>1 DEF IsRow
    <3> QED
      BY <3>1, <3>2
  <2>2. To(r, i) \in Node
    BY <1>1, <2>1, StepFacts DEF To, Rows
  <2>3. query.hasNodeFilter \/ query.nodesOk = Node
    BY QueryFacts DEF Rows
  <2>4. query.hasNodeFilter => To(r, i) \in query.nodesOk
    BY <1>1 DEF Admitted, AllNodesOk, To
  <2> QED
    BY <2>2, <2>3, <2>4
<1>9. r.path.start \in query.starts \cap query.nodesOk
  <2>1. query.hasNodeFilter \/ query.nodesOk = Node
    BY QueryFacts DEF Rows
  <2> QED
    BY <2>1, <1>3, <1>6 DEF Admitted, AllNodesOk
<1>10. P!IsPath(query, r.path)
  <2>1. \A i \in 1..n :
          /\ From(r, i) = IF i = 1 THEN r.path.start ELSE To(r, i - 1)
          /\ i > 1 => From(r, i) \notin query.barriers
    BY <1>1 DEF IsRow
  <2>2. \A i, j \in 1..n : i < j => To(r, j) # From(r, i)
    BY <1>1 DEF IsRow
  <2> QED
    BY <1>1, <1>8, <1>9, <2>1, <2>2 DEF P!IsPath, From, To
<1>11. P!Keeps(query, r.path.start, P!EndOf(r.path), n)
  BY <1>2 DEF P!Keeps, EndNode
<1>12. r.path \in UNION {{P!Path(s, u) : s \in query.starts, u \in [1..k -> T]} :
                          k \in query.lo..query.hi}
  <2> HIDE DEF n, t, T
  <2>1. r.path \in {P!Path(s, u) : s \in query.starts, u \in [1..n -> T]}
    BY <1>4, <1>5, <1>6
  <2> QED
    BY <1>2, <2>1
<1> QED
  BY <1>10, <1>11, <1>12 DEF P!PathsOf

-----------------------------------------------------------------------------
(* The converse, by the least prefix of a path that would be missing.      *)
Prefix(t, m) == [i \in 1..m |-> t[i]]

LEMMA PrefixRows ==
  ASSUME Rows, Iterated, pc = "read",
         NEW k \in Nat, k >= 1, k <= query.hi,
         NEW start \in query.starts,
         NEW t \in [1..k -> P!StepsOver(query.edges, query.dir)],
         P!IsPath(query, P!Path(start, t)),
         NEW m \in 1..k
  PROVE  RowOf(P!Path(start, Prefix(t, m)), FALSE) \in cte
<1> DEFINE R(j) == RowOf(P!Path(start, Prefix(t, j)), FALSE)
           F(j) == P!StepFrom(t[j])
           G(j) == P!StepTo(t[j])
<1>1. /\ start \in query.nodesOk
      /\ \A i \in 1..k : /\ F(i) = IF i = 1 THEN start ELSE G(i - 1)
                         /\ G(i) \in query.nodesOk
                         /\ i > 1 => F(i) \notin query.barriers
      /\ \A i, j \in 1..k : i < j => G(j) # F(i)
  BY DEF P!IsPath, P!Path
<1>2. query.nodesOk \subseteq Node /\ query.edges \subseteq EdgeRow
  BY QueryFacts DEF Rows
<1>3. \A i \in 1..k : F(i) \in query.nodesOk
  <2> TAKE i \in 1..k
  <2>1. i # 1 => i - 1 \in 1..k
    OBVIOUS
  <2> QED
    BY <1>1, <2>1
<1>4. ASSUME NEW i \in 1..k PROVE t[i] \in Steps
  <2>1. t[i] \in P!StepsOver(query.edges, query.dir)
    OBVIOUS
  <2>2. t[i].edge \in query.edges /\ t[i].way \in P!Ways(query.dir)
        /\ t[i] = [edge |-> t[i].edge, way |-> t[i].way]
    BY <2>1 DEF P!StepsOver
  <2>3. Src[t[i].edge] \in query.nodesOk /\ Dst[t[i].edge] \in query.nodesOk
    BY <1>1, <1>3 DEF P!StepFrom, P!StepTo
  <2>4. t[i].edge \in TraversedEdges
    BY <2>2, <2>3 DEF TraversedEdges
  <2> QED
    BY <2>2, <2>4 DEF Steps, P!StepsOver
<1>5. R(1) \in cte
  <2>1. 1 \in 1..k /\ Prefix(t, 1) = <<t[1]>>
    BY DEF Prefix
  <2>2. t[1] \in Steps /\ F(1) = start
    BY <1>1, <1>4, <2>1
  <2>3. R(1) \in DirectEdges
    BY <2>1, <2>2 DEF DirectEdges
  <2> QED
    BY <2>3 DEF Iterated
<1>6. ASSUME NEW j \in 1..k, j + 1 \in 1..k, R(j) \in cte PROVE R(j + 1) \in cte
  <2> DEFINE r == R(j)
             s == t[j + 1]
  <2>1. r.path.start = start /\ r.path.steps = Prefix(t, j) /\ r.zero = FALSE
    BY DEF RowOf, P!Path
  <2>2. Len(r.path.steps) \in Nat /\ DOMAIN r.path.steps = 1..Len(r.path.steps)
    BY <1>6, RowFacts
  <2>3. Len(r.path.steps) = j /\ r.path.steps # << >>
    <3> DEFINE n == Len(r.path.steps)
    <3>1. n \in Nat /\ j \in Nat /\ j >= 1 /\ (r.path.steps = << >> <=> n = 0)
      <4>1. r \in cte
        BY <1>6
      <4>2. j \in Nat /\ j >= 1
        OBVIOUS
      <4> HIDE DEF r
      <4> QED
        BY <4>1, <4>2, RowFacts
    <3>2. 1..n = 1..j
      BY <2>1, <2>2 DEF Prefix
    <3> HIDE DEF n
    <3>3. j \in 1..n /\ (n + 1 \notin 1..j) /\ (n >= 1 => n \in 1..j)
      BY <3>1, <3>2
    <3>4. n = j
      BY <3>1, <3>3
    <3> HIDE DEF r
    <3> QED
      BY <3>1, <3>4 DEF n
  <2>4. \A i \in 1..j : r.path.steps[i] = t[i]
    BY <2>1 DEF Prefix
  <2>5. EndNode(r) = G(j)
    <3>1. j \in 1..j
      BY <1>6
    <3> HIDE DEF r
    <3>2. r.path.steps[j] = t[j]
      BY <2>4, <3>1
    <3> QED
      BY <2>3, <3>2 DEF EndNode, P!EndOf
  <2>6. Visited(r) = {F(i) : i \in 1..j}
    BY <2>2, <2>3, <2>4 DEF Visited
  <2>7. F(j + 1) = G(j) /\ F(j + 1) \notin query.barriers /\ G(j) \in Node
        /\ G(j + 1) \in Node
    BY <1>1, <1>2, <1>6
  <2>8. G(j + 1) \notin Visited(r)
    <3>1. \A i \in 1..j : i \in 1..k /\ i < j + 1
      BY <1>6
    <3>2. \A i \in 1..j : G(j + 1) # F(i)
      BY <1>1, <1>6, <3>1
    <3> HIDE DEF r, F, G
    <3> QED
      BY <2>6, <3>2
  <2>9. BelowBound(r)
    <3>1. query.hi \in Nat /\ query.hi # 0 /\ j < query.hi
      BY <1>6, QueryFacts DEF Rows
    <3> QED
      BY <2>3, <3>1 DEF BelowBound, MaxDepth, Depth
  <2>10. Extends(r, s)
    BY <2>5, <2>7, <2>8, <2>9, NullAssumption DEF Extends, NotAtBarrier
  <2>11. delta = {} /\ s \in Steps
    BY <1>4, <1>6 DEF Iterated
  <2>12. Extended(r, s) \in cte
    BY <1>6, <2>10, <2>11 DEF Iterated
  <2>13. Append(Prefix(t, j), s) = Prefix(t, j + 1)
    <3>1. Prefix(t, j) \in Seq(Steps) /\ Len(Prefix(t, j)) = j
      BY <1>6, <2>1, <2>3 DEF Rows, IsRow
    <3> DEFINE u == Prefix(t, j)
               v == Prefix(t, j + 1)
    <3>2. \A i \in 1..j : u[i] = t[i]
      BY DEF Prefix
    <3>3. v = [i \in 1..(j+1) |-> t[i]]
      BY DEF Prefix
    <3> HIDE DEF u, v, Steps
    <3>4. /\ Append(u, s) = [i \in 1..(j+1) |-> IF i = j + 1 THEN s ELSE u[i]]
      BY <3>1, <2>11 DEF u
    <3> QED
      BY <3>2, <3>3, <3>4 DEF u, v
  <2> QED
    BY <2>1, <2>12, <2>13 DEF Extended
<1> DEFINE S == {j \in 1..k : R(j) \notin cte}
<1> HIDE DEF R
<1>7. ASSUME S # {} PROVE FALSE
  <2>1. S \in SUBSET Nat
    OBVIOUS
  <2>2. PICK j \in S : \A i \in S : j <= i
    <3> HIDE DEF S
    <3> QED
      BY <1>7, <2>1, LeastNumber
  <2>3. j # 1
    BY <1>5, <2>2
  <2>4. j - 1 \in 1..k /\ (j - 1) + 1 = j /\ j \in 1..k
    BY <2>2, <2>3
  <2>5. R(j - 1) \in cte
    BY <2>2, <2>4
  <2> QED
    BY <1>6, <2>2, <2>4, <2>5
<1>8. R(m) \in cte
  BY <1>7
<1> QED
  BY <1>8 DEF R

LEMMA EachPath ==
  ASSUME Rows, Iterated, pc = "read", NEW p \in P!PathsOf(query)
  PROVE  \E r \in cte : r.path = p /\ Admitted(r)
<1> DEFINE T == P!StepsOver(query.edges, query.dir)
<1>1. /\ P!IsPath(query, p) /\ P!Keeps(query, p.start, P!EndOf(p), Len(p.steps))
      /\ \E k \in query.lo..query.hi :
           \E start \in query.starts, t \in [1..k -> T] : p = P!Path(start, t)
  BY DEF P!PathsOf
<1>2. PICK k \in query.lo..query.hi :
        \E start \in query.starts, t \in [1..k -> T] : p = P!Path(start, t)
  BY <1>1
<1>3. PICK start \in query.starts, t \in [1..k -> T] : p = P!Path(start, t)
  BY <1>2
<1>4. p.start = start /\ p.steps = t
  BY <1>3 DEF P!Path
<1>5. k \in Nat /\ query.lo \in Nat /\ query.hi \in Nat
  BY QueryFacts DEF Rows
<1>6. DOMAIN t = 1..k
  OBVIOUS
<1> DEFINE Out(r) == r.path = p /\ r \in cte
<1>7. \E r : Out(r)
  <2>1. CASE k = 0
    <3>1. query.lo = 0 /\ t = << >>
      <4>1. t \in [1..0 -> T]
        BY <2>1
      <4>2. t = << >>
        BY <4>1
      <4> QED
        BY <1>5, <2>1, <4>2
    <3>2. RowOf(P!Path(start, << >>), TRUE) \in ZeroLengthBase
      BY <3>1 DEF ZeroLengthBase
    <3>3. RowOf(P!Path(start, << >>), TRUE) \in cte
      BY <3>2 DEF Iterated
    <3>4. RowOf(P!Path(start, << >>), TRUE).path = p
      BY <1>3, <3>1 DEF RowOf
    <3> QED
      BY <3>3, <3>4
  <2>2. CASE k # 0
    <3>1. k >= 1 /\ k <= query.hi /\ k \in 1..k
      BY <1>5, <2>2
    <3>2. P!IsPath(query, P!Path(start, t))
      BY <1>1, <1>3
    <3>3. RowOf(P!Path(start, Prefix(t, k)), FALSE) \in cte
      BY <1>5, <3>1, <3>2, PrefixRows
    <3>4. Prefix(t, k) = t
      BY DEF Prefix
    <3>5. RowOf(P!Path(start, t), FALSE).path = p
      BY <1>3 DEF RowOf
    <3> QED
      BY <3>3, <3>4, <3>5
  <2> QED
    BY <2>1, <2>2
<1>8. PICK r : r.path = p /\ r \in cte
  BY <1>7
<1>9. Keeps(query, r.path.start, EndNode(r), Depth(r))
  BY <1>1, <1>8 DEF P!Keeps, Keeps, EndNode, Depth
<1>10. AllNodesOk(r)
  BY <1>1, <1>8 DEF P!IsPath, AllNodesOk
<1> QED
  BY <1>8, <1>9, <1>10 DEF Admitted

LEMMA ReadPaths ==
  ASSUME Rows, Iterated, Read
  PROVE  {r.path : r \in answer'} = P!PathsOf(query)
<1>1. answer' = {r \in cte : Admitted(r)} /\ pc = "read"
  BY DEF Read, Admitted
<1> HIDE DEF Admitted
<1> QED
  BY <1>1, OnlyPaths, EachPath

-----------------------------------------------------------------------------
(* Whatever the graph, the pattern and the pushdown flag: the outer query  *)
(* returns exactly the admitted paths, each edge at most once in each.     *)
THEOREM QueryImplementsAnswer == Spec => Refines
<1>1. Init => P!Init
  BY DEF Init, P!Init
<1>2. Rows /\ Iterated /\ [Next]_vars => [P!Answer]_(P!vars)
  <2> SUFFICES ASSUME Rows, Iterated, [Next]_vars PROVE [P!Answer]_(P!vars)
    OBVIOUS
  <2>1. CASE Anchor \/ Iterate \/ EndIteration \/ UNCHANGED vars
    BY <2>1 DEF Anchor, Iterate, EndIteration, vars, P!vars
  <2>2. CASE Read
    <3>1. /\ answer' = {r \in cte : Admitted(r)} /\ query' = query
          /\ pc = "read" /\ pc' = "done"
      BY <2>2 DEF Read, Admitted
    <3>2. {r.path : r \in answer'} = P!PathsOf(query)
      BY <2>2, ReadPaths
    <3> QED
      BY <3>1, <3>2 DEF P!Answer
  <2> QED
    BY <2>1, <2>2 DEF Next
<1> QED
  BY <1>1, <1>2, AlwaysIterated, PTL DEF Spec, Refines, P!Spec
-----------------------------------------------------------------------------
(* The paths of the answer and the shortest walks of the procedural        *)
(* rendering: a path is a walk, and a shortest walk, which meets no node   *)
(* twice, is a path.                                                       *)
At(p, i) == IF i = 0 THEN p.start ELSE P!StepTo(p.steps[i])
AllSteps == P!StepsOver(query.edges, query.dir)

LEMMA StepLinks ==
  ASSUME query \in Queries, NEW s \in AllSteps, P!StepTo(s) \in query.nodesOk
  PROVE  /\ s.edge \in EdgeRow
         /\ Links(query, s.edge, P!StepFrom(s), P!StepTo(s))
<1>1. s.edge \in query.edges /\ s.way \in P!Ways(query.dir) /\ query.edges \subseteq EdgeRow
  BY QueryFacts DEF AllSteps, P!StepsOver
<1>2. <<P!StepFrom(s), P!StepTo(s)>> \in Orientations(query.dir, s.edge)
  <2>1. CASE query.dir = "forward"
    BY <1>1, <2>1, WaysFacts DEF P!StepFrom, P!StepTo, Orientations
  <2>2. CASE query.dir = "backward"
    BY <1>1, <2>2, WaysFacts DEF P!StepFrom, P!StepTo, Orientations
  <2>3. CASE query.dir = "undirected"
    BY <1>1, <2>3, WaysFacts DEF P!StepFrom, P!StepTo, Orientations
  <2> QED
    BY <2>1, <2>2, <2>3, WaysFacts
<1> QED
  BY <1>1, <1>2 DEF Links

LEMMA LinkSteps ==
  ASSUME query \in Queries, NEW e, NEW m, NEW n, Links(query, e, m, n)
  PROVE  \E s \in AllSteps : s.edge = e /\ P!StepFrom(s) = m /\ P!StepTo(s) = n
<1>1. e \in query.edges /\ <<m, n>> \in Orientations(query.dir, e)
  BY DEF Links
<1>2. ASSUME NEW y \in P!Ways(query.dir),
             m = IF y = "out" THEN Src[e] ELSE Dst[e],
             n = IF y = "out" THEN Dst[e] ELSE Src[e]
      PROVE  \E s \in AllSteps : s.edge = e /\ P!StepFrom(s) = m /\ P!StepTo(s) = n
  <2> DEFINE s == [edge |-> e, way |-> y]
  <2>1. s \in AllSteps /\ s.edge = e /\ s.way = y
    BY <1>1 DEF AllSteps, P!StepsOver
  <2> QED
    BY <1>2, <2>1 DEF P!StepFrom, P!StepTo
<1>3. \E y \in P!Ways(query.dir) : /\ m = IF y = "out" THEN Src[e] ELSE Dst[e]
                                   /\ n = IF y = "out" THEN Dst[e] ELSE Src[e]
  <2>1. CASE query.dir = "forward"
    BY <1>1, <2>1, WaysFacts DEF Orientations
  <2>2. CASE query.dir = "backward"
    BY <1>1, <2>2, WaysFacts DEF Orientations
  <2>3. CASE query.dir = "undirected"
    BY <1>1, <2>3, WaysFacts DEF Orientations
  <2> QED
    BY <2>1, <2>2, <2>3, WaysFacts
<1> QED
  BY <1>2, <1>3

LEMMA PathFacts ==
  ASSUME query \in Queries, NEW p \in P!PathsOf(query)
  PROVE  /\ Len(p.steps) \in query.lo..query.hi /\ Len(p.steps) \in Nat
         /\ DOMAIN p.steps = 1..Len(p.steps)
         /\ \A i \in 1..Len(p.steps) : p.steps[i] \in AllSteps
         /\ P!IsPath(query, p) /\ p.start \in Seeds(query) /\ p.start \in Node
         /\ P!EndOf(p) = At(p, Len(p.steps))
         /\ Keeps(query, p.start, P!EndOf(p), Len(p.steps))
<1>1. /\ P!IsPath(query, p) /\ P!Keeps(query, p.start, P!EndOf(p), Len(p.steps))
      /\ \E k \in query.lo..query.hi :
           \E s \in query.starts, t \in [1..k -> AllSteps] : p = P!Path(s, t)
  BY DEF P!PathsOf, AllSteps
<1>2. PICK k \in query.lo..query.hi :
           \E s \in query.starts, t \in [1..k -> AllSteps] : p = P!Path(s, t)
  BY <1>1
<1>3. PICK s \in query.starts, t \in [1..k -> AllSteps] : p = P!Path(s, t)
  BY <1>2
<1>4. k \in Nat /\ query.lo \in Nat
  BY QueryFacts
<1>5. p.start = s /\ p.steps = t
  BY <1>3 DEF P!Path
<1> HIDE DEF AllSteps
<1>6. Len(t) = k /\ DOMAIN t = 1..k /\ (\A i \in 1..k : t[i] \in AllSteps)
      /\ (t = << >> <=> k = 0)
  BY <1>4
<1>7. p.start \in Seeds(query) /\ p.start \in Node
  BY <1>1, QueryFacts DEF P!IsPath, Seeds
<1>8. Keeps(query, p.start, P!EndOf(p), Len(p.steps))
  BY <1>1 DEF P!Keeps, Keeps
<1>9. P!EndOf(p) = At(p, Len(p.steps))
  BY <1>5, <1>6 DEF P!EndOf, At
<1> QED
  BY <1>1, <1>4, <1>5, <1>6, <1>7, <1>8, <1>9

LEMMA PathSteps ==
  ASSUME query \in Queries, NEW p \in P!PathsOf(query), NEW i \in 1..Len(p.steps)
  PROVE  /\ At(p, i) \in Node /\ At(p, i - 1) \in Node
         /\ p.steps[i].edge \in EdgeRow
         /\ Links(query, p.steps[i].edge, At(p, i - 1), At(p, i))
         /\ CanLeave(query, At(p, i - 1), i - 1)
<1>1. /\ Len(p.steps) \in Nat /\ DOMAIN p.steps = 1..Len(p.steps)
      /\ p.steps[i] \in AllSteps
      /\ P!IsPath(query, p) /\ p.start \in Node
  BY PathFacts
<1>2. i > 1 => i - 1 \in 1..Len(p.steps) /\ i - 1 # 0
  BY <1>1
<1>3. /\ P!StepFrom(p.steps[i]) = At(p, i - 1)
      /\ P!StepTo(p.steps[i]) \in query.nodesOk
      /\ i > 1 => P!StepFrom(p.steps[i]) \notin query.barriers
  BY <1>1, <1>2 DEF P!IsPath, At
<1>4. At(p, i) = P!StepTo(p.steps[i])
  BY DEF At
<1>5. At(p, i - 1) \in Node
  BY <1>1, <1>2, QueryFacts DEF P!IsPath, At
<1>6. CanLeave(query, At(p, i - 1), i - 1)
  BY <1>3 DEF CanLeave
<1>7. /\ p.steps[i].edge \in EdgeRow
      /\ Links(query, p.steps[i].edge, At(p, i - 1), At(p, i))
  BY <1>1, <1>3, <1>4, StepLinks
<1> QED
  BY <1>3, <1>4, <1>5, <1>6, <1>7, QueryFacts

LEMMA PathIsWalk ==
  ASSUME query \in Queries, NEW p \in P!PathsOf(query), NEW k \in 0..Len(p.steps)
  PROVE  Reaches(query, At(p, k), k)
<1> DEFINE w == [i \in 0..k |-> At(p, i)]
<1>1. Len(p.steps) \in Nat /\ p.start \in Seeds(query) /\ At(p, 0) = p.start
      /\ p.start \in Node
  BY PathFacts DEF At
<1>2. \A i \in 0..k : At(p, i) \in Node
  <2> TAKE i \in 0..k
  <2>1. i = 0 \/ i \in 1..Len(p.steps)
    BY <1>1
  <2> QED
    BY <1>1, <2>1, PathSteps
<1>3. w \in [0..k -> Node] /\ \A i \in 0..k : w[i] = At(p, i)
  BY <1>2
<1>4. \A i \in 0..(k-1) : /\ \E e \in EdgeRow : Links(query, e, At(p, i), At(p, i + 1))
                          /\ i = 0 \/ At(p, i) \notin query.barriers
  <2> TAKE i \in 0..(k-1)
  <2>1. i + 1 \in 1..Len(p.steps) /\ (i + 1) - 1 = i
    BY <1>1
  <2> QED
    BY <2>1, PathSteps DEF CanLeave
<1>5. 0 \in 0..k /\ k \in 0..k /\ \A i \in 0..(k-1) : i \in 0..k /\ i + 1 \in 0..k
  BY <1>1
<1> HIDE DEF w
<1>6. IsWalk(query, k, w)
  BY <1>1, <1>3, <1>4, <1>5 DEF IsWalk
<1> QED
  BY <1>3, <1>5, <1>6 DEF Reaches

LEMMA ShortestIsPath ==
  ASSUME query \in Queries, NEW d \in query.lo..query.hi, d >= 1,
         NEW n \in query.targets, InLayer(query, n, d),
         NEW m \in Node, Reaches(query, m, d - 1), CanLeave(query, m, d - 1),
         NEW e \in EdgeRow, Links(query, e, m, n)
  PROVE  \E start \in Seeds(query) :
           (query.circular => start = n) =>
             \E p \in P!PathsOf(query) :
               /\ p.start = start /\ Len(p.steps) = d /\ P!EndOf(p) = n
               /\ p.steps[d].edge = e
<1>1. /\ query.lo \in Nat /\ d \in Nat /\ d - 1 \in Nat /\ (d - 1) + 1 = d
      /\ n \in Node /\ n \in query.nodesOk
  BY QueryFacts, QueryAssumption DEF QueryType, Links
<1>2. PICK v \in [0..(d-1) -> Node] : IsWalk(query, d - 1, v) /\ v[d-1] = m
  BY DEF Reaches
<1> DEFINE w == [i \in 0..d |-> IF i = d THEN n ELSE v[i]]
<1>3. /\ w \in [0..d -> Node] /\ w[d] = n /\ w[d-1] = m
      /\ \A i \in 0..(d-1) : w[i] = v[i]
  <2>1. \A i \in 0..d : i = d \/ i \in 0..(d-1)
    BY <1>1
  <2>2. d \in 0..d /\ \A i \in 0..(d-1) : i \in 0..d /\ i # d
    BY <1>1
  <2>3. d - 1 \in 0..(d-1)
    BY <1>1
  <2> QED
    BY <1>1, <1>2, <2>1, <2>2, <2>3
<1> HIDE DEF w
<1>4. \A i \in 0..(d-1) : /\ \E f \in EdgeRow : Links(query, f, w[i], w[i+1])
                          /\ i = 0 \/ w[i] \notin query.barriers
  <2> TAKE i \in 0..(d-1)
  <2>1. CASE i = d - 1
    BY <1>1, <1>3, <2>1 DEF CanLeave
  <2>2. CASE i # d - 1
    <3>1. i \in 0..((d-1)-1) /\ i \in 0..(d-1) /\ i + 1 \in 0..(d-1)
      BY <1>1, <2>2
    <3> QED
      BY <1>2, <1>3, <3>1 DEF IsWalk
  <2> QED
    BY <2>1, <2>2
<1>5. w[0] \in Seeds(query)
  <2>1. 0 \in 0..(d-1)
    BY <1>1
  <2> QED
    BY <1>2, <1>3, <2>1 DEF IsWalk
<1>6. IsWalk(query, d, w)
  BY <1>4, <1>5 DEF IsWalk
<1> DEFINE Fits(i, s) == /\ P!StepFrom(s) = w[i-1] /\ P!StepTo(s) = w[i]
                         /\ i = d => s.edge = e
           t == [i \in 1..d |-> CHOOSE s \in AllSteps : Fits(i, s)]
           p == P!Path(w[0], t)
<1>7. \A i \in 1..d : \E s \in AllSteps : Fits(i, s)
  <2> TAKE i \in 1..d
  <2>1. i - 1 \in 0..(d-1) /\ (i - 1) + 1 = i
    BY <1>1
  <2>2. PICK f : Links(query, f, w[i-1], w[i]) /\ (i = d => f = e)
    BY <1>3, <1>4, <2>1
  <2> QED
    BY <2>2, LinkSteps
<1>8. t \in [1..d -> AllSteps] /\ \A i \in 1..d : Fits(i, t[i])
  <2> HIDE DEF Fits, AllSteps
  <2> QED
    BY <1>7
<1>9. p.start = w[0] /\ p.steps = t
  BY DEF P!Path
<1> HIDE DEF t
<1>10. Len(t) = d /\ DOMAIN t = 1..d /\ t # << >>
  <2> HIDE DEF AllSteps
  <2> QED
    BY <1>1, <1>8
<1>11. \A i \in 1..d : /\ i - 1 \in 0..d /\ i \in 0..d /\ i - 1 \in 0..(d-1)
                       /\ (i - 1) + 1 = i
                       /\ i > 1 => i - 1 \in 1..d /\ i - 1 # 0
  BY <1>1
<1>12. P!IsPath(query, p)
  <2>1. p.start \in query.starts \cap query.nodesOk
    BY <1>5, <1>9 DEF Seeds
  <2>2. ASSUME NEW i \in 1..d
        PROVE  /\ P!StepFrom(t[i]) = IF i = 1 THEN w[0] ELSE P!StepTo(t[i-1])
               /\ P!StepTo(t[i]) \in query.nodesOk
               /\ i > 1 => P!StepFrom(t[i]) \notin query.barriers
    <3>1. P!StepFrom(t[i]) = w[i-1] /\ P!StepTo(t[i]) = w[i]
      BY <1>8
    <3>2. i > 1 => P!StepTo(t[i-1]) = w[i-1]
      BY <1>8, <1>11
    <3>3. w[i] \in query.nodesOk
      BY <1>4, <1>11 DEF Links
    <3>4. i > 1 => w[i-1] \notin query.barriers
      BY <1>4, <1>11
    <3> QED
      BY <3>1, <3>2, <3>3, <3>4
  <2>3. ASSUME NEW i \in 1..d, NEW j \in 1..d, i < j
        PROVE  P!StepTo(t[j]) # P!StepFrom(t[i])
    <3>1. P!StepTo(t[j]) = w[j] /\ P!StepFrom(t[i]) = w[i-1]
      BY <1>8
    <3>2. j # i - 1 /\ j \in 0..d /\ i - 1 \in 0..d
      BY <1>1, <2>3
    <3> QED
      BY <1>1, <1>3, <1>6, <3>1, <3>2, ShortestVisitsOnce
  <2> QED
    BY <1>9, <1>10, <2>1, <2>2, <2>3 DEF P!IsPath
<1>13. P!EndOf(p) = n /\ t[d].edge = e
  <2>1. d \in 1..d
    BY <1>1
  <2> QED
    BY <1>3, <1>8, <1>9, <1>10, <2>1 DEF P!EndOf
<1>14. ASSUME query.circular => w[0] = n PROVE p \in P!PathsOf(query)
  <2>1. P!Keeps(query, p.start, P!EndOf(p), Len(p.steps))
    BY <1>9, <1>10, <1>13, <1>14 DEF P!Keeps
  <2>2. w[0] \in query.starts
    BY <1>5 DEF Seeds
  <2>3. p \in {P!Path(s, u) : s \in query.starts, u \in [1..d -> AllSteps]}
    BY <1>8, <2>2
  <2>4. p \in UNION {{P!Path(s, u) : s \in query.starts, u \in [1..k -> AllSteps]} :
                       k \in query.lo..query.hi}
    <3> HIDE DEF p, AllSteps
    <3> QED
      BY <2>3
  <2> QED
    BY <1>12, <2>1, <2>4 DEF P!PathsOf, AllSteps
<1> QED
  BY <1>5, <1>9, <1>10, <1>13, <1>14
(* A path that ends where it starts is a loop of one edge: a later step    *)
(* would enter a node an earlier one left.                                 *)
LEMMA ReturningIsLoop ==
  ASSUME query \in Queries, query.lo = 1,
         NEW p \in P!PathsOf(query), P!EndOf(p) = p.start
  PROVE  /\ Len(p.steps) = 1 /\ p.steps[1].edge \in query.edges
         /\ Src[p.steps[1].edge] = p.start /\ Dst[p.steps[1].edge] = p.start
<1>1. /\ Len(p.steps) \in Nat /\ Len(p.steps) >= 1 /\ DOMAIN p.steps = 1..Len(p.steps)
      /\ \A i \in 1..Len(p.steps) : p.steps[i] \in AllSteps
      /\ P!IsPath(query, p) /\ P!EndOf(p) = At(p, Len(p.steps))
  BY PathFacts, QueryFacts
<1>2. P!StepFrom(p.steps[1]) = p.start /\ P!StepTo(p.steps[Len(p.steps)]) = p.start
  BY <1>1 DEF P!IsPath, At
<1>3. Len(p.steps) = 1
  <2>1. \A i, j \in 1..Len(p.steps) :
          i < j => P!StepTo(p.steps[j]) # P!StepFrom(p.steps[i])
    BY <1>1 DEF P!IsPath
  <2> DEFINE n == Len(p.steps)
  <2>2. n \in Nat /\ n >= 1 /\ 1 \in 1..n /\ n \in 1..n
    BY <1>1
  <2>3. ~ (1 < n)
    BY <1>2, <2>1, <2>2
  <2> HIDE DEF n
  <2>4. n = 1
    BY <2>2, <2>3
  <2> QED
    BY <2>4 DEF n
<1>4. p.steps[1] \in AllSteps
  BY <1>1, <1>3
<1> QED
  BY <1>2, <1>3, <1>4 DEF AllSteps, P!StepsOver, P!StepFrom, P!StepTo

LEMMA LoopIsPath ==
  ASSUME query \in Queries, query.lo = 1, NEW row \in LoopsAtStart(query)
  PROVE  /\ row = [start |-> row.start, end |-> row.start, depth |-> 1, edge |-> row.edge]
         /\ \E p \in P!PathsOf(query) :
              /\ p.start = row.start /\ Len(p.steps) = 1 /\ P!EndOf(p) = row.start
              /\ p.steps[1].edge = row.edge
<1> DEFINE s == [edge |-> row.edge, way |-> IF query.dir = "backward" THEN "in" ELSE "out"]
           p == P!Path(row.start, <<s>>)
<1>1. /\ row \in [start : Seeds(query), end : Seeds(query), depth : {1}, edge : query.edges]
      /\ row.start = row.end
      /\ Src[row.edge] = row.start /\ Dst[row.edge] = row.start
      /\ Keeps(query, row.start, row.end, row.depth)
  BY DEF LoopsAtStart
<1>2. /\ row = [start |-> row.start, end |-> row.start, depth |-> 1, edge |-> row.edge]
      /\ row.start \in query.starts /\ row.start \in query.nodesOk /\ row.edge \in query.edges
      /\ Keeps(query, row.start, row.start, 1)
  BY <1>1 DEF Seeds
<1>3. s \in AllSteps /\ P!StepFrom(s) = row.start /\ P!StepTo(s) = row.start /\ s.edge = row.edge
  BY <1>1, <1>2, QueryFacts DEF AllSteps, P!StepsOver, P!Ways, P!StepFrom, P!StepTo
<1> HIDE DEF s
<1>4. /\ p.start = row.start /\ p.steps = <<s>> /\ Len(p.steps) = 1 /\ p.steps[1] = s
      /\ DOMAIN p.steps = {1} /\ p.steps # << >>
  BY DEF P!Path
<1>5. P!EndOf(p) = row.start
  BY <1>3, <1>4 DEF P!EndOf
<1>6. P!IsPath(query, p)
  BY <1>2, <1>3, <1>4 DEF P!IsPath
<1>7. <<s>> \in [1..1 -> AllSteps] /\ 1 \in query.lo..query.hi
  BY <1>2, <1>3 DEF Keeps
<1>8. P!Keeps(query, p.start, P!EndOf(p), Len(p.steps))
  BY <1>2, <1>4, <1>5 DEF Keeps, P!Keeps
<1>9. p \in UNION {{P!Path(x, u) : x \in query.starts, u \in [1..k -> AllSteps]} :
                     k \in query.lo..query.hi}
  <2> DEFINE OfLength(k) == {P!Path(x, u) : x \in query.starts, u \in [1..k -> AllSteps]}
  <2>1. p \in OfLength(1)
    BY <1>2, <1>7
  <2> HIDE DEF p, OfLength
  <2>2. p \in UNION {OfLength(k) : k \in query.lo..query.hi}
    BY <1>7, <2>1
  <2> QED
    BY <2>2 DEF OfLength
<1>10. p \in P!PathsOf(query)
  BY <1>6, <1>8, <1>9 DEF P!PathsOf, AllSteps
<1> HIDE DEF p
<1> QED
  BY <1>2, <1>3, <1>4, <1>5, <1>10

LEMMA SameRows ==
  ASSUME query \in Queries, query.lo # 0, ~ Ambiguous(query),
         {r.path : r \in answer} = P!PathsOf(query)
  PROVE  /\ Requested(query) = {r \in LeastDepthRows : ~ ReachedBefore(query, r.end, r.depth)}
         /\ query.lo = 1 => LeastDepthRows = Requested(query) \cup LoopsAtStart(query)
<1> DEFINE Least(x) == \A y \in answer : EndNode(y) = EndNode(x) => Depth(x) <= Depth(y)
           RowFor(r) == [start |-> r.path.start, end |-> EndNode(r), depth |-> Depth(r),
                         edge |-> r.path.steps[Depth(r)].edge]
           All == [start : Seeds(query), end : query.nodesOk,
                   depth : query.lo..query.hi, edge : query.edges]
<1>1. LeastDepthRows = {RowFor(r) : r \in {x \in answer : Least(x)}}
  BY DEF LeastDepthRows
<1>2. \A s \in Seeds(query) : \A n : s = n <=> n \in Seeds(query)
  BY DEF Ambiguous
<1>3. /\ query.hi \in Nat /\ Seeds(query) \subseteq Node
      /\ query.lo \in Nat /\ query.lo >= 1
  BY QueryFacts
<1>4. ASSUME NEW r \in answer
      PROVE  /\ r.path \in P!PathsOf(query)
             /\ Depth(r) \in 1..query.hi /\ Depth(r) \in Nat /\ Depth(r) - 1 \in Nat
             /\ Depth(r) \in query.lo..query.hi /\ Depth(r) = Len(r.path.steps)
             /\ r.path.start \in Seeds(query) /\ EndNode(r) = At(r.path, Depth(r))
             /\ Keeps(query, r.path.start, EndNode(r), Depth(r))
             /\ Reaches(query, EndNode(r), Depth(r))
  <2>1. r.path \in P!PathsOf(query)
    BY <1>4
  <2>2. /\ Len(r.path.steps) \in query.lo..query.hi /\ Len(r.path.steps) \in Nat
        /\ r.path.start \in Seeds(query)
        /\ P!EndOf(r.path) = At(r.path, Len(r.path.steps))
        /\ Keeps(query, r.path.start, P!EndOf(r.path), Len(r.path.steps))
    BY <2>1, PathFacts
  <2>3. Reaches(query, At(r.path, Len(r.path.steps)), Len(r.path.steps))
    BY <2>1, <2>2, PathIsWalk
  <2>4. Depth(r) = Len(r.path.steps) /\ EndNode(r) = P!EndOf(r.path)
    BY DEF Depth, EndNode
  <2> QED
    BY <1>3, <2>1, <2>2, <2>3, <2>4
<1>5. ASSUME NEW r \in answer, ~ ReachedBefore(query, EndNode(r), Depth(r))
      PROVE  RowFor(r) \in Requested(query)
  <2> DEFINE d == Depth(r)
             n == EndNode(r)
             m == At(r.path, d - 1)
             e == r.path.steps[d].edge
  <2>1. /\ r.path \in P!PathsOf(query) /\ d \in Nat /\ d - 1 \in Nat /\ d >= 1
        /\ d \in query.lo..query.hi /\ d \in 1..Len(r.path.steps)
        /\ d - 1 \in 0..Len(r.path.steps)
        /\ r.path.start \in Seeds(query)
        /\ Keeps(query, r.path.start, n, d) /\ Reaches(query, n, d)
        /\ n = At(r.path, d)
    BY <1>3, <1>4 DEF Depth
  <2> HIDE DEF d, n
  <2>2. /\ m \in Node /\ n \in Node /\ e \in EdgeRow /\ Links(query, e, m, n)
        /\ CanLeave(query, m, d - 1)
    BY <2>1, PathSteps
  <2>3. Reaches(query, m, d - 1)
    BY <2>1, PathIsWalk
  <2> HIDE DEF m, e
  <2>4. ~ ReachedBefore(query, n, d)
    BY <1>5 DEF n, d
  <2>5. RowFor(r) = [start |-> r.path.start, end |-> n, depth |-> d, edge |-> e]
    BY DEF n, d, e
  <2> DEFINE row == [start |-> r.path.start, end |-> n, depth |-> d, edge |-> e]
  <2>6. row \in All
    BY <2>1, <2>2 DEF Links
  <2>7. Matches(query, row)
    <3>1. d = 1 \/ m \notin query.barriers
      BY <2>1, <2>2 DEF CanLeave
    <3> QED
      BY <2>2, <2>3, <2>4, <3>1 DEF Matches
  <2>8. Keeps(query, row.start, row.end, row.depth)
    BY <2>1
  <2> HIDE DEF row
  <2>9. row \in Requested(query)
    BY <2>6, <2>7, <2>8 DEF Requested, ShortestRows
  <2> QED
    BY <2>5, <2>9 DEF row
<1>6. ASSUME NEW row \in Requested(query)
      PROVE  /\ \E r \in answer : Least(r) /\ row = RowFor(r)
             /\ ~ ReachedBefore(query, row.end, row.depth)
  <2>1. row \in All /\ Matches(query, row) /\ Keeps(query, row.start, row.end, row.depth)
    BY DEF Requested, ShortestRows
  <2>2. /\ row.start \in Seeds(query) /\ row.end \in query.targets
        /\ row.end \in Node
        /\ row.depth \in query.lo..query.hi /\ row.depth \in Nat /\ row.depth >= 1
        /\ row.edge \in EdgeRow
        /\ row = [start |-> row.start, end |-> row.end, depth |-> row.depth,
                  edge |-> row.edge]
    BY <1>3, <2>1, QueryFacts DEF Keeps
  <2>3. /\ InLayer(query, row.end, row.depth)
        /\ \E m \in Node : /\ Links(query, row.edge, m, row.end)
                           /\ InLayer(query, m, row.depth - 1)
                           /\ CanLeave(query, m, row.depth - 1)
    BY <1>3, <2>1, MatchesByLayer
  <2>4. PICK m \in Node : /\ Links(query, row.edge, m, row.end)
                          /\ Reaches(query, m, row.depth - 1)
                          /\ CanLeave(query, m, row.depth - 1)
    BY <2>3 DEF InLayer
  <2>5. PICK start \in Seeds(query) :
          (query.circular => start = row.end) =>
            \E p \in P!PathsOf(query) :
              /\ p.start = start /\ Len(p.steps) = row.depth /\ P!EndOf(p) = row.end
              /\ p.steps[row.depth].edge = row.edge
    BY <2>2, <2>3, <2>4, ShortestIsPath
  <2>6. start = row.start
    BY <1>2, <2>2
  <2>7. PICK p \in P!PathsOf(query) :
          /\ p.start = row.start /\ Len(p.steps) = row.depth /\ P!EndOf(p) = row.end
          /\ p.steps[row.depth].edge = row.edge
    BY <2>1, <2>5, <2>6 DEF Keeps
  <2>8. PICK r \in answer : r.path = p
    BY <2>7
  <2>9. EndNode(r) = row.end /\ Depth(r) = row.depth /\ r.path.start = row.start
    BY <2>7, <2>8 DEF EndNode, Depth
  <2>10. row.end # row.start
    <3>1. Reaches(query, row.start, 0)
      BY <2>2, ReachesSeeds
    <3>2. 0 \in 0..(row.depth - 1)
      BY <2>2
    <3> QED
      BY <2>3, <3>1, <3>2 DEF InLayer, ReachedBefore
  <2>11. ASSUME NEW y \in answer, EndNode(y) = EndNode(r) PROVE Depth(r) <= Depth(y)
    <3>1. Reaches(query, row.end, Depth(y)) /\ Depth(y) \in Nat
      BY <1>4, <2>9, <2>11
    <3>2. ~ (Depth(y) \in 0..(row.depth - 1))
      BY <2>3, <3>1 DEF InLayer, ReachedBefore
    <3> QED
      BY <2>2, <2>9, <3>1, <3>2
  <2>12. row = RowFor(r)
    BY <2>2, <2>7, <2>8, <2>9
  <2> QED
    BY <2>3, <2>9, <2>10, <2>11, <2>12 DEF InLayer
<1>7. ASSUME query.lo = 1, NEW r \in answer, EndNode(r) = r.path.start
      PROVE  RowFor(r) \in LoopsAtStart(query)
  <2>1. /\ Depth(r) = 1 /\ r.path.steps[1].edge \in query.edges
        /\ Src[r.path.steps[1].edge] = r.path.start
        /\ Dst[r.path.steps[1].edge] = r.path.start
    BY <1>4, <1>7, ReturningIsLoop DEF Depth, EndNode
  <2> QED
    BY <1>4, <1>7, <2>1 DEF LoopsAtStart
<1>8. ASSUME query.lo = 1, NEW row \in LoopsAtStart(query)
      PROVE  \E r \in answer : Least(r) /\ row = RowFor(r)
  <2>1. PICK p \in P!PathsOf(query) :
          /\ p.start = row.start /\ Len(p.steps) = 1 /\ P!EndOf(p) = row.start
          /\ p.steps[1].edge = row.edge
    BY <1>8, LoopIsPath
  <2>2. PICK r \in answer : r.path = p
    BY <2>1
  <2>3. /\ Depth(r) = 1 /\ EndNode(r) = row.start /\ r.path.start = row.start
        /\ r.path.steps[Depth(r)].edge = row.edge
    BY <2>1, <2>2 DEF Depth, EndNode
  <2>4. Least(r)
    BY <1>4, <2>3
  <2>5. row = RowFor(r)
    BY <1>8, <2>3, LoopIsPath
  <2> QED
    BY <2>4, <2>5
<1>9. ASSUME query.lo = 1, NEW r \in answer, Least(r), EndNode(r) # r.path.start
       PROVE  ~ ReachedBefore(query, EndNode(r), Depth(r))
  <2> DEFINE d == Depth(r)
             n == EndNode(r)
  <2>1. /\ d \in Nat /\ d \in query.lo..query.hi /\ r.path.start \in Seeds(query)
        /\ Keeps(query, r.path.start, n, d) /\ n \in Node
    <3>1. Len(r.path.steps) \in 1..Len(r.path.steps) /\ Len(r.path.steps) = d
      BY <1>3, <1>4 DEF Depth
    <3>2. At(r.path, d) \in Node
      BY <1>4, <3>1, PathSteps
    <3> QED
      BY <1>3, <1>4, <3>2 DEF Keeps
  <2> HIDE DEF d, n
  <2>2. ~ ReachedBefore(query, n, d)
    <3>1. SUFFICES ASSUME NEW i \in 0..(d-1), Reaches(query, n, i) PROVE FALSE
      BY DEF ReachedBefore
    <3>2. PICK j \in 0..i : InLayer(query, n, j)
      BY <3>1, ReachedInLayer
    <3>3. j # 0
      <4>1. n # r.path.start
        BY <1>9 DEF n
      <4>2. n \notin Seeds(query)
        BY <1>2, <2>1, <4>1
      <4> QED
        BY <3>2, <4>2, ReachesSeeds DEF InLayer
    <3>4. j \in query.lo..query.hi /\ j \in Nat /\ j - 1 \in Nat /\ (j - 1) + 1 = j
          /\ j >= 1 /\ j < d
      BY <1>3, <1>9, <2>1, <3>3
    <3>5. PICK x \in Node : /\ InLayer(query, x, j - 1) /\ Step(query, x, n)
                            /\ CanLeave(query, x, j - 1)
      BY <2>1, <3>2, <3>4, LayerStep
    <3>6. PICK f \in EdgeRow : Links(query, f, x, n)
      BY <3>5 DEF Step
    <3>7. n \in query.targets
      BY <2>1 DEF Keeps
    <3>8. PICK start \in Seeds(query) :
            (query.circular => start = n) =>
              \E p \in P!PathsOf(query) : Len(p.steps) = j /\ P!EndOf(p) = n
      BY <3>2, <3>4, <3>5, <3>6, <3>7, ShortestIsPath DEF InLayer
    <3>9. start = r.path.start
      BY <1>2, <2>1
    <3>10. PICK p \in P!PathsOf(query) : Len(p.steps) = j /\ P!EndOf(p) = n
      BY <2>1, <3>8, <3>9 DEF Keeps
    <3>11. PICK y \in answer : y.path = p
      BY <3>10
    <3>12. EndNode(y) = n /\ Depth(y) = j
      BY <3>10, <3>11 DEF EndNode, Depth
    <3>13. d <= j
      BY <1>9, <3>12 DEF n, d
    <3> QED
      BY <2>1, <3>4, <3>13
  <2> QED
    BY <2>2 DEF d, n
<1>10. ASSUME query.lo = 1, NEW r \in answer, Least(r)
       PROVE  RowFor(r) \in Requested(query) \cup LoopsAtStart(query)
  BY <1>5, <1>7, <1>9, <1>10
<1>11. \A r \in answer : RowFor(r).end = EndNode(r) /\ RowFor(r).depth = Depth(r)
  OBVIOUS
<1> HIDE DEF Least, RowFor
<1>12. Requested(query) = {r \in LeastDepthRows : ~ ReachedBefore(query, r.end, r.depth)}
  BY <1>1, <1>5, <1>6, <1>11
<1>13. query.lo = 1 => LeastDepthRows = Requested(query) \cup LoopsAtStart(query)
  BY <1>1, <1>6, <1>8, <1>10
<1> QED
  BY <1>12, <1>13

(* For every pattern a procedural script accepts, with a single start: of  *)
(* the rows of least depth of the recursive query, the script returns      *)
(* exactly those whose end no shorter walk reaches.  With the lower bound  *)
(* 1 the query returns, besides, the loops at the start and nothing else.  *)
THEOREM LeastDepthIsProcedural == Spec => []AgreesWithProcedural
<1> DEFINE Answered == pc = "done" => {r.path : r \in answer} = P!PathsOf(query)
<1>1. Init => Answered
  BY DEF Init
<1>2. Rows /\ Iterated /\ Answered /\ [Next]_vars => Answered'
  <2> SUFFICES ASSUME Rows, Iterated, Answered, [Next]_vars PROVE Answered'
    OBVIOUS
  <2>1. CASE Read
    BY <2>1, ReadPaths DEF Read
  <2>2. CASE Anchor \/ Iterate \/ EndIteration
    BY <2>2 DEF Anchor, Iterate, EndIteration
  <2>3. CASE UNCHANGED vars
    BY <2>3 DEF vars, P!PathsOf, P!IsPath, P!Keeps
  <2> QED
    BY <2>1, <2>2, <2>3 DEF Next
<1>3. Rows /\ Answered => AgreesWithProcedural
  BY SameRows DEF Rows, AgreesWithProcedural, AcceptedByProcedural
<1> QED
  BY <1>1, <1>2, <1>3, AlwaysIterated, PTL DEF Spec
=============================================================================
