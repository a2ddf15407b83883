------------------------- MODULE PathPredicatesProofs -------------------------
(***************************************************************************)
(* For every query: no conjunct of a WHERE is lost or counted twice, no    *)
(* is_terminator() is evaluated as a filter, what cannot be done and only  *)
(* that is refused, the traversal starts where its filters hold, and the   *)
(* emitted SQL returns the rows asked for.                                 *)
(***************************************************************************)
EXTENDS PathPredicates, WalkTheorems, FiniteSetTheorems

(* The steps before which a piece is still empty, and what the pieces hold *)
(* once they are taken.                                                    *)
NotYet ==
  /\ pc = "inject" => left = {}
  /\ pc \in {"inject", "start"} => start = {}
  /\ pc \in {"inject", "start", "barrier"} => barrier = {}
  /\ pc \in {"inject", "start", "barrier", "validate"} => sink = {}
  /\ pc \in {"inject", "start", "barrier", "validate", "analyze"} => edges = {} /\ nodes = {}

Partition ==
  pc # "inject" =>
    /\ Injected = left \cup start \cup barrier \cup sink \cup edges
    /\ nodes \subseteq left
    /\ left \cap start = {} /\ left \cap barrier = {}
    /\ left \cap sink = {} /\ left \cap edges = {}
    /\ start \cap barrier = {} /\ start \cap sink = {} /\ start \cap edges = {}
    /\ barrier \cap sink = {} /\ barrier \cap edges = {} /\ sink \cap edges = {}

Undirected ==
  /\ \A i \in start \cup sink \cup edges : ~ HasTerminator(clause[i])
  /\ pc \in {"render", "done", "rejected"} => ~ TerminatorLeft

IInv == NotYet /\ Partition /\ Undirected

(* A conjunct that is one list predicate holds no directive.               *)
LEMMA PushedIsNoDirective ==
  ASSUME NEW conjunct, Pushable(conjunct, "allEdges")
  PROVE  ~ HasTerminator(conjunct)
<1>1. Len(conjunct) = 1 /\ conjunct[1].kind = "allEdges"
  BY DEF Pushable, IsLone
<1> QED
  BY <1>1 DEF HasTerminator, Atoms, Directives

(* A list predicate is about edges or about nodes.                         *)
LEMMA NodesAreNotEdges ==
  ASSUME NEW conjunct, Pushable(conjunct, "allNodes")
  PROVE  ~ Pushable(conjunct, "allEdges")
<1>1. conjunct[1].kind = "allNodes"
  BY DEF Pushable, IsLone
<1>2. ~ (conjunct[1].kind \in {"allEdges"})
  BY <1>1
<1> QED
  BY <1>2 DEF Pushable, IsLone

LEMMA InitIInv == Init => IInv
  BY DEF Init, IInv, NotYet, Partition, Undirected

LEMMA InjectedStays ==
  ASSUME clause' = clause, q' = q
  PROVE  Injected' = Injected
  BY DEF Injected

LEMMA NextIInv == IInv /\ [Next]_vars => IInv'
<1> SUFFICES ASSUME IInv, [Next]_vars PROVE IInv'
  OBVIOUS
<1> USE DEF IInv, NotYet, Partition, Undirected, TerminatorLeft
<1>0. clause' = clause /\ q' = q => Injected' = Injected
  BY InjectedStays
<1>1. CASE InjectFilters
  <2>1. Injected' = left'
    BY <1>1 DEF InjectFilters, Injected
  <2> QED
    BY <1>1, <2>1 DEF InjectFilters, pieces
<1>2. CASE ExtractStartFilter
  BY <1>0, <1>2 DEF ExtractStartFilter, IsNodeFilter
<1>3. CASE ExtractBarrierFilter
  BY <1>0, <1>3 DEF ExtractBarrierFilter, FirstDirective
<1>4. CASE RejectTerminator
  BY <1>0, <1>4 DEF RejectTerminator, Refuse, pieces
<1>5. CASE ExtractSinkFilter
  BY <1>0, <1>5 DEF ExtractSinkFilter, TakesForSink, IsNodeFilter
<1>6. CASE AnalyzePath
  <2> USE <1>6 DEF AnalyzePath
  <2>1. NotYet'
    OBVIOUS
  <2>2. Partition'
    <3>1. edges' \subseteq left /\ nodes' \subseteq left
      OBVIOUS
    <3>2. nodes' \cap edges' = {}
      BY NodesAreNotEdges
    <3> QED
      BY <1>0, <3>1, <3>2
  <2>3. Undirected'
    <3>1. \A i \in edges' : ~ HasTerminator(clause[i])
      BY PushedIsNoDirective
    <3>2. \A i \in start \cup sink : ~ HasTerminator(clause[i])
      OBVIOUS
    <3>3. clause' = clause /\ start' = start /\ sink' = sink /\ pc' = "select"
      OBVIOUS
    <3> QED
      BY <3>1, <3>2, <3>3 DEF HasTerminator
  <2> QED
    BY <2>1, <2>2, <2>3
<1>7. CASE RejectSelection
  BY <1>0, <1>7 DEF RejectSelection, Refuse, pieces
<1>8. CASE Select
  BY <1>0, <1>8 DEF Select, pieces
<1>9. CASE RenderRefuses
  BY <1>0, <1>9 DEF RenderRefuses, Refuse, pieces
<1>10. CASE EngineRejects
  BY <1>0, <1>10 DEF EngineRejects, pieces
<1>11. CASE Answer
  BY <1>0, <1>11 DEF Answer, pieces
<1>12. CASE UNCHANGED vars
  BY <1>0, <1>12 DEF vars, pieces
<1> QED
  BY <1>1, <1>2, <1>3, <1>4, <1>5, <1>6, <1>7, <1>8, <1>9, <1>10, <1>11, <1>12
  DEF Next, Plan

(* Every conjunct is where the planner left it or in one piece of the      *)
(* traversal, whatever the WHERE and the options.                          *)
THEOREM EveryConjunctKept == Spec => []Conserved
<1>1. IInv => Conserved
  BY DEF IInv, Partition, Conserved
<1> QED
  BY <1>1, InitIInv, NextIInv, PTL DEF Spec

(* is_terminator() never reaches a filter or a Selection, however many     *)
(* there are and wherever they stand.                                      *)
THEOREM NoDirectiveEvaluated == Spec => []DirectiveNotEvaluated
<1>1. IInv => DirectiveNotEvaluated
  BY DEF IInv, Undirected, DirectiveNotEvaluated, TerminatorLeft
<1> QED
  BY <1>1, InitIInv, NextIInv, PTL DEF Spec
-----------------------------------------------------------------------------
(* What each piece holds once its step is taken, and what a refusal means. *)
ClauseBuilt == q \in Submitted /\ (pc # "inject" => clause = q.first \o q.where)
BarrierIs ==
  /\ \A i \in barrier : MatchesTerminator(clause[i], Target)
  /\ \A i, j \in barrier : i = j
  /\ barrier = {} => \A i \in left : ~ MatchesTerminator(clause[i], Target)
PiecesHold ==
  /\ pc \notin {"inject", "start"} =>
       start = {i \in Injected : IsNodeFilter(clause[i], Source)}
  /\ pc \notin {"inject", "start", "barrier"} => BarrierIs
  /\ pc \notin {"inject", "start", "barrier", "validate", "refused"} =>
       /\ barrier = {} => ~ TerminatorLeft
       /\ \A i \in sink : IsNodeFilter(clause[i], Target)
  /\ pc \notin {"inject", "start", "barrier", "validate", "analyze", "refused"} =>
       /\ \A i \in edges : Pushable(clause[i], "allEdges")
       /\ nodes = {i \in left : Pushable(clause[i], "allNodes")}
RefusedRightly == pc = "refused" => MisplacedDirective \/ NotProcedural
AcceptedRightly == pc \in {"done", "rejected"} => ~ (MisplacedDirective \/ NotProcedural)
Extracted == ClauseBuilt /\ PiecesHold /\ RefusedRightly /\ AcceptedRightly

LEMMA ConcatFacts ==
  ASSUME NEW S, NEW s \in Seq(S), NEW t \in Seq(S)
  PROVE  /\ Len(s \o t) = Len(s) + Len(t) /\ DOMAIN (s \o t) = 1..(Len(s) + Len(t))
         /\ \A i \in 1..Len(s) : (s \o t)[i] = s[i]
         /\ \A i \in 1..Len(t) : (s \o t)[Len(s) + i] = t[i]
  OBVIOUS

(* The positions of clause: those of first, then those of where.           *)
LEMMA ClauseFacts ==
  ASSUME q \in Submitted, clause = q.first \o q.where
  PROVE  LET n == Len(q.first)
         IN  /\ n \in Nat /\ Len(q.where) \in Nat
             /\ DOMAIN q.first = 1..n /\ DOMAIN q.where = 1..Len(q.where)
             /\ DOMAIN clause = 1..(n + Len(q.where))
             /\ \A i \in 1..n : clause[i] = q.first[i]
             /\ \A i \in 1..Len(q.where) : clause[n + i] = q.where[i]
             /\ \A i \in DOMAIN clause :
                  /\ Len(clause[i]) \in 1..2
                  /\ DOMAIN clause[i] = 1..Len(clause[i])
<1> DEFINE n == Len(q.first)
           m == Len(q.where)
           S == {q.first[i] : i \in DOMAIN q.first}
           T == {q.where[i] : i \in DOMAIN q.where}
<1>1. IsWhere(q.first) /\ IsWhere(q.where)
  BY SubmittedAssumption
<1>2. q.first \in Seq(S) /\ q.where \in Seq(T)
  BY <1>1 DEF IsWhere, IsSequence
<1> HIDE DEF S, T
<1>3. q.first \in Seq(S \cup T) /\ q.where \in Seq(S \cup T)
  BY <1>2
<1>4. /\ n \in Nat /\ m \in Nat /\ DOMAIN q.first = 1..n /\ DOMAIN q.where = 1..m
  BY <1>2
<1>5. /\ DOMAIN clause = 1..(n + m)
      /\ \A i \in 1..n : clause[i] = q.first[i]
      /\ \A i \in 1..m : clause[n + i] = q.where[i]
  <2> DEFINE s == q.first
             t == q.where
             U == S \cup T
  <2>1. s \in Seq(U) /\ t \in Seq(U) /\ clause = s \o t /\ n = Len(s) /\ m = Len(t)
    BY <1>3
  <2> HIDE DEF s, t, U, n, m
  <2>2. /\ DOMAIN (s \o t) = 1..(Len(s) + Len(t))
        /\ \A i \in 1..Len(s) : (s \o t)[i] = s[i]
        /\ \A i \in 1..Len(t) : (s \o t)[Len(s) + i] = t[i]
    BY <2>1, ConcatFacts
  <2>3. /\ DOMAIN clause = 1..(n + m)
        /\ \A i \in 1..n : clause[i] = s[i]
        /\ \A i \in 1..m : clause[n + i] = t[i]
    BY <2>1, <2>2
  <2> QED
    BY <2>3 DEF s, t
<1> HIDE DEF n, m
<1>6. ASSUME NEW w, IsSequence(w) PROVE DOMAIN w = 1..Len(w)
  <2> DEFINE U == {w[i] : i \in DOMAIN w}
  <2>1. w \in Seq(U)
    BY <1>6 DEF IsSequence
  <2> HIDE DEF U
  <2> QED
    BY <2>1
<1>7. ASSUME NEW i \in DOMAIN clause
      PROVE  Len(clause[i]) \in 1..2 /\ DOMAIN clause[i] = 1..Len(clause[i])
  <2>1. CASE i \in 1..n
    BY <1>1, <1>4, <1>5, <1>6, <2>1 DEF IsWhere
  <2>2. CASE i \notin 1..n
    <3>1. i - n \in 1..m /\ n + (i - n) = i
      BY <1>4, <1>5, <2>2
    <3>2. clause[i] = q.where[i - n]
      BY <1>5, <3>1
    <3> QED
      BY <1>1, <1>4, <1>6, <3>1, <3>2 DEF IsWhere
  <2> QED
    BY <2>1, <2>2
<1> QED
  BY <1>4, <1>5, <1>7 DEF n, m

(* The conjuncts asked for are those injected and those carried.           *)
LEMMA AskedFacts ==
  ASSUME q \in Submitted, clause = q.first \o q.where
  PROVE  /\ \A w \in Asked : \E i \in Injected : i > Len(q.first) /\ clause[i] = w
         /\ \A i \in Injected : i > Len(q.first) =>
              /\ i - Len(q.first) \in DOMAIN q.where
              /\ q.where[i - Len(q.first)] = clause[i] /\ clause[i] \in Asked
         /\ \A i \in Injected : ~ (i > Len(q.first)) =>
              /\ i \in DOMAIN q.first /\ q.first[i] = clause[i]
              /\ IsNodeFilter(clause[i], Source)
         /\ \A w \in FiltersOnSource :
              \E i \in Injected : clause[i] = w /\ IsNodeFilter(w, Source)
         /\ \A i \in Injected : IsNodeFilter(clause[i], Source) => clause[i] \in FiltersOnSource
<1> DEFINE n == Len(q.first)
           m == Len(q.where)
<1>1. /\ n \in Nat /\ m \in Nat /\ DOMAIN q.first = 1..n /\ DOMAIN q.where = 1..m
      /\ DOMAIN clause = 1..(n + m)
      /\ \A i \in 1..n : clause[i] = q.first[i]
      /\ \A i \in 1..m : clause[n + i] = q.where[i]
  BY ClauseFacts
<1> HIDE DEF n, m
<1>2. ASSUME NEW w \in Asked PROVE \E i \in Injected : i > n /\ clause[i] = w
  <2>1. PICK i \in 1..m : q.where[i] = w
    BY <1>1 DEF Asked
  <2>2. n + i \in 1..(n + m) /\ n + i > n
    BY <1>1
  <2>3. clause[n + i] = w
    BY <1>1, <2>1
  <2> QED
    BY <1>1, <2>2, <2>3 DEF Injected, n
<1>3. ASSUME NEW i \in Injected, i > n
      PROVE  i - n \in 1..m /\ q.where[i - n] = clause[i] /\ clause[i] \in Asked
  <2>1. i \in 1..(n + m)
    BY <1>1 DEF Injected
  <2>2. i - n \in 1..m /\ n + (i - n) = i
    BY <1>1, <1>3, <2>1
  <2>3. q.where[i - n] = clause[i]
    BY <1>1, <2>2
  <2> QED
    BY <1>1, <2>2, <2>3 DEF Asked
<1>4. ASSUME NEW i \in Injected, ~ (i > n)
      PROVE  i \in 1..n /\ q.first[i] = clause[i] /\ IsNodeFilter(clause[i], Source)
  <2>1. i \in 1..(n + m) /\ Carried(clause[i])
    BY <1>1, <1>4 DEF Injected, n
  <2>2. i \in 1..n
    BY <1>1, <1>4, <2>1
  <2> QED
    BY <1>1, <2>1, <2>2 DEF Carried
<1>5. ASSUME NEW w \in FiltersOnSource
      PROVE  \E i \in Injected : clause[i] = w /\ IsNodeFilter(w, Source)
  <2>1. IsNodeFilter(w, Source) /\ (w \in Asked \/ \E i \in 1..n : q.first[i] = w)
    BY <1>1 DEF FiltersOnSource
  <2>2. CASE w \in Asked
    BY <1>2, <2>1, <2>2
  <2>3. CASE \E i \in 1..n : q.first[i] = w
    <3>1. PICK i \in 1..n : q.first[i] = w
      BY <2>3
    <3>2. i \in 1..(n + m)
      BY <1>1
    <3>3. clause[i] = w
      BY <1>1, <3>1
    <3> QED
      BY <1>1, <2>1, <3>2, <3>3 DEF Injected, Carried
  <2> QED
    BY <2>1, <2>2, <2>3
<1>6. ASSUME NEW i \in Injected, IsNodeFilter(clause[i], Source)
      PROVE  clause[i] \in FiltersOnSource
  <2>1. CASE i > n
    BY <1>3, <1>6, <2>1 DEF FiltersOnSource
  <2>2. CASE ~ (i > n)
    BY <1>1, <1>4, <1>6, <2>2 DEF FiltersOnSource
  <2> QED
    BY <2>1, <2>2
<1> QED
  BY <1>1, <1>2, <1>3, <1>4, <1>5, <1>6 DEF n, m

(* A lone directive is a directive, and a filter is not.                   *)
LEMMA DirectiveFacts ==
  ASSUME q \in Submitted, clause = q.first \o q.where, NEW i \in DOMAIN clause
  PROVE  /\ MatchesTerminator(clause[i], Target) => HasTerminator(clause[i])
         /\ i \in Injected /\ HasTerminator(clause[i]) =>
              i > Len(q.first) /\ clause[i] \in Asked
<1>1. ASSUME MatchesTerminator(clause[i], Target) PROVE HasTerminator(clause[i])
  <2>1. Len(clause[i]) = 1 /\ clause[i][1].kind \in Directives /\ 1 \in DOMAIN clause[i]
    BY <1>1, ClauseFacts DEF MatchesTerminator, IsLone
  <2> QED
    BY <2>1 DEF HasTerminator, Atoms
<1>2. ASSUME i \in Injected, HasTerminator(clause[i])
      PROVE  i > Len(q.first) /\ clause[i] \in Asked
  <2>1. ~ IsNodeFilter(clause[i], Source)
    BY <1>2 DEF IsNodeFilter
  <2> QED
    BY <1>2, <2>1, AskedFacts
<1> QED
  BY <1>1, <1>2

(* The planner's two refusals.                                             *)
LEMMA DirectiveIsMisplaced ==
  ASSUME IInv, ClauseBuilt, pc # "inject", BarrierIs, TerminatorLeft
  PROVE  MisplacedDirective
<1>1. q \in Submitted /\ clause = q.first \o q.where
  BY DEF ClauseBuilt
<1>2. PICK i \in left : HasTerminator(clause[i])
  BY DEF TerminatorLeft
<1>3. i \in Injected /\ i \in DOMAIN clause
  BY <1>2 DEF IInv, Partition, Injected
<1>4. i > Len(q.first) /\ clause[i] \in Asked
  BY <1>1, <1>2, <1>3, DirectiveFacts
<1>5. CASE barrier = {}
  BY <1>2, <1>4, <1>5 DEF BarrierIs, MisplacedDirective
<1>6. CASE barrier # {}
  <2>1. PICK j \in barrier : MatchesTerminator(clause[j], Target)
    BY <1>6 DEF BarrierIs
  <2>2. j \in Injected /\ j \in DOMAIN clause /\ i # j
    BY <1>2, <2>1 DEF IInv, Partition, Injected
  <2>3. j > Len(q.first) /\ HasTerminator(clause[j])
    BY <1>1, <2>1, <2>2, DirectiveFacts
  <2>4. /\ i - Len(q.first) \in DOMAIN q.where /\ j - Len(q.first) \in DOMAIN q.where
        /\ q.where[i - Len(q.first)] = clause[i] /\ q.where[j - Len(q.first)] = clause[j]
    BY <1>1, <1>3, <1>4, <2>2, <2>3, AskedFacts
  <2>5. i - Len(q.first) # j - Len(q.first)
    BY <1>1, <1>3, <2>2, ClauseFacts
  <2> QED
    BY <1>2, <2>3, <2>4, <2>5 DEF MisplacedDirective
<1> QED
  BY <1>5, <1>6

(* A list predicate over nodes is in no filter, no directive and no ALL    *)
(* over edges.                                                             *)
LEMMA NodeListStays ==
  ASSUME IInv, ClauseBuilt, PiecesHold, pc \in {"render", "done", "rejected"},
         NEW i \in Injected, ReadsNodeList(i)
  PROVE  i \in left /\ i > Len(q.first) /\ clause[i] \in Asked
<1>1. PICK x \in Atoms(clause[i]) : x.kind \in NodeLists
  BY DEF ReadsNodeList
<1>2. Reads(x) = {"p", x.var}
  BY <1>1 DEF Reads, NodeLists, EdgeLists
<1>3. ~ ReadsOnly(clause[i], "a") /\ ~ ReadsOnly(clause[i], "b")
  BY <1>1, <1>2 DEF ReadsOnly
<1>4. Target \in {"a", "b"} /\ Source = "a"
  BY DEF Target, Source
<1>5. ~ IsNodeFilter(clause[i], Source) /\ ~ IsNodeFilter(clause[i], Target)
      /\ ~ MatchesTerminator(clause[i], Target)
  BY <1>3, <1>4 DEF IsNodeFilter, MatchesTerminator
<1>6. ~ Pushable(clause[i], "allEdges")
  <2> SUFFICES ASSUME Pushable(clause[i], "allEdges") PROVE FALSE
    OBVIOUS
  <2>1. Len(clause[i]) = 1 /\ clause[i][1].kind = "allEdges"
    BY DEF Pushable, IsLone
  <2>2. DOMAIN clause[i] = 1..1
    BY <2>1, ClauseFacts DEF ClauseBuilt, Injected
  <2>3. x = clause[i][1]
    BY <1>1, <2>2 DEF Atoms
  <2> QED
    BY <1>1, <2>1, <2>3 DEF NodeLists
<1>7. i \notin start /\ i \notin barrier /\ i \notin sink /\ i \notin edges
  BY <1>5, <1>6 DEF PiecesHold, BarrierIs
<1>8. i \in left
  BY <1>7 DEF IInv, Partition
<1> QED
  BY <1>5, <1>8, AskedFacts DEF ClauseBuilt

(* What the procedural renderer refuses is what the query says it cannot   *)
(* do, no more and no less.                                                *)
LEMMA ProceduralRefusals ==
  ASSUME IInv, ClauseBuilt, PiecesHold, pc \in {"render", "done", "rejected"}
  PROVE  ProceduralRefuses <=> NotProcedural
<1>1. q \in Submitted /\ clause = q.first \o q.where
  BY DEF ClauseBuilt
<1>2. start = {i \in Injected : IsNodeFilter(clause[i], Source)}
      /\ nodes = {i \in left : Pushable(clause[i], "allNodes")}
      /\ left \subseteq Injected
  BY DEF PiecesHold, IInv, Partition
<1>3. start = {} <=> FiltersOnSource = {}
  BY <1>1, <1>2, AskedFacts
<1>4. ASSUME NEW i \in left, q.mode = "procedural"
      PROVE  Enforced(i) <=> IsLone(clause[i], {"allNodes"}) /\ q.single /\ q.pushdown
  BY <1>2, <1>4 DEF Enforced, PushdownActive, Pushable
<1>5. ASSUME NEW i \in left, ReadsNodeList(i), ~ Enforced(i), q.mode = "procedural"
      PROVE  \E w \in Asked : OverNodes(w) /\ ~ (IsLone(w, {"allNodes"}) /\ q.single /\ q.pushdown)
  <2>1. clause[i] \in Asked
    BY <1>2, <1>5, NodeListStays
  <2>2. OverNodes(clause[i])
    BY <1>5 DEF OverNodes, ReadsNodeList
  <2> QED
    BY <1>4, <1>5, <2>1, <2>2
<1>6. ASSUME NEW w \in Asked, OverNodes(w), q.mode = "procedural",
             ~ (IsLone(w, {"allNodes"}) /\ q.single /\ q.pushdown)
      PROVE  \E i \in left : ReadsNodeList(i) /\ ~ Enforced(i)
  <2>1. PICK i \in Injected : clause[i] = w
    BY <1>1, AskedFacts
  <2>2. ReadsNodeList(i)
    BY <1>6, <2>1 DEF OverNodes, ReadsNodeList
  <2>3. i \in left
    BY <2>2, NodeListStays
  <2> QED
    BY <1>4, <1>6, <2>1, <2>2, <2>3
<1> QED
  BY <1>3, <1>5, <1>6 DEF ProceduralRefuses, NotProcedural

(* What reaches the renderer has no directive but its barrier, which is    *)
(* one and about the target.                                               *)
LEMMA RenderedIsPlaced ==
  ASSUME IInv, ClauseBuilt, PiecesHold, pc \in {"render", "done", "rejected"},
         ~ TerminatorLeft
  PROVE  /\ \A i \in Injected : HasTerminator(clause[i]) => i \in barrier
         /\ ~ MisplacedDirective
<1>1. q \in Submitted /\ clause = q.first \o q.where
  BY DEF ClauseBuilt
<1>2. ASSUME NEW i \in Injected, HasTerminator(clause[i]) PROVE i \in barrier
  BY <1>2 DEF IInv, Partition, Undirected, TerminatorLeft
<1>3. ASSUME NEW w \in Asked, HasTerminator(w) PROVE MatchesTerminator(w, Target)
  <2>1. PICK i \in Injected : clause[i] = w
    BY <1>1, AskedFacts
  <2> QED
    BY <1>2, <1>3, <2>1 DEF PiecesHold, BarrierIs
<1>4. ASSUME NEW i \in DOMAIN q.where, NEW j \in DOMAIN q.where,
             HasTerminator(q.where[i]), HasTerminator(q.where[j])
      PROVE  i = j
  <2> DEFINE n == Len(q.first)
             m == Len(q.where)
  <2>1. /\ n \in Nat /\ m \in Nat /\ DOMAIN q.where = 1..m /\ DOMAIN clause = 1..(n + m)
        /\ \A k \in 1..m : clause[n + k] = q.where[k]
    BY <1>1, ClauseFacts
  <2> HIDE DEF n, m
  <2>2. ASSUME NEW k \in 1..m, HasTerminator(q.where[k]) PROVE n + k \in barrier
    <3>1. n + k \in 1..(n + m) /\ n + k > n
      BY <2>1
    <3>2. clause[n + k] = q.where[k]
      BY <2>1
    <3>3. n + k \in Injected
      BY <2>1, <3>1 DEF Injected, n
    <3> QED
      BY <1>2, <2>2, <3>2, <3>3
  <2>3. n + i \in barrier /\ n + j \in barrier
    BY <1>4, <2>1, <2>2
  <2>4. n + i = n + j
    BY <2>3 DEF PiecesHold, BarrierIs
  <2> QED
    BY <2>1, <2>4
<1> QED
  BY <1>2, <1>3, <1>4 DEF MisplacedDirective

(* What a query asks for does not change while it is planned.              *)
LEMMA SameQuery ==
  ASSUME q' = q
  PROVE  /\ Target' = Target /\ MisplacedDirective' = MisplacedDirective
         /\ NotProcedural' = NotProcedural /\ Asked' = Asked
<1>1. Target' = Target /\ Asked' = Asked
  BY DEF Target, Asked
<1>2. FiltersOnSource' = FiltersOnSource
  BY <1>1 DEF FiltersOnSource
<1>3. MisplacedDirective' = MisplacedDirective
  BY <1>1 DEF MisplacedDirective
<1>4. NotProcedural' = NotProcedural
  BY <1>1, <1>2 DEF NotProcedural
<1> QED
  BY <1>1, <1>3, <1>4

LEMMA InitExtracted == Init => Extracted
  BY DEF Init, Extracted, ClauseBuilt, PiecesHold, RefusedRightly, AcceptedRightly

LEMMA NextExtracted == IInv /\ Extracted /\ [Next]_vars => Extracted'
<1> SUFFICES ASSUME IInv, Extracted, [Next]_vars PROVE Extracted'
  OBVIOUS
<1>1. q' = q
  BY DEF Next, Plan, InjectFilters, ExtractStartFilter, ExtractBarrierFilter,
         RejectTerminator, ExtractSinkFilter, AnalyzePath, RejectSelection, Select,
         RenderRefuses, EngineRejects, Answer, Refuse, vars
<1>2. /\ Target' = Target /\ MisplacedDirective' = MisplacedDirective
      /\ NotProcedural' = NotProcedural
  BY <1>1, SameQuery
<1>3. clause' = clause => Injected' = Injected
  BY <1>1, InjectedStays
<1>4. /\ ClauseBuilt /\ PiecesHold /\ RefusedRightly /\ AcceptedRightly
  BY DEF Extracted
<1>5. CASE InjectFilters
  BY <1>1, <1>2, <1>5 DEF InjectFilters, pieces, Extracted, ClauseBuilt, PiecesHold,
                          RefusedRightly, AcceptedRightly
<1>6. CASE ExtractStartFilter
  <2>1. pc = "start" /\ pc' = "barrier" /\ clause' = clause
    BY <1>6 DEF ExtractStartFilter
  <2>2. left = Injected
    BY <2>1 DEF IInv, Partition, NotYet
  <2>3. start' = {i \in Injected' : IsNodeFilter(clause'[i], Source)}
    BY <1>3, <1>6, <2>1, <2>2 DEF ExtractStartFilter
  <2> QED
    BY <1>1, <1>4, <2>1, <2>3 DEF Extracted, ClauseBuilt, PiecesHold, RefusedRightly,
                                  AcceptedRightly
<1>7. CASE ExtractBarrierFilter
  <2>1. /\ pc = "barrier" /\ pc' = "validate" /\ clause' = clause /\ start' = start
        /\ barrier' = FirstDirective /\ left' = left \ barrier'
    BY <1>7 DEF ExtractBarrierFilter
  <2>2. left \subseteq DOMAIN clause /\ DOMAIN clause \subseteq Nat
    <3>1. DOMAIN clause \subseteq Nat
      <4> DEFINE n == Len(q.first)
                 m == Len(q.where)
      <4>1. DOMAIN clause = 1..(n + m) /\ n \in Nat /\ m \in Nat
        BY <1>4, <2>1, ClauseFacts DEF ClauseBuilt
      <4> HIDE DEF n, m
      <4> QED
        BY <4>1
    <3> QED
      BY <2>1, <3>1 DEF IInv, Partition, Injected
  <2>3. /\ \A i \in FirstDirective : MatchesTerminator(clause[i], Target)
        /\ \A i, j \in FirstDirective : i = j
    BY <2>2 DEF FirstDirective
  <2>4. ASSUME FirstDirective = {}, NEW i \in left, MatchesTerminator(clause[i], Target)
        PROVE  FALSE
    <3> DEFINE S == {k \in left : MatchesTerminator(clause[k], Target)}
    <3>1. S \in SUBSET Nat /\ S # {}
      BY <2>2, <2>4
    <3>2. PICK n \in S : \A k \in S : n <= k
      BY <3>1, LeastNumber
    <3>3. n \in FirstDirective
      BY <3>2 DEF FirstDirective
    <3> QED
      BY <2>4, <3>3
  <2>5. BarrierIs'
    BY <1>2, <2>1, <2>3, <2>4 DEF BarrierIs
  <2> QED
    BY <1>1, <1>3, <1>4, <2>1, <2>5 DEF Extracted, ClauseBuilt, PiecesHold, RefusedRightly,
                                        AcceptedRightly
<1>8. CASE RejectTerminator
  <2>1. /\ pc = "validate" /\ pc' = "refused" /\ UNCHANGED <<clause, left, pieces>>
        /\ TerminatorLeft
    BY <1>8 DEF RejectTerminator, Refuse
  <2>2. MisplacedDirective
    BY <1>4, <2>1, DirectiveIsMisplaced DEF PiecesHold
  <2> QED
    BY <1>1, <1>2, <1>3, <1>4, <2>1, <2>2 DEF Extracted, ClauseBuilt, PiecesHold, BarrierIs,
       RefusedRightly, AcceptedRightly, pieces
<1>9. CASE ExtractSinkFilter
  <2>1. /\ pc = "validate" /\ pc' = "analyze" /\ clause' = clause /\ start' = start
        /\ barrier' = barrier /\ left' \subseteq left
        /\ \A i \in sink' : IsNodeFilter(clause[i], Target)
        /\ barrier = {} => ~ TerminatorLeft
    BY <1>9 DEF ExtractSinkFilter, TakesForSink
  <2>2. barrier' = {} => ~ TerminatorLeft'
    BY <2>1 DEF TerminatorLeft
  <2>3. BarrierIs'
    BY <1>2, <1>4, <2>1 DEF BarrierIs, PiecesHold
  <2> QED
    BY <1>1, <1>2, <1>3, <1>4, <2>1, <2>2, <2>3 DEF Extracted, ClauseBuilt, PiecesHold,
       RefusedRightly, AcceptedRightly
<1>10. CASE AnalyzePath
  <2>1. /\ pc = "analyze" /\ pc' = "select" /\ clause' = clause /\ start' = start
        /\ barrier' = barrier /\ sink' = sink /\ left' = left \ edges'
        /\ edges' = {i \in left : Pushable(clause[i], "allEdges")}
        /\ nodes' = {i \in left : Pushable(clause[i], "allNodes")}
    BY <1>10 DEF AnalyzePath
  <2>2. nodes' = {i \in left' : Pushable(clause'[i], "allNodes")}
    BY <2>1, NodesAreNotEdges
  <2>3. barrier' = {} => ~ TerminatorLeft'
    BY <1>4, <2>1 DEF TerminatorLeft, PiecesHold
  <2>4. BarrierIs'
    BY <1>2, <1>4, <2>1 DEF BarrierIs, PiecesHold
  <2> QED
    BY <1>1, <1>2, <1>3, <1>4, <2>1, <2>2, <2>3, <2>4 DEF Extracted, ClauseBuilt, PiecesHold,
       RefusedRightly, AcceptedRightly
<1>11. CASE RejectSelection
  <2>1. /\ pc = "select" /\ pc' = "refused" /\ UNCHANGED <<clause, left, pieces>>
        /\ TerminatorLeft
    BY <1>11 DEF RejectSelection, Refuse
  <2>2. MisplacedDirective
    BY <1>4, <2>1, DirectiveIsMisplaced DEF PiecesHold
  <2> QED
    BY <1>1, <1>2, <1>3, <1>4, <2>1, <2>2 DEF Extracted, ClauseBuilt, PiecesHold, BarrierIs,
       RefusedRightly, AcceptedRightly, pieces
<1>12. CASE Select
  <2>1. pc = "select" /\ pc' = "render" /\ UNCHANGED <<clause, left, pieces>>
    BY <1>12 DEF Select
  <2> QED
    BY <1>1, <1>2, <1>3, <1>4, <2>1 DEF Extracted, ClauseBuilt, PiecesHold, BarrierIs,
       TerminatorLeft, RefusedRightly, AcceptedRightly, pieces
<1>13. CASE RenderRefuses
  <2>1. /\ pc = "render" /\ pc' = "refused" /\ UNCHANGED <<clause, left, pieces>>
        /\ ProceduralRefuses
    BY <1>13 DEF RenderRefuses, Refuse
  <2>2. NotProcedural
    BY <1>4, <2>1, ProceduralRefusals
  <2> QED
    BY <1>1, <1>2, <1>3, <1>4, <2>1, <2>2 DEF Extracted, ClauseBuilt, PiecesHold, BarrierIs,
       RefusedRightly, AcceptedRightly, pieces
<1>14. CASE EngineRejects \/ Answer
  <2>1. /\ pc = "render" /\ pc' \in {"rejected", "done"} /\ UNCHANGED <<clause, left, pieces>>
        /\ ~ ProceduralRefuses
    BY <1>14 DEF EngineRejects, Answer
  <2>2. ~ NotProcedural /\ ~ MisplacedDirective
    BY <1>4, <2>1, ProceduralRefusals, RenderedIsPlaced DEF IInv, Undirected
  <2> QED
    BY <1>1, <1>2, <1>3, <1>4, <2>1, <2>2 DEF Extracted, ClauseBuilt, PiecesHold, BarrierIs,
       TerminatorLeft, RefusedRightly, AcceptedRightly, pieces
<1>15. CASE UNCHANGED vars
  BY <1>1, <1>2, <1>3, <1>4, <1>15 DEF vars, pieces, Extracted, ClauseBuilt, PiecesHold,
     BarrierIs, TerminatorLeft, RefusedRightly, AcceptedRightly
<1> QED
  BY <1>5, <1>6, <1>7, <1>8, <1>9, <1>10, <1>11, <1>12, <1>13, <1>14, <1>15 DEF Next, Plan

LEMMA AlwaysExtracted == Spec => [](IInv /\ Extracted)
  BY InitIInv, NextIInv, InitExtracted, NextExtracted, PTL DEF Spec

(* For every query and option: what is refused could not be done, and what *)
(* could not be done is refused (create_recursive_match_tree,              *)
(* create_partial_query_tree, _validate of the procedural renderer).       *)
THEOREM RefusalsAreExact == Spec => []RefusesExactlyTheUnsupported
<1>1. IInv /\ Extracted => RefusesExactlyTheUnsupported
  BY DEF Extracted, RefusedRightly, AcceptedRightly, RefusesExactlyTheUnsupported
<1> QED
  BY <1>1, AlwaysExtracted, PTL
-----------------------------------------------------------------------------
(* The SQL text: a piece that is no bare OR is one part, its conjunction.  *)
LEMMA NoBarePart ==
  ASSUME NEW parts, Len(parts) \in Nat, \A k \in 1..Len(parts) : Len(parts[k]) # 2
  PROVE  AndJoined(parts) <=> \A k \in 1..Len(parts) : parts[k][1]
<1> DEFINE n == Len(parts)
           bare == {i \in 1..n : Len(parts[i]) = 2}
<1>1. bare = {}
  OBVIOUS
<1>2. AndJoined(parts) <=>
        \E i \in {0} \cup bare, j \in bare \cup {n + 1} :
          /\ i < j /\ bare \cap (i+1)..(j-1) = {}
          /\ i = 0 \/ parts[i][2]
          /\ \A k \in (i+1)..(j-1) : parts[k][1]
          /\ j = n + 1 \/ parts[j][1]
  BY DEF AndJoined
<1> HIDE DEF bare
<1>3. (0 + 1)..((n + 1) - 1) = 1..n /\ 0 < n + 1
  OBVIOUS
<1> QED
  BY <1>1, <1>2, <1>3

LEMMA OnePosition ==
  ASSUME NEW S, IsFiniteSet(S), Cardinality(S) = 1
  PROVE  \E i : S = {i}
  BY FS_Singleton

(* What a list of conjuncts is written as: one operand, or the two of a    *)
(* bare OR.                                                                *)
AllHold(S, row) == \A i \in S : IsTrue(clause[i], row)
OnePart(w, all) == Len(w) = 1 /\ (w[1] <=> all)
TwoParts(w, all) == Len(w) = 2 /\ (w[1] \/ w[2] <=> all)

LEMMA WrittenFacts ==
  ASSUME q \in Submitted, clause = q.first \o q.where,
         NEW S \in SUBSET DOMAIN clause, NEW row
  PROVE  /\ ~ BareOr(S) => OnePart(Written(S, row), AllHold(S, row))
         /\ BareOr(S) => TwoParts(Written(S, row), AllHold(S, row))
<1> DEFINE w == Written(S, row)
           all == \A i \in S : IsTrue(clause[i], row)
<1> SUFFICES /\ ~ BareOr(S) => Len(w) = 1 /\ (w[1] <=> all)
             /\ BareOr(S) => Len(w) = 2 /\ (w[1] \/ w[2] <=> all)
  BY DEF OnePart, TwoParts, AllHold
<1>1. IsFiniteSet(S)
  <2> DEFINE n == Len(q.first)
             m == Len(q.where)
  <2>1. DOMAIN clause = 1..(n + m) /\ n \in Nat /\ m \in Nat
    BY ClauseFacts
  <2> HIDE DEF n, m
  <2>2. n + m \in Int /\ 1 \in Int
    BY <2>1
  <2>3. IsFiniteSet(1..(n + m))
    BY <2>2, FS_Interval
  <2> QED
    BY <2>1, <2>3, FS_Subset
<1>2. CASE Cardinality(S) # 1
  <2>1. w = << all >>
    BY <1>2 DEF Written
  <2>2. ~ BareOr(S)
    BY <1>2 DEF BareOr
  <2>3. Len(<< all >>) = 1 /\ (<< all >>[1] <=> all)
    OBVIOUS
  <2> QED
    BY <2>1, <2>2, <2>3
<1>3. CASE Cardinality(S) = 1
  <2> DEFINE i == CHOOSE j \in S : TRUE
  <2>1. S = {i}
    BY <1>1, <1>3, OnePosition
  <2> DEFINE c == clause[i]
             n == Len(c)
             v == [k \in DOMAIN c |-> Holds(c[k], row, EdgesOn(row.path))]
  <2>2. n \in 1..2 /\ DOMAIN c = 1..n
    BY <2>1, ClauseFacts
  <2>4. w = v
    BY <1>3 DEF Written
  <2>5. Len(v) = n
    <3> DEFINE values == {Holds(c[k], row, EdgesOn(row.path)) : k \in DOMAIN c}
    <3>1. v \in [DOMAIN c -> values]
      OBVIOUS
    <3> HIDE DEF v, values
    <3>2. v \in [1..n -> values]
      BY <2>2, <3>1
    <3> HIDE DEF n
    <3>3. n \in Nat
      BY <2>2
    <3> QED
      BY <3>2, <3>3
  <2>6. \A k \in 1..n : v[k] <=> Holds(c[k], row, EdgesOn(row.path))
    BY <2>2
  <2>7. all <=> \E k \in 1..n : Holds(c[k], row, EdgesOn(row.path))
    BY <2>1, <2>2 DEF IsTrue, Atoms
  <2>8. BareOr(S) <=> n = 2
    BY <1>3, <2>1 DEF BareOr
  <2> HIDE DEF v, c, n, w, all, i
  <2>9. CASE n = 1
    <3>1. Len(w) = 1 /\ (w[1] <=> all)
      BY <2>4, <2>5, <2>6, <2>7, <2>9
    <3> QED
      BY <2>8, <2>9, <3>1 DEF w, all
  <2>10. CASE n = 2
    <3>1. Len(w) = 2 /\ (w[1] \/ w[2] <=> all)
      BY <2>4, <2>5, <2>6, <2>7, <2>10
    <3> QED
      BY <2>8, <2>10, <3>1 DEF w, all
  <2> QED
    BY <2>2, <2>9, <2>10
<1> QED
  BY <1>2, <1>3

(* A bare OR only weakens what it stands in.                               *)
LEMMA OneBarePart ==
  ASSUME NEW parts, Len(parts) \in Nat, NEW m \in 1..Len(parts),
         \A k \in 1..Len(parts) : k # m => Len(parts[k]) # 2 /\ parts[k][1],
         parts[m][1] \/ (Len(parts[m]) = 2 /\ parts[m][2])
  PROVE  AndJoined(parts)
<1> DEFINE n == Len(parts)
           bare == {i \in 1..n : Len(parts[i]) = 2}
           Falls(i, j) == /\ i < j /\ bare \cap (i+1)..(j-1) = {}
                          /\ i = 0 \/ parts[i][2]
                          /\ \A k \in (i+1)..(j-1) : parts[k][1]
                          /\ j = n + 1 \/ parts[j][1]
<1>1. (\E i \in {0} \cup bare, j \in bare \cup {n + 1} : Falls(i, j)) => AndJoined(parts)
  BY DEF AndJoined
<1>2. CASE Len(parts[m]) # 2
  <2>1. \A k \in 1..n : Len(parts[k]) # 2 /\ parts[k][1]
    BY <1>2
  <2> QED
    BY <2>1, NoBarePart
<1>3. CASE Len(parts[m]) = 2
  <2>1. bare = {m} /\ n \in Nat
    BY <1>3
  <2> HIDE DEF n
  <2>2. CASE parts[m][1]
    <3>1. \A k \in (0 + 1)..(m - 1) : k \in 1..n /\ k # m
      BY <2>1
    <3>2. 0 < m
      BY <2>1
    <3>3. Falls(0, m)
      BY <2>1, <2>2, <3>1, <3>2 DEF n
    <3> HIDE DEF Falls, bare
    <3> QED
      BY <1>1, <2>1, <3>3
  <2>3. CASE parts[m][2]
    <3>1. \A k \in (m + 1)..((n + 1) - 1) : k \in 1..n /\ k # m
      BY <2>1
    <3>2. m < n + 1
      BY <2>1
    <3>3. Falls(m, n + 1)
      BY <2>1, <2>3, <3>1, <3>2 DEF n
    <3> HIDE DEF Falls, bare
    <3> QED
      BY <1>1, <2>1, <3>3
  <2> QED
    BY <1>3, <2>2, <2>3
<1> QED
  BY <1>2, <1>3

(* The base case keeps the first edge and the start filter apart, unless   *)
(* the filter is a bare OR; then it keeps more.                            *)
StartOk(path) ==
  /\ path.steps # << >> =>
       path.steps[1].edge \in q.pattern.typed /\ EdgeOk(path.steps[1].edge)
  /\ \A i \in start : IsTrue(clause[i], [path |-> path])

LEMMA BaseFacts ==
  ASSUME q \in Submitted, clause = q.first \o q.where, start \subseteq DOMAIN clause, NEW path
  PROVE  /\ StartOk(path) => BaseCase(path)
         /\ ~ BareOr(start) /\ BaseCase(path) => StartOk(path)
<1> DEFINE w == Written(start, [path |-> path])
           all == \A i \in start : IsTrue(clause[i], [path |-> path])
           a == path.steps[1].edge \in q.pattern.typed
           b == EdgeOk(path.steps[1].edge)
<1>1. /\ ~ BareOr(start) => Len(w) = 1 /\ (w[1] <=> all)
      /\ BareOr(start) => Len(w) = 2 /\ (w[1] \/ w[2] <=> all)
  <2>1. /\ ~ BareOr(start) => OnePart(w, AllHold(start, [path |-> path]))
        /\ BareOr(start) => TwoParts(w, AllHold(start, [path |-> path]))
    BY WrittenFacts
  <2> QED
    BY <2>1 DEF OnePart, TwoParts, AllHold
<1>2. CASE path.steps = << >>
  <2> DEFINE parts == << w >>
  <2>1. BaseCase(path) <=> AndJoined(parts)
    BY <1>2 DEF BaseCase
  <2>2. StartOk(path) <=> all
    BY <1>2 DEF StartOk
  <2> HIDE DEF w, all
  <2>3. Len(parts) = 1 /\ parts[1] = w /\ 1..1 = {1}
    OBVIOUS
  <2> HIDE DEF parts
  <2>4. ASSUME all PROVE AndJoined(parts)
    <3>1. w[1] \/ (Len(w) = 2 /\ w[2])
      BY <1>1, <2>4
    <3>2. /\ Len(parts) \in Nat /\ 1 \in 1..Len(parts)
          /\ \A k \in 1..Len(parts) : k # 1 => Len(parts[k]) # 2 /\ parts[k][1]
      BY <2>3
    <3> QED
      BY <2>3, <3>1, <3>2, OneBarePart
  <2>5. ASSUME ~ BareOr(start), AndJoined(parts) PROVE all
    <3>1. \A k \in 1..Len(parts) : Len(parts[k]) # 2
      BY <1>1, <2>3, <2>5
    <3>2. \A k \in 1..Len(parts) : parts[k][1]
      BY <2>3, <2>5, <3>1, NoBarePart
    <3> QED
      BY <1>1, <2>3, <2>5, <3>2
  <2> QED
    BY <2>1, <2>2, <2>4, <2>5
<1>3. CASE path.steps # << >>
  <2> DEFINE pa == <<a>>
             pb == <<b>>
             parts == << pa, w, pb >>
  <2>1. BaseCase(path) <=> AndJoined(parts)
    BY <1>3 DEF BaseCase
  <2>2. StartOk(path) <=> a /\ b /\ all
    BY <1>3 DEF StartOk
  <2> HIDE DEF w, all, a, b
  <2>4. /\ Len(pa) = 1 /\ (pa[1] <=> a) /\ Len(pb) = 1 /\ (pb[1] <=> b)
    OBVIOUS
  <2> HIDE DEF pa, pb
  <2>3. /\ Len(parts) = 3 /\ parts[1] = pa /\ parts[2] = w /\ parts[3] = pb
        /\ 1..3 = {1, 2, 3}
    OBVIOUS
  <2> HIDE DEF parts
  <2>5. ASSUME a, b, all PROVE AndJoined(parts)
    <3>1. w[1] \/ (Len(w) = 2 /\ w[2])
      BY <1>1, <2>5
    <3>2. /\ Len(parts) \in Nat /\ 2 \in 1..Len(parts)
          /\ \A k \in 1..Len(parts) : k # 2 => Len(parts[k]) # 2 /\ parts[k][1]
      <4>1. ASSUME NEW k \in 1..Len(parts), k # 2
            PROVE  Len(parts[k]) # 2 /\ parts[k][1]
        <5>1. CASE k = 1
          <6>1. Len(parts[k]) = 1 /\ parts[k] = pa
            BY <2>3, <2>4, <5>1
          <6> QED
            BY <2>4, <2>5, <6>1
        <5>2. CASE k = 3
          <6>1. Len(parts[k]) = 1 /\ parts[k] = pb
            BY <2>3, <2>4, <5>2
          <6> QED
            BY <2>4, <2>5, <6>1
        <5> QED
          BY <2>3, <4>1, <5>1, <5>2
      <4> QED
        BY <2>3, <4>1
    <3> QED
      BY <2>3, <3>1, <3>2, OneBarePart
  <2>6. ASSUME ~ BareOr(start), AndJoined(parts) PROVE a /\ b /\ all
    <3>1. Len(parts[1]) = 1 /\ Len(parts[2]) = 1 /\ Len(parts[3]) = 1
      BY <1>1, <2>3, <2>4, <2>6
    <3>2. \A k \in 1..Len(parts) : parts[k][1]
      <4>1. Len(parts) \in Nat /\ \A k \in 1..Len(parts) : Len(parts[k]) # 2
        <5>1. \A k \in 1..3 : Len(parts[k]) = 1
          <6>1. \A k \in 1..3 : k = 1 \/ k = 2 \/ k = 3
            OBVIOUS
          <6> QED
            BY <3>1, <6>1
        <5> QED
          BY <2>3, <5>1
      <4> QED
        BY <2>6, <4>1, NoBarePart
    <3>3. parts[1][1] /\ parts[2][1] /\ parts[3][1]
      BY <2>3, <3>2
    <3> QED
      BY <1>1, <2>3, <2>4, <2>6, <3>3
  <2> QED
    BY <2>1, <2>2, <2>5, <2>6
<1> QED
  BY <1>2, <1>3

(* The same of the join with the target node and the sink filter.          *)
EndsWell(row) ==
  /\ P!EndOf(row.path) # Null
  /\ Len(row.path.steps) >= q.pattern.lo /\ Len(row.path.steps) <= q.pattern.hi
  /\ q.pattern.circular => row.path.start = P!EndOf(row.path)
  /\ \A i \in sink : IsTrue(clause[i], row)

LEMMA JoinFacts ==
  ASSUME q \in Submitted, clause = q.first \o q.where, sink \subseteq DOMAIN clause, NEW row
  PROVE  /\ EndsWell(row) => JoinedRow(row)
         /\ ~ BareOr(sink) /\ JoinedRow(row) => EndsWell(row)
<1> DEFINE w == Written(sink, row)
           all == \A i \in sink : IsTrue(clause[i], row)
           a == Len(row.path.steps) >= q.pattern.lo
           b == Len(row.path.steps) <= q.pattern.hi
           c == q.pattern.circular => row.path.start = P!EndOf(row.path)
           pa == <<a>>
           pb == <<b>>
           pd == <<c>>
           parts == << pa, pb, pd, w >>
<1>1. /\ ~ BareOr(sink) => Len(w) = 1 /\ (w[1] <=> all)
      /\ BareOr(sink) => Len(w) = 2 /\ (w[1] \/ w[2] <=> all)
  <2>1. /\ ~ BareOr(sink) => OnePart(w, AllHold(sink, row))
        /\ BareOr(sink) => TwoParts(w, AllHold(sink, row))
    BY WrittenFacts
  <2> QED
    BY <2>1 DEF OnePart, TwoParts, AllHold
<1>2. JoinedRow(row) <=> P!EndOf(row.path) # Null /\ AndJoined(parts)
  BY DEF JoinedRow
<1>3. EndsWell(row) <=> P!EndOf(row.path) # Null /\ a /\ b /\ c /\ all
  BY DEF EndsWell
<1> HIDE DEF w, all, a, b, c
<1>5. /\ Len(pa) = 1 /\ (pa[1] <=> a) /\ Len(pb) = 1 /\ (pb[1] <=> b)
      /\ Len(pd) = 1 /\ (pd[1] <=> c)
  OBVIOUS
<1> HIDE DEF pa, pb, pd
<1>4. /\ Len(parts) = 4 /\ parts[1] = pa /\ parts[2] = pb /\ parts[3] = pd
      /\ parts[4] = w /\ 1..4 = {1, 2, 3, 4}
  OBVIOUS
<1> HIDE DEF parts
<1>6. ASSUME a, b, c, all PROVE AndJoined(parts)
  <2>1. w[1] \/ (Len(w) = 2 /\ w[2])
    BY <1>1, <1>6
  <2>2. /\ Len(parts) \in Nat /\ 4 \in 1..Len(parts)
        /\ \A k \in 1..Len(parts) : k # 4 => Len(parts[k]) # 2 /\ parts[k][1]
    <3>1. ASSUME NEW k \in 1..Len(parts), k # 4
          PROVE  Len(parts[k]) # 2 /\ parts[k][1]
      <4>1. CASE k = 1
        <5>1. Len(parts[k]) = 1 /\ parts[k] = pa
          BY <1>4, <1>5, <4>1
        <5> QED
          BY <1>5, <1>6, <5>1
      <4>2. CASE k = 2
        <5>1. Len(parts[k]) = 1 /\ parts[k] = pb
          BY <1>4, <1>5, <4>2
        <5> QED
          BY <1>5, <1>6, <5>1
      <4>3. CASE k = 3
        <5>1. Len(parts[k]) = 1 /\ parts[k] = pd
          BY <1>4, <1>5, <4>3
        <5> QED
          BY <1>5, <1>6, <5>1
      <4> QED
        BY <1>4, <3>1, <4>1, <4>2, <4>3
    <3> QED
      BY <1>4, <3>1
  <2> QED
    BY <1>4, <2>1, <2>2, OneBarePart
<1>7. ASSUME ~ BareOr(sink), AndJoined(parts) PROVE a /\ b /\ c /\ all
  <2>1. Len(parts[1]) = 1 /\ Len(parts[2]) = 1 /\ Len(parts[3]) = 1 /\ Len(parts[4]) = 1
    BY <1>1, <1>4, <1>5, <1>7
  <2>2. \A k \in 1..Len(parts) : parts[k][1]
    <3>1. Len(parts) \in Nat /\ \A k \in 1..Len(parts) : Len(parts[k]) # 2
      <4>1. \A k \in 1..4 : k = 1 \/ k = 2 \/ k = 3 \/ k = 4
        OBVIOUS
      <4>2. \A k \in 1..4 : Len(parts[k]) = 1
        BY <2>1, <4>1
      <4> QED
        BY <1>4, <4>2
    <3> QED
      BY <1>7, <3>1, NoBarePart
  <2>3. parts[1][1] /\ parts[2][1] /\ parts[3][1] /\ parts[4][1]
    BY <1>4, <2>2
  <2> QED
    BY <1>1, <1>4, <1>5, <1>7, <2>3
<1> QED
  BY <1>2, <1>3, <1>6, <1>7(* What is left of the WHERE, and each piece, is of the conjuncts asked    *)

(* for; here is what every step that answers may rely on.                  *)
Rendered == IInv /\ ClauseBuilt /\ PiecesHold /\ pc \in {"render", "done"} /\ ~ TerminatorLeft

LEMMA RenderedFacts ==
  ASSUME Rendered
  PROVE  /\ q \in Submitted /\ clause = q.first \o q.where
         /\ start = {i \in Injected : IsNodeFilter(clause[i], Source)}
         /\ Injected = left \cup start \cup barrier \cup sink \cup edges
         /\ Injected \subseteq DOMAIN clause /\ nodes \subseteq left
         /\ \A i \in barrier : MatchesTerminator(clause[i], Target)
         /\ \A i \in edges : Pushable(clause[i], "allEdges")
         /\ \A i \in nodes : Pushable(clause[i], "allNodes")
  BY DEF Rendered, IInv, Partition, ClauseBuilt, PiecesHold, BarrierIs, Injected

(* The traversal starts where every filter on its source holds, that of an *)
(* earlier clause too (_inject_filters_into_where, the base case of        *)
(* _render_recursive_cte), whatever the query.                             *)
THEOREM SourceFiltersHold == Spec => []ExploresOnlyFromSource
<1>1. ASSUME IInv, Extracted PROVE ExploresOnlyFromSource
  <2> SUFFICES ASSUME pc = "done", ~ BareOr(start), NEW path \in CTEPaths,
                      NEW w \in FiltersOnSource
               PROVE  IsTrue(w, [path |-> path])
    BY DEF ExploresOnlyFromSource
  <2>1. Rendered
    BY <1>1 DEF Rendered, Extracted, IInv, Undirected
  <2>2. PICK i \in Injected : clause[i] = w /\ IsNodeFilter(w, Source)
    BY <2>1, RenderedFacts, AskedFacts
  <2>3. i \in start /\ start \subseteq DOMAIN clause
    BY <2>1, <2>2, RenderedFacts
  <2>4. BaseCase(path)
    BY DEF CTEPaths, InCTE
  <2>5. StartOk(path)
    BY <2>1, <2>3, <2>4, RenderedFacts, BaseFacts
  <2> QED
    BY <2>2, <2>3, <2>5 DEF StartOk
<1> QED
  BY <1>1, AlwaysExtracted, PTL
-----------------------------------------------------------------------------
(* The paths of a pattern, without the enumeration.                        *)
LEMMA PathShape ==
  ASSUME NEW Q, Q.lo \in Nat, Q.hi \in Nat, NEW path
  PROVE  path \in P!PathsOf(Q) <=>
           /\ path = P!Path(path.start, path.steps) /\ path.start \in Q.starts
           /\ Len(path.steps) \in Q.lo..Q.hi
           /\ path.steps \in [1..Len(path.steps) -> P!StepsOver(Q.edges, Q.dir)]
           /\ P!IsPath(Q, path)
           /\ P!Keeps(Q, path.start, P!EndOf(path), Len(path.steps))
<1> DEFINE S == P!StepsOver(Q.edges, Q.dir)
<1>1. path \in P!PathsOf(Q) <=>
        /\ \E k \in Q.lo..Q.hi : \E s \in Q.starts, t \in [1..k -> S] : path = P!Path(s, t)
        /\ P!IsPath(Q, path)
        /\ P!Keeps(Q, path.start, P!EndOf(path), Len(path.steps))
  BY DEF P!PathsOf
<1> HIDE DEF S
<1>2. ASSUME NEW k \in Q.lo..Q.hi, NEW s \in Q.starts, NEW t \in [1..k -> S],
             path = P!Path(s, t)
      PROVE  /\ path = P!Path(path.start, path.steps) /\ path.start \in Q.starts
             /\ Len(path.steps) \in Q.lo..Q.hi
             /\ path.steps \in [1..Len(path.steps) -> S]
  <2>1. path.start = s /\ path.steps = t
    BY <1>2 DEF P!Path
  <2>2. k \in Nat
    OBVIOUS
  <2>3. Len(t) = k
    BY <2>2
  <2> QED
    BY <1>2, <2>1, <2>3
<1> QED
  BY <1>1, <1>2 DEF S

(* The steps of a path, one by one.                                        *)
LEMMA StepFacts ==
  ASSUME NEW rows \in SUBSET EdgeRow, NEW dir \in {"forward", "backward", "undirected"},
         NEW s \in P!StepsOver(rows, dir)
  PROVE  /\ s.edge \in rows /\ s.way \in {"out", "in"}
         /\ P!StepTo(s) \in Node \cup {Null} /\ P!StepFrom(s) \in Node \cup {Null}
         /\ Src[s.edge] \in {P!StepFrom(s), P!StepTo(s)}
         /\ Dst[s.edge] \in {P!StepFrom(s), P!StepTo(s)}
<1>1. s.edge \in rows /\ s.way \in {"out", "in"}
  BY DEF P!StepsOver, P!Ways
<1>2. Src[s.edge] \in Node \cup {Null} /\ Dst[s.edge] \in Node \cup {Null}
  BY <1>1, EdgeAssumption
<1> QED
  BY <1>1, <1>2 DEF P!StepTo, P!StepFrom-----------------------------------------------------------------------------

(* What the pieces say of a row.  A filter on the source reads where the   *)
(* path starts and no more.                                                *)
LEMMA SourceReadsStart ==
  ASSUME NEW conjunct, IsNodeFilter(conjunct, Source), NEW row, NEW other,
         row.path.start = other.path.start
  PROVE  IsTrue(conjunct, row) <=> IsTrue(conjunct, other)
<1>1. ASSUME NEW x \in Atoms(conjunct), NEW r, NEW seen
      PROVE  Holds(x, r, seen) <=> (x.kind = "node" => r.path.start \in x.yes)
  <2>1. Reads(x) = {"a"}
    BY DEF IsNodeFilter, ReadsOnly, Source
  <2>2. x.kind # "pair" /\ x.kind \notin EdgeLists \cup NodeLists
    BY <2>1 DEF Reads, EdgeLists, NodeLists
  <2>3. x.kind = "node" => x.var = "a"
    BY <2>1 DEF Reads, EdgeLists, NodeLists
  <2> QED
    BY <2>2, <2>3 DEF Holds, NodeOf, EdgeLists, NodeLists
<1> QED
  BY <1>1 DEF IsTrue

LEMMA LoneAtom ==
  ASSUME Rendered, NEW i \in Injected, NEW kinds, IsLone(clause[i], kinds)
  PROVE  Atoms(clause[i]) = {clause[i][1]} /\ clause[i][1].kind \in kinds
<1>1. DOMAIN clause[i] = 1..1
  BY RenderedFacts, ClauseFacts DEF IsLone
<1> QED
  BY <1>1 DEF Atoms, IsLone

LEMMA PieceFacts ==
  ASSUME Rendered, NEW row
  PROVE  /\ \A i \in barrier : IsTrue(clause[i], row)
         /\ \A i \in edges : IsTrue(clause[i], row) <=> EdgesOn(row.path) \subseteq clause[i][1].yes
         /\ \A i \in nodes : IsTrue(clause[i], row) <=> NodesOn(row.path) \subseteq clause[i][1].yes
         /\ \A i \in start : IsTrue(clause[i], row) <=>
                             IsTrue(clause[i], [path |-> row.path])
<1>1. ASSUME NEW i \in barrier PROVE IsTrue(clause[i], row)
  <2>1. i \in Injected /\ IsLone(clause[i], Directives)
    BY RenderedFacts DEF MatchesTerminator
  <2>2. Atoms(clause[i]) = {clause[i][1]} /\ clause[i][1].kind \in Directives
    BY <2>1, LoneAtom
  <2> QED
    BY <2>2 DEF IsTrue, Holds, Directives
<1>2. ASSUME NEW i \in edges
      PROVE  IsTrue(clause[i], row) <=> EdgesOn(row.path) \subseteq clause[i][1].yes
  <2>1. i \in Injected /\ IsLone(clause[i], {"allEdges"})
    BY RenderedFacts DEF Pushable
  <2>2. Atoms(clause[i]) = {clause[i][1]} /\ clause[i][1].kind = "allEdges"
    BY <2>1, LoneAtom
  <2> QED
    BY <2>2 DEF IsTrue, Holds
<1>3. ASSUME NEW i \in nodes
      PROVE  IsTrue(clause[i], row) <=> NodesOn(row.path) \subseteq clause[i][1].yes
  <2>1. i \in Injected /\ IsLone(clause[i], {"allNodes"})
    BY RenderedFacts DEF Pushable
  <2>2. Atoms(clause[i]) = {clause[i][1]} /\ clause[i][1].kind = "allNodes"
    BY <2>1, LoneAtom
  <2> QED
    BY <2>2 DEF IsTrue, Holds
<1>4. ASSUME NEW i \in start
      PROVE  IsTrue(clause[i], row) <=> IsTrue(clause[i], [path |-> row.path])
  BY RenderedFacts, SourceReadsStart
<1> QED
  BY <1>1, <1>2, <1>3, <1>4

(* Both WHEREs hold of a row when every piece does.                        *)
LEMMA AskedHold ==
  ASSUME Rendered, NEW row, FirstHolds(row)
  PROVE  (\A w \in Asked : IsTrue(w, row)) <=> AllHold(Injected, row)
<1>1. ASSUME \A w \in Asked : IsTrue(w, row), NEW i \in Injected
      PROVE  IsTrue(clause[i], row)
  <2>1. CASE i > Len(q.first)
    BY <1>1, <2>1, RenderedFacts, AskedFacts
  <2>2. CASE ~ (i > Len(q.first))
    <3>1. i \in DOMAIN q.first /\ q.first[i] = clause[i]
      BY <2>2, RenderedFacts, AskedFacts
    <3> QED
      BY <3>1 DEF FirstHolds
  <2> QED
    BY <2>1, <2>2
<1>2. ASSUME AllHold(Injected, row), NEW w \in Asked
      PROVE  IsTrue(w, row)
  <2>1. PICK i \in Injected : clause[i] = w
    BY RenderedFacts, AskedFacts
  <2> QED
    BY <1>2, <2>1 DEF AllHold
<1> QED
  BY <1>1, <1>2 DEF AllHold

(* A row that sees its path, or does not ask, is selected as it should be. *)
LEMMA SelectedFacts ==
  ASSUME Rendered, SeesPath, NEW row,
         \A i \in left : Enforced(i) => IsTrue(clause[i], row)
  PROVE  Selected(row) <=> AllHold(left, row)
<1>1. ASSUME NEW i \in left, NEW x \in Atoms(clause[i])
      PROVE  Holds(x, row, PathEdges(row)) <=> Holds(x, row, EdgesOn(row.path))
  <2>1. CASE q.mode = "procedural"
    <3>1. x.kind \notin EdgeLists
      BY <2>1 DEF SeesPath, ReadsEdgeList
    <3> QED
      BY <3>1 DEF Holds, EdgeLists
  <2>2. CASE q.mode # "procedural"
    BY <2>2 DEF PathEdges
  <2> QED
    BY <2>1, <2>2
<1> QED
  BY <1>1 DEF Selected, AllHold, IsTrue

(* The directives of the query are the one the traversal takes.            *)
LEMMA BarrierFacts ==
  ASSUME Rendered
  PROVE  BarrierNodes = UNION {Barriers(w) : w \in {v \in Asked : IsLone(v, Directives)}}
<1>1. ASSUME NEW i \in barrier PROVE clause[i] \in Asked /\ IsLone(clause[i], Directives)
  <2>1. MatchesTerminator(clause[i], Target) /\ i \in Injected /\ i \in DOMAIN clause
    BY RenderedFacts
  <2>2. clause[i] \in Asked
    BY <2>1, RenderedFacts, DirectiveFacts
  <2> QED
    BY <2>1, <2>2 DEF MatchesTerminator
<1>2. ASSUME NEW w \in Asked, IsLone(w, Directives) PROVE \E i \in barrier : clause[i] = w
  <2>1. PICK i \in Injected : clause[i] = w
    BY RenderedFacts, AskedFacts
  <2>2. HasTerminator(clause[i])
    BY <1>2, <2>1, LoneAtom DEF HasTerminator
  <2>3. i \in barrier
    BY <2>2, RenderedIsPlaced DEF Rendered
  <2> QED
    BY <2>1, <2>3
<1> QED
  BY <1>1, <1>2 DEF BarrierNodes-----------------------------------------------------------------------------

(* The paths asked for, and those either traversal returns.                *)
Asks == [q.pattern EXCEPT
           !.starts = Node, !.edges = q.pattern.typed,
           !.barriers = UNION {Barriers(w) : w \in {v \in Asked : IsLone(v, Directives)}},
           !.nodesOk = Node, !.targets = Node]
Follows(path) ==
  /\ path = P!Path(path.start, path.steps) /\ path.start \in Node
  /\ Len(path.steps) \in q.pattern.lo..q.pattern.hi
  /\ path.steps \in [1..Len(path.steps) -> P!StepsOver(q.pattern.typed, q.pattern.dir)]
  /\ \A i \in 1..Len(path.steps) :
       /\ P!StepFrom(path.steps[i]) = IF i = 1 THEN path.start ELSE P!StepTo(path.steps[i-1])
       /\ P!StepTo(path.steps[i]) \in Node
       /\ i > 1 => P!StepFrom(path.steps[i]) \notin BarrierNodes
  /\ \A i, j \in 1..Len(path.steps) :
       i < j => P!StepTo(path.steps[j]) # P!StepFrom(path.steps[i])
  /\ q.pattern.circular => path.start = P!EndOf(path)

LEMMA PatternFacts ==
  ASSUME q \in Submitted
  PROVE  /\ q.pattern \in QueryType /\ q.pattern.targets = Node
         /\ q.pattern.lo \in Nat /\ q.pattern.hi \in Nat /\ q.pattern.typed \subseteq EdgeRow
         /\ q.pattern.dir \in {"forward", "backward", "undirected"}
         /\ q.mode \in {"cte", "procedural"}
  BY SubmittedAssumption, QueryAssumption DEF QueryType

LEMMA EndIsNode ==
  ASSUME q \in Submitted, NEW path, Follows(path)
  PROVE  P!EndOf(path) \in Node
<1> DEFINE n == Len(path.steps)
<1>1. n \in Nat /\ path.steps \in [1..n -> P!StepsOver(q.pattern.typed, q.pattern.dir)]
  BY PatternFacts DEF Follows
<1>2. \A i \in 1..n : P!StepTo(path.steps[i]) \in Node
  BY DEF Follows
<1>3. path.start \in Node
  BY DEF Follows
<1>4. CASE path.steps = << >>
  BY <1>3, <1>4 DEF P!EndOf
<1>5. CASE path.steps # << >>
  <2>1. n \in 1..n
    BY <1>1, <1>5
  <2>2. P!EndOf(path) = P!StepTo(path.steps[n])
    BY <1>5 DEF P!EndOf
  <2> QED
    BY <1>2, <2>1, <2>2
<1> QED
  BY <1>4, <1>5

LEMMA AskedPaths ==
  ASSUME Rendered, NEW path
  PROVE  path \in P!PathsOf(Asks) <=> Follows(path)
<1> DEFINE n == Len(path.steps)
<1>1. q \in Submitted /\ q.pattern \in QueryType /\ q.pattern.lo \in Nat /\ q.pattern.hi \in Nat
  BY RenderedFacts, PatternFacts
<1>2. /\ Asks.lo = q.pattern.lo /\ Asks.hi = q.pattern.hi /\ Asks.starts = Node
      /\ Asks.edges = q.pattern.typed /\ Asks.dir = q.pattern.dir /\ Asks.nodesOk = Node
      /\ Asks.targets = Node /\ Asks.circular = q.pattern.circular
  BY <1>1 DEF Asks, QueryType
<1>3. Asks.barriers = BarrierNodes
  <2>1. Asks.barriers = UNION {Barriers(w) : w \in {v \in Asked : IsLone(v, Directives)}}
    BY <1>1 DEF Asks, QueryType
  <2> QED
    BY <2>1, BarrierFacts
<1> HIDE DEF Asks
<1>4. path \in P!PathsOf(Asks) <=>
        /\ path = P!Path(path.start, path.steps) /\ path.start \in Node
        /\ n \in q.pattern.lo..q.pattern.hi
        /\ path.steps \in [1..n -> P!StepsOver(q.pattern.typed, q.pattern.dir)]
        /\ P!IsPath(Asks, path)
        /\ P!Keeps(Asks, path.start, P!EndOf(path), n)
  BY <1>1, <1>2, PathShape
<1>5. ASSUME path.steps \in [1..n -> P!StepsOver(q.pattern.typed, q.pattern.dir)],
             path.start \in Node
      PROVE  P!IsPath(Asks, path) <=>
               /\ \A i \in 1..n :
                    /\ P!StepFrom(path.steps[i]) =
                         IF i = 1 THEN path.start ELSE P!StepTo(path.steps[i-1])
                    /\ P!StepTo(path.steps[i]) \in Node
                    /\ i > 1 => P!StepFrom(path.steps[i]) \notin BarrierNodes
               /\ \A i, j \in 1..n :
                    i < j => P!StepTo(path.steps[j]) # P!StepFrom(path.steps[i])
  <2>1. DOMAIN path.steps = 1..n
    BY <1>5
  <2> HIDE DEF n
  <2> QED
    BY <1>2, <1>3, <1>5, <2>1 DEF P!IsPath
<1>6. ASSUME path \in P!PathsOf(Asks) PROVE Follows(path)
  BY <1>2, <1>4, <1>5, <1>6 DEF Follows, P!Keeps
<1>7. ASSUME Follows(path) PROVE path \in P!PathsOf(Asks)
  <2>1. P!EndOf(path) \in Node
    BY <1>1, <1>7, EndIsNode
  <2> QED
    BY <1>2, <1>4, <1>5, <1>7, <2>1 DEF Follows, P!Keeps
<1> QED
  BY <1>6, <1>7

(* An ALL over the edges of a path is one over its steps.                  *)
EdgesOk(path) == \A k \in 1..Len(path.steps) : EdgeOk(path.steps[k].edge)
LEMMA EdgesByStep ==
  ASSUME NEW path, DOMAIN path.steps = 1..Len(path.steps)
  PROVE  EdgesOk(path) <=> \A i \in edges : EdgesOn(path) \subseteq clause[i][1].yes
  BY DEF EdgesOk, EdgeOk, EdgesOn

(* The pushdown over nodes drops no edge of a path it admits.              *)
LEMMA ReadEdges ==
  ASSUME Rendered, NEW path, Follows(path),
         \A i \in nodes : NodesOn(path) \subseteq clause[i][1].yes
  PROVE  path.steps \in [1..Len(path.steps) -> P!StepsOver(ReadRows, q.pattern.dir)]
<1> DEFINE n == Len(path.steps)
           S == P!StepsOver(q.pattern.typed, q.pattern.dir)
           R == P!StepsOver(ReadRows, q.pattern.dir)
<1>1. /\ q.pattern.typed \in SUBSET EdgeRow /\ n \in Nat
      /\ q.pattern.dir \in {"forward", "backward", "undirected"}
      /\ path.steps \in [1..n -> S] /\ path.start \in Node
  BY RenderedFacts, PatternFacts DEF Follows
<1>2. DOMAIN path.steps = 1..n
  BY <1>1
<1> SUFFICES ASSUME NEW k \in 1..n PROVE path.steps[k] \in R
  BY <1>1
<1> DEFINE s == path.steps[k]
<1>3. s \in S
  BY <1>1
<1>4. /\ s.edge \in q.pattern.typed
      /\ Src[s.edge] \in {P!StepFrom(s), P!StepTo(s)}
      /\ Dst[s.edge] \in {P!StepFrom(s), P!StepTo(s)}
  BY <1>1, <1>3, StepFacts
<1>5. P!StepTo(s) \in NodesOn(path)
  BY <1>2 DEF NodesOn
<1>6. P!StepFrom(s) \in NodesOn(path)
  <2>1. P!StepFrom(s) = IF k = 1 THEN path.start ELSE P!StepTo(path.steps[k-1])
    BY DEF Follows
  <2>2. CASE k = 1
    BY <2>1, <2>2 DEF NodesOn
  <2>3. CASE k # 1
    <3>1. k - 1 \in DOMAIN path.steps
      BY <1>1, <1>2, <2>3
    <3> QED
      BY <2>1, <2>3, <3>1 DEF NodesOn
  <2> QED
    BY <2>2, <2>3
<1>7. NodeOk(Src[s.edge]) /\ NodeOk(Dst[s.edge])
  BY <1>4, <1>5, <1>6 DEF NodeOk
<1>8. s.edge \in ReadRows
  BY <1>1, <1>4, <1>7 DEF ReadRows, TableRows
<1>9. \E e \in q.pattern.typed, w \in P!Ways(q.pattern.dir) : s = [edge |-> e, way |-> w]
  BY <1>3 DEF P!StepsOver
<1> QED
  BY <1>8, <1>9 DEF P!StepsOver

LEMMA CTELength ==
  ASSUME Rendered, NEW path \in CTEPaths
  PROVE  Len(path.steps) \in Nat
<1> DEFINE R == P!StepsOver(ReadRows, q.pattern.dir)
<1>1. q.pattern.lo \in Nat /\ q.pattern.hi \in Nat
  BY RenderedFacts, PatternFacts
<1>2. PICK k \in (IF q.pattern.lo = 0 THEN 0 ELSE 1)..q.pattern.hi :
             \E s \in Node, t \in [1..k -> R] : path = P!Path(s, t)
  BY DEF CTEPaths
<1> HIDE DEF R
<1>3. PICK s \in Node, t \in [1..k -> R] : path = P!Path(s, t)
  BY <1>2
<1>4. path.steps = t /\ k \in Nat
  BY <1>1, <1>3 DEF P!Path
<1> QED
  BY <1>4

LEMMA CTELoses ==
  ASSUME Rendered, NEW path, Follows(path), StartOk(path), EdgesOk(path),
         \A i \in nodes : NodesOn(path) \subseteq clause[i][1].yes
  PROVE  path \in CTEPaths
<1> DEFINE n == Len(path.steps)
           R == P!StepsOver(ReadRows, q.pattern.dir)
<1>1. /\ q.pattern.lo \in Nat /\ q.pattern.hi \in Nat /\ n \in q.pattern.lo..q.pattern.hi
      /\ path = P!Path(path.start, path.steps) /\ path.start \in Node
      /\ path.steps \in [1..n -> R]
  BY RenderedFacts, PatternFacts, ReadEdges DEF Follows
<1>2. n \in (IF q.pattern.lo = 0 THEN 0 ELSE 1)..q.pattern.hi
  BY <1>1
<1>3. path \in UNION {{P!Path(s, t) : s \in Node, t \in [1..k -> R]} :
                      k \in (IF q.pattern.lo = 0 THEN 0 ELSE 1)..q.pattern.hi}
  <2> HIDE DEF n, R
  <2> QED
    BY <1>1, <1>2
<1>4. path.steps # << >> => P!StepFrom(path.steps[1]) = path.start
  <2>1. path.steps # << >> => 1 \in 1..n
    BY <1>1
  <2> QED
    BY <2>1 DEF Follows
<1>5. BaseCase(path)
  BY RenderedFacts, BaseFacts
<1>6. ASSUME NEW i \in 2..n PROVE RecursiveCase(path, i)
  <2>1. i \in 1..n /\ i - 1 \in 1..n /\ i # 1 /\ i > 1
    BY <1>1, <1>6
  <2>2. /\ P!StepFrom(path.steps[i]) = P!StepTo(path.steps[i-1])
        /\ P!StepTo(path.steps[i-1]) \in Node /\ P!StepTo(path.steps[i]) \in Node
        /\ P!StepFrom(path.steps[i]) \notin BarrierNodes
    BY <2>1 DEF Follows
  <2>3. \A j \in 1..(i-1) : j \in 1..n /\ j < i
    BY <1>1, <1>6
  <2>4. \A j \in 1..(i-1) : P!StepTo(path.steps[i]) # P!StepFrom(path.steps[j])
    BY <2>1, <2>3 DEF Follows
  <2>5. path.steps[i] \in P!StepsOver(q.pattern.typed, q.pattern.dir)
    BY <2>1 DEF Follows
  <2>6. path.steps[i].edge \in q.pattern.typed
    BY <2>5 DEF P!StepsOver
  <2> QED
    BY <2>1, <2>2, <2>4, <2>6, NullAssumption DEF RecursiveCase, EdgesOk
<1> QED
  BY <1>3, <1>4, <1>5, <1>6 DEF CTEPaths, InCTE

LEMMA CTEAdds ==
  ASSUME Rendered, ~ BareOr(start), NEW path \in CTEPaths,
         Len(path.steps) \in q.pattern.lo..q.pattern.hi, P!EndOf(path) # Null,
         q.pattern.circular => path.start = P!EndOf(path)
  PROVE  Follows(path) /\ StartOk(path) /\ EdgesOk(path)
<1> DEFINE n == Len(path.steps)
           R == P!StepsOver(ReadRows, q.pattern.dir)
           S == P!StepsOver(q.pattern.typed, q.pattern.dir)
<1>1. /\ q.pattern.lo \in Nat /\ q.pattern.hi \in Nat /\ q.pattern.typed \in SUBSET EdgeRow
      /\ q.pattern.dir \in {"forward", "backward", "undirected"}
      /\ ReadRows \in SUBSET EdgeRow
  BY RenderedFacts, PatternFacts DEF ReadRows, TableRows
<1>2. /\ path = P!Path(path.start, path.steps) /\ path.start \in Node
      /\ n \in Nat /\ path.steps \in [1..n -> R]
  <2>1. PICK k \in (IF q.pattern.lo = 0 THEN 0 ELSE 1)..q.pattern.hi :
               \E s \in Node, t \in [1..k -> R] : path = P!Path(s, t)
    BY DEF CTEPaths
  <2> HIDE DEF R
  <2>2. PICK s \in Node, t \in [1..k -> R] : path = P!Path(s, t)
    BY <2>1
  <2>3. path.start = s /\ path.steps = t
    BY <2>2 DEF P!Path
  <2>4. k \in Nat
    BY <1>1
  <2>5. Len(t) = k
    BY <2>4
  <2> QED
    BY <2>2, <2>3, <2>4, <2>5
<1>3. /\ path.steps # << >> => P!StepFrom(path.steps[1]) = path.start
      /\ \A i \in 2..n : RecursiveCase(path, i)
      /\ BaseCase(path)
  BY DEF CTEPaths, InCTE
<1>4. StartOk(path)
  BY <1>3, RenderedFacts, BaseFacts
<1>5. \A i \in 1..n : path.steps[i] \in R
  BY <1>2
<1> HIDE DEF n, R, S
<1>6. ASSUME NEW i \in 1..n
      PROVE  /\ path.steps # << >> /\ path.steps[i].edge \in q.pattern.typed
             /\ EdgeOk(path.steps[i].edge)
  <2>1. path.steps # << >>
    BY <1>2 DEF n
  <2>2. CASE i = 1
    BY <1>4, <2>1, <2>2 DEF StartOk
  <2>3. CASE i # 1
    <3>1. i \in 2..n
      BY <1>2, <2>3
    <3> QED
      BY <1>3, <2>1, <3>1 DEF RecursiveCase
  <2> QED
    BY <2>2, <2>3
<1>7. EdgesOk(path)
  BY <1>6 DEF EdgesOk, n
<1>8. path.steps \in [1..n -> S]
  <2>1. ASSUME NEW i \in 1..n PROVE path.steps[i] \in S
    <3>1. \E e \in ReadRows, w \in P!Ways(q.pattern.dir) :
             path.steps[i] = [edge |-> e, way |-> w]
      BY <1>5 DEF R, P!StepsOver
    <3> QED
      BY <1>6, <3>1 DEF S, P!StepsOver
  <2> QED
    BY <1>2, <2>1
<1>9. ASSUME NEW i \in 1..n PROVE P!StepTo(path.steps[i]) \in Node
  <2>1. P!StepTo(path.steps[i]) \in Node \cup {Null}
    BY <1>1, <1>5, StepFacts DEF R
  <2>2. CASE i = n
    <3>1. P!EndOf(path) = P!StepTo(path.steps[i])
      BY <1>6, <2>2 DEF P!EndOf, n
    <3> QED
      BY <2>1, <3>1
  <2>3. CASE i # n
    <3>1. i + 1 \in 2..n /\ (i + 1) - 1 = i
      BY <1>2, <2>3
    <3>2. Null # P!StepTo(path.steps[(i + 1) - 1])
      BY <1>3, <3>1 DEF RecursiveCase
    <3> QED
      BY <2>1, <3>1, <3>2
  <2> QED
    BY <2>2, <2>3
<1>10. ASSUME NEW i \in 1..n
       PROVE  /\ P!StepFrom(path.steps[i]) =
                    IF i = 1 THEN path.start ELSE P!StepTo(path.steps[i-1])
              /\ i > 1 => P!StepFrom(path.steps[i]) \notin BarrierNodes
  <2>1. CASE i = 1
    BY <1>3, <1>6, <2>1
  <2>2. CASE i # 1
    <3>1. i \in 2..n
      BY <1>2, <2>2
    <3> QED
      BY <1>3, <2>2, <3>1 DEF RecursiveCase
  <2> QED
    BY <2>1, <2>2
<1>11. ASSUME NEW i \in 1..n, NEW j \in 1..n, i < j
       PROVE  P!StepTo(path.steps[j]) # P!StepFrom(path.steps[i])
  <2>1. j \in 2..n /\ i \in 1..(j-1)
    BY <1>2, <1>11
  <2> QED
    BY <1>3, <2>1 DEF RecursiveCase
<1>12. Follows(path)
  BY <1>2, <1>8, <1>9, <1>10, <1>11 DEF Follows, n, S
<1> QED
  BY <1>4, <1>7, <1>12

(* What the procedural search is given.                                    *)
Kept == {n \in Node : \A i \in start : IsTrue(clause[i], [path |-> P!Path(n, << >>)])}
Passing == {e \in q.pattern.typed : EdgeOk(e)}
Allowed == IF PushdownActive THEN {n \in Node : NodeOk(n)} ELSE Node

LEMMA SearchShape ==
  ASSUME Rendered, NEW path
  PROVE  path \in P!PathsOf(Searched) <=>
           /\ path = P!Path(path.start, path.steps) /\ path.start \in Kept \cap Allowed
           /\ Len(path.steps) \in 1..q.pattern.hi
           /\ path.steps \in [1..Len(path.steps) -> P!StepsOver(Passing, q.pattern.dir)]
           /\ \A i \in 1..Len(path.steps) :
                /\ P!StepFrom(path.steps[i]) =
                     IF i = 1 THEN path.start ELSE P!StepTo(path.steps[i-1])
                /\ P!StepTo(path.steps[i]) \in Allowed
                /\ i > 1 => P!StepFrom(path.steps[i]) \notin BarrierNodes
           /\ \A i, j \in 1..Len(path.steps) :
                i < j => P!StepTo(path.steps[j]) # P!StepFrom(path.steps[i])
           /\ P!EndOf(path) \in Node
<1> DEFINE n == Len(path.steps)
<1>1. q \in Submitted /\ q.pattern \in QueryType /\ q.pattern.hi \in Nat /\ q.pattern.targets = Node
  BY RenderedFacts, PatternFacts
<1>2. /\ Searched.lo = 1 /\ Searched.hi = q.pattern.hi /\ Searched.starts = Kept
      /\ Searched.edges = Passing /\ Searched.dir = q.pattern.dir
      /\ Searched.nodesOk = Allowed /\ Searched.targets = Node
      /\ Searched.circular = FALSE /\ Searched.barriers = BarrierNodes
  <2> HIDE DEF Searched
  <2>1. Searched = [q.pattern EXCEPT
               !.lo = 1, !.circular = FALSE, !.starts = Kept, !.edges = Passing,
               !.barriers = BarrierNodes, !.nodesOk = Allowed]
    BY DEF Searched, Kept, Passing, Allowed
  <2> HIDE DEF Kept, Passing, Allowed, BarrierNodes
  <2> QED
    BY <1>1, <2>1 DEF QueryType
<1> HIDE DEF Searched, Kept, Passing, Allowed, BarrierNodes
<1>3. path \in P!PathsOf(Searched) <=>
        /\ path = P!Path(path.start, path.steps) /\ path.start \in Kept
        /\ n \in 1..q.pattern.hi
        /\ path.steps \in [1..n -> P!StepsOver(Passing, q.pattern.dir)]
        /\ P!IsPath(Searched, path)
        /\ P!Keeps(Searched, path.start, P!EndOf(path), n)
  BY <1>1, <1>2, PathShape
<1>4. ASSUME path.steps \in [1..n -> P!StepsOver(Passing, q.pattern.dir)]
      PROVE  P!IsPath(Searched, path) <=>
               /\ path.start \in Kept \cap Allowed
               /\ \A i \in 1..n :
                    /\ P!StepFrom(path.steps[i]) =
                         IF i = 1 THEN path.start ELSE P!StepTo(path.steps[i-1])
                    /\ P!StepTo(path.steps[i]) \in Allowed
                    /\ i > 1 => P!StepFrom(path.steps[i]) \notin BarrierNodes
               /\ \A i, j \in 1..n :
                    i < j => P!StepTo(path.steps[j]) # P!StepFrom(path.steps[i])
  <2>1. DOMAIN path.steps = 1..n
    BY <1>4
  <2> HIDE DEF n
  <2> QED
    BY <1>2, <2>1 DEF P!IsPath
<1>5. P!Keeps(Searched, path.start, P!EndOf(path), n) <=>
        n \in 1..q.pattern.hi /\ P!EndOf(path) \in Node
  BY <1>2 DEF P!Keeps
<1> QED
  BY <1>3, <1>4, <1>5

LEMMA SearchLoses ==
  ASSUME Rendered, q.pattern.lo # 0, NEW path, Follows(path), EdgesOk(path),
         \A i \in start : IsTrue(clause[i], [path |-> path]),
         \A i \in nodes : NodesOn(path) \subseteq clause[i][1].yes
  PROVE  path \in P!PathsOf(Searched)
<1> DEFINE n == Len(path.steps)
           S == P!StepsOver(q.pattern.typed, q.pattern.dir)
<1>1. /\ q.pattern.lo \in Nat /\ q.pattern.hi \in Nat /\ n \in q.pattern.lo..q.pattern.hi
      /\ path = P!Path(path.start, path.steps) /\ path.start \in Node
      /\ path.steps \in [1..n -> S] /\ P!EndOf(path) \in Node
  BY RenderedFacts, PatternFacts, EndIsNode DEF Follows
<1>2. n \in 1..q.pattern.hi /\ DOMAIN path.steps = 1..n
  BY <1>1
<1>3. path.start \in Kept
  <2>1. ASSUME NEW i \in start
        PROVE  IsTrue(clause[i], [path |-> P!Path(path.start, << >>)])
    <3> DEFINE one == [path |-> path]
               two == [path |-> P!Path(path.start, << >>)]
    <3>1. one.path.start = two.path.start
      BY DEF P!Path
    <3>2. IsNodeFilter(clause[i], Source) /\ IsTrue(clause[i], one)
      BY RenderedFacts
    <3> HIDE DEF one, two
    <3>3. IsTrue(clause[i], two)
      BY <3>1, <3>2, SourceReadsStart
    <3> QED
      BY <3>3 DEF two
  <2> QED
    BY <1>1, <2>1 DEF Kept
<1>4. ASSUME NEW m \in Node, m \in NodesOn(path) PROVE m \in Allowed
  BY <1>4 DEF Allowed, NodeOk
<1>5. path.start \in Allowed
  BY <1>1, <1>4 DEF NodesOn
<1>6. ASSUME NEW i \in 1..n PROVE P!StepTo(path.steps[i]) \in Allowed
  BY <1>2, <1>4 DEF NodesOn, Follows
<1>7. path.steps \in [1..n -> P!StepsOver(Passing, q.pattern.dir)]
  <2>1. ASSUME NEW i \in 1..n PROVE path.steps[i] \in P!StepsOver(Passing, q.pattern.dir)
    <3>1. PICK e \in q.pattern.typed, w \in P!Ways(q.pattern.dir) :
             path.steps[i] = [edge |-> e, way |-> w]
      BY <1>1 DEF P!StepsOver
    <3>2. e \in Passing
      BY <3>1 DEF EdgesOk, Passing
    <3> QED
      BY <3>1, <3>2 DEF P!StepsOver
  <2> QED
    BY <1>1, <2>1
<1> QED
  BY <1>1, <1>2, <1>3, <1>5, <1>6, <1>7, SearchShape DEF Follows

LEMMA SearchAdds ==
  ASSUME Rendered, NEW path \in P!PathsOf(Searched),
         Len(path.steps) \in q.pattern.lo..q.pattern.hi,
         q.pattern.circular => path.start = P!EndOf(path)
  PROVE  Follows(path) /\ EdgesOk(path)
<1> DEFINE n == Len(path.steps)
           S == P!StepsOver(q.pattern.typed, q.pattern.dir)
           T == P!StepsOver(Passing, q.pattern.dir)
<1>1. path.steps \in [1..n -> T]
  BY SearchShape
<1>2. ASSUME NEW i \in 1..n
      PROVE  path.steps[i] \in S /\ EdgeOk(path.steps[i].edge)
  <2>1. PICK e \in Passing, w \in P!Ways(q.pattern.dir) :
           path.steps[i] = [edge |-> e, way |-> w]
    BY <1>1 DEF P!StepsOver
  <2> QED
    BY <2>1 DEF P!StepsOver, Passing
<1>3. path.steps \in [1..n -> S]
  BY <1>1, <1>2
<1>4. Allowed \subseteq Node /\ Kept \subseteq Node
  BY DEF Allowed, Kept
<1>5. Follows(path)
  BY <1>3, <1>4, SearchShape DEF Follows
<1> QED
  BY <1>2, <1>5 DEF EdgesOk

(* What the search was given holds of what it returns.                     *)
LEMMA SearchFilters ==
  ASSUME Rendered, NEW path \in P!PathsOf(Searched)
  PROVE  /\ \A i \in start : IsTrue(clause[i], [path |-> path])
         /\ PushdownActive => \A i \in nodes : NodesOn(path) \subseteq clause[i][1].yes
<1>1. ASSUME NEW i \in start PROVE IsTrue(clause[i], [path |-> path])
  <2> DEFINE one == [path |-> path]
             two == [path |-> P!Path(path.start, << >>)]
  <2>1. one.path.start = two.path.start
    BY DEF P!Path
  <2>2. path.start \in Kept
    BY SearchShape
  <2>3. IsNodeFilter(clause[i], Source) /\ IsTrue(clause[i], two)
    BY <2>2, RenderedFacts DEF Kept
  <2> HIDE DEF one, two
  <2>4. IsTrue(clause[i], one)
    BY <2>1, <2>3, SourceReadsStart
  <2> QED
    BY <2>4 DEF one
<1>2. ASSUME PushdownActive, NEW i \in nodes PROVE NodesOn(path) \subseteq clause[i][1].yes
  <2>1. \A m \in Allowed : m \in clause[i][1].yes
    BY <1>2 DEF Allowed, NodeOk
  <2>2. DOMAIN path.steps = 1..Len(path.steps)
    BY SearchShape
  <2>3. path.start \in Allowed /\ \A k \in DOMAIN path.steps : P!StepTo(path.steps[k]) \in Allowed
    BY <2>2, SearchShape
  <2> QED
    BY <2>1, <2>3 DEF NodesOn
<1> QED
  BY <1>1, <1>2-----------------------------------------------------------------------------

(* The rows of the answer against the rows asked for.                      *)
LEMMA WantedRows ==
  ASSUME Rendered, NEW row
  PROVE  row \in Wanted <=> /\ row \in [c : Node, path : {row.path}] /\ FirstHolds(row)
                            /\ Follows(row.path) /\ AllHold(Injected, row)
<1>1. Wanted = {r \in RowsOver(P!PathsOf(Asks)) : \A w \in Asked : IsTrue(w, r)}
  BY DEF Wanted, Asks
<1>2. row \in RowsOver(P!PathsOf(Asks)) <=>
        /\ row \in [c : Node, path : {row.path}] /\ FirstHolds(row)
        /\ row.path \in P!PathsOf(Asks)
  BY DEF RowsOver
<1> QED
  BY <1>1, <1>2, AskedPaths, AskedHold

LEMMA ReturnsWanted ==
  ASSUME Rendered, SeesPath, ~ ProceduralRefuses, NEW row \in Wanted
  PROVE  row \in Rows /\ JoinedRow(row) /\ Selected(row)
<1> DEFINE path == row.path
<1>1. /\ row \in [c : Node, path : {path}] /\ FirstHolds(row) /\ Follows(path)
      /\ \A i \in Injected : IsTrue(clause[i], row)
  BY WantedRows DEF AllHold
<1>2. q \in Submitted /\ Injected = left \cup start \cup barrier \cup sink \cup edges
      /\ nodes \subseteq left
  BY RenderedFacts
<1>3. \A i \in start : IsTrue(clause[i], [path |-> path])
  BY <1>1, <1>2, PieceFacts
<1>4. \A i \in nodes : NodesOn(path) \subseteq clause[i][1].yes
  BY <1>1, <1>2, PieceFacts
<1>5. EdgesOk(path)
  <2>1. DOMAIN path.steps = 1..Len(path.steps)
    BY <1>1 DEF Follows
  <2> QED
    BY <1>1, <1>2, <2>1, PieceFacts, EdgesByStep
<1>6. row \in RowsOver({path})
  BY <1>1 DEF RowsOver
<1>7. row \in Rows
  <2>1. CASE q.mode = "procedural"
    <3>1. path \in P!PathsOf(Searched)
      BY <1>1, <1>3, <1>4, <1>5, <2>1, SearchLoses DEF ProceduralRefuses
    <3> QED
      BY <1>1, <2>1, <3>1 DEF Rows, RowsOver
  <2>2. CASE q.mode # "procedural"
    <3>1. StartOk(path)
      <4>1. path.steps # << >> => 1 \in 1..Len(path.steps)
        BY <1>1, <1>2, PatternFacts DEF Follows
      <4>2. path.steps # << >> => path.steps[1] \in P!StepsOver(q.pattern.typed, q.pattern.dir)
        BY <1>1, <4>1 DEF Follows
      <4>3. path.steps # << >> => path.steps[1].edge \in q.pattern.typed
        BY <4>2 DEF P!StepsOver
      <4> QED
        BY <1>3, <1>5, <4>1, <4>3 DEF StartOk, EdgesOk
    <3>2. path \in CTEPaths
      BY <1>1, <1>4, <1>5, <3>1, CTELoses
    <3> QED
      BY <1>1, <2>2, <3>2 DEF Rows, RowsOver
  <2> QED
    BY <2>1, <2>2
<1>8. JoinedRow(row)
  <2>1. EndsWell(row)
    <3>1. P!EndOf(path) \in Node /\ Len(path.steps) \in q.pattern.lo..q.pattern.hi
      BY <1>1, <1>2, EndIsNode DEF Follows
    <3>2. Len(path.steps) >= q.pattern.lo /\ Len(path.steps) <= q.pattern.hi
      BY <1>2, <3>1, PatternFacts
    <3> QED
      BY <1>1, <1>2, <3>1, <3>2, NullAssumption DEF EndsWell, Follows
  <2> QED
    BY <2>1, RenderedFacts, JoinFacts
<1>9. Selected(row)
  BY <1>1, <1>2, SelectedFacts DEF AllHold
<1> QED
  BY <1>7, <1>8, <1>9

LEMMA ReturnsNoOther ==
  ASSUME Rendered, SeesPath, ~ BareOr(start), ~ BareOr(sink),
         NEW row \in Rows, JoinedRow(row), Selected(row)
  PROVE  row \in Wanted
<1> DEFINE path == row.path
<1>1. EndsWell(row)
  BY RenderedFacts, JoinFacts
<1>2. /\ P!EndOf(path) # Null /\ \A i \in sink : IsTrue(clause[i], row)
      /\ q.pattern.circular => path.start = P!EndOf(path)
  BY <1>1 DEF EndsWell
<1>3. row \in [c : Node, path : {path}] /\ FirstHolds(row)
      /\ path \in (IF q.mode = "procedural" THEN P!PathsOf(Searched) ELSE CTEPaths)
  BY DEF Rows, RowsOver
<1>4. /\ Injected = left \cup start \cup barrier \cup sink \cup edges
      /\ nodes \subseteq left /\ q.pattern.lo \in Nat /\ q.pattern.hi \in Nat
  BY RenderedFacts, PatternFacts
<1>5. Len(path.steps) \in q.pattern.lo..q.pattern.hi
  <2>1. Len(path.steps) \in Int
    <3>1. CASE q.mode = "procedural"
      BY <1>3, <3>1, SearchShape
    <3>2. CASE q.mode # "procedural"
      BY <1>3, <3>2, CTELength
    <3> QED
      BY <3>1, <3>2
  <2>2. Len(path.steps) >= q.pattern.lo /\ Len(path.steps) <= q.pattern.hi
    BY <1>1 DEF EndsWell
  <2> QED
    BY <1>4, <2>1, <2>2
<1>6. /\ Follows(path) /\ EdgesOk(path)
      /\ \A i \in start : IsTrue(clause[i], [path |-> path])
  <2>1. CASE q.mode = "procedural"
    BY <1>2, <1>3, <1>5, <2>1, SearchAdds, SearchFilters
  <2>2. CASE q.mode # "procedural"
    BY <1>2, <1>3, <1>5, <2>2, CTEAdds DEF StartOk
  <2> QED
    BY <2>1, <2>2
<1>7. \A i \in left : Enforced(i) => IsTrue(clause[i], row)
  <2> SUFFICES ASSUME NEW i \in left, Enforced(i) PROVE IsTrue(clause[i], row)
    OBVIOUS
  <2>1. q.mode = "procedural" /\ i \in nodes /\ PushdownActive
    BY DEF Enforced
  <2>2. NodesOn(path) \subseteq clause[i][1].yes
    BY <1>3, <2>1, SearchFilters
  <2> QED
    BY <2>1, <2>2, PieceFacts
<1>8. \A i \in left : IsTrue(clause[i], row)
  BY <1>7, SelectedFacts DEF AllHold
<1>9. \A i \in edges : IsTrue(clause[i], row)
  <2>1. DOMAIN path.steps = 1..Len(path.steps)
    BY <1>6 DEF Follows
  <2> QED
    BY <1>6, <2>1, PieceFacts, EdgesByStep
<1>10. \A i \in start \cup barrier : IsTrue(clause[i], row)
  BY <1>6, PieceFacts
<1>11. AllHold(Injected, row)
  BY <1>2, <1>4, <1>8, <1>9, <1>10 DEF AllHold
<1> QED
  BY <1>3, <1>6, <1>11, WantedRows
-----------------------------------------------------------------------------
(* Both hold of the step that answers, and nothing changes after it.       *)
LEMMA AnswerExact ==
  ASSUME IInv, Extracted, Answer
  PROVE  LosesNothing' /\ AddsNothing'
<1>1. /\ q' = q /\ clause' = clause /\ left' = left /\ start' = start /\ sink' = sink
      /\ pc = "render" /\ ~ ProceduralRefuses
      /\ answer' = {row \in Rows : JoinedRow(row) /\ Selected(row)}
  BY DEF Answer, pieces
<1>2. Rendered
  BY <1>1 DEF Rendered, Extracted, IInv, Undirected
<1>3. Wanted' = Wanted
  BY <1>1 DEF Wanted, Asked, RowsOver, FirstHolds
<1>4. SeesPath' <=> SeesPath
  BY <1>1 DEF SeesPath, ReadsEdgeList
<1>5. (BareOr(start)' <=> BareOr(start)) /\ (BareOr(sink)' <=> BareOr(sink))
  BY <1>1 DEF BareOr
<1>6. ASSUME SeesPath PROVE Wanted \subseteq answer'
  BY <1>1, <1>2, <1>6, ReturnsWanted
<1>7. ASSUME SeesPath, ~ BareOr(start), ~ BareOr(sink) PROVE answer' \subseteq Wanted
  BY <1>1, <1>2, <1>7, ReturnsNoOther
<1> QED
  BY <1>3, <1>4, <1>5, <1>6, <1>7 DEF LosesNothing, AddsNothing

LEMMA NextExact ==
  ASSUME IInv, Extracted, LosesNothing, AddsNothing, [Next]_vars
  PROVE  LosesNothing' /\ AddsNothing'
<1>1. CASE Answer
  BY <1>1, AnswerExact
<1>2. CASE UNCHANGED vars
  <2>1. /\ q' = q /\ clause' = clause /\ left' = left /\ start' = start /\ sink' = sink
        /\ pc' = pc /\ answer' = answer
    BY <1>2 DEF vars, pieces
  <2>2. Wanted' = Wanted
    BY <2>1 DEF Wanted, Asked, RowsOver, FirstHolds
  <2>3. SeesPath' <=> SeesPath
    BY <2>1 DEF SeesPath, ReadsEdgeList
  <2>4. (BareOr(start)' <=> BareOr(start)) /\ (BareOr(sink)' <=> BareOr(sink))
    BY <2>1 DEF BareOr
  <2> QED
    BY <2>1, <2>2, <2>3, <2>4 DEF LosesNothing, AddsNothing
<1>3. CASE Plan \/ RenderRefuses \/ EngineRejects
  <2>1. pc' # "done"
    BY <1>3 DEF Plan, InjectFilters, ExtractStartFilter, ExtractBarrierFilter,
       RejectTerminator, ExtractSinkFilter, AnalyzePath, RejectSelection, Select,
       RenderRefuses, EngineRejects, Refuse
  <2> QED
    BY <2>1 DEF LosesNothing, AddsNothing
<1> QED
  BY <1>1, <1>2, <1>3 DEF Next

LEMMA AlwaysExact == Spec => [](LosesNothing /\ AddsNothing)
<1>1. Init => LosesNothing /\ AddsNothing
  BY DEF Init, LosesNothing, AddsNothing
<1>2. IInv /\ Extracted /\ (LosesNothing /\ AddsNothing) /\ [Next]_vars
        => (LosesNothing /\ AddsNothing)'
  BY NextExact
<1> QED
  BY <1>1, <1>2, AlwaysExtracted, PTL DEF Spec

(* Wherever the planner puts the conjuncts of either WHERE, and whichever  *)
(* renderer writes them, no row the query asks for is lost, unless the     *)
(* Selection reads the path_edges a procedural row has not.                *)
THEOREM NoRowLost == Spec => []LosesNothing
  BY AlwaysExact, PTL

(* And none is added, as long as no filter of one OR is written bare.      *)
THEOREM NoRowAdded == Spec => []AddsNothing
  BY AlwaysExact, PTL
=============================================================================
