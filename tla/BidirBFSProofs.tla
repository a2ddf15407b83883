----------------------------- MODULE BidirBFSProofs -----------------------------
(***************************************************************************)
(* The bidirectional script, for every graph and pattern: the backward     *)
(* phase finds exactly the nodes within its depth of a target, and pruning *)
(* the forward phase against them changes no row the pattern asks for.     *)
(***************************************************************************)
EXTENDS BidirBFS, WalkTheorems

(* The pattern walked from its targets, which knows no barrier.            *)
Reversed == [query EXCEPT !.dir = Opposite(query.dir), !.starts = query.targets,
                          !.barriers = {}]
TargetLayer(k) == {n \in Node : InLayer(Reversed, n, k)}
TargetsBefore(k) == {n \in Node : ReachedBefore(Reversed, n, k)}

Searching == {"guard", "while", "expand", "merge", "read"}
Halting == {"done", "refused"}

BackwardTyped ==
  /\ query \in Queries /\ notExists \in BOOLEAN
  /\ pc \in {"targets", "bwdWhile", "bwdExpand", "bwdMerge", "seed"} \cup Searching \cup Halting
  /\ bwdDepth \in 0..DepthBackward /\ bwdMore \in BOOLEAN
  /\ bwdVisited \subseteq Node /\ bwdFrontier \subseteq bwdVisited
  /\ pc = "targets" => bwdDepth = 0 /\ bwdMore

(* Each round of the backward loop adds one layer; a round that finds      *)
(* nothing proves that nothing is left.                                    *)
BackwardExact ==
  /\ pc = "bwdWhile" =>
       /\ bwdVisited = TargetsBefore(bwdDepth + 1)
       /\ IF bwdMore THEN bwdFrontier = TargetLayer(bwdDepth) ELSE TargetLayer(bwdDepth) = {}
  /\ pc \in {"bwdExpand", "bwdMerge"} =>
       /\ bwdDepth >= 1 /\ bwdMore
       /\ bwdVisited = TargetsBefore(bwdDepth)
       /\ bwdFrontier = TargetLayer(bwdDepth - 1)
  /\ pc = "bwdMerge" => bwdEdges = TargetLayer(bwdDepth)
  /\ pc \in {"seed"} \cup Searching => bwdVisited = TargetsBefore(DepthBackward + 1)

LEMMA PatternFacts ==
  ASSUME query \in Queries
  PROVE  /\ query.lo \in Nat /\ query.lo >= 1 /\ query.hi \in Nat
         /\ DepthForward \in Nat /\ DepthBackward \in Nat
         /\ DepthForward + DepthBackward = query.hi
         /\ query.nodesOk = Node /\ query.targets \subseteq Node
         /\ query.starts \subseteq Node /\ query.edges \subseteq EdgeRow
         /\ Seeds(query) = query.starts
         /\ query.hasBarrier \/ query.barriers = {}
         /\ query.dir \in {"forward", "backward", "undirected"}
<1>1. /\ query.lo \in Nat /\ query.lo # 0 /\ query.hi \in Nat
      /\ query.nodesOk = Node /\ query.targets \subseteq Node
      /\ query.starts \subseteq Node /\ query.edges \subseteq EdgeRow
      /\ query.hasBarrier \/ query.barriers = {}
      /\ query.dir \in {"forward", "backward", "undirected"}
  BY QueryFacts, QueryAssumption, AcceptedAssumption, NoNodeFilterAssumption
  DEF QueryType, AcceptedByProcedural
<1>2. /\ DepthForward \in Nat /\ DepthBackward \in Nat
      /\ DepthForward + DepthBackward = query.hi
  BY <1>1 DEF DepthForward, DepthBackward
<1>3. Seeds(query) = query.starts /\ query.lo >= 1
  BY <1>1 DEF Seeds
<1> QED
  BY <1>1, <1>2, <1>3

(* The reversed pattern takes the edges of the pattern the other way.      *)
LEMMA ReversedFacts ==
  ASSUME query \in Queries
  PROVE  /\ Reversed.dir = Opposite(query.dir) /\ Reversed.edges = query.edges
         /\ Reversed.barriers = {} /\ Seeds(Reversed) = query.targets
         /\ \A e, m, n : m \in Node /\ n \in Node =>
              (Links(Reversed, e, m, n) <=> Links(query, e, n, m))
         /\ \A m, k : CanLeave(Reversed, m, k)
<1>1. /\ Reversed.dir = Opposite(query.dir) /\ Reversed.edges = query.edges
      /\ Reversed.barriers = {} /\ Reversed.starts = query.targets
      /\ Reversed.nodesOk = Node
  BY PatternFacts, QueryAssumption DEF Reversed, QueryType
<1>2. \A e, m, n : <<m, n>> \in Orientations(Opposite(query.dir), e)
                     <=> <<n, m>> \in Orientations(query.dir, e)
  <2>1. CASE query.dir = "forward"
    BY <2>1 DEF Orientations, Opposite
  <2>2. CASE query.dir = "backward"
    BY <2>2 DEF Orientations, Opposite
  <2>3. CASE query.dir = "undirected"
    BY <2>3 DEF Orientations, Opposite
  <2> QED
    BY <2>1, <2>2, <2>3, PatternFacts
<1>3. Seeds(Reversed) = query.targets
  BY <1>1, PatternFacts DEF Seeds
<1>4. \A e, m, n : m \in Node /\ n \in Node =>
        (Links(Reversed, e, m, n) <=> Links(query, e, n, m))
  BY <1>1, <1>2, PatternFacts DEF Links
<1>5. \A m, k : CanLeave(Reversed, m, k)
  BY <1>1 DEF CanLeave
<1> QED
  BY <1>1, <1>3, <1>4, <1>5

(* A walk to a target, read from its end.                                  *)
LEMMA TargetWalkReversed ==
  ASSUME query \in Queries, NEW n, NEW k \in Nat
  PROVE  TargetWalk(n, k) <=> Reaches(Reversed, n, k)
<1>1. ASSUME NEW w \in [0..k -> Node]
      PROVE  LET v == [i \in 0..k |-> w[k - i]]
             IN  /\ v \in [0..k -> Node] /\ v[0] = w[k] /\ v[k] = w[0]
                 /\ \A i \in 0..(k-1) : /\ k - 1 - i \in 0..(k-1)
                                        /\ v[i] = w[(k - 1 - i) + 1]
                                        /\ v[i + 1] = w[k - 1 - i]
                                        /\ v[i] \in Node /\ v[i + 1] \in Node
                                        /\ k - 1 - (k - 1 - i) = i
  <2> DEFINE v == [i \in 0..k |-> w[k - i]]
  <2>1. /\ v \in [0..k -> Node] /\ v[0] = w[k] /\ v[k] = w[0]
        /\ \A i \in 0..k : v[i] = w[k - i]
    <3>1. \A i \in 0..k : k - i \in 0..k
      OBVIOUS
    <3>2. k - 0 = k /\ k - k = 0 /\ 0 \in 0..k /\ k \in 0..k
      OBVIOUS
    <3> QED
      BY <3>1, <3>2
  <2> HIDE DEF v
  <2>2. ASSUME NEW i \in 0..(k-1)
        PROVE  /\ k - 1 - i \in 0..(k-1) /\ v[i] = w[(k - 1 - i) + 1]
               /\ v[i + 1] = w[k - 1 - i] /\ v[i] \in Node /\ v[i + 1] \in Node
               /\ k - 1 - (k - 1 - i) = i
    <3>1. /\ k - 1 - i \in 0..(k-1) /\ (k - 1 - i) + 1 = k - i
          /\ k - (i + 1) = k - 1 - i /\ i \in 0..k /\ i + 1 \in 0..k
          /\ k - 1 - (k - 1 - i) = i
      OBVIOUS
    <3> QED
      BY <2>1, <3>1
  <2> QED
    BY <2>1, <2>2 DEF v
<1>2. ASSUME TargetWalk(n, k) PROVE Reaches(Reversed, n, k)
  <2>1. PICK w \in [0..k -> Node] :
          /\ w[0] = n /\ w[k] \in query.targets
          /\ \A i \in 0..(k-1) : \E e \in EdgeRow : Links(query, e, w[i], w[i+1])
    BY <1>2 DEF TargetWalk
  <2> DEFINE v == [i \in 0..k |-> w[k - i]]
  <2>2. /\ v \in [0..k -> Node] /\ v[0] = w[k] /\ v[k] = w[0]
        /\ \A i \in 0..(k-1) : /\ k - 1 - i \in 0..(k-1)
                               /\ v[i] = w[(k - 1 - i) + 1]
                               /\ v[i + 1] = w[k - 1 - i]
                               /\ v[i] \in Node /\ v[i + 1] \in Node
    BY <1>1
  <2> HIDE DEF v
  <2>3. IsWalk(Reversed, k, v)
    BY <2>1, <2>2, ReversedFacts DEF IsWalk
  <2> QED
    BY <2>1, <2>2, <2>3 DEF Reaches
<1>3. ASSUME Reaches(Reversed, n, k) PROVE TargetWalk(n, k)
  <2>1. PICK w \in [0..k -> Node] : IsWalk(Reversed, k, w) /\ w[k] = n
    BY <1>3 DEF Reaches
  <2> DEFINE v == [i \in 0..k |-> w[k - i]]
  <2>2. /\ v \in [0..k -> Node] /\ v[0] = w[k] /\ v[k] = w[0]
        /\ \A i \in 0..(k-1) : /\ k - 1 - i \in 0..(k-1)
                               /\ v[i] = w[(k - 1 - i) + 1]
                               /\ v[i + 1] = w[k - 1 - i]
                               /\ v[i] \in Node /\ v[i + 1] \in Node
    BY <1>1
  <2> HIDE DEF v
  <2>3. \A i \in 0..(k-1) : \E e \in EdgeRow : Links(query, e, v[i], v[i+1])
    BY <2>1, <2>2, ReversedFacts DEF IsWalk
  <2>4. v[0] = n /\ v[k] \in query.targets
    BY <2>1, <2>2, ReversedFacts DEF IsWalk
  <2> QED
    BY <2>2, <2>3, <2>4 DEF TargetWalk
<1> QED
  BY <1>2, <1>3

-----------------------------------------------------------------------------
(* The backward phase.                                                     *)
LEMMA BackwardExpansion ==
  ASSUME BackwardTyped, BackwardExact, pc = "bwdExpand"
  PROVE  {r.to : r \in Expansion(Opposite(query.dir), bwdFrontier, bwdVisited)}
           = TargetLayer(bwdDepth)
<1> DEFINE E == Expansion(Opposite(query.dir), bwdFrontier, bwdVisited)
<1>1. /\ bwdDepth \in Nat /\ bwdDepth - 1 \in Nat /\ (bwdDepth - 1) + 1 = bwdDepth
      /\ bwdVisited = TargetsBefore(bwdDepth) /\ bwdFrontier = TargetLayer(bwdDepth - 1)
      /\ query.edges \subseteq EdgeRow
  BY PatternFacts DEF BackwardTyped, BackwardExact
<1>2. query \in Queries /\ bwdFrontier \subseteq bwdVisited
  BY DEF BackwardTyped
<1>3. ASSUME NEW r \in E PROVE r.to \in TargetLayer(bwdDepth)
  <2>1. /\ r.edge \in query.edges /\ r.from \in bwdFrontier /\ r.from \in Node
        /\ r.to \in Node \cup {Null}
        /\ <<r.from, r.to>> \in Orientations(Opposite(query.dir), r.edge)
        /\ NotVisited(r.to, bwdVisited)
    BY <1>1 DEF Expansion, TargetLayer
  <2>2. r.to \in Node /\ r.to \notin bwdVisited
    BY <1>2, <2>1 DEF NotVisited
  <2>3. Links(Reversed, r.edge, r.from, r.to)
    BY <1>2, <2>1, <2>2, PatternFacts, ReversedFacts DEF Links, Reversed
  <2>4. Step(Reversed, r.from, r.to) /\ CanLeave(Reversed, r.from, bwdDepth - 1)
    BY <1>1, <1>2, <2>1, <2>3, ReversedFacts DEF Step
  <2>5. ~ ReachedBefore(Reversed, r.to, bwdDepth) /\ InLayer(Reversed, r.from, bwdDepth - 1)
    BY <1>1, <2>1, <2>2 DEF TargetsBefore, TargetLayer
  <2>6. InLayer(Reversed, r.to, (bwdDepth - 1) + 1)
    BY <1>1, <2>1, <2>2, <2>4, <2>5, LayerStep
  <2> QED
    BY <1>1, <2>2, <2>6 DEF TargetLayer
<1>4. ASSUME NEW n \in TargetLayer(bwdDepth) PROVE \E r \in E : r.to = n
  <2>1. n \in Node /\ InLayer(Reversed, n, (bwdDepth - 1) + 1) /\ n \notin bwdVisited
    BY <1>1 DEF TargetLayer, InLayer, TargetsBefore
  <2>2. PICK m \in Node : InLayer(Reversed, m, bwdDepth - 1) /\ Step(Reversed, m, n)
    BY <1>1, <2>1, LayerStep
  <2>3. PICK e \in EdgeRow : Links(Reversed, e, m, n)
    BY <2>2 DEF Step
  <2>4. e \in query.edges /\ <<m, n>> \in Orientations(Opposite(query.dir), e)
    BY <1>2, <2>3, ReversedFacts DEF Links
  <2>5. m \in bwdFrontier /\ NotVisited(n, bwdVisited)
    BY <1>1, <2>1, <2>2, NullAssumption DEF TargetLayer, NotVisited
  <2> DEFINE r == [edge |-> e, from |-> m, to |-> n]
  <2>6. r \in E
    BY <2>1, <2>4, <2>5 DEF Expansion
  <2> QED
    BY <2>6
<1> QED
  BY <1>3, <1>4

LEMMA BackwardEnds ==
  ASSUME query \in Queries, NEW d \in Nat, TargetLayer(d) = {},
         NEW k \in Nat, d <= k + 1
  PROVE  TargetsBefore(d + 1) = TargetsBefore(k + 1)
<1>1. ASSUME NEW n \in Node, NEW i \in 0..k, Reaches(Reversed, n, i)
      PROVE  n \in TargetsBefore(d + 1)
  <2>1. PICK j \in 0..i : InLayer(Reversed, n, j)
    BY <1>1, ReachedInLayer
  <2>2. j \in Nat /\ (j >= d \/ j \in 0..((d+1)-1))
    OBVIOUS
  <2>3. ~ (j >= d)
    BY <1>1, <2>1, <2>2, NoLayerAfter DEF TargetLayer
  <2> QED
    BY <1>1, <2>1, <2>2, <2>3 DEF TargetsBefore, ReachedBefore, InLayer
<1>2. (k + 1) - 1 = k /\ (d + 1) - 1 = d
  OBVIOUS
<1>3. ASSUME NEW n \in TargetsBefore(d + 1) PROVE n \in TargetsBefore(k + 1)
  <2>1. PICK i \in 0..d : Reaches(Reversed, n, i)
    BY <1>2 DEF TargetsBefore, ReachedBefore
  <2>2. n \in Node
    BY DEF TargetsBefore
  <2>3. PICK j \in 0..i : InLayer(Reversed, n, j)
    BY <2>1, ReachedInLayer
  <2>4. j \in Nat /\ (j >= d \/ j \in 0..k)
    OBVIOUS
  <2>5. ~ (j >= d)
    BY <2>2, <2>3, <2>4, NoLayerAfter DEF TargetLayer
  <2> QED
    BY <1>2, <2>2, <2>3, <2>4, <2>5 DEF TargetsBefore, ReachedBefore, InLayer
<1>4. ASSUME NEW n \in TargetsBefore(k + 1) PROVE n \in TargetsBefore(d + 1)
  BY <1>1, <1>2 DEF TargetsBefore, ReachedBefore
<1> QED
  BY <1>3, <1>4

Backward == BackwardTyped /\ BackwardExact

LEMMA SameReversed ==
  ASSUME query' = query
  PROVE  /\ Reversed' = Reversed
         /\ \A k : TargetLayer(k)' = TargetLayer(k)
         /\ \A k : TargetsBefore(k)' = TargetsBefore(k)
         /\ DepthForward' = DepthForward /\ DepthBackward' = DepthBackward
  BY DEF Reversed, TargetLayer, TargetsBefore, DepthForward, DepthBackward

LEMMA CreateTargetsBackward == Backward /\ CreateTargets => Backward'
<1> SUFFICES ASSUME Backward, CreateTargets PROVE Backward'
  OBVIOUS
<1>1. /\ query' = query /\ notExists' = notExists /\ pc' = "bwdWhile"
      /\ bwdDepth' = bwdDepth /\ bwdDepth = 0 /\ bwdMore' = bwdMore /\ bwdMore
      /\ bwdVisited' = query.targets /\ bwdFrontier' = query.targets
      /\ query \in Queries /\ query.targets \subseteq Node
  BY PatternFacts DEF CreateTargets, Backward, BackwardTyped
<1>2. \A n \in Node : Reaches(Reversed, n, 0) <=> n \in query.targets
  BY <1>1, SeedsReached, ReversedFacts
<1>3. TargetLayer(0) = query.targets /\ TargetsBefore(1) = query.targets
  BY <1>1, <1>2 DEF TargetLayer, TargetsBefore, InLayer, ReachedBefore
<1>4. BackwardTyped'
  BY <1>1, SameReversed DEF Backward, BackwardTyped, Searching, Halting
<1>5. BackwardExact'
  BY <1>1, <1>3, SameReversed DEF BackwardExact, Searching
<1> QED
  BY <1>4, <1>5 DEF Backward

LEMMA BackwardWhileBackward == Backward /\ BackwardWhile => Backward'
<1> SUFFICES ASSUME Backward, BackwardWhile PROVE Backward'
  OBVIOUS
<1>1. /\ query' = query /\ notExists' = notExists /\ pc = "bwdWhile"
      /\ bwdMore' = bwdMore /\ bwdVisited' = bwdVisited /\ bwdFrontier' = bwdFrontier
      /\ query \in Queries /\ bwdDepth \in Nat /\ DepthBackward \in Nat
      /\ bwdDepth \in 0..DepthBackward /\ bwdMore \in BOOLEAN
      /\ bwdVisited \subseteq Node /\ bwdFrontier \subseteq bwdVisited
      /\ notExists \in BOOLEAN
  BY PatternFacts DEF BackwardWhile, Backward, BackwardTyped
<1>2. /\ bwdVisited = TargetsBefore(bwdDepth + 1)
      /\ IF bwdMore THEN bwdFrontier = TargetLayer(bwdDepth) ELSE TargetLayer(bwdDepth) = {}
  BY <1>1 DEF Backward, BackwardExact
<1>3. CASE bwdMore /\ bwdDepth < DepthBackward
  <2>1. /\ bwdDepth' = bwdDepth + 1 /\ pc' = "bwdExpand"
        /\ bwdDepth' \in 0..DepthBackward /\ bwdDepth' >= 1 /\ bwdDepth' - 1 = bwdDepth
    BY <1>1, <1>3 DEF BackwardWhile
  <2>2. BackwardTyped'
    BY <1>1, <2>1, SameReversed DEF BackwardTyped
  <2>3. BackwardExact'
    BY <1>1, <1>2, <1>3, <2>1, SameReversed DEF BackwardExact, Searching
  <2> QED
    BY <2>2, <2>3 DEF Backward
<1>4. CASE ~ (bwdMore /\ bwdDepth < DepthBackward)
  <2>1. bwdDepth' = bwdDepth /\ pc' = "seed"
    BY <1>1, <1>4 DEF BackwardWhile
  <2>2. BackwardTyped'
    BY <1>1, <2>1, SameReversed DEF BackwardTyped
  <2>3. TargetsBefore(bwdDepth + 1) = TargetsBefore(DepthBackward + 1)
    <3>1. CASE bwdMore
      <4>1. bwdDepth = DepthBackward
        BY <1>1, <1>4, <3>1
      <4> QED
        BY <4>1
    <3>2. CASE ~ bwdMore
      BY <1>1, <1>2, <3>2, BackwardEnds
    <3> QED
      BY <3>1, <3>2
  <2>4. BackwardExact'
    BY <1>1, <1>2, <2>1, <2>3, SameReversed DEF BackwardExact, Searching
  <2> QED
    BY <2>2, <2>4 DEF Backward
<1> QED
  BY <1>3, <1>4

LEMMA BackwardExpandBackward == Backward /\ BackwardExpand => Backward'
<1> SUFFICES ASSUME Backward, BackwardExpand PROVE Backward'
  OBVIOUS
<1>1. /\ query' = query /\ notExists' = notExists /\ pc = "bwdExpand"
      /\ bwdDepth' = bwdDepth /\ bwdVisited' = bwdVisited /\ bwdFrontier' = bwdFrontier
      /\ bwdMore' = (bwdEdges' # {})
      /\ pc' = IF bwdMore' THEN "bwdMerge" ELSE "bwdWhile"
  BY DEF BackwardExpand
<1>2. bwdEdges' = TargetLayer(bwdDepth)
  BY <1>1, BackwardExpansion DEF BackwardExpand, Backward
<1>3. /\ bwdDepth >= 1 /\ bwdVisited = TargetsBefore(bwdDepth) /\ bwdDepth \in Nat
      /\ bwdFrontier = TargetLayer(bwdDepth - 1)
  BY <1>1, PatternFacts DEF Backward, BackwardTyped, BackwardExact
<1>4. BackwardTyped'
  BY <1>1, SameReversed DEF Backward, BackwardTyped
<1>5. bwdEdges' = {} => TargetsBefore(bwdDepth + 1) = TargetsBefore(bwdDepth)
  BY <1>2, <1>3, ReachedBeforeStep DEF TargetsBefore, TargetLayer
<1>6. BackwardExact'
  BY <1>1, <1>2, <1>3, <1>5, SameReversed DEF BackwardExact, Searching
<1> QED
  BY <1>4, <1>6 DEF Backward

LEMMA BackwardMergeBackward == Backward /\ BackwardMerge => Backward'
<1> SUFFICES ASSUME Backward, BackwardMerge PROVE Backward'
  OBVIOUS
<1>1. /\ query' = query /\ notExists' = notExists /\ pc = "bwdMerge" /\ pc' = "bwdWhile"
      /\ bwdDepth' = bwdDepth /\ bwdMore' = bwdMore /\ bwdFrontier' = bwdEdges
      /\ bwdVisited' = bwdVisited \cup bwdEdges
  BY DEF BackwardMerge
<1>2. /\ bwdVisited = TargetsBefore(bwdDepth) /\ bwdEdges = TargetLayer(bwdDepth)
      /\ bwdDepth \in Nat /\ bwdMore
  BY <1>1, PatternFacts DEF Backward, BackwardTyped, BackwardExact
<1>3. TargetsBefore(bwdDepth + 1) = TargetsBefore(bwdDepth) \cup TargetLayer(bwdDepth)
  BY <1>2, ReachedBeforeStep DEF TargetsBefore, TargetLayer
<1>4. BackwardTyped'
  BY <1>1, <1>2, SameReversed DEF Backward, BackwardTyped, TargetLayer
<1>5. BackwardExact'
  BY <1>1, <1>2, <1>3, SameReversed DEF BackwardExact, Searching
<1> QED
  BY <1>4, <1>5 DEF Backward

(* The forward phase leaves the backward tables alone.                     *)
LEMMA NextBackward == Backward /\ [Next]_vars => Backward'
<1> SUFFICES ASSUME Backward, [Next]_vars PROVE Backward'
  OBVIOUS
<1>1. CASE \/ CreateSeedTables \/ SeedGuard \/ While \/ Expand \/ Merge \/ Read
           \/ UNCHANGED vars
  <2>1. /\ query' = query /\ notExists' = notExists /\ bwdDepth' = bwdDepth
        /\ bwdMore' = bwdMore /\ bwdVisited' = bwdVisited /\ bwdFrontier' = bwdFrontier
        /\ bwdEdges' = bwdEdges
        /\ \/ pc' = pc
           \/ pc \in {"seed"} \cup Searching /\ pc' \in Searching \cup Halting
    BY <1>1 DEF CreateSeedTables, SeedGuard, While, Expand, Merge, Read, vars, backward,
                Searching, Halting
  <2>2. BackwardTyped'
    BY <2>1, SameReversed DEF Backward, BackwardTyped, Searching, Halting
  <2>3. BackwardExact'
    BY <2>1, SameReversed DEF Backward, BackwardExact, Searching, Halting
  <2> QED
    BY <2>2, <2>3 DEF Backward
<1> QED
  BY <1>1, CreateTargetsBackward, BackwardWhileBackward, BackwardExpandBackward,
     BackwardMergeBackward DEF Next

LEMMA AlwaysBackward == Spec => []Backward
<1>1. Init => Backward
  BY FlagAssumption, PatternFacts
  DEF Init, Backward, BackwardTyped, BackwardExact, Searching, Halting
<1> QED
  BY <1>1, NextBackward, PTL DEF Spec

(* The backward set is exact: it holds the nodes with a walk of at most    *)
(* DepthBackward edges to a target, and no other, whatever the direction.  *)
THEOREM BackwardSetExact == Spec => []BackwardSetIsExact
<1>1. Backward => BackwardSetIsExact
  <2> SUFFICES ASSUME Backward, pc = "seed"
               PROVE  bwdVisited = {n \in Node : \E k \in 0..DepthBackward : TargetWalk(n, k)}
    BY DEF BackwardSetIsExact
  <2>1. query \in Queries /\ DepthBackward \in Nat /\ (DepthBackward + 1) - 1 = DepthBackward
    BY PatternFacts DEF Backward, BackwardTyped
  <2>2. bwdVisited = TargetsBefore(DepthBackward + 1)
    BY DEF Backward, BackwardExact
  <2>3. \A n, k : k \in 0..DepthBackward => (TargetWalk(n, k) <=> Reaches(Reversed, n, k))
    BY <2>1, TargetWalkReversed
  <2> QED
    BY <2>1, <2>2, <2>3 DEF TargetsBefore, ReachedBefore
<1> QED
  BY <1>1, AlwaysBackward, PTL
-----------------------------------------------------------------------------
(* The forward phase.  A node is useful where a shortest walk reaches it   *)
(* with hops enough left to reach a target: the pruned search may lose any *)
(* other node, and may even meet it late, but it never loses these.        *)
Useful(n, d) ==
  InLayer(query, n, d) /\ ReachedBefore(Reversed, n, query.hi - d + 1)

ForwardTyped ==
  /\ depth \in 0..query.hi /\ more \in BOOLEAN
  /\ pc \notin Searching \cup Halting => depth = 0 /\ more /\ result = {}
  /\ pc = "guard" => depth = 0 /\ more /\ result = {}
  /\ pc \in Searching => init = query.starts
  /\ pc \in Searching \ {"guard"} => ~ Ambiguous(query)
  /\ pc \in {"expand", "merge"} => depth >= 1 /\ more

(* What the tables hold once the layers 0..d have been searched.           *)
Visits(d) ==
  /\ \A n \in visited : n \in Node /\ ReachedBefore(query, n, d + 1)
  /\ \A n \in Node : \A k \in 0..d : Useful(n, k) => n \in visited
Leaves(d) ==
  /\ \A n \in frontier : n \in visited /\ Reaches(query, n, d) /\ CanLeave(query, n, d)
  /\ \A n \in Node : Useful(n, d) /\ CanLeave(query, n, d) => n \in frontier
From(r, d) ==
  /\ r.edge \in EdgeRow /\ r.from \in Node /\ r.to \in Node
  /\ Links(query, r.edge, r.from, r.to)
  /\ Reaches(query, r.from, d - 1) /\ CanLeave(query, r.from, d - 1)
  /\ r.to \in query.targets => ~ ReachedBefore(query, r.to, d)
Wanted(e, m, n, d) ==
  /\ n \in query.targets /\ Links(query, e, m, n)
  /\ InLayer(query, n, d) /\ InLayer(query, m, d - 1) /\ CanLeave(query, m, d - 1)
Finds(d) ==
  /\ \A r \in result : r.depth \in query.lo..d /\ From(r, r.depth)
  /\ \A e \in EdgeRow, m \in Node, n \in Node : \A k \in query.lo..d :
       Wanted(e, m, n, k) => \E r \in result : r.edge = e /\ r.to = n /\ r.depth = k

Found == {r \in Expansion(query.dir, frontier, visited) : Kept(r.to)}

ForwardExact ==
  /\ pc \in {"guard", "while"} =>
       /\ Visits(depth) /\ Finds(depth)
       /\ IF more THEN Leaves(depth) ELSE \A n \in Node : ~ Useful(n, depth)
  /\ pc \in {"expand", "merge"} =>
       Visits(depth - 1) /\ Leaves(depth - 1) /\ Finds(depth - 1)
  /\ pc = "merge" => edges = Found
  /\ pc = "read" => Finds(query.hi)
Forward == ForwardTyped /\ ForwardExact
LEMMA UsefulBefore ==
  ASSUME query \in Queries, NEW d \in Nat, NEW n \in Node, NEW m \in Node,
         Useful(n, d + 1), Reaches(query, m, d), Step(query, m, n), CanLeave(query, m, d)
  PROVE  Useful(m, d)
<1>1. InLayer(query, m, d)
  BY LayerBefore DEF Useful
<1>2. query.hi \in Nat
  BY PatternFacts
<1>3. PICK k \in 0..((query.hi - (d + 1) + 1) - 1) : Reaches(Reversed, n, k)
  BY DEF Useful, ReachedBefore
<1>4. k \in Nat /\ k + 1 \in 0..((query.hi - d + 1) - 1)
  BY <1>2
<1>5. Step(Reversed, n, m) /\ CanLeave(Reversed, n, k)
  BY ReversedFacts DEF Step
<1>6. Reaches(Reversed, m, k + 1)
  BY <1>3, <1>4, <1>5, ReachesStep
<1> QED
  BY <1>1, <1>4, <1>6 DEF Useful, ReachedBefore

LEMMA UsefulStep ==
  ASSUME query \in Queries, NEW d \in Nat, NEW n \in Node, Useful(n, d + 1)
  PROVE  \E m \in Node : Useful(m, d) /\ Step(query, m, n) /\ CanLeave(query, m, d)
<1>1. PICK m \in Node : InLayer(query, m, d) /\ Step(query, m, n) /\ CanLeave(query, m, d)
  BY LayerStep DEF Useful
<1> QED
  BY <1>1, UsefulBefore DEF InLayer

LEMMA TargetUseful ==
  ASSUME query \in Queries, NEW n \in query.targets, NEW d \in 0..query.hi,
         InLayer(query, n, d)
  PROVE  n \in Node /\ Useful(n, d)
<1>1. n \in Node /\ query.hi \in Nat /\ query.targets \subseteq Node
  BY PatternFacts
<1>2. Reaches(Reversed, n, 0)
  BY <1>1, SeedsReached, ReversedFacts
<1>3. 0 \in 0..((query.hi - d + 1) - 1)
  BY <1>1
<1> QED
  BY <1>1, <1>2, <1>3 DEF Useful, ReachedBefore

LEMMA NoUsefulAfter ==
  ASSUME query \in Queries, NEW d \in Nat, \A n \in Node : ~ Useful(n, d),
         NEW k \in Nat, k >= d, NEW x \in Node
  PROVE  ~ Useful(x, k)
<1> SUFFICES ASSUME Useful(x, k) PROVE FALSE
  OBVIOUS
<1> DEFINE S == {j \in Nat : j >= d /\ \E n \in Node : Useful(n, j)}
<1>1. S \in SUBSET Nat /\ S # {}
  OBVIOUS
<1>2. PICK j \in S : \A i \in S : j <= i
  BY <1>1, LeastNumber
<1>3. PICK n \in Node : Useful(n, j)
  OBVIOUS
<1>4. j \in Nat /\ j > d /\ j - 1 \in Nat /\ (j - 1) + 1 = j
  BY <1>3
<1>5. PICK m \in Node : Useful(m, j - 1)
  BY <1>3, <1>4, UsefulStep
<1>6. j - 1 \in S
  BY <1>4, <1>5
<1> QED
  BY <1>2, <1>4, <1>6

(* The backward set keeps every node that is useful past the first half.   *)
LEMMA UsefulKept ==
  ASSUME Backward, pc \in Searching, NEW n \in Node, Useful(n, depth), depth \in Nat
  PROVE  Kept(n)
<1>1. /\ query.hi \in Nat /\ DepthForward \in Nat /\ DepthBackward \in Nat
      /\ DepthForward + DepthBackward = query.hi
  BY PatternFacts DEF Backward, BackwardTyped
<1>2. bwdVisited = TargetsBefore(DepthBackward + 1)
  BY DEF Backward, BackwardExact
<1>3. ASSUME depth > DepthForward PROVE n \in bwdVisited
  <2>1. PICK k \in 0..((query.hi - depth + 1) - 1) : Reaches(Reversed, n, k)
    BY DEF Useful, ReachedBefore
  <2>2. k \in 0..((DepthBackward + 1) - 1)
    BY <1>1, <1>3
  <2> QED
    BY <1>2, <2>1, <2>2 DEF TargetsBefore, ReachedBefore
<1> QED
  BY <1>3 DEF Kept

(* One expansion finds only edges on from nodes reached the round before,  *)
(* and every edge that takes a shortest walk to a useful node.             *)
LEMMA FoundSound ==
  ASSUME Backward, depth \in 1..query.hi, Visits(depth - 1), Leaves(depth - 1),
         NEW r \in Found
  PROVE  From(r, depth) /\ Reaches(query, r.to, depth)
<1>1. /\ query \in Queries /\ query.edges \subseteq EdgeRow /\ query.hi \in Nat
      /\ query.nodesOk = Node
  BY PatternFacts DEF Backward, BackwardTyped
<1>2. depth - 1 \in Nat /\ (depth - 1) + 1 = depth
  BY <1>1
<1>3. /\ r.edge \in query.edges /\ r.from \in frontier /\ r.to \in Node \cup {Null}
      /\ <<r.from, r.to>> \in Orientations(query.dir, r.edge)
      /\ NotVisited(r.to, visited)
  BY DEF Found, Expansion
<1>4. /\ r.from \in visited /\ r.from \in Node
      /\ Reaches(query, r.from, depth - 1) /\ CanLeave(query, r.from, depth - 1)
  BY <1>3 DEF Leaves, Visits
<1>5. r.to \in Node /\ r.to \notin visited
  BY <1>3, <1>4 DEF NotVisited
<1>6. r.edge \in EdgeRow /\ Links(query, r.edge, r.from, r.to)
  BY <1>1, <1>3, <1>5 DEF Links
<1>7. Reaches(query, r.to, depth)
  BY <1>1, <1>2, <1>4, <1>5, <1>6, ReachesStep DEF Step
<1>8. ASSUME r.to \in query.targets PROVE ~ ReachedBefore(query, r.to, depth)
  <2>1. SUFFICES ASSUME NEW i \in 0..(depth - 1), Reaches(query, r.to, i) PROVE FALSE
    BY DEF ReachedBefore
  <2>2. PICK j \in 0..i : InLayer(query, r.to, j)
    BY <2>1, ReachedInLayer
  <2>3. j \in 0..(depth - 1) /\ j \in 0..query.hi
    BY <1>1
  <2>4. Useful(r.to, j)
    BY <1>1, <1>8, <2>2, <2>3, TargetUseful
  <2> QED
    BY <1>5, <2>3, <2>4 DEF Visits
<1> QED
  BY <1>4, <1>5, <1>6, <1>7, <1>8 DEF From

LEMMA FoundComplete ==
  ASSUME Backward, pc \in Searching, depth \in 1..query.hi,
         Visits(depth - 1), Leaves(depth - 1),
         NEW e \in EdgeRow, NEW m \in Node, NEW n \in Node, Useful(n, depth),
         Reaches(query, m, depth - 1), CanLeave(query, m, depth - 1), Links(query, e, m, n)
  PROVE  [edge |-> e, from |-> m, to |-> n] \in Found
<1>1. query \in Queries /\ query.hi \in Nat
  BY PatternFacts DEF Backward, BackwardTyped
<1>2. depth \in Nat /\ depth - 1 \in Nat /\ (depth - 1) + 1 = depth
  BY <1>1
<1>3. Step(query, m, n)
  BY DEF Step
<1>4. Useful(m, depth - 1)
  BY <1>1, <1>2, <1>3, UsefulBefore
<1>5. m \in frontier /\ frontier # {} /\ m \in visited
  BY <1>4 DEF Leaves
<1>6. n \notin visited
  BY <1>2 DEF Visits, Useful, InLayer
<1>7. NotVisited(n, visited) /\ Kept(n)
  BY <1>2, <1>6, NullAssumption, UsefulKept DEF NotVisited
<1>8. e \in query.edges /\ <<m, n>> \in Orientations(query.dir, e)
  BY DEF Links
<1>9. [edge |-> e, from |-> m, to |-> n] \in Expansion(query.dir, frontier, visited)
  BY <1>5, <1>7, <1>8 DEF Expansion
<1> QED
  BY <1>7, <1>9 DEF Found

LEMMA UsefulFound ==
  ASSUME Backward, pc \in Searching, depth \in 1..query.hi,
         Visits(depth - 1), Leaves(depth - 1), NEW n \in Node, Useful(n, depth)
  PROVE  \E r \in Found : r.to = n
<1>1. query \in Queries /\ query.hi \in Nat
  BY PatternFacts DEF Backward, BackwardTyped
<1>2. depth - 1 \in Nat /\ (depth - 1) + 1 = depth
  BY <1>1
<1>3. PICK m \in Node :
        Useful(m, depth - 1) /\ Step(query, m, n) /\ CanLeave(query, m, depth - 1)
  BY <1>1, <1>2, UsefulStep
<1>4. PICK e \in EdgeRow : Links(query, e, m, n)
  BY <1>3 DEF Step
<1>5. [edge |-> e, from |-> m, to |-> n] \in Found
  BY <1>3, <1>4, FoundComplete DEF Useful, InLayer
<1> QED
  BY <1>5
-----------------------------------------------------------------------------
LEMMA SameForward ==
  ASSUME query' = query
  PROVE  /\ \A n, d : Useful(n, d)' = Useful(n, d)
         /\ Ambiguous(query)' = Ambiguous(query)
         /\ \A d : visited' = visited => Visits(d)' = Visits(d)
         /\ \A d : visited' = visited /\ frontier' = frontier => Leaves(d)' = Leaves(d)
         /\ \A d : result' = result => Finds(d)' = Finds(d)
<1>1. \A n, d : Useful(n, d)' = Useful(n, d)
  BY SameReversed DEF Useful
<1>2. \A d : visited' = visited => Visits(d)' = Visits(d)
  BY <1>1 DEF Visits
<1>3. \A d : visited' = visited /\ frontier' = frontier => Leaves(d)' = Leaves(d)
  BY <1>1 DEF Leaves
<1>4. \A r, d : From(r, d)' = From(r, d)
  BY DEF From
<1>5. \A e, m, n, d : Wanted(e, m, n, d)' = Wanted(e, m, n, d)
  BY DEF Wanted
<1>6. \A d : result' = result => Finds(d)' = Finds(d)
  BY <1>4, <1>5 DEF Finds
<1> QED
  BY <1>1, <1>2, <1>3, <1>6

LEMMA BackwardStepsForward ==
  Backward /\ Forward /\ (CreateTargets \/ BackwardWhile \/ BackwardExpand \/ BackwardMerge)
    => Forward'
<1> SUFFICES ASSUME Backward, Forward,
                    CreateTargets \/ BackwardWhile \/ BackwardExpand \/ BackwardMerge
             PROVE  Forward'
  OBVIOUS
<1>1. /\ query' = query /\ depth' = depth /\ more' = more /\ result' = result /\ init' = init
      /\ pc \notin Searching \cup Halting
      /\ pc' \in {"bwdWhile", "bwdExpand", "bwdMerge", "seed"}
  BY DEF CreateTargets, BackwardWhile, BackwardExpand, BackwardMerge, forward,
         Searching, Halting
<1>2. ForwardTyped'
  BY <1>1 DEF Forward, ForwardTyped, Searching, Halting
<1>3. ForwardExact'
  BY <1>1 DEF ForwardExact
<1> QED
  BY <1>2, <1>3 DEF Forward

LEMMA CreateSeedTablesForward == Backward /\ Forward /\ CreateSeedTables => Forward'
<1> SUFFICES ASSUME Backward, Forward, CreateSeedTables PROVE Forward'
  OBVIOUS
<1>1. /\ query' = query /\ depth' = depth /\ more' = more /\ result' = result
      /\ pc = "seed" /\ pc' = "guard"
      /\ visited' = query.starts /\ frontier' = query.starts /\ init' = query.starts
      /\ depth = 0 /\ more /\ result = {}
      /\ query \in Queries /\ query.hi \in Nat /\ query.lo \in Nat /\ query.lo >= 1
  BY PatternFacts
  DEF CreateSeedTables, Backward, BackwardTyped, Forward, ForwardTyped, Searching, Halting
<1>2. /\ query.starts \subseteq Node
      /\ \A n : Reaches(query, n, 0) <=> n \in query.starts
  BY <1>1, PatternFacts, ReachesSeeds
<1>3. Visits(0)' /\ Leaves(0)'
  <2>1. \A n : ReachedBefore(query, n, 0 + 1) <=> n \in query.starts
    BY <1>2 DEF ReachedBefore
  <2>2. \A n, k : k \in 0..0 /\ Useful(n, k) => n \in query.starts
    BY <1>2 DEF Useful, InLayer
  <2>3. Visits(0)'
    BY <1>1, <1>2, <2>1, <2>2, SameForward DEF Visits
  <2>4. Leaves(0)'
    BY <1>1, <1>2, <2>2, SameForward DEF Leaves, CanLeave
  <2> QED
    BY <2>3, <2>4
<1>4. Finds(0)'
  <2>1. query.lo..0 = {}
    BY <1>1
  <2> QED
    BY <1>1, <2>1 DEF Finds
<1>5. ForwardTyped'
  BY <1>1 DEF Forward, ForwardTyped, Searching, Halting
<1>6. ForwardExact'
  <2>1. depth' = 0 /\ more' /\ pc' = "guard"
    BY <1>1
  <2> QED
    BY <1>3, <1>4, <2>1 DEF ForwardExact
<1> QED
  BY <1>5, <1>6 DEF Forward

LEMMA SeedGuardForward == Backward /\ Forward /\ SeedGuard => Forward'
<1> SUFFICES ASSUME Backward, Forward, SeedGuard PROVE Forward'
  OBVIOUS
<1>1. /\ query' = query /\ depth' = depth /\ more' = more /\ result' = result
      /\ init' = init /\ visited' = visited /\ frontier' = frontier
      /\ pc = "guard" /\ pc' = IF \E m, n \in init : m # n THEN "refused" ELSE "while"
  BY DEF SeedGuard, forward
<1>2. init = Seeds(query)
  BY <1>1, PatternFacts DEF Backward, BackwardTyped, Forward, ForwardTyped, Searching
<1>3. pc' = IF Ambiguous(query) THEN "refused" ELSE "while"
  BY <1>1, <1>2 DEF Ambiguous
<1>4. ForwardTyped'
  BY <1>1, <1>3, SameForward DEF Forward, ForwardTyped, Searching, Halting
<1>5. ForwardExact'
  BY <1>1, <1>3, SameForward DEF Forward, ForwardExact
<1> QED
  BY <1>4, <1>5 DEF Forward

LEMMA WhileForward == Backward /\ Forward /\ While => Forward'
<1> SUFFICES ASSUME Backward, Forward, While PROVE Forward'
  OBVIOUS
<1>1. /\ query' = query /\ more' = more /\ result' = result
      /\ init' = init /\ visited' = visited /\ frontier' = frontier /\ pc = "while"
  BY DEF While
<1>2. /\ query \in Queries /\ query.hi \in Nat /\ depth \in 0..query.hi /\ depth \in Nat
      /\ query.lo \in Nat
  BY PatternFacts DEF Backward, BackwardTyped, Forward, ForwardTyped
<1>3. /\ Visits(depth) /\ Finds(depth)
      /\ IF more THEN Leaves(depth) ELSE \A n \in Node : ~ Useful(n, depth)
  BY <1>1 DEF Forward, ForwardExact
<1>4. CASE more /\ depth < query.hi
  <2>1. /\ depth' = depth + 1 /\ pc' = "expand" /\ depth' - 1 = depth
        /\ depth' \in 0..query.hi /\ depth' >= 1
    BY <1>1, <1>2, <1>4 DEF While
  <2>2. ForwardTyped'
    BY <1>1, <1>4, <2>1, SameForward DEF Forward, ForwardTyped, Searching, Halting
  <2>3. ForwardExact'
    BY <1>1, <1>3, <1>4, <2>1, SameForward DEF ForwardExact
  <2> QED
    BY <2>2, <2>3 DEF Forward
<1>5. CASE ~ (more /\ depth < query.hi)
  <2>1. depth' = depth /\ pc' = "read"
    BY <1>1, <1>5 DEF While
  <2>2. ForwardTyped'
    BY <1>1, <2>1, SameForward DEF Forward, ForwardTyped, Searching, Halting
  <2>3. Finds(query.hi)
    <3>1. ASSUME NEW e \in EdgeRow, NEW m \in Node, NEW n \in Node,
                 NEW k \in query.lo..query.hi, Wanted(e, m, n, k)
          PROVE  k \in query.lo..depth
      <4>1. k \in 0..query.hi /\ k \in Nat
        BY <1>2
      <4>2. Useful(n, k)
        BY <1>2, <3>1, <4>1, TargetUseful DEF Wanted
      <4>3. CASE more
        BY <1>2, <1>5, <4>1, <4>3
      <4>4. CASE ~ more
        <5>1. ~ (k >= depth)
          BY <1>2, <1>3, <4>1, <4>2, <4>4, NoUsefulAfter
        <5> QED
          BY <1>2, <4>1, <5>1
      <4> QED
        BY <4>3, <4>4
    <3>2. query.lo..depth \subseteq query.lo..query.hi
      BY <1>2
    <3> QED
      BY <1>3, <3>1, <3>2 DEF Finds
  <2>4. ForwardExact'
    BY <1>1, <2>1, <2>3, SameForward DEF ForwardExact
  <2> QED
    BY <2>2, <2>4 DEF Forward
<1> QED
  BY <1>4, <1>5
LEMMA ExpandForward == Backward /\ Forward /\ Expand => Forward'
<1> SUFFICES ASSUME Backward, Forward, Expand PROVE Forward'
  OBVIOUS
<1>1. /\ query' = query /\ depth' = depth /\ result' = result /\ notExists' = notExists
      /\ init' = init /\ visited' = visited /\ frontier' = frontier
      /\ bwdVisited' = bwdVisited
      /\ pc = "expand" /\ edges' = Found /\ more' = (edges' # {})
      /\ pc' = IF more' THEN "merge" ELSE "while"
  BY DEF Expand, backward, Found
<1>2. /\ query \in Queries /\ query.hi \in Nat /\ query.lo \in Nat
      /\ depth \in 1..query.hi /\ depth \in Nat /\ depth - 1 \in Nat
      /\ (depth - 1) + 1 = depth /\ pc \in Searching
  BY <1>1, PatternFacts DEF Backward, BackwardTyped, Forward, ForwardTyped, Searching
<1>3. Visits(depth - 1) /\ Leaves(depth - 1) /\ Finds(depth - 1)
  BY <1>1 DEF Forward, ForwardExact
<1>4. ForwardTyped'
  BY <1>1, SameForward DEF Forward, ForwardTyped, Searching, Halting
<1>5. CASE Found # {}
  <2>1. Found' = Found
    BY <1>1, SameReversed DEF Found, Expansion, NotVisited, Kept
  <2>2. ForwardExact'
    BY <1>1, <1>3, <1>5, <2>1, SameForward DEF ForwardExact
  <2> QED
    BY <1>4, <2>2 DEF Forward
<1>6. CASE Found = {}
  <2>1. \A n \in Node : ~ Useful(n, depth)
    BY <1>2, <1>3, <1>6, UsefulFound DEF Backward
  <2>2. \A k : k \in 0..depth <=> k \in 0..(depth - 1) \/ k = depth
    BY <1>2
  <2>3. \A n : ReachedBefore(query, n, depth) => ReachedBefore(query, n, depth + 1)
    BY <1>2, ReachedBeforeStep
  <2>4. Visits(depth)
    BY <1>2, <1>3, <2>1, <2>2, <2>3 DEF Visits
  <2>5. Finds(depth)
    <3>1. ASSUME NEW e \in EdgeRow, NEW m \in Node, NEW n \in Node,
                 NEW k \in query.lo..depth, Wanted(e, m, n, k)
          PROVE  k \in query.lo..(depth - 1)
      <4>1. k # depth
        BY <1>2, <2>1, <3>1, TargetUseful DEF Wanted
      <4> QED
        BY <1>2, <4>1
    <3>2. query.lo..(depth - 1) \subseteq query.lo..depth
      BY <1>2
    <3> QED
      BY <1>3, <3>1, <3>2 DEF Finds
  <2>6. ForwardExact'
    BY <1>1, <1>6, <2>1, <2>4, <2>5, SameForward DEF ForwardExact
  <2> QED
    BY <1>4, <2>6 DEF Forward
<1> QED
  BY <1>5, <1>6

LEMMA MergeForward == Backward /\ Forward /\ Merge => Forward'
<1> SUFFICES ASSUME Backward, Forward, Merge PROVE Forward'
  OBVIOUS
<1> DEFINE ends == {r.to : r \in edges}
           added == {[edge |-> r.edge, from |-> r.from, to |-> r.to, depth |-> depth] :
                       r \in edges}
<1>1. /\ query' = query /\ depth' = depth /\ more' = more /\ init' = init
      /\ visited' = visited \cup ends
      /\ frontier' = {n \in ends : query.hasBarrier => n \notin query.barriers}
      /\ result' = IF depth >= query.lo THEN result \cup added ELSE result
      /\ pc = "merge" /\ pc' = "while"
  BY DEF Merge
<1>2. /\ query \in Queries /\ query.hi \in Nat /\ query.lo \in Nat
      /\ depth \in 1..query.hi /\ depth \in Nat /\ depth - 1 \in Nat
      /\ (depth - 1) + 1 = depth /\ pc \in Searching /\ more
      /\ query.hasBarrier \/ query.barriers = {}
      /\ query.targets \subseteq Node
  BY <1>1, PatternFacts DEF Backward, BackwardTyped, Forward, ForwardTyped, Searching
<1>3. Visits(depth - 1) /\ Leaves(depth - 1) /\ Finds(depth - 1) /\ edges = Found
  BY <1>1 DEF Forward, ForwardExact
<1>4. \A r \in edges : From(r, depth) /\ Reaches(query, r.to, depth)
  BY <1>2, <1>3, FoundSound
<1>5. \A n \in Node : Useful(n, depth) => n \in ends
  <2>1. ASSUME NEW n \in Node, Useful(n, depth) PROVE n \in ends
    <3>1. PICK r \in edges : r.to = n
      BY <1>2, <1>3, <2>1, UsefulFound
    <3> QED
      BY <3>1
  <2> QED
    BY <2>1
<1>6. \A n \in ends : n \in Node /\ Reaches(query, n, depth)
  BY <1>4 DEF From
<1>7. \A k : k \in 0..depth <=> k \in 0..(depth - 1) \/ k = depth
  BY <1>2
<1>8. ForwardTyped'
  BY <1>1, <1>2, SameForward DEF Forward, ForwardTyped, Searching, Halting
<1>9. Visits(depth)'
  <2>1. ASSUME NEW n, ReachedBefore(query, n, depth) \/ Reaches(query, n, depth)
        PROVE  ReachedBefore(query, n, depth + 1)
    BY <1>2, <2>1, ReachedBeforeStep DEF InLayer
  <2>2. \A n \in visited \cup ends : n \in Node /\ ReachedBefore(query, n, depth + 1)
    BY <1>2, <1>3, <1>6, <2>1 DEF Visits
  <2>3. \A n \in Node : \A k \in 0..depth : Useful(n, k) => n \in visited \cup ends
    BY <1>3, <1>5, <1>7 DEF Visits
  <2> HIDE DEF ends
  <2> QED
    BY <1>1, <2>2, <2>3, SameForward DEF Visits
<1>10. Leaves(depth)'
  <2>1. \A n : CanLeave(query, n, depth) <=> (query.hasBarrier => n \notin query.barriers)
    BY <1>2 DEF CanLeave
  <2> HIDE DEF ends
  <2> QED
    BY <1>1, <1>5, <1>6, <2>1, SameForward DEF Leaves
<1>11. Finds(depth)'
  <2>1. CASE depth >= query.lo
    <3>1. ASSUME NEW r \in result \cup added
          PROVE  r.depth \in query.lo..depth /\ From(r, r.depth)
      <4>1. CASE r \in result
        <5>1. r.depth \in query.lo..(depth - 1) /\ From(r, r.depth)
          BY <1>3, <4>1 DEF Finds
        <5> QED
          BY <1>2, <5>1
      <4>2. CASE r \in added
        <5>1. PICK x \in edges : r = [edge |-> x.edge, from |-> x.from, to |-> x.to,
                                      depth |-> depth]
          BY <4>2
        <5>2. /\ r.depth = depth /\ r.edge = x.edge /\ r.from = x.from /\ r.to = x.to
          BY <5>1
        <5>3. From(x, depth)
          BY <1>4
        <5>4. From(r, depth)
          BY <5>2, <5>3 DEF From
        <5> QED
          BY <1>2, <2>1, <5>2, <5>4
      <4> QED
        BY <4>1, <4>2
    <3>2. ASSUME NEW e \in EdgeRow, NEW m \in Node, NEW n \in Node,
                 NEW k \in query.lo..depth, Wanted(e, m, n, k)
          PROVE  \E r \in result \cup added : r.edge = e /\ r.to = n /\ r.depth = k
      <4>1. CASE k = depth
        <5>1. Useful(n, depth)
          BY <1>2, <3>2, <4>1, TargetUseful DEF Wanted
        <5>2. [edge |-> e, from |-> m, to |-> n] \in edges
          BY <1>2, <1>3, <3>2, <4>1, <5>1, FoundComplete DEF Wanted, InLayer
        <5> DEFINE x == [edge |-> e, from |-> m, to |-> n]
                   r == [edge |-> x.edge, from |-> x.from, to |-> x.to, depth |-> depth]
        <5>3. r \in added /\ r.edge = e /\ r.to = n /\ r.depth = depth
          BY <5>2
        <5> HIDE DEF r, added
        <5> QED
          BY <4>1, <5>3
      <4>2. CASE k # depth
        <5>1. k \in query.lo..(depth - 1)
          BY <1>2, <4>2
        <5> QED
          BY <1>3, <3>2, <5>1 DEF Finds
      <4> QED
        BY <4>1, <4>2
    <3>3. result' = result \cup added
      BY <1>1, <2>1
    <3> HIDE DEF added
    <3>4. \A r, d : From(r, d)' = From(r, d)
      BY <1>1 DEF From
    <3>5. \A e, m, n, d : Wanted(e, m, n, d)' = Wanted(e, m, n, d)
      BY <1>1 DEF Wanted
    <3> QED
      BY <1>1, <3>1, <3>2, <3>3, <3>4, <3>5 DEF Finds
  <2>2. CASE ~ (depth >= query.lo)
    <3>1. query.lo..depth = {} /\ query.lo..(depth - 1) = {} /\ result' = result
      BY <1>1, <1>2, <2>2
    <3>2. result = {}
      BY <1>3, <3>1 DEF Finds
    <3> QED
      BY <1>1, <3>1, <3>2 DEF Finds
  <2> QED
    BY <2>1, <2>2
<1>12. ForwardExact'
  BY <1>1, <1>2, <1>9, <1>10, <1>11 DEF ForwardExact
<1> QED
  BY <1>8, <1>12 DEF Forward

LEMMA NextForward == Backward /\ Forward /\ [Next]_vars => Forward'
<1> SUFFICES ASSUME Backward, Forward, [Next]_vars PROVE Forward'
  OBVIOUS
<1>1. CASE Read
  <2>1. /\ query' = query /\ depth' = depth /\ more' = more /\ pc' = "done"
    BY <1>1 DEF Read, forward
  <2> QED
    BY <2>1 DEF Forward, ForwardTyped, ForwardExact, Searching, Halting
<1>2. CASE UNCHANGED vars
  <2>1. /\ query' = query /\ depth' = depth /\ more' = more /\ pc' = pc /\ init' = init
        /\ result' = result /\ visited' = visited /\ frontier' = frontier
        /\ edges' = edges /\ notExists' = notExists /\ bwdVisited' = bwdVisited
    BY <1>2 DEF vars, backward, forward
  <2>2. Found' = Found
    BY <2>1, SameReversed DEF Found, Expansion, NotVisited, Kept
  <2>3. ForwardTyped'
    BY <2>1, SameForward DEF Forward, ForwardTyped
  <2>4. ForwardExact'
    BY <2>1, <2>2, SameForward DEF Forward, ForwardExact
  <2> QED
    BY <2>3, <2>4 DEF Forward
<1> QED
  BY <1>1, <1>2, BackwardStepsForward, CreateSeedTablesForward, SeedGuardForward,
     WhileForward, ExpandForward, MergeForward DEF Next

LEMMA AlwaysForward == Spec => [](Backward /\ Forward)
<1>1. Init => Backward /\ Forward
  BY FlagAssumption, PatternFacts
  DEF Init, Backward, BackwardTyped, BackwardExact, Forward, ForwardTyped, ForwardExact,
      Searching, Halting
<1> QED
  BY <1>1, NextBackward, NextForward, PTL DEF Spec

(* A row the view returns is a requested one, and every requested one is   *)
(* returned: its end is a target, so the search followed its shortest      *)
(* walks.                                                                  *)
LEMMA ReadAnswers == Backward /\ Forward /\ Read => rows' = Requested(query)
<1> SUFFICES ASSUME Backward, Forward, Read PROVE rows' = Requested(query)
  OBVIOUS
<1>1. /\ pc = "read" /\ init = query.starts /\ Finds(query.hi)
      /\ rows' = {[start |-> p[1], end |-> p[2].to, depth |-> p[2].depth, edge |-> p[2].edge] :
                    p \in {x \in init \X result : Keeps(query, x[1], x[2].to, x[2].depth)}}
  BY DEF Read, Forward, ForwardTyped, ForwardExact, Searching
<1>2. /\ query \in Queries /\ query.hi \in Nat /\ query.lo \in Nat /\ query.lo >= 1
      /\ query.nodesOk = Node /\ Seeds(query) = query.starts
      /\ query.targets \subseteq Node
  BY PatternFacts DEF Backward, BackwardTyped
<1> DEFINE Rows == [start : Seeds(query), end : query.nodesOk,
                    depth : query.lo..query.hi, edge : query.edges]
<1>3. ASSUME NEW s \in init, NEW r \in result, Keeps(query, s, r.to, r.depth)
      PROVE  [start |-> s, end |-> r.to, depth |-> r.depth, edge |-> r.edge]
               \in Requested(query)
  <2> DEFINE row == [start |-> s, end |-> r.to, depth |-> r.depth, edge |-> r.edge]
  <2>1. r.depth \in query.lo..query.hi /\ From(r, r.depth)
    BY <1>1 DEF Finds
  <2>2. r.edge \in query.edges /\ r.to \in Node /\ r.to \in query.targets
    BY <1>3, <2>1 DEF From, Links, Keeps
  <2>3. row \in Rows
    BY <1>1, <1>2, <2>1, <2>2
  <2>4. r.depth = 1 \/ r.from \notin query.barriers
    BY <1>2, <2>1 DEF From, CanLeave
  <2>5. Matches(query, row)
    BY <2>1, <2>2, <2>4 DEF Matches, From
  <2>6. Keeps(query, row.start, row.end, row.depth)
    BY <1>3
  <2> HIDE DEF row
  <2> QED
    BY <2>3, <2>5, <2>6 DEF Requested, ShortestRows, row
<1>4. ASSUME NEW row \in Requested(query)
      PROVE  \E s \in init, r \in result :
               /\ Keeps(query, s, r.to, r.depth)
               /\ row = [start |-> s, end |-> r.to, depth |-> r.depth, edge |-> r.edge]
  <2>1. row \in Rows /\ Matches(query, row) /\ Keeps(query, row.start, row.end, row.depth)
    BY DEF Requested, ShortestRows
  <2>2. /\ row.start \in init /\ row.end \in Node /\ row.edge \in EdgeRow
        /\ row.depth \in query.lo..query.hi /\ row.end \in query.targets
        /\ row = [start |-> row.start, end |-> row.end, depth |-> row.depth,
                  edge |-> row.edge]
    BY <1>1, <1>2, <2>1, PatternFacts DEF Keeps
  <2>3. query.lo # 0
    BY <1>2
  <2> HIDE DEF Rows
  <2>4. PICK m \in Node : Wanted(row.edge, m, row.end, row.depth)
    BY <1>2, <2>1, <2>2, <2>3, MatchesByLayer DEF Wanted, Rows
  <2>5. PICK r \in result : r.edge = row.edge /\ r.to = row.end /\ r.depth = row.depth
    BY <1>1, <2>2, <2>4 DEF Finds
  <2> QED
    BY <2>1, <2>2, <2>5
<1>5. ASSUME NEW row \in rows' PROVE row \in Requested(query)
  <2>1. PICK p \in init \X result :
          /\ Keeps(query, p[1], p[2].to, p[2].depth)
          /\ row = [start |-> p[1], end |-> p[2].to, depth |-> p[2].depth, edge |-> p[2].edge]
    BY <1>1
  <2> QED
    BY <1>3, <2>1
<1>6. ASSUME NEW row \in Requested(query) PROVE row \in rows'
  <2>1. PICK s \in init, r \in result :
          /\ Keeps(query, s, r.to, r.depth)
          /\ row = [start |-> s, end |-> r.to, depth |-> r.depth, edge |-> r.edge]
    BY <1>4
  <2>2. <<s, r>> \in {x \in init \X result : Keeps(query, x[1], x[2].to, x[2].depth)}
    BY <2>1
  <2> QED
    BY <1>1, <2>1, <2>2
<1> QED
  BY <1>5, <1>6

(* The abstract module has its own copy of the pattern's definitions.      *)
LEMMA SameAnswer ==
  ASSUME NEW q
  PROVE  /\ Abstract!Ambiguous(q) <=> Ambiguous(q)
         /\ Abstract!Requested(q) = Requested(q)
  BY DEF Abstract!Ambiguous, Abstract!Requested, Abstract!ShortestRows, Abstract!Matches,
         Abstract!Reaches, Abstract!ReachedBefore, Abstract!IsWalk, Abstract!Links,
         Abstract!Orientations, Abstract!Seeds, Abstract!Keeps,
         Ambiguous, Requested, ShortestRows, Matches, Reaches, ReachedBefore, IsWalk,
         Links, Orientations, Seeds, Keeps

LEMMA StepsAnswer ==
  Backward /\ Forward /\ [Next]_vars => [Abstract!Next]_(Abstract!vars)
<1> SUFFICES ASSUME Backward, Forward, [Next]_vars
             PROVE  [Abstract!Next]_(Abstract!vars)
  OBVIOUS
<1> USE DEF Abstract!vars
<1>1. CASE \/ CreateTargets \/ BackwardWhile \/ BackwardExpand \/ BackwardMerge
           \/ CreateSeedTables \/ While \/ Expand \/ Merge \/ UNCHANGED vars
  BY <1>1 DEF CreateTargets, BackwardWhile, BackwardExpand, BackwardMerge,
              CreateSeedTables, While, Expand, Merge, Status, vars
<1>2. CASE SeedGuard
  <2>1. /\ pc = "guard" /\ query' = query /\ rows' = rows /\ init = Seeds(query)
    BY <1>2, PatternFacts
    DEF SeedGuard, Backward, BackwardTyped, Forward, ForwardTyped, Searching
  <2>2. pc' = IF Ambiguous(query) THEN "refused" ELSE "while"
    BY <1>2, <2>1 DEF SeedGuard, Ambiguous
  <2> QED
    BY <2>1, <2>2, SameAnswer DEF Status, Abstract!Next, Abstract!Refuse
<1>3. CASE Read
  <2>1. rows' = Requested(query)
    BY <1>3, ReadAnswers
  <2>2. ~ Ambiguous(query) /\ query' = query /\ pc = "read" /\ pc' = "done"
    BY <1>3 DEF Read, Forward, ForwardTyped, Searching
  <2> QED
    BY <2>1, <2>2, SameAnswer DEF Status, Abstract!Next, Abstract!Answer
<1> QED
  BY <1>1, <1>2, <1>3 DEF Next

(* Pruning the forward half against the backward set changes no answer:    *)
(* for every graph, pattern and placement of barriers, a bidirectional     *)
(* script that finishes returns exactly the requested rows of the shortest *)
(* walks, or fails loudly because its start filter is ambiguous.           *)
THEOREM BidirectionalImplementsAnswer == Spec => Refines
<1>1. Init => Abstract!Init
  BY DEF Init, Abstract!Init, Status
<1> QED
  BY <1>1, AlwaysForward, StepsAnswer, PTL DEF Spec, Refines, Abstract!Spec
=============================================================================
