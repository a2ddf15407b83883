---------------------------- MODULE WalkTheorems ----------------------------
(***************************************************************************)
(* Facts about the walks of a pattern, for every graph: a walk grows by    *)
(* one edge, and a shortest walk by one layer.  The correctness proofs of  *)
(* the layered searches rest on them.                                      *)
(***************************************************************************)
EXTENDS VLPQuery, NaturalsInduction, WellFoundedInduction, TLAPS

LEMMA QueryFacts ==
  ASSUME NEW q \in Queries
  PROVE  /\ q.dir \in {"forward", "backward", "undirected"}
         /\ q.lo \in Nat /\ q.hi \in Nat
         /\ q.starts \subseteq Node /\ q.edges \subseteq EdgeRow
         /\ q.barriers \subseteq Node /\ q.nodesOk \subseteq Node
         /\ q.hasBarrier \in BOOLEAN /\ q.hasNodeFilter \in BOOLEAN
         /\ q.hasEdgeProps \in BOOLEAN
         /\ q.hasBarrier \/ q.barriers = {}
         /\ q.hasNodeFilter \/ q.nodesOk = Node
         /\ Seeds(q) \subseteq Node
  BY QueryAssumption DEF QueryType, Seeds

(* The walks of no edge are the seeds.                                     *)
LEMMA SeedsReached ==
  ASSUME NEW q, Seeds(q) \subseteq Node, NEW n
  PROVE  Reaches(q, n, 0) <=> n \in Seeds(q)
<1>1. ASSUME n \in Seeds(q) PROVE Reaches(q, n, 0)
  <2> DEFINE w == [i \in 0..0 |-> n]
  <2>1. w \in [0..0 -> Node] /\ w[0] = n
    BY <1>1
  <2>2. IsWalk(q, 0, w)
    BY <1>1, <2>1 DEF IsWalk
  <2> QED
    BY <2>1, <2>2 DEF Reaches
<1>2. ASSUME Reaches(q, n, 0) PROVE n \in Seeds(q)
  BY <1>2 DEF Reaches, IsWalk
<1> QED
  BY <1>1, <1>2

LEMMA ReachesSeeds ==
  ASSUME NEW q \in Queries, NEW n
  PROVE  Reaches(q, n, 0) <=> n \in Seeds(q)
  BY QueryFacts, SeedsReached

(* A walk may be left on an edge where it is still a seed, or no barrier.  *)
CanLeave(q, m, d) == d = 0 \/ m \notin q.barriers
Step(q, m, n) == \E e \in EdgeRow : Links(q, e, m, n)

LEMMA ReachesStep ==
  ASSUME NEW q, NEW d \in Nat, NEW n \in Node
  PROVE  Reaches(q, n, d + 1) <=>
           \E m \in Node : Reaches(q, m, d) /\ Step(q, m, n) /\ CanLeave(q, m, d)
<1>1. ASSUME Reaches(q, n, d + 1)
      PROVE  \E m \in Node : Reaches(q, m, d) /\ Step(q, m, n) /\ CanLeave(q, m, d)
  <2>1. PICK w \in [0..(d+1) -> Node] : IsWalk(q, d + 1, w) /\ w[d+1] = n
    BY <1>1 DEF Reaches
  <2> DEFINE v == [i \in 0..d |-> w[i]]
  <2>2. v \in [0..d -> Node] /\ \A i \in 0..d : v[i] = w[i]
    BY <2>1
  <2>3. IsWalk(q, d, v)
    BY <2>1, <2>2 DEF IsWalk
  <2>4. Reaches(q, w[d], d) /\ w[d] \in Node
    BY <2>2, <2>3 DEF Reaches
  <2>5. Step(q, w[d], n) /\ CanLeave(q, w[d], d)
    BY <2>1 DEF IsWalk, Step, CanLeave
  <2> QED
    BY <2>4, <2>5
<1>2. ASSUME NEW m \in Node, Reaches(q, m, d), Step(q, m, n), CanLeave(q, m, d)
      PROVE  Reaches(q, n, d + 1)
  <2>1. PICK w \in [0..d -> Node] : IsWalk(q, d, w) /\ w[d] = m
    BY <1>2 DEF Reaches
  <2> DEFINE v == [i \in 0..(d+1) |-> IF i = d + 1 THEN n ELSE w[i]]
  <2>2. /\ v \in [0..(d+1) -> Node] /\ v[d+1] = n
        /\ \A i \in 0..d : v[i] = w[i]
    BY <2>1
  <2>3. \A i \in 0..d : /\ \E e \in EdgeRow : Links(q, e, v[i], v[i+1])
                        /\ i = 0 \/ v[i] \notin q.barriers
    <3> TAKE i \in 0..d
    <3>1. CASE i = d
      BY <3>1, <1>2, <2>1, <2>2 DEF Step, CanLeave
    <3>2. CASE i # d
      <4>1. i \in 0..(d-1) /\ i + 1 \in 0..d
        BY <3>2
      <4> QED
        BY <4>1, <2>1, <2>2 DEF IsWalk
    <3> QED
      BY <3>1, <3>2
  <2>4. v[0] \in Seeds(q)
    BY <2>1, <2>2 DEF IsWalk
  <2> HIDE DEF v
  <2>5. (d + 1) - 1 = d
    OBVIOUS
  <2>6. IsWalk(q, d + 1, v)
    BY <2>3, <2>4, <2>5 DEF IsWalk
  <2> QED
    BY <2>2, <2>6 DEF Reaches
<1> QED
  BY <1>1, <1>2

(* The layers of the search: a node is in the one its shortest walk ends.  *)
InLayer(q, n, d) == Reaches(q, n, d) /\ ~ ReachedBefore(q, n, d)

LEMMA OneLayer ==
  ASSUME NEW q, NEW n, NEW j \in Nat, NEW k \in Nat, InLayer(q, n, j), InLayer(q, n, k)
  PROVE  j = k
  BY DEF InLayer, ReachedBefore

LEMMA ReachedBeforeStep ==
  ASSUME NEW q, NEW n, NEW d \in Nat
  PROVE  ReachedBefore(q, n, d + 1) <=> ReachedBefore(q, n, d) \/ InLayer(q, n, d)
<1>1. \A k : k \in 0..((d+1)-1) <=> k \in 0..(d-1) \/ k = d
  OBVIOUS
<1> QED
  BY <1>1 DEF ReachedBefore, InLayer

(* A shortest walk is a shortest walk to its last node but one, and every  *)
(* edge on from a layer ends at most one layer further.                    *)
LEMMA LayerBefore ==
  ASSUME NEW q, NEW d \in Nat, NEW n \in Node, NEW m \in Node,
         InLayer(q, n, d + 1), Reaches(q, m, d), Step(q, m, n), CanLeave(q, m, d)
  PROVE  InLayer(q, m, d)
<1>1. ASSUME NEW k \in 0..(d-1), Reaches(q, m, k) PROVE FALSE
  <2>1. k \in Nat /\ d # 0 /\ k + 1 \in 0..d
    BY <1>1
  <2>2. CanLeave(q, m, k)
    BY <2>1 DEF CanLeave
  <2>3. Reaches(q, n, k + 1)
    BY <2>1, <2>2, <1>1, ReachesStep
  <2> QED
    BY <2>1, <2>3 DEF InLayer, ReachedBefore
<1> QED
  BY <1>1 DEF InLayer, ReachedBefore

LEMMA LayerStep ==
  ASSUME NEW q, NEW d \in Nat, NEW n \in Node
  PROVE  InLayer(q, n, d + 1) <=>
           /\ ~ ReachedBefore(q, n, d + 1)
           /\ \E m \in Node : InLayer(q, m, d) /\ Step(q, m, n) /\ CanLeave(q, m, d)
  BY ReachesStep, LayerBefore DEF InLayer

(* A set of numbers has a least one.                                       *)
LEMMA LeastNumber ==
  ASSUME NEW S \in SUBSET Nat, S # {}
  PROVE  \E n \in S : \A m \in S : n <= m
<1>1. IsWellFoundedOn(OpToRel(<, Nat), Nat)
  BY NatLessThanWellFounded, Zenon
<1>2. PICK n \in S : \A m \in S : ~ (<<m, n>> \in OpToRel(<, Nat))
  BY <1>1, WFMin, Zenon
<1>3. \A m \in S : ~ (m < n)
  BY <1>2 DEF OpToRel
<1>4. ASSUME NEW m \in S PROVE n <= m
  <2>1. n \in Nat /\ m \in Nat
    OBVIOUS
  <2> QED
    BY <2>1, <1>3
<1> QED
  BY <1>4

(* What is reached is in a layer no later.                                 *)
LEMMA ReachedInLayer ==
  ASSUME NEW q, NEW n, NEW k \in Nat, Reaches(q, n, k)
  PROVE  \E j \in 0..k : InLayer(q, n, j)
<1> DEFINE S == {j \in 0..k : Reaches(q, n, j)}
<1>1. S \in SUBSET Nat /\ k \in S
  OBVIOUS
<1>2. PICK j \in S : \A i \in S : j <= i
  <2> HIDE DEF S
  <2> QED
    BY <1>1, LeastNumber
<1>3. \A i \in 0..(j-1) : i \in 0..k /\ i < j
  OBVIOUS
<1> QED
  BY <1>2, <1>3 DEF InLayer, ReachedBefore

(* Once a layer is empty every later one is: the first one after it that   *)
(* was not would have a node to grow from in the layer before.             *)
LEMMA NoLayerAfter ==
  ASSUME NEW q, NEW d \in Nat, \A n \in Node : ~ InLayer(q, n, d),
         NEW k \in Nat, k >= d, NEW x \in Node
  PROVE  ~ InLayer(q, x, k)
<1> SUFFICES ASSUME InLayer(q, x, k) PROVE FALSE
  OBVIOUS
<1> DEFINE S == {j \in Nat : j >= d /\ \E n \in Node : InLayer(q, n, j)}
<1>1. S \in SUBSET Nat /\ S # {}
  OBVIOUS
<1>2. PICK j \in S : \A i \in S : j <= i
  BY <1>1, LeastNumber
<1>3. PICK n \in Node : InLayer(q, n, j)
  OBVIOUS
<1>4. j \in Nat /\ j > d /\ j - 1 \in Nat /\ (j - 1) + 1 = j
  BY <1>3
<1>5. PICK m \in Node : InLayer(q, m, j - 1)
  BY <1>3, <1>4, LayerStep
<1>6. j - 1 \in S
  BY <1>4, <1>5
<1> QED
  BY <1>2, <1>4, <1>6

(* A row of the answer is an edge from a layer that may be left into the   *)
(* next one.                                                               *)
LEMMA MatchesByLayer ==
  ASSUME NEW q \in Queries, q.lo # 0,
         NEW r \in [start : Seeds(q), end : q.nodesOk, depth : q.lo..q.hi, edge : q.edges]
  PROVE  Matches(q, r) <=>
           /\ InLayer(q, r.end, r.depth)
           /\ \E m \in Node : /\ Links(q, r.edge, m, r.end)
                              /\ InLayer(q, m, r.depth - 1) /\ CanLeave(q, m, r.depth - 1)
<1>1. /\ r.depth \in Nat /\ r.depth - 1 \in Nat /\ (r.depth - 1) + 1 = r.depth
      /\ r.end \in Node /\ r.edge \in EdgeRow
      /\ r.depth = 1 <=> r.depth - 1 = 0
  BY QueryFacts
<1>2. ASSUME Matches(q, r), NEW m \in Node, Links(q, r.edge, m, r.end),
             Reaches(q, m, r.depth - 1), r.depth = 1 \/ m \notin q.barriers
      PROVE  /\ InLayer(q, r.end, r.depth)
             /\ InLayer(q, m, r.depth - 1) /\ CanLeave(q, m, r.depth - 1)
  <2>1. Step(q, m, r.end) /\ CanLeave(q, m, r.depth - 1)
    BY <1>1, <1>2 DEF Step, CanLeave
  <2>2. InLayer(q, r.end, (r.depth - 1) + 1)
    BY <1>1, <1>2, <2>1, ReachesStep DEF InLayer, Matches
  <2>3. InLayer(q, m, r.depth - 1)
    BY <1>1, <1>2, <2>1, <2>2, LayerBefore
  <2> QED
    BY <1>1, <2>1, <2>2, <2>3
<1> QED
  BY <1>1, <1>2 DEF Matches, InLayer, CanLeave
(* The nodes of a walk are reached by its prefixes, those of a shortest    *)
(* walk by shortest ones; so it meets no node twice.                       *)
LEMMA WalkPrefix ==
  ASSUME NEW q, NEW d \in Nat, NEW w \in [0..d -> Node], IsWalk(q, d, w), NEW i \in 0..d
  PROVE  w[i] \in Node /\ Reaches(q, w[i], i)
<1> DEFINE v == [j \in 0..i |-> w[j]]
<1>1. v \in [0..i -> Node] /\ \A j \in 0..i : v[j] = w[j]
  OBVIOUS
<1>2. /\ 0 \in 0..i /\ i \in 0..i
      /\ \A j \in 0..(i-1) : j \in 0..(d-1) /\ j \in 0..i /\ j + 1 \in 0..i
  OBVIOUS
<1> HIDE DEF v
<1>3. IsWalk(q, i, v)
  BY <1>1, <1>2 DEF IsWalk
<1> QED
  BY <1>1, <1>2, <1>3 DEF Reaches

LEMMA ShortestPrefix ==
  ASSUME NEW q, NEW d \in Nat, NEW w \in [0..d -> Node], IsWalk(q, d, w),
         InLayer(q, w[d], d), NEW i \in 0..d
  PROVE  InLayer(q, w[i], i)
<1> DEFINE S == {j \in 0..d : ~ InLayer(q, w[d - j], d - j)}
<1> SUFFICES ASSUME ~ InLayer(q, w[i], i) PROVE FALSE
  OBVIOUS
<1>1. S \in SUBSET Nat /\ S # {}
  <2>1. d - i \in 0..d /\ d - (d - i) = i
    OBVIOUS
  <2>2. d - i \in S
    BY <2>1
  <2>3. S \in SUBSET Nat
    OBVIOUS
  <2> HIDE DEF S
  <2> QED
    BY <2>2, <2>3
<1>2. PICK j \in S : \A k \in S : j <= k
  <2> HIDE DEF S
  <2> QED
    BY <1>1, LeastNumber
<1>3. j \in 0..d /\ ~ InLayer(q, w[d - j], d - j) /\ j # 0
  <2>1. d - 0 = d
    OBVIOUS
  <2> QED
    BY <2>1
<1> DEFINE k == d - j
<1>4. /\ k \in Nat /\ k \in 0..(d-1) /\ k \in 0..d /\ k + 1 \in 0..d
      /\ j - 1 \in 0..d /\ j - 1 < j /\ d - (j - 1) = k + 1
  BY <1>3
<1>5. InLayer(q, w[k + 1], k + 1)
  <2>1. j - 1 \notin S
    BY <1>2, <1>4
  <2> QED
    BY <1>4, <2>1
<1>6. /\ w[k] \in Node /\ w[k + 1] \in Node /\ Reaches(q, w[k], k)
  BY <1>4, WalkPrefix
<1>7. Step(q, w[k], w[k + 1]) /\ CanLeave(q, w[k], k)
  BY <1>4 DEF IsWalk, Step, CanLeave
<1>8. InLayer(q, w[k], k)
  BY <1>4, <1>5, <1>6, <1>7, LayerBefore
<1> QED
  BY <1>3, <1>8

LEMMA ShortestVisitsOnce ==
  ASSUME NEW q, NEW d \in Nat, NEW w \in [0..d -> Node], IsWalk(q, d, w),
         InLayer(q, w[d], d), NEW i \in 0..d, NEW j \in 0..d, w[i] = w[j]
  PROVE  i = j
  BY ShortestPrefix, OneLayer
=============================================================================
