---------------------------- MODULE PlannerProofs ----------------------------
(***************************************************************************)
(* The plan stays one graph, for every query and every choice of passes:   *)
(* what an operator the terminal needs reads, and what reads it, are each  *)
(* other's mirror image after every rewrite.  First come facts about       *)
(* sequences and recursive functions, then what planning builds, then what *)
(* each pass leaves of it.  On top of that: where the conjuncts of the     *)
(* WHEREs stand, and that subquery flattening changes no answer.           *)
(***************************************************************************)
EXTENDS Planner, FiniteSetTheorems, NaturalsInduction, WellFoundedInduction, TLAPS

-----------------------------------------------------------------------------
(* A set of numbers has a least one; induction over an initial segment,    *)
(* upwards.                                                                *)
LEMMA LeastNumber ==
  ASSUME NEW S \in SUBSET Nat, S # {}
  PROVE  \E n \in S : \A m \in S : n <= m
<1>1. IsWellFoundedOn(OpToRel(<, Nat), Nat)
  BY NatLessThanWellFounded, Zenon
<1>2. PICK n \in S : \A m \in S : ~ (<<m, n>> \in OpToRel(<, Nat))
  BY <1>1, WFMin, Zenon
<1>3. \A m \in S : ~ (m < n)
  BY <1>2 DEF OpToRel
<1>4. ASSUME NEW m \in S PROVE n <= m
  BY <1>3, <1>4
<1> QED
  BY <1>4

LEMMA Upwards ==
  ASSUME NEW n \in Nat, NEW S, \A i \in 1..n : (\A j \in 1..(i-1) : j \in S) => i \in S
  PROVE  \A i \in 1..n : i \in S
<1> DEFINE Missing == {i \in 1..n : i \notin S}
<1> SUFFICES ASSUME Missing # {} PROVE FALSE
  OBVIOUS
<1>1. PICK i \in Missing : \A m \in Missing : i <= m
  <2>1. Missing \in SUBSET Nat
    OBVIOUS
  <2> HIDE DEF Missing
  <2> QED
    BY <2>1, LeastNumber
<1>2. \A j \in 1..(i-1) : j \in S
  BY <1>1
<1> QED
  BY <1>1, <1>2

LEMMA Stepwise ==
  ASSUME NEW n \in Nat, NEW S, 0 \in S, \A k \in 0..(n-1) : k \in S => k + 1 \in S
  PROVE  \A k \in 0..n : k \in S
<1> DEFINE Missing == {i \in 0..n : i \notin S}
<1> SUFFICES ASSUME Missing # {} PROVE FALSE
  OBVIOUS
<1>1. PICK i \in Missing : \A m \in Missing : i <= m
  <2>1. Missing \in SUBSET Nat
    OBVIOUS
  <2> HIDE DEF Missing
  <2> QED
    BY <2>1, LeastNumber
<1>2. i - 1 \in 0..(n-1) /\ i - 1 \in S /\ (i - 1) + 1 = i
  BY <1>1
<1> QED
  BY <1>1, <1>2

(* A function on D whose value at i, Value[i][f], follows from its     *)
(* values of lower rank, is defined.                                       *)
Recursion(D, V, n, rank, Value) ==
  /\ n \in Nat /\ V # {} /\ rank \in [D -> 0..n]
  /\ Value \in [D -> [[D -> V] -> V]]
  /\ \A i \in D : \A f, g \in [D -> V] :
       (\A j \in D : rank[j] < rank[i] => f[j] = g[j]) => Value[i][f] = Value[i][g]

LEMMA FunctionExists ==
  ASSUME NEW D, NEW V, NEW n, NEW rank, NEW Value, Recursion(D, V, n, rank, Value)
  PROVE  \E f \in [D -> V] : \A i \in D : f[i] = Value[i][f]
<1> USE DEF Recursion
<1> DEFINE UpTo(k, f) == \A i \in D : rank[i] < k => f[i] = Value[i][f]
           Missing == {k \in Nat : ~ \E f \in [D -> V] : UpTo(k, f)}
<1>1. 0 \notin Missing
  <2>1. PICK v \in V : TRUE
    OBVIOUS
  <2>2. [i \in D |-> v] \in [D -> V]
    BY <2>1
  <2>3. \A f : UpTo(0, f)
    OBVIOUS
  <2> QED
    BY <2>2, <2>3
<1>2. ASSUME NEW k \in Missing, \A m \in Missing : k <= m PROVE FALSE
  <2>1. k # 0 /\ k \in Nat /\ k - 1 \in Nat /\ k - 1 \notin Missing
    <3>1. k \in Nat
      OBVIOUS
    <3> HIDE DEF Missing
    <3>2. k # 0 /\ k - 1 \in Nat /\ ~ (k <= k - 1)
      BY <1>1, <1>2, <3>1
    <3> QED
      BY <1>2, <3>1, <3>2
  <2>2. PICK f \in [D -> V] : UpTo(k - 1, f)
    BY <2>1
  <2> DEFINE g == [i \in D |-> IF rank[i] = k - 1 THEN Value[i][f] ELSE f[i]]
  <2>3. g \in [D -> V]
    OBVIOUS
  <2>4. ASSUME NEW i \in D, rank[i] < k PROVE g[i] = Value[i][g]
    <3>1. \A j \in D : rank[j] < rank[i] => f[j] = g[j]
      <4> TAKE j \in D
      <4> HAVE rank[j] < rank[i]
      <4>1. rank[j] \in Nat /\ rank[i] \in Nat
        OBVIOUS
      <4>2. rank[j] # k - 1
        BY <2>1, <2>4, <4>1
      <4> QED
        BY <4>2
    <3>2. Value[i][f] = Value[i][g]
      BY <2>3, <3>1
    <3>3. CASE rank[i] = k - 1
      BY <3>2, <3>3
    <3>4. CASE rank[i] # k - 1
      <4>1. rank[i] < k - 1
        <5> DEFINE r == rank[i]
        <5>1. r \in Nat /\ k \in Nat /\ r < k /\ r # k - 1
          BY <2>1, <2>4, <3>4
        <5>2. \A a, b \in Nat : a < b /\ a # b - 1 => a < b - 1
          OBVIOUS
        <5> HIDE DEF Missing, r
        <5>3. r < k - 1
          BY <5>1, <5>2
        <5> QED
          BY <5>3 DEF r
      <4> QED
        BY <2>2, <3>2, <3>4, <4>1
    <3> QED
      BY <3>3, <3>4
  <2> QED
    BY <2>3, <2>4
<1>3. Missing = {}
  <2> SUFFICES ASSUME Missing # {} PROVE FALSE
    OBVIOUS
  <2> HIDE DEF Missing
  <2>1. Missing \in SUBSET Nat
    BY DEF Missing
  <2> QED
    BY <1>2, <2>1, LeastNumber
<1>4. PICK f \in [D -> V] : UpTo(n + 1, f)
  <2>1. n + 1 \in Nat /\ n + 1 \notin Missing
    <3> HIDE DEF Missing
    <3> QED
      BY <1>3
  <2> HIDE DEF UpTo
  <2> QED
    BY <2>1
<1>5. \A i \in D : rank[i] < n + 1
  OBVIOUS
<1> QED
  BY <1>4, <1>5

-----------------------------------------------------------------------------
(* What the operators on sequences give.                                   *)
LEMMA AppendFacts ==
  ASSUME NEW T, NEW s \in Seq(T), NEW x \in T
  PROVE  /\ Append(s, x) \in Seq(T) /\ Len(Append(s, x)) = Len(s) + 1
         /\ Append(s, x)[Len(s) + 1] = x
         /\ \A i \in 1..Len(s) : Append(s, x)[i] = s[i]
         /\ Range(Append(s, x)) = Range(s) \cup {x}
<1>1. /\ Append(s, x) \in Seq(T) /\ Len(Append(s, x)) = Len(s) + 1
      /\ Append(s, x)[Len(s) + 1] = x
      /\ \A i \in 1..Len(s) : Append(s, x)[i] = s[i]
  OBVIOUS
<1>2. DOMAIN s = 1..Len(s) /\ DOMAIN Append(s, x) = 1..(Len(s) + 1) /\ Len(s) \in Nat
  BY <1>1
<1>3. 1..(Len(s) + 1) = 1..Len(s) \cup {Len(s) + 1}
  BY <1>2
<1> QED
  BY <1>1, <1>2, <1>3 DEF Range

LEMMA ConcatFacts ==
  ASSUME NEW T, NEW s \in Seq(T), NEW t \in Seq(T)
  PROVE  /\ s \o t \in Seq(T) /\ Len(s \o t) = Len(s) + Len(t)
         /\ \A i \in 1..Len(s) : (s \o t)[i] = s[i]
         /\ \A i \in 1..Len(t) : (s \o t)[Len(s) + i] = t[i]
         /\ Range(s \o t) = Range(s) \cup Range(t)
<1>1. /\ s \o t \in Seq(T) /\ Len(s \o t) = Len(s) + Len(t)
      /\ \A i \in 1..Len(s) : (s \o t)[i] = s[i]
      /\ \A i \in 1..Len(t) : (s \o t)[Len(s) + i] = t[i]
  OBVIOUS
<1>2. /\ DOMAIN s = 1..Len(s) /\ DOMAIN t = 1..Len(t) /\ DOMAIN (s \o t) = 1..(Len(s) + Len(t))
      /\ Len(s) \in Nat /\ Len(t) \in Nat
  BY <1>1
<1>3. ASSUME NEW i \in 1..(Len(s) + Len(t))
      PROVE  i \in 1..Len(s) \/ (i - Len(s) \in 1..Len(t) /\ Len(s) + (i - Len(s)) = i)
  BY <1>2
<1>4. Range(s \o t) \subseteq Range(s) \cup Range(t)
  <2>1. ASSUME NEW i \in 1..(Len(s) + Len(t)) PROVE (s \o t)[i] \in Range(s) \cup Range(t)
    BY <1>1, <1>2, <1>3 DEF Range
  <2> QED
    BY <1>2, <2>1 DEF Range
<1>5. Range(s) \subseteq Range(s \o t)
  <2>1. \A i \in 1..Len(s) : i \in 1..(Len(s) + Len(t))
    BY <1>2
  <2> QED
    BY <1>1, <1>2, <2>1 DEF Range
<1>6. Range(t) \subseteq Range(s \o t)
  <2>1. \A i \in 1..Len(t) : Len(s) + i \in 1..(Len(s) + Len(t))
    BY <1>2
  <2> QED
    BY <1>1, <1>2, <2>1 DEF Range
<1> QED
  BY <1>1, <1>4, <1>5, <1>6

LEMMA TailFacts ==
  ASSUME NEW T, NEW s \in Seq(T), s # << >>
  PROVE  /\ Head(s) \in T /\ Head(s) \in Range(s)
         /\ Tail(s) \in Seq(T) /\ Range(Tail(s)) \subseteq Range(s)
<1>1. /\ Head(s) = s[1] /\ 1 \in 1..Len(s) /\ DOMAIN s = 1..Len(s) /\ Tail(s) \in Seq(T)
      /\ DOMAIN Tail(s) = 1..(Len(s) - 1)
      /\ \A i \in 1..(Len(s) - 1) : Tail(s)[i] = s[i + 1] /\ i + 1 \in 1..Len(s)
  OBVIOUS
<1> QED
  BY <1>1 DEF Range

LEMMA RangeFacts ==
  ASSUME NEW T, NEW s \in Seq(T)
  PROVE  /\ Range(s) \subseteq T /\ s \in Seq(Range(s)) /\ DOMAIN s = 1..Len(s) /\ Len(s) \in Nat
         /\ \A U : Range(s) \subseteq U => s \in Seq(U)
<1>1. DOMAIN s = 1..Len(s) /\ Len(s) \in Nat /\ \A i \in 1..Len(s) : s[i] \in T
  OBVIOUS
<1>2. ASSUME NEW U, Range(s) \subseteq U PROVE s \in Seq(U)
  <2>1. \A i \in 1..Len(s) : s[i] \in U
    BY <1>1, <1>2 DEF Range
  <2>2. s \in [1..Len(s) -> U]
    BY <1>1, <2>1
  <2> DEFINE n == Len(s)
  <2>3. s \in [1..n -> U] /\ n \in Nat
    BY <1>1, <2>2
  <2> HIDE DEF n
  <2> QED
    BY <2>3
<1> QED
  BY <1>1, <1>2 DEF Range

LEMMA KeepInFacts ==
  ASSUME NEW T, NEW seq \in Seq(T), NEW S
  PROVE  KeepIn(seq, S) \in Seq(T) /\ Range(KeepIn(seq, S)) = Range(seq) \cap S
<1> DEFINE n == Len(seq)
           Body(f, k) == IF k = 0 THEN << >>
                         ELSE IF seq[k] \in S THEN Append(f[k-1], seq[k]) ELSE f[k-1]
           kept == CHOOSE f : f = [k \in 0..n |-> Body(f, k)]
           Value == [k \in 0..n |-> [f \in [0..n -> Seq(T)] |-> Body(f, k)]]
           rank == [k \in 0..n |-> k]
<1>1. KeepIn(seq, S) = kept[n]
  BY DEF KeepIn
<1>2. n \in Nat /\ DOMAIN seq = 1..n /\ (\A k \in 1..n : seq[k] \in T) /\ << >> \in Seq(T)
  OBVIOUS
<1> HIDE DEF n
<1>3. \A k \in 0..n : k # 0 => k \in 1..n /\ k - 1 \in 0..n /\ k - 1 < k
  BY <1>2
<1>4. Value \in [0..n -> [[0..n -> Seq(T)] -> Seq(T)]]
  <2>1. ASSUME NEW k \in 0..n, NEW f \in [0..n -> Seq(T)] PROVE Body(f, k) \in Seq(T)
    <3>1. CASE k = 0
      BY <1>2, <3>1
    <3>2. CASE k # 0
      <4>1. f[k-1] \in Seq(T) /\ seq[k] \in T
        BY <1>2, <1>3, <3>2
      <4>2. Append(f[k-1], seq[k]) \in Seq(T)
        BY <4>1, AppendFacts
      <4> QED
        BY <3>2, <4>1, <4>2
    <3> QED
      BY <3>1, <3>2
  <2> HIDE DEF Body
  <2> QED
    BY <2>1
<1>5. ASSUME NEW k \in 0..n, NEW f \in [0..n -> Seq(T)]
      PROVE  Value[k][f] = Body(f, k)
  <2> HIDE DEF Body
  <2> QED
    BY <1>5
<1>6. ASSUME NEW k \in 0..n, NEW f \in [0..n -> Seq(T)], NEW g \in [0..n -> Seq(T)],
             \A j \in 0..n : rank[j] < rank[k] => f[j] = g[j]
      PROVE  Value[k][f] = Value[k][g]
  <2>1. k # 0 => f[k-1] = g[k-1]
    BY <1>3, <1>6
  <2>2. Body(f, k) = Body(g, k)
    BY <2>1
  <2> QED
    BY <1>5, <2>2
<1>7. \E f : f = [k \in 0..n |-> Body(f, k)]
  <2>1. rank \in [0..n -> 0..n] /\ Seq(T) # {}
    BY <1>2
  <2> HIDE DEF Value, rank
  <2>2. PICK f \in [0..n -> Seq(T)] : \A k \in 0..n : f[k] = Value[k][f]
    <3> DEFINE D == 0..n
    <3>1. Recursion(D, Seq(T), n, rank, Value)
      BY <1>2, <1>4, <1>6, <2>1 DEF Recursion
    <3> HIDE DEF D
    <3>2. \E f \in [D -> Seq(T)] : \A k \in D : f[k] = Value[k][f]
      BY <3>1, FunctionExists
    <3> QED
      BY <3>2 DEF D
  <2>3. \A k \in 0..n : f[k] = Body(f, k)
    BY <1>5, <2>2
  <2> HIDE DEF Body
  <2>4. f = [k \in 0..n |-> Body(f, k)]
    BY <2>3
  <2> QED
    BY <2>4
<1>8. kept = [k \in 0..n |-> Body(kept, k)]
  <2> HIDE DEF Body
  <2> QED
    BY <1>7
<1> HIDE DEF kept, Value
<1>9. kept[0] = << >> /\ \A k \in 1..n :
        kept[k] = IF seq[k] \in S THEN Append(kept[k-1], seq[k]) ELSE kept[k-1]
  <2>1. \A k \in 0..n : kept[k] = Body(kept, k)
    <3> HIDE DEF Body
    <3> QED
      BY <1>8
  <2>2. 0 \in 0..n /\ \A k \in 1..n : k \in 0..n /\ k # 0
    BY <1>2
  <2> QED
    BY <2>1, <2>2
<1> DEFINE Good == {k \in 0..n : /\ kept[k] \in Seq(T)
                                 /\ Range(kept[k]) = {seq[i] : i \in 1..k} \cap S}
<1>10. 0 \in Good
  <2>1. 0 \in 0..n /\ 1..0 = {}
    BY <1>2
  <2>2. Range(<< >>) = {} /\ {seq[i] : i \in 1..0} = {}
    BY <2>1 DEF Range
  <2> QED
    BY <1>2, <1>9, <2>1, <2>2
<1>11. ASSUME NEW k \in 0..(n-1), k \in Good PROVE k + 1 \in Good
  <2>1. k + 1 \in 1..n /\ (k + 1) - 1 = k /\ seq[k + 1] \in T /\ k + 1 \in 0..n
    BY <1>2
  <2>2. kept[k + 1] = IF seq[k + 1] \in S THEN Append(kept[k], seq[k + 1]) ELSE kept[k]
    BY <1>9, <2>1
  <2>3. {seq[i] : i \in 1..(k + 1)} = {seq[i] : i \in 1..k} \cup {seq[k + 1]}
    <3>1. 1..(k + 1) = 1..k \cup {k + 1}
      BY <1>2
    <3> QED
      BY <3>1
  <2>4. CASE seq[k + 1] \in S
    <3>1. kept[k] \in Seq(T) /\ Range(kept[k]) = {seq[i] : i \in 1..k} \cap S
      BY <1>11
    <3>2. /\ kept[k + 1] \in Seq(T)
          /\ Range(kept[k + 1]) = Range(kept[k]) \cup {seq[k + 1]}
      <4>1. kept[k + 1] = Append(kept[k], seq[k + 1])
        BY <2>2, <2>4
      <4> HIDE DEF Good
      <4> QED
        BY <2>1, <3>1, <4>1, AppendFacts
    <3> QED
      BY <2>1, <2>3, <2>4, <3>1, <3>2
  <2>5. CASE seq[k + 1] \notin S
    BY <1>11, <2>1, <2>2, <2>3, <2>5
  <2> QED
    BY <2>4, <2>5
<1>12. n \in Good
  <2>1. n \in 0..n
    BY <1>2
  <2> HIDE DEF Good
  <2> QED
    BY <1>2, <1>10, <1>11, <2>1, Stepwise
<1> QED
  BY <1>1, <1>2, <1>12 DEF Range

LEMMA DistinctFacts ==
  ASSUME NEW T, NEW seq \in Seq(T)
  PROVE  Distinct(seq) \in Seq(T) /\ Range(Distinct(seq)) = Range(seq)
<1> DEFINE n == Len(seq)
           places == [k \in DOMAIN seq |-> k]
           New == {k \in DOMAIN seq : \A j \in 1..(k-1) : seq[j] # seq[k]}
           first == KeepIn(places, New)
<1>1. n \in Nat /\ DOMAIN seq = 1..n /\ \A k \in 1..n : seq[k] \in T
  OBVIOUS
<1> HIDE DEF n
<1>2. places \in Seq(1..n) /\ Range(places) = 1..n
  <2>1. places \in [1..n -> 1..n]
    BY <1>1
  <2>2. Range(places) = 1..n
    BY <1>1 DEF Range
  <2> HIDE DEF places
  <2> QED
    BY <1>1, <2>1, <2>2
<1>3. first \in Seq(1..n) /\ Range(first) = New
  <2>1. 1..n \cap New = New
    BY <1>1
  <2> DEFINE Place == 1..n
  <2>2. places \in Seq(Place) /\ Range(places) \cap New = New
    BY <1>2, <2>1
  <2> HIDE DEF places, New, Place
  <2>3. first \in Seq(Place) /\ Range(first) = New
    BY <2>2, KeepInFacts
  <2> QED
    BY <2>3 DEF Place
<1>4. Distinct(seq) = [i \in DOMAIN first |-> seq[first[i]]]
  BY DEF Distinct
<1> HIDE DEF first
<1>5. /\ DOMAIN first = 1..Len(first) /\ Len(first) \in Nat
      /\ \A i \in DOMAIN first : first[i] \in 1..n /\ first[i] \in New
  <2>1. Range(first) \subseteq 1..n
    BY <1>3, RangeFacts
  <2>2. \A i \in DOMAIN first : first[i] \in Range(first)
    BY DEF Range
  <2> QED
    BY <1>3, <2>1, <2>2, RangeFacts
<1>6. Distinct(seq) \in Seq(T)
  <2> DEFINE m == Len(first)
             s == Distinct(seq)
  <2>1. s \in [1..m -> T] /\ m \in Nat
    BY <1>1, <1>4, <1>5
  <2> HIDE DEF m, s
  <2>2. s \in Seq(T)
    BY <2>1
  <2> QED
    BY <2>2 DEF s
<1>7. Range(Distinct(seq)) = {seq[k] : k \in New}
  <2>1. Range(Distinct(seq)) = {seq[first[i]] : i \in DOMAIN first}
    BY <1>4 DEF Range
  <2>2. New = {first[i] : i \in DOMAIN first}
    BY <1>3 DEF Range
  <2> HIDE DEF New
  <2> QED
    BY <2>1, <2>2
<1>8. ASSUME NEW k \in 1..n PROVE seq[k] \in {seq[j] : j \in New}
  <2> DEFINE Same == {j \in 1..n : seq[j] = seq[k]}
  <2>1. Same \in SUBSET Nat /\ Same # {}
    BY <1>1
  <2>2. PICK i \in Same : \A j \in Same : i <= j
    <3> HIDE DEF Same
    <3> QED
      BY <2>1, LeastNumber
  <2>3. \A j \in 1..(i-1) : j \notin Same /\ j \in 1..n
    BY <1>1, <2>2
  <2>4. i \in New
    BY <1>1, <2>2, <2>3
  <2> QED
    BY <2>2, <2>4
<1> QED
  BY <1>1, <1>6, <1>7, <1>8 DEF Range

LEMMA FlattenFacts ==
  ASSUME NEW T, NEW seqs \in Seq(Seq(T))
  PROVE  /\ FlattenSeq(seqs) \in Seq(T)
         /\ Range(FlattenSeq(seqs)) = UNION {Range(seqs[i]) : i \in DOMAIN seqs}
<1> DEFINE n == Len(seqs)
           Body(f, k) == IF k = 1 THEN seqs[k] ELSE f[k-1] \o seqs[k]
           flatten == CHOOSE f : f = [k \in 1..n |-> Body(f, k)]
           Value == [k \in 1..n |-> [f \in [1..n -> Seq(T)] |-> Body(f, k)]]
           rank == [k \in 1..n |-> k]
<1>1. FlattenSeq(seqs) = IF n = 0 THEN seqs ELSE flatten[n]
  BY DEF FlattenSeq
<1>2. n \in Nat /\ DOMAIN seqs = 1..n /\ \A k \in 1..n : seqs[k] \in Seq(T)
  OBVIOUS
<1>3. CASE n = 0
  <2>1. seqs = << >> /\ DOMAIN seqs = {}
    BY <1>2, <1>3
  <2>2. Range(seqs) = {}
    BY <2>1 DEF Range
  <2> QED
    BY <1>1, <1>3, <2>1, <2>2
<1>4. CASE n # 0
  <2> HIDE DEF n
  <2>1. \A k \in 1..n : k # 1 => k - 1 \in 1..n /\ k - 1 < k
    BY <1>2
  <2>2. Value \in [1..n -> [[1..n -> Seq(T)] -> Seq(T)]]
    <3>1. ASSUME NEW k \in 1..n, NEW f \in [1..n -> Seq(T)] PROVE Body(f, k) \in Seq(T)
      <4>1. CASE k = 1
        BY <1>2, <4>1
      <4>2. CASE k # 1
        <5>1. f[k-1] \in Seq(T) /\ seqs[k] \in Seq(T)
          BY <1>2, <2>1, <4>2
        <5>2. f[k-1] \o seqs[k] \in Seq(T)
          BY <5>1, ConcatFacts
        <5> QED
          BY <4>2, <5>2
      <4> QED
        BY <4>1, <4>2
    <3> HIDE DEF Body
    <3> QED
      BY <3>1
  <2>3. ASSUME NEW k \in 1..n, NEW f \in [1..n -> Seq(T)]
        PROVE  Value[k][f] = Body(f, k)
    <3> HIDE DEF Body
    <3> QED
      BY <2>3
  <2>4. ASSUME NEW k \in 1..n, NEW f \in [1..n -> Seq(T)], NEW g \in [1..n -> Seq(T)],
               \A j \in 1..n : rank[j] < rank[k] => f[j] = g[j]
        PROVE  Value[k][f] = Value[k][g]
    <3>1. k # 1 => f[k-1] = g[k-1]
      BY <2>1, <2>4
    <3>2. Body(f, k) = Body(g, k)
      BY <3>1
    <3> QED
      BY <2>3, <3>2
  <2>5. \E f : f = [k \in 1..n |-> Body(f, k)]
    <3>1. rank \in [1..n -> 0..n] /\ Seq(T) # {}
      BY <1>2, <1>4
    <3> HIDE DEF Value, rank
    <3>2. PICK f \in [1..n -> Seq(T)] : \A k \in 1..n : f[k] = Value[k][f]
      <4> DEFINE D == 1..n
      <4>1. Recursion(D, Seq(T), n, rank, Value)
        BY <1>2, <2>2, <2>4, <3>1 DEF Recursion
      <4> HIDE DEF D
      <4>2. \E f \in [D -> Seq(T)] : \A k \in D : f[k] = Value[k][f]
        BY <4>1, FunctionExists
      <4> QED
        BY <4>2 DEF D
    <3>3. \A k \in 1..n : f[k] = Body(f, k)
      BY <2>3, <3>2
    <3> HIDE DEF Body
    <3>4. f = [k \in 1..n |-> Body(f, k)]
      BY <3>3
    <3> QED
      BY <3>4
  <2>6. flatten = [k \in 1..n |-> Body(flatten, k)]
    <3> HIDE DEF Body
    <3> QED
      BY <2>5
  <2> HIDE DEF flatten, Value
  <2>7. \A k \in 1..n : flatten[k] = Body(flatten, k)
    <3> HIDE DEF Body
    <3> QED
      BY <2>6
  <2> DEFINE Joint(k) == UNION {Range(seqs[i]) : i \in 1..k}
             Good == {k \in 1..n : flatten[k] \in Seq(T) /\ Range(flatten[k]) = Joint(k)}
  <2>8. ASSUME NEW k \in 1..n, \A j \in 1..(k-1) : j \in Good PROVE k \in Good
    <3>1. CASE k = 1
      <4>1. flatten[k] = seqs[k] /\ seqs[k] \in Seq(T)
        BY <1>2, <2>7, <3>1
      <4>2. 1..k = {k}
        BY <3>1
      <4>3. Joint(k) = Range(seqs[k])
        BY <4>2
      <4> QED
        BY <4>1, <4>3
    <3>2. CASE k # 1
      <4>1. flatten[k] = flatten[k-1] \o seqs[k]
        BY <2>7, <3>2
      <4>2. seqs[k] \in Seq(T) /\ flatten[k-1] \in Seq(T) /\ Range(flatten[k-1]) = Joint(k-1)
        <5>1. k - 1 \in 1..(k-1)
          BY <1>2, <3>2
        <5>2. k - 1 \in Good
          <6> HIDE DEF Good
          <6> QED
            BY <2>8, <5>1
        <5> QED
          BY <1>2, <5>2
      <4>3. flatten[k] \in Seq(T) /\ Range(flatten[k]) = Range(flatten[k-1]) \cup Range(seqs[k])
        <5> HIDE DEF Joint
        <5> QED
          BY <4>1, <4>2, ConcatFacts
      <4>4. 1..k = 1..(k-1) \cup {k}
        BY <1>2
      <4>5. Joint(k) = Joint(k-1) \cup Range(seqs[k])
        BY <4>4
      <4> QED
        BY <4>2, <4>3, <4>5
    <3> QED
      BY <3>1, <3>2
  <2>9. n \in Good
    <3>1. n \in 1..n
      BY <1>2, <1>4
    <3> HIDE DEF Good
    <3> QED
      BY <1>2, <2>8, <3>1, Upwards
  <2> QED
    BY <1>1, <1>2, <1>4, <2>9
<1> QED
  BY <1>3, <1>4
-----------------------------------------------------------------------------
(* The graph of a plan: inputs were created before the operator, outputs   *)
(* after it, a source has no input and a selection at most one.            *)
IsOperator(x) ==
  x = [kind |-> x.kind, ins |-> x.ins, outs |-> x.outs, schema |-> x.schema,
       entity |-> x.entity, pairs |-> x.pairs, filter |-> x.filter, part |-> x.part]
IsNode(plan, i) ==
  /\ IsOperator(plan[i])
  /\ plan[i].ins \in Seq(DOMAIN plan) /\ plan[i].outs \in Seq(DOMAIN plan)
  /\ \A k \in Range(plan[i].ins) : k < i
  /\ \A k \in Range(plan[i].outs) : i < k
  /\ plan[i].kind = "source" => plan[i].ins = << >>
  /\ plan[i].kind = "select" => Len(plan[i].ins) <= 1
WellFormed(plan) ==
  plan \in Seq(Range(plan)) /\ \A i \in DOMAIN plan : IsNode(plan, i)

(* What the operators in needed read, and what reads from them, agree.     *)
Agree(plan, needed) ==
  \A a \in needed, b \in DOMAIN plan : b \in Range(plan[a].ins) <=> a \in Range(plan[b].outs)

Closed(plan, S) == S \subseteq DOMAIN plan /\ \A a \in S : Range(plan[a].ins) \subseteq S

LEMMA PlanFacts ==
  ASSUME NEW plan, WellFormed(plan)
  PROVE  /\ DOMAIN plan = 1..Len(plan) /\ Len(plan) \in Nat
         /\ \A i \in DOMAIN plan :
              /\ i \in Nat
              /\ \A k \in Range(plan[i].ins) : k \in DOMAIN plan /\ k < i /\ k # i
              /\ \A k \in Range(plan[i].outs) : k \in DOMAIN plan /\ i < k /\ k # i
<1>1. DOMAIN plan = 1..Len(plan) /\ Len(plan) \in Nat
  BY RangeFacts DEF WellFormed
<1>2. ASSUME NEW i \in DOMAIN plan
      PROVE  /\ Range(plan[i].ins) \subseteq DOMAIN plan
             /\ Range(plan[i].outs) \subseteq DOMAIN plan
  <2>1. plan[i].ins \in Seq(DOMAIN plan) /\ plan[i].outs \in Seq(DOMAIN plan)
    BY DEF WellFormed, IsNode
  <2> QED
    BY <2>1, RangeFacts
<1>3. \A i, k \in DOMAIN plan : i \in Nat /\ (k < i \/ i < k => k # i)
  BY <1>1
<1> QED
  BY <1>1, <1>2, <1>3 DEF WellFormed, IsNode

(* Upstream of i: the least set with i that is closed under inputs.        *)
LEMMA UpstreamDef ==
  ASSUME NEW plan, WellFormed(plan), NEW i \in DOMAIN plan
  PROVE  Upstream(plan)[i] = {i} \cup UNION {Upstream(plan)[j] : j \in Range(plan[i].ins)}
<1> DEFINE D == DOMAIN plan
           n == Len(plan)
           Body(f, k) == {k} \cup UNION {f[j] : j \in Range(plan[k].ins)}
           up == CHOOSE f : f = [k \in D |-> Body(f, k)]
           Value == [k \in D |-> [f \in [D -> SUBSET D] |-> Body(f, k)]]
           rank == [k \in D |-> k]
<1>1. Upstream(plan) = up
  BY DEF Upstream
<1>2. /\ n \in Nat /\ rank \in [D -> 0..n]
      /\ \A k \in D : \A j \in Range(plan[k].ins) : j \in D /\ rank[j] < rank[k]
  BY PlanFacts
<1> HIDE DEF rank, n
<1>3. ASSUME NEW k \in D, NEW f \in [D -> SUBSET D] PROVE Body(f, k) \in SUBSET D
  <2>1. \A j \in Range(plan[k].ins) : f[j] \in SUBSET D
    BY <1>2
  <2> QED
    BY <2>1
<1>4. ASSUME NEW k \in D, NEW f \in [D -> SUBSET D], NEW g \in [D -> SUBSET D],
             \A j \in D : rank[j] < rank[k] => f[j] = g[j]
      PROVE  Body(f, k) = Body(g, k)
  <2>1. \A j \in Range(plan[k].ins) : f[j] = g[j]
    BY <1>2, <1>4
  <2> QED
    BY <2>1
<1>5. Recursion(D, SUBSET D, n, rank, Value)
  <2> HIDE DEF Body
  <2>1. \A k \in D : \A f \in [D -> SUBSET D] : Value[k][f] = Body(f, k)
    OBVIOUS
  <2>2. Value \in [D -> [[D -> SUBSET D] -> SUBSET D]]
    BY <1>3
  <2>3. \A k \in D : \A f, g \in [D -> SUBSET D] :
          (\A j \in D : rank[j] < rank[k] => f[j] = g[j]) => Value[k][f] = Value[k][g]
    <3> HIDE DEF Value
    <3> QED
      BY <1>4, <2>1
  <2> HIDE DEF Value, D
  <2> QED
    BY <1>2, <2>2, <2>3 DEF Recursion
<1>6. \E f : f = [k \in D |-> Body(f, k)]
  <2> HIDE DEF D
  <2>1. PICK f \in [D -> SUBSET D] : \A k \in D : f[k] = Value[k][f]
    <3> HIDE DEF Value
    <3> QED
      BY <1>5, FunctionExists
  <2> HIDE DEF Body
  <2>2. f = [k \in D |-> Body(f, k)]
    BY <2>1
  <2> QED
    BY <2>2
<1>7. up = [k \in D |-> Body(up, k)]
  <2> HIDE DEF Body
  <2> QED
    BY <1>6
<1> HIDE DEF up
<1>8. up[i] = Body(up, i)
  <2> HIDE DEF Body
  <2> QED
    BY <1>7
<1> QED
  BY <1>1, <1>8

LEMMA UpstreamFacts ==
  ASSUME NEW plan, WellFormed(plan), NEW i \in DOMAIN plan
  PROVE  /\ i \in Upstream(plan)[i]
         /\ Closed(plan, Upstream(plan)[i])
         /\ \A S : i \in S /\ Closed(plan, S) => Upstream(plan)[i] \subseteq S
<1> DEFINE n == Len(plan)
           up == Upstream(plan)
<1>1. \A k \in DOMAIN plan : up[k] = {k} \cup UNION {up[j] : j \in Range(plan[k].ins)}
  BY UpstreamDef
<1>2. /\ DOMAIN plan = 1..n /\ n \in Nat
      /\ \A k \in DOMAIN plan : \A j \in Range(plan[k].ins) : j \in DOMAIN plan /\ j \in 1..(k-1)
  BY PlanFacts
<1> HIDE DEF n, up
<1>3. \A k \in DOMAIN plan : k \in up[k]
  BY <1>1
<1>4. \A k \in DOMAIN plan : Closed(plan, up[k])
  <2> DEFINE Good == {k \in DOMAIN plan : Closed(plan, up[k])}
  <2>1. ASSUME NEW k \in 1..n, \A j \in 1..(k-1) : j \in Good PROVE k \in Good
    <3>1. \A j \in Range(plan[k].ins) : Closed(plan, up[j]) /\ up[j] \subseteq up[k]
      <4>1. k \in DOMAIN plan /\ \A j \in Range(plan[k].ins) : j \in Good
        BY <1>2, <2>1
      <4>2. \A j \in Range(plan[k].ins) : up[j] \subseteq up[k]
        BY <1>1, <4>1
      <4> QED
        BY <4>1, <4>2
    <3>2. up[k] \subseteq DOMAIN plan
      BY <1>1, <1>2, <3>1 DEF Closed
    <3>3. ASSUME NEW a \in up[k] PROVE Range(plan[a].ins) \subseteq up[k]
      <4>1. CASE a = k
        BY <1>2, <1>3, <3>1, <4>1
      <4>2. CASE a # k
        <5>1. PICK j \in Range(plan[k].ins) : a \in up[j]
          BY <1>1, <1>2, <3>3, <4>2
        <5> QED
          BY <3>1, <5>1 DEF Closed
      <4> QED
        BY <4>1, <4>2
    <3> QED
      BY <1>2, <3>2, <3>3 DEF Closed
  <2> HIDE DEF Good
  <2>2. \A k \in 1..n : k \in Good
    BY <1>2, <2>1, Upwards
  <2> QED
    BY <1>2, <2>2 DEF Good
<1>5. ASSUME NEW S, Closed(plan, S) PROVE \A k \in DOMAIN plan : k \in S => up[k] \subseteq S
  <2> DEFINE Good == {k \in DOMAIN plan : k \in S => up[k] \subseteq S}
  <2>1. ASSUME NEW k \in 1..n, \A j \in 1..(k-1) : j \in Good PROVE k \in Good
    <3>1. k \in S => \A j \in Range(plan[k].ins) : up[j] \subseteq S
      BY <1>2, <1>5, <2>1 DEF Closed
    <3> QED
      BY <1>1, <1>2, <3>1
  <2> HIDE DEF Good
  <2>2. \A k \in 1..n : k \in Good
    BY <1>2, <2>1, Upwards
  <2> QED
    BY <1>2, <2>2 DEF Good
<1> QED
  BY <1>3, <1>4, <1>5 DEF up
-----------------------------------------------------------------------------
(* What the walks over the graph find.                                     *)
LEMMA FlattenedValues ==
  ASSUME NEW T, NEW D, NEW seq \in Seq(D), NEW f, \A j \in Range(seq) : f[j] \in Seq(T)
  PROVE  LET s == FlattenSeq([k \in DOMAIN seq |-> f[seq[k]]])
         IN  s \in Seq(T) /\ Range(s) = UNION {Range(f[j]) : j \in Range(seq)}
<1> DEFINE n == Len(seq)
           seqs == [k \in DOMAIN seq |-> f[seq[k]]]
<1>1. n \in Nat /\ DOMAIN seq = 1..n /\ \A k \in 1..n : seq[k] \in Range(seq)
  BY RangeFacts DEF Range
<1> HIDE DEF n
<1>2. seqs \in [1..n -> Seq(T)]
  BY <1>1
<1>3. DOMAIN seqs = DOMAIN seq /\ \A k \in DOMAIN seq : seqs[k] = f[seq[k]]
  OBVIOUS
<1> HIDE DEF seqs
<1>4. seqs \in Seq(Seq(T))
  BY <1>1, <1>2
<1>5. /\ FlattenSeq(seqs) \in Seq(T)
      /\ Range(FlattenSeq(seqs)) = UNION {Range(seqs[i]) : i \in DOMAIN seqs}
  BY <1>4, FlattenFacts
<1>6. UNION {Range(seqs[i]) : i \in DOMAIN seqs} = UNION {Range(f[j]) : j \in Range(seq)}
  <2>1. \A k \in DOMAIN seq : seqs[k] = f[seq[k]] /\ seq[k] \in Range(seq)
    BY <1>1, <1>3
  <2>2. \A j \in Range(seq) : \E k \in DOMAIN seq : f[j] = seqs[k]
    BY <1>3 DEF Range
  <2> QED
    BY <1>3, <2>1, <2>2
<1> QED
  BY <1>5, <1>6 DEF seqs

LEMMA SourcesBelowDef ==
  ASSUME NEW plan, WellFormed(plan), NEW i \in DOMAIN plan
  PROVE  SourcesBelow(plan)[i] =
           IF plan[i].kind = "source" THEN <<i>>
           ELSE FlattenSeq([m \in DOMAIN plan[i].ins |-> SourcesBelow(plan)[plan[i].ins[m]]])
<1> DEFINE D == DOMAIN plan
           V == Seq(D)
           n == Len(plan)
           Body(f, k) == IF plan[k].kind = "source" THEN <<k>>
                         ELSE FlattenSeq([m \in DOMAIN plan[k].ins |-> f[plan[k].ins[m]]])
           s == CHOOSE f : f = [k \in D |-> Body(f, k)]
           Value == [k \in D |-> [f \in [D -> V] |-> Body(f, k)]]
           rank == [k \in D |-> k]
<1>1. SourcesBelow(plan) = s
  BY DEF SourcesBelow
<1>2. /\ n \in Nat /\ rank \in [D -> 0..n] /\ V # {}
      /\ \A k \in D : \A j \in Range(plan[k].ins) : j \in D /\ rank[j] < rank[k]
  <2>1. << >> \in V
    OBVIOUS
  <2> HIDE DEF V
  <2>2. V # {}
    BY <2>1
  <2>3. n \in Nat /\ rank \in [D -> 0..n]
    BY PlanFacts
  <2>4. \A k \in D : \A j \in Range(plan[k].ins) : j \in D /\ rank[j] < rank[k]
    BY PlanFacts
  <2> QED
    BY <2>2, <2>3, <2>4
<1> HIDE DEF rank, n
<1>3. ASSUME NEW k \in D, NEW f \in [D -> V] PROVE Body(f, k) \in V
  <2>1. plan[k].ins \in Seq(D) /\ \A j \in Range(plan[k].ins) : f[j] \in Seq(D)
    BY <1>2 DEF WellFormed, IsNode
  <2>2. FlattenSeq([m \in DOMAIN plan[k].ins |-> f[plan[k].ins[m]]]) \in Seq(D)
    <3> DEFINE ins == plan[k].ins
    <3>1. ins \in Seq(D) /\ \A j \in Range(ins) : f[j] \in Seq(D)
      BY <2>1
    <3> HIDE DEF ins, D
    <3>2. FlattenSeq([m \in DOMAIN ins |-> f[ins[m]]]) \in Seq(D)
      BY <3>1, FlattenedValues
    <3> QED
      BY <3>2 DEF ins
  <2>3. <<k>> \in Seq(D)
    OBVIOUS
  <2> QED
    BY <2>2, <2>3
<1>4. ASSUME NEW k \in D, NEW f \in [D -> V], NEW g \in [D -> V],
             \A j \in D : rank[j] < rank[k] => f[j] = g[j]
      PROVE  Body(f, k) = Body(g, k)
  <2>1. \A m \in DOMAIN plan[k].ins : f[plan[k].ins[m]] = g[plan[k].ins[m]]
    BY <1>2, <1>4 DEF Range
  <2>2. [m \in DOMAIN plan[k].ins |-> f[plan[k].ins[m]]]
          = [m \in DOMAIN plan[k].ins |-> g[plan[k].ins[m]]]
    BY <2>1
  <2> QED
    BY <2>2
<1> HIDE DEF V
<1>5. Recursion(D, V, n, rank, Value)
  <2> HIDE DEF Body
  <2>1. \A k \in D : \A f \in [D -> V] : Value[k][f] = Body(f, k)
    OBVIOUS
  <2>2. Value \in [D -> [[D -> V] -> V]]
    BY <1>3
  <2>3. \A k \in D : \A f, g \in [D -> V] :
          (\A j \in D : rank[j] < rank[k] => f[j] = g[j]) => Value[k][f] = Value[k][g]
    <3> HIDE DEF Value
    <3> QED
      BY <1>4, <2>1
  <2> HIDE DEF Value, D
  <2> QED
    BY <1>2, <2>2, <2>3 DEF Recursion
<1>6. \E f : f = [k \in D |-> Body(f, k)]
  <2> HIDE DEF D
  <2>1. PICK f \in [D -> V] : \A k \in D : f[k] = Value[k][f]
    <3> HIDE DEF Value
    <3> QED
      BY <1>5, FunctionExists
  <2> HIDE DEF Body
  <2>2. f = [k \in D |-> Body(f, k)]
    BY <2>1
  <2> QED
    BY <2>2
<1>7. s = [k \in D |-> Body(s, k)]
  <2> HIDE DEF Body
  <2> QED
    BY <1>6
<1> HIDE DEF s
<1>8. s[i] = Body(s, i)
  <2> HIDE DEF Body
  <2> QED
    BY <1>7
<1> QED
  BY <1>1, <1>8

LEMMA SourcesBelowFacts ==
  ASSUME NEW plan, WellFormed(plan), NEW i \in DOMAIN plan
  PROVE  /\ SourcesBelow(plan)[i] \in Seq(DOMAIN plan)
         /\ Range(SourcesBelow(plan)[i]) = {k \in Upstream(plan)[i] : plan[k].kind = "source"}
<1> DEFINE n == Len(plan)
           s == SourcesBelow(plan)
           Found(k) == {a \in Upstream(plan)[k] : plan[a].kind = "source"}
           Good == {k \in DOMAIN plan : s[k] \in Seq(DOMAIN plan) /\ Range(s[k]) = Found(k)}
<1>1. \A k \in DOMAIN plan :
        s[k] = IF plan[k].kind = "source" THEN <<k>>
               ELSE FlattenSeq([m \in DOMAIN plan[k].ins |-> s[plan[k].ins[m]]])
  BY SourcesBelowDef
<1>2. /\ DOMAIN plan = 1..n /\ n \in Nat
      /\ \A k \in DOMAIN plan : \A j \in Range(plan[k].ins) : j \in DOMAIN plan /\ j \in 1..(k-1)
  BY PlanFacts
<1> HIDE DEF n, s
<1>3. ASSUME NEW k \in 1..n, \A j \in 1..(k-1) : j \in Good PROVE k \in Good
  <2>1. k \in DOMAIN plan /\ IsNode(plan, k)
    BY <1>2 DEF WellFormed
  <2>2. Upstream(plan)[k] = {k} \cup UNION {Upstream(plan)[j] : j \in Range(plan[k].ins)}
    BY <2>1, UpstreamDef
  <2>3. CASE plan[k].kind = "source"
    <3>1. s[k] = <<k>> /\ Range(plan[k].ins) = {}
      <4>1. plan[k].ins = << >>
        BY <2>1, <2>3 DEF IsNode
      <4>2. Range(<< >>) = {}
        BY DEF Range
      <4> QED
        BY <1>1, <2>1, <2>3, <4>1, <4>2
    <3>2. Found(k) = {k}
      BY <2>2, <2>3, <3>1
    <3>3. <<k>> \in Seq(DOMAIN plan) /\ Range(<<k>>) = {k}
      BY <2>1 DEF Range
    <3> QED
      BY <2>1, <3>1, <3>2, <3>3
  <2>4. CASE plan[k].kind # "source"
    <3> DEFINE ins == plan[k].ins
    <3>1. s[k] = FlattenSeq([m \in DOMAIN ins |-> s[ins[m]]])
      BY <1>1, <2>1, <2>4
    <3>2. ins \in Seq(DOMAIN plan)
      BY <2>1 DEF IsNode
    <3>3. \A j \in Range(ins) : s[j] \in Seq(DOMAIN plan) /\ Range(s[j]) = Found(j)
      <4>1. \A j \in Range(ins) : j \in Good
        BY <1>2, <1>3, <2>1
      <4> QED
        BY <4>1
    <3>4. Found(k) = UNION {Found(j) : j \in Range(ins)}
      BY <2>2, <2>4
    <3> HIDE DEF ins, Found
    <3>5. s[k] \in Seq(DOMAIN plan) /\ Range(s[k]) = UNION {Range(s[j]) : j \in Range(ins)}
      <4> DEFINE D == DOMAIN plan
      <4>1. ins \in Seq(D) /\ \A j \in Range(ins) : s[j] \in Seq(D)
        BY <3>2, <3>3
      <4> HIDE DEF D
      <4>2. LET t == FlattenSeq([m \in DOMAIN ins |-> s[ins[m]]])
            IN  t \in Seq(D) /\ Range(t) = UNION {Range(s[j]) : j \in Range(ins)}
        BY <4>1, FlattenedValues, SMTT(30)
      <4> QED
        BY <3>1, <4>2 DEF D
    <3>6. UNION {Range(s[j]) : j \in Range(ins)} = UNION {Found(j) : j \in Range(ins)}
      BY <3>3
    <3> QED
      BY <2>1, <3>4, <3>5, <3>6
  <2> QED
    BY <2>3, <2>4
<1>4. i \in Good
  <2> HIDE DEF Good
  <2>1. \A k \in 1..n : k \in Good
    BY <1>2, <1>3, Upwards
  <2> QED
    BY <1>2, <2>1
<1> QED
  BY <1>4 DEF s
LEMMA UpstreamIsOlder ==
  ASSUME NEW plan, WellFormed(plan), NEW i \in DOMAIN plan, NEW a \in Upstream(plan)[i]
  PROVE  a \in DOMAIN plan /\ a <= i
<1> DEFINE Older == {k \in DOMAIN plan : k <= i}
<1>1. \A k \in DOMAIN plan : k \in Nat /\ k <= k
  BY PlanFacts
<1>2. ASSUME NEW k \in Older, NEW j \in Range(plan[k].ins) PROVE j \in Older
  <2>1. j \in DOMAIN plan /\ j < k /\ k <= i
    BY <1>2, PlanFacts
  <2>2. j \in Nat /\ k \in Nat /\ i \in Nat
    BY <1>1, <2>1
  <2>3. j <= i
    BY <2>1, <2>2
  <2> QED
    BY <2>1, <2>3
<1>3. i \in Older /\ Closed(plan, Older)
  BY <1>1, <1>2 DEF Closed
<1>4. Upstream(plan)[i] \subseteq Older
  <2> HIDE DEF Older
  <2> QED
    BY <1>3, UpstreamFacts
<1> QED
  BY <1>4

LEMMA LeastIsMember ==
  ASSUME NEW S \in SUBSET Nat, S # {}
  PROVE  Min(S) \in S
<1>1. \E n \in S : \A m \in S : n <= m
  BY LeastNumber
<1> QED
  BY <1>1 DEF Min

(* The inputs of i that have such a source in their subtree.               *)
Finding(plan, sorts, i) ==
  {k \in DOMAIN plan[i].ins : FirstSource(plan, sorts)[plan[i].ins[k]] # 0}

LEMMA FirstSourceDef ==
  ASSUME NEW plan, WellFormed(plan), NEW sorts, NEW i \in DOMAIN plan
  PROVE  FirstSource(plan, sorts)[i] =
           IF plan[i].kind = "source"
             THEN IF plan[i].entity.sort \in sorts THEN i ELSE 0
             ELSE IF Finding(plan, sorts, i) = {} THEN 0
                  ELSE FirstSource(plan, sorts)[plan[i].ins[Min(Finding(plan, sorts, i))]]
<1> DEFINE D == DOMAIN plan
           V == D \cup {0}
           n == Len(plan)
           Found(f, k) == {m \in DOMAIN plan[k].ins : f[plan[k].ins[m]] # 0}
           Body(f, k) == IF plan[k].kind = "source"
                           THEN IF plan[k].entity.sort \in sorts THEN k ELSE 0
                           ELSE IF Found(f, k) = {} THEN 0 ELSE f[plan[k].ins[Min(Found(f, k))]]
           first == CHOOSE f : f = [k \in D |-> Body(f, k)]
           Value == [k \in D |-> [f \in [D -> V] |-> Body(f, k)]]
           rank == [k \in D |-> k]
<1>1. FirstSource(plan, sorts) = first
  BY DEF FirstSource
<1>2. /\ n \in Nat /\ rank \in [D -> 0..n] /\ V # {}
      /\ \A k \in D : \A j \in Range(plan[k].ins) : j \in D /\ rank[j] < rank[k]
  <2>1. n \in Nat /\ rank \in [D -> 0..n]
    BY PlanFacts
  <2>2. \A k \in D : \A j \in Range(plan[k].ins) : j \in D /\ rank[j] < rank[k]
    BY PlanFacts
  <2> QED
    BY <2>1, <2>2
<1> HIDE DEF rank, n
<1>3. ASSUME NEW k \in D, NEW f \in [D -> V] PROVE Body(f, k) \in V
  <2>1. ASSUME Found(f, k) # {} PROVE f[plan[k].ins[Min(Found(f, k))]] \in V
    <3>1. plan[k].ins \in Seq(D)
      BY DEF WellFormed, IsNode
    <3>2. DOMAIN plan[k].ins \subseteq Nat
      <4> DEFINE ins == plan[k].ins
      <4>1. DOMAIN ins = 1..Len(ins) /\ Len(ins) \in Nat
        BY <3>1, RangeFacts
      <4> QED
        BY <4>1
    <3>3. Found(f, k) \in SUBSET Nat
      BY <3>2
    <3>4. Min(Found(f, k)) \in Found(f, k)
      <4> HIDE DEF Found
      <4> QED
        BY <2>1, <3>3, LeastIsMember
    <3>5. plan[k].ins[Min(Found(f, k))] \in Range(plan[k].ins)
      BY <3>4 DEF Range
    <3> HIDE DEF Found
    <3> QED
      BY <1>2, <3>5
  <2> HIDE DEF Found
  <2> QED
    BY <2>1
<1>4. ASSUME NEW k \in D, NEW f \in [D -> V], NEW g \in [D -> V],
             \A j \in D : rank[j] < rank[k] => f[j] = g[j]
      PROVE  Body(f, k) = Body(g, k)
  <2>1. \A m \in DOMAIN plan[k].ins : f[plan[k].ins[m]] = g[plan[k].ins[m]]
    BY <1>2, <1>4 DEF Range
  <2>2. Found(f, k) = Found(g, k)
    BY <2>1
  <2>3. ASSUME Found(f, k) # {} PROVE Min(Found(f, k)) \in DOMAIN plan[k].ins
    <3>1. plan[k].ins \in Seq(D)
      BY DEF WellFormed, IsNode
    <3>2. DOMAIN plan[k].ins \subseteq Nat
      <4> DEFINE ins == plan[k].ins
      <4>1. DOMAIN ins = 1..Len(ins) /\ Len(ins) \in Nat
        BY <3>1, RangeFacts
      <4> QED
        BY <4>1
    <3>3. Found(f, k) \in SUBSET Nat
      BY <3>2
    <3>4. Min(Found(f, k)) \in Found(f, k)
      <4> HIDE DEF Found
      <4> QED
        BY <2>3, <3>3, LeastIsMember
    <3> QED
      BY <3>4
  <2> HIDE DEF Found
  <2> QED
    BY <2>1, <2>2, <2>3
<1> HIDE DEF V
<1>5. Recursion(D, V, n, rank, Value)
  <2> HIDE DEF Body
  <2>1. \A k \in D : \A f \in [D -> V] : Value[k][f] = Body(f, k)
    OBVIOUS
  <2>2. Value \in [D -> [[D -> V] -> V]]
    BY <1>3
  <2>3. \A k \in D : \A f, g \in [D -> V] :
          (\A j \in D : rank[j] < rank[k] => f[j] = g[j]) => Value[k][f] = Value[k][g]
    <3> HIDE DEF Value
    <3> QED
      BY <1>4, <2>1
  <2> HIDE DEF Value, D
  <2> QED
    BY <1>2, <2>2, <2>3 DEF Recursion
<1>6. \E f : f = [k \in D |-> Body(f, k)]
  <2> HIDE DEF D
  <2>1. PICK f \in [D -> V] : \A k \in D : f[k] = Value[k][f]
    <3> HIDE DEF Value
    <3> QED
      BY <1>5, FunctionExists
  <2> HIDE DEF Body
  <2>2. f = [k \in D |-> Body(f, k)]
    BY <2>1
  <2> QED
    BY <2>2
<1>7. first = [k \in D |-> Body(first, k)]
  <2> HIDE DEF Body
  <2> QED
    BY <1>6
<1> HIDE DEF first
<1>8. first[i] = Body(first, i)
  <2> HIDE DEF Body
  <2> QED
    BY <1>7
<1>9. Found(first, i) = Finding(plan, sorts, i)
  BY <1>1 DEF Finding
<1> HIDE DEF Found
<1> QED
  BY <1>1, <1>8, <1>9

LEMMA FirstSourceFacts ==
  ASSUME NEW plan, WellFormed(plan), NEW sorts, NEW i \in DOMAIN plan
  PROVE  LET s == FirstSource(plan, sorts)[i]
         IN  s # 0 => s \in Upstream(plan)[i] /\ plan[s].kind = "source"
<1> DEFINE n == Len(plan)
           first == FirstSource(plan, sorts)
           up == Upstream(plan)
           Good == {k \in DOMAIN plan :
                      first[k] # 0 => first[k] \in up[k] /\ plan[first[k]].kind = "source"}
           Found(k) == Finding(plan, sorts, k)
<1>1. \A k \in DOMAIN plan :
        first[k] = IF plan[k].kind = "source"
                     THEN IF plan[k].entity.sort \in sorts THEN k ELSE 0
                     ELSE IF Found(k) = {} THEN 0 ELSE first[plan[k].ins[Min(Found(k))]]
  BY FirstSourceDef
<1>2. /\ DOMAIN plan = 1..n /\ n \in Nat
      /\ \A k \in DOMAIN plan : \A j \in Range(plan[k].ins) : j \in DOMAIN plan /\ j \in 1..(k-1)
  BY PlanFacts
<1>3. \A k \in DOMAIN plan : up[k] = {k} \cup UNION {up[j] : j \in Range(plan[k].ins)}
  BY UpstreamDef
<1> HIDE DEF n, first, up
<1>4. ASSUME NEW k \in 1..n, \A j \in 1..(k-1) : j \in Good PROVE k \in Good
  <2>1. k \in DOMAIN plan /\ k \in up[k] /\ IsNode(plan, k)
    BY <1>2, <1>3 DEF WellFormed
  <2>2. CASE plan[k].kind = "source" \/ Found(k) = {}
    BY <1>1, <2>1, <2>2
  <2>3. CASE plan[k].kind # "source" /\ Found(k) # {}
    <3> DEFINE j == plan[k].ins[Min(Found(k))]
    <3>1. first[k] = first[j]
      BY <1>1, <2>1, <2>3
    <3>2. Min(Found(k)) \in Found(k)
      <4> DEFINE ins == plan[k].ins
      <4>1. ins \in Seq(DOMAIN plan)
        BY <2>1 DEF IsNode
      <4>2. DOMAIN ins = 1..Len(ins) /\ Len(ins) \in Nat
        BY <4>1, RangeFacts
      <4>3. Found(k) \in SUBSET Nat
        BY <4>2 DEF Finding
      <4> HIDE DEF Found
      <4> QED
        BY <2>3, <4>3, LeastIsMember
    <3>3. j \in Range(plan[k].ins)
      BY <3>2 DEF Range, Finding
    <3> HIDE DEF j
    <3>4. j \in Good
      <4> HIDE DEF Good
      <4> QED
        BY <1>2, <1>4, <2>1, <3>3
    <3>5. up[j] \subseteq up[k]
      BY <1>3, <2>1, <3>3
    <3> QED
      BY <2>1, <3>1, <3>4, <3>5
  <2> HIDE DEF Good, Found
  <2> QED
    BY <2>2, <2>3
<1>5. i \in Good
  <2> HIDE DEF Good
  <2>1. \A k \in 1..n : k \in Good
    BY <1>2, <1>4, Upwards
  <2> QED
    BY <1>2, <2>1
<1> QED
  BY <1>5 DEF first, up
LEMMA AllOperatorsFacts ==
  ASSUME NEW plan, WellFormed(plan), NEW roots \in Seq(DOMAIN plan)
  PROVE  AllOperators(plan, roots) \in Seq(DOMAIN plan)
<1> DEFINE D == DOMAIN plan
           V == Seq(D)
           n == Len(plan)
           Body(f, k) == <<k>> \o FlattenSeq([m \in DOMAIN plan[k].outs |-> f[plan[k].outs[m]]])
           visit == CHOOSE f : f = [k \in D |-> Body(f, k)]
           Value == [k \in D |-> [f \in [D -> V] |-> Body(f, k)]]
           rank == [k \in D |-> n - k]
<1>1. AllOperators(plan, roots)
        = Distinct(FlattenSeq([k \in DOMAIN roots |-> visit[roots[k]]]))
  BY DEF AllOperators
<1>2. /\ n \in Nat /\ rank \in [D -> 0..n] /\ V # {} /\ D = 1..n
      /\ \A k \in D : \A j \in Range(plan[k].outs) : j \in D /\ k < j /\ rank[j] < rank[k]
  <2>1. << >> \in V
    OBVIOUS
  <2> HIDE DEF V
  <2>2. V # {}
    BY <2>1
  <2>3. n \in Nat /\ D = 1..n
    BY PlanFacts
  <2>4. rank \in [D -> 0..n]
    BY <2>3
  <2>5. \A k \in D : \A j \in Range(plan[k].outs) : j \in D /\ k < j
    BY PlanFacts
  <2>6. \A k, j \in D : k < j => rank[j] < rank[k]
    BY <2>3
  <2> QED
    BY <2>2, <2>3, <2>4, <2>5, <2>6
<1> HIDE DEF rank, n
<1>3. ASSUME NEW k \in D, NEW f, \A j \in Range(plan[k].outs) : f[j] \in Seq(D)
      PROVE  Body(f, k) \in V
  <2> DEFINE outs == plan[k].outs
             rest == FlattenSeq([m \in DOMAIN outs |-> f[outs[m]]])
  <2>1. outs \in Seq(D) /\ \A j \in Range(outs) : f[j] \in Seq(D)
    BY <1>3 DEF WellFormed, IsNode
  <2>2. rest \in Seq(D)
    <3> HIDE DEF outs, D
    <3> QED
      BY <2>1, FlattenedValues
  <2>3. <<k>> \in Seq(D)
    OBVIOUS
  <2>4. <<k>> \o rest \in Seq(D)
    <3> HIDE DEF rest, D
    <3> QED
      BY <2>2, <2>3, ConcatFacts
  <2> QED
    BY <2>4
<1>4. ASSUME NEW k \in D, NEW f \in [D -> V], NEW g \in [D -> V],
             \A j \in D : rank[j] < rank[k] => f[j] = g[j]
      PROVE  Body(f, k) = Body(g, k)
  <2>1. \A m \in DOMAIN plan[k].outs : f[plan[k].outs[m]] = g[plan[k].outs[m]]
    BY <1>2, <1>4 DEF Range
  <2>2. [m \in DOMAIN plan[k].outs |-> f[plan[k].outs[m]]]
          = [m \in DOMAIN plan[k].outs |-> g[plan[k].outs[m]]]
    BY <2>1
  <2> QED
    BY <2>2
<1>5. \A k \in D : \A f \in [D -> V] : Body(f, k) \in V
  <2> TAKE k \in D
  <2> TAKE f \in [D -> V]
  <2>1. \A j \in Range(plan[k].outs) : f[j] \in Seq(D)
    BY <1>2
  <2> HIDE DEF Body
  <2> QED
    BY <1>3, <2>1
<1>6. Recursion(D, V, n, rank, Value)
  <2> HIDE DEF Body, V
  <2>1. \A k \in D : \A f \in [D -> V] : Value[k][f] = Body(f, k)
    OBVIOUS
  <2>2. Value \in [D -> [[D -> V] -> V]]
    BY <1>5
  <2>3. \A k \in D : \A f, g \in [D -> V] :
          (\A j \in D : rank[j] < rank[k] => f[j] = g[j]) => Value[k][f] = Value[k][g]
    <3> HIDE DEF Value
    <3> QED
      BY <1>4, <2>1
  <2> HIDE DEF Value, D
  <2> QED
    BY <1>2, <2>2, <2>3 DEF Recursion
<1>7. \E f : f = [k \in D |-> Body(f, k)]
  <2> HIDE DEF D, V
  <2>1. PICK f \in [D -> V] : \A k \in D : f[k] = Value[k][f]
    <3> HIDE DEF Value
    <3> QED
      BY <1>6, FunctionExists
  <2> HIDE DEF Body
  <2>2. f = [k \in D |-> Body(f, k)]
    BY <2>1
  <2> QED
    BY <2>2
<1>8. visit = [k \in D |-> Body(visit, k)]
  <2> HIDE DEF Body
  <2> QED
    BY <1>7
<1> HIDE DEF visit
<1>9. \A k \in D : visit[k] = Body(visit, k)
  <2> HIDE DEF Body
  <2> QED
    BY <1>8
<1>10. \A k \in D : visit[k] \in V
  <2> DEFINE Good == {m \in 1..n : visit[n + 1 - m] \in V}
  <2> HIDE DEF Body, V
  <2>1. ASSUME NEW m \in 1..n, \A l \in 1..(m-1) : l \in Good PROVE m \in Good
    <3>1. n + 1 - m \in D
      BY <1>2
    <3>2. ASSUME NEW j \in Range(plan[n + 1 - m].outs) PROVE visit[j] \in Seq(D)
      <4>1. j \in 1..n /\ n + 1 - m < j
        BY <1>2, <3>1
      <4>2. n + 1 - j \in 1..(m-1) /\ n + 1 - (n + 1 - j) = j
        BY <1>2, <4>1
      <4>3. n + 1 - j \in Good
        <5> HIDE DEF Good
        <5> QED
          BY <2>1, <4>2
      <4> QED
        BY <4>2, <4>3 DEF V
    <3>3. visit[n + 1 - m] \in V
      BY <1>3, <1>9, <3>1, <3>2
    <3> QED
      BY <3>3
  <2>2. \A m \in 1..n : m \in Good
    <3> HIDE DEF Good
    <3> QED
      BY <1>2, <2>1, Upwards
  <2>3. \A k \in 1..n : n + 1 - k \in 1..n /\ n + 1 - (n + 1 - k) = k
    BY <1>2
  <2> QED
    BY <1>2, <2>2, <2>3
<1>11. FlattenSeq([k \in DOMAIN roots |-> visit[roots[k]]]) \in Seq(D)
  <2>1. roots \in Seq(D) /\ \A j \in Range(roots) : visit[j] \in Seq(D)
    BY <1>10, RangeFacts
  <2> HIDE DEF D
  <2> QED
    BY <2>1, FlattenedValues
<1> DEFINE walked == FlattenSeq([k \in DOMAIN roots |-> visit[roots[k]]])
<1>12. Distinct(walked) \in Seq(D)
  <2> HIDE DEF walked, D
  <2> QED
    BY <1>11, DistinctFacts DEF walked
<1> QED
  BY <1>1, <1>12
-----------------------------------------------------------------------------
(* What redirecting the outputs of an operator does to the edges.          *)
LEMMA SeqOfFunction ==
  ASSUME NEW n \in Nat, NEW f, f = [k \in 1..n |-> f[k]]
  PROVE  f \in Seq(Range(f)) /\ Len(f) = n
<1> DEFINE T == Range(f)
<1>1. DOMAIN f = 1..n /\ \A k \in 1..n : f[k] \in T
  BY DEF Range
<1> HIDE DEF T
<1>2. f \in [1..n -> T]
  BY <1>1
<1>3. f \in Seq(T) /\ Len(f) = n
  BY <1>2
<1> QED
  BY <1>3 DEF T

LEMMA ReplacedFacts ==
  ASSUME NEW T, NEW ins \in Seq(T), NEW i, NEW j \in T
  PROVE  /\ Replaced(ins, i, j) \in Seq(T) /\ Len(Replaced(ins, i, j)) = Len(ins)
         /\ Range(Replaced(ins, i, j)) = IF i \in Range(ins) THEN (Range(ins) \ {i}) \cup {j}
                                         ELSE Range(ins)
<1> DEFINE n == Len(ins)
           new == Replaced(ins, i, j)
<1>1. n \in Nat /\ DOMAIN ins = 1..n /\ \A k \in 1..n : ins[k] \in T
  OBVIOUS
<1>2. new = [k \in 1..n |-> IF ins[k] = i THEN j ELSE ins[k]]
  BY <1>1 DEF Replaced
<1> HIDE DEF n, new
<1>3. new \in [1..n -> T]
  BY <1>1, <1>2
<1>4. new \in Seq(T) /\ Len(new) = n
  BY <1>1, <1>3
<1>5. Range(new) = IF i \in Range(ins) THEN (Range(ins) \ {i}) \cup {j} ELSE Range(ins)
  BY <1>1, <1>2 DEF Range
<1> QED
  BY <1>4, <1>5 DEF n, new

(* The edges of plan and of new, which reads j where plan reads i.         *)
Redirected(plan, new, i, j) ==
  /\ WellFormed(new) /\ DOMAIN new = DOMAIN plan
  /\ \A k \in DOMAIN plan : new[k].kind = plan[k].kind
  /\ Range(new[i].ins) = {} /\ Range(new[i].outs) = {}
  /\ \A k \in DOMAIN plan \ {i} :
       Range(new[k].ins) = IF k \in Range(plan[i].outs) /\ i \in Range(plan[k].ins)
                             THEN (Range(plan[k].ins) \ {i}) \cup {j} ELSE Range(plan[k].ins)
  /\ \A k \in DOMAIN plan \ {i, j} : Range(new[k].outs) = Range(plan[k].outs)
  /\ \A k \in DOMAIN plan \ {i} :
       k \in Range(new[j].outs) <=> k \in Range(plan[j].outs) \cup Range(plan[i].outs)

LEMMA RedirectFacts ==
  ASSUME NEW plan, WellFormed(plan), NEW i \in DOMAIN plan, NEW j \in DOMAIN plan, j < i
  PROVE  Redirected(plan, Redirect(plan, i, j), i, j)
<1> DEFINE D == DOMAIN plan
           n == Len(plan)
           new == Redirect(plan, i, j)
<1>1. n \in Nat /\ D = 1..n /\ i \in Nat /\ j \in Nat /\ i # j
  BY PlanFacts
<1>2. \A k \in D : IsNode(plan, k)
  BY DEF WellFormed
<1>3. DOMAIN new = D /\ new = [k \in 1..n |-> new[k]]
  BY <1>1 DEF Redirect
<1>4. new \in Seq(Range(new))
  BY <1>1, <1>3, SeqOfFunction
<1>5. new[i] = [plan[i] EXCEPT !.ins = << >>, !.outs = << >>]
  BY <1>1 DEF Redirect
<1>6. new[j] = [plan[j] EXCEPT !.outs = Distinct(plan[j].outs \o plan[i].outs)]
  BY <1>1 DEF Redirect
<1>7. ASSUME NEW k \in D, k # i, k # j, k \in Range(plan[i].outs)
      PROVE  new[k] = [plan[k] EXCEPT !.ins = Replaced(plan[k].ins, i, j)]
  BY <1>1, <1>7 DEF Redirect
<1>8. ASSUME NEW k \in D, k # i, k # j, k \notin Range(plan[i].outs)
      PROVE  new[k] = plan[k]
  BY <1>1, <1>8 DEF Redirect
<1> HIDE DEF new, n
<1>9. Range(<< >>) = {} /\ << >> \in Seq(D) /\ Len(<< >>) = 0
  BY DEF Range
<1>10. /\ IsNode(new, i) /\ new[i].kind = plan[i].kind
       /\ Range(new[i].ins) = {} /\ Range(new[i].outs) = {}
  <2>1. IsOperator(new[i]) /\ new[i].kind = plan[i].kind /\ new[i].ins = << >> /\ new[i].outs = << >>
    BY <1>2, <1>5 DEF IsNode, IsOperator
  <2>2. Range(new[i].ins) = {} /\ Range(new[i].outs) = {}
    BY <1>9, <2>1
  <2>3. /\ new[i].ins \in Seq(DOMAIN new) /\ new[i].outs \in Seq(DOMAIN new)
        /\ Len(new[i].ins) <= 1
    <3>1. << >> \in Seq(DOMAIN new) /\ Len(<< >>) <= 1
      OBVIOUS
    <3> QED
      BY <2>1, <3>1, Zenon
  <2> QED
    BY <2>1, <2>2, <2>3 DEF IsNode
<1>11. j \notin Range(plan[i].outs)
  <2>1. j \in Range(plan[i].outs) => i < j
    BY PlanFacts
  <2> QED
    BY <1>1, <2>1
<1>12. /\ IsNode(new, j) /\ new[j].kind = plan[j].kind /\ new[j].ins = plan[j].ins
       /\ Range(new[j].outs) = Range(plan[j].outs) \cup Range(plan[i].outs)
  <2> DEFINE outs == plan[j].outs \o plan[i].outs
  <2>1. /\ IsOperator(new[j]) /\ new[j].kind = plan[j].kind /\ new[j].ins = plan[j].ins
        /\ new[j].outs = Distinct(outs)
    BY <1>2, <1>6 DEF IsNode, IsOperator
  <2>2. plan[j].outs \in Seq(D) /\ plan[i].outs \in Seq(D)
    BY <1>2 DEF IsNode
  <2>3. outs \in Seq(D) /\ Range(outs) = Range(plan[j].outs) \cup Range(plan[i].outs)
    BY <2>2, ConcatFacts
  <2> HIDE DEF outs
  <2>4. Distinct(outs) \in Seq(D) /\ Range(Distinct(outs)) = Range(outs)
    BY <2>3, DistinctFacts
  <2>5. \A k \in Range(plan[i].outs) : j < k
    <3>1. \A k \in Range(plan[i].outs) : i < k /\ k \in Nat
      BY <1>1, PlanFacts
    <3> QED
      BY <1>1, <3>1
  <2>6. /\ \A k \in Range(plan[j].outs) : j < k
        /\ \A k \in Range(plan[j].ins) : k < j
        /\ plan[j].ins \in Seq(D) /\ (plan[j].kind = "source" => plan[j].ins = << >>)
        /\ plan[j].kind = "select" => Len(plan[j].ins) <= 1
    BY <1>2 DEF IsNode
  <2> QED
    BY <1>3, <2>1, <2>3, <2>4, <2>5, <2>6 DEF IsNode
<1>13. ASSUME NEW k \in D, k # i, k # j
       PROVE  /\ IsNode(new, k) /\ new[k].kind = plan[k].kind /\ new[k].outs = plan[k].outs
              /\ Range(new[k].ins) = IF k \in Range(plan[i].outs) /\ i \in Range(plan[k].ins)
                                       THEN (Range(plan[k].ins) \ {i}) \cup {j}
                                       ELSE Range(plan[k].ins)
  <2>1. CASE k \in Range(plan[i].outs)
    <3> DEFINE ins == plan[k].ins
    <3>1. /\ IsOperator(new[k]) /\ new[k].kind = plan[k].kind /\ new[k].outs = plan[k].outs
          /\ new[k].ins = Replaced(ins, i, j)
      <4>1. IsOperator(plan[k])
        BY <1>2 DEF IsNode
      <4> DEFINE r == Replaced(ins, i, j)
      <4>2. new[k] = [plan[k] EXCEPT !.ins = r]
        BY <1>7, <1>13, <2>1
      <4> HIDE DEF r
      <4>3. /\ IsOperator(new[k]) /\ new[k].kind = plan[k].kind /\ new[k].outs = plan[k].outs
            /\ new[k].ins = r
        BY <4>1, <4>2 DEF IsOperator
      <4> QED
        BY <4>3 DEF r
    <3>2. /\ ins \in Seq(D) /\ (\A m \in Range(ins) : m < k)
          /\ plan[k].kind = "source" => ins = << >>
          /\ plan[k].kind = "select" => Len(ins) <= 1
          /\ plan[k].outs \in Seq(D) /\ \A m \in Range(plan[k].outs) : k < m
      BY <1>2 DEF IsNode
    <3> HIDE DEF ins
    <3>3. /\ Replaced(ins, i, j) \in Seq(D) /\ Len(Replaced(ins, i, j)) = Len(ins)
          /\ Range(Replaced(ins, i, j)) = IF i \in Range(ins) THEN (Range(ins) \ {i}) \cup {j}
                                          ELSE Range(ins)
      BY <3>2, ReplacedFacts
    <3>4. j < k
      <4>1. i < k /\ k \in Nat
        BY <1>1, <2>1, PlanFacts
      <4> QED
        BY <1>1, <4>1
    <3>5. \A m \in Range(Replaced(ins, i, j)) : m < k
      BY <3>2, <3>3, <3>4
    <3>6. ins = << >> => Replaced(ins, i, j) = << >>
      BY DEF Replaced
    <3>7. IsNode(new, k)
      BY <1>3, <3>1, <3>2, <3>3, <3>5, <3>6 DEF IsNode
    <3> QED
      BY <2>1, <3>1, <3>3, <3>7 DEF ins
  <2>2. CASE k \notin Range(plan[i].outs)
    BY <1>2, <1>3, <1>8, <1>13, <2>2 DEF IsNode
  <2> QED
    BY <2>1, <2>2
<1>14. WellFormed(new)
  BY <1>3, <1>4, <1>10, <1>12, <1>13 DEF WellFormed
<1> QED
  BY <1>3, <1>10, <1>11, <1>12, <1>13, <1>14 DEF Redirected, new
(* Only i leaves what c needs, and the edges of what stays agree, when j   *)
(* is needed wherever i is.                                                *)
LEMMA RedirectKeepsAgreement ==
  ASSUME NEW plan, WellFormed(plan), NEW i \in DOMAIN plan, NEW j \in DOMAIN plan, j < i,
         NEW new, Redirected(plan, new, i, j),
         NEW c \in DOMAIN plan, c # i,
         Agree(plan, Upstream(plan)[c]), i \in Upstream(plan)[c] => j \in Upstream(plan)[c]
  PROVE  /\ Upstream(new)[c] \subseteq Upstream(plan)[c] \ {i}
         /\ Agree(new, Upstream(new)[c])
<1> DEFINE N == Upstream(plan)[c]
           S == N \ {i}
<1>1. /\ WellFormed(new) /\ DOMAIN new = DOMAIN plan /\ i \in Nat /\ j \in Nat /\ i # j
  BY PlanFacts DEF Redirected
<1>2. c \in N /\ N \subseteq DOMAIN plan /\ \A a \in N : Range(plan[a].ins) \subseteq N
  BY UpstreamFacts DEF Closed
<1> HIDE DEF N
<1>3. \A a \in N : i \in Range(plan[a].ins) <=> a \in Range(plan[i].outs)
  BY DEF Agree, N
<1>4. \A a \in S : a \in DOMAIN plan \ {i}
  BY <1>2
<1>5. \A a \in S : Range(new[a].ins) = IF i \in Range(plan[a].ins)
                                         THEN (Range(plan[a].ins) \ {i}) \cup {j}
                                         ELSE Range(plan[a].ins)
  BY <1>3, <1>4 DEF Redirected
<1>6. \A a \in S : Range(new[a].ins) \subseteq S
  <2> TAKE a \in S
  <2>1. Range(plan[a].ins) \subseteq N
    BY <1>2
  <2>2. i \in Range(plan[a].ins) => j \in S
    BY <1>1, <2>1 DEF N
  <2> QED
    BY <1>5, <2>1, <2>2
<1>7. Upstream(new)[c] \subseteq S
  <2>1. Closed(new, S) /\ c \in S
    BY <1>1, <1>2, <1>6 DEF Closed
  <2> HIDE DEF S
  <2> QED
    BY <1>1, <2>1, UpstreamFacts
<1>8. ASSUME NEW a \in S, NEW b \in DOMAIN plan
      PROVE  b \in Range(new[a].ins) <=> a \in Range(new[b].outs)
  <2>1. a \in N /\ a \in DOMAIN plan \ {i}
    BY <1>4
  <2>2. b \in Range(plan[a].ins) <=> a \in Range(plan[b].outs)
    BY <2>1 DEF Agree, N
  <2>3. CASE b = i
    <3>1. i \notin Range(new[a].ins)
      BY <1>1, <1>5
    <3>2. Range(new[i].outs) = {}
      BY DEF Redirected
    <3> QED
      BY <2>3, <3>1, <3>2
  <2>4. CASE b = j
    <3>1. a \in Range(new[j].outs) <=> a \in Range(plan[j].outs) \cup Range(plan[i].outs)
      BY <2>1 DEF Redirected
    <3>2. j \in Range(new[a].ins) <=> j \in Range(plan[a].ins) \/ i \in Range(plan[a].ins)
      BY <1>1, <1>5
    <3> QED
      BY <1>3, <2>1, <2>2, <2>4, <3>1, <3>2
  <2>5. CASE b # i /\ b # j
    <3>1. Range(new[b].outs) = Range(plan[b].outs)
      BY <2>5 DEF Redirected
    <3>2. b \in Range(new[a].ins) <=> b \in Range(plan[a].ins)
      BY <1>5, <2>5
    <3> QED
      BY <2>2, <3>1, <3>2
  <2> QED
    BY <2>3, <2>4, <2>5
<1>9. Agree(new, Upstream(new)[c])
  <2> HIDE DEF S
  <2> QED
    BY <1>1, <1>7, <1>8 DEF Agree
<1> QED
  BY <1>7, <1>9 DEF N

(* A plan with the same inputs has the same operators upstream.            *)
LEMMA SameUpstream ==
  ASSUME NEW plan, WellFormed(plan), NEW new, WellFormed(new), DOMAIN new = DOMAIN plan,
         \A k \in DOMAIN plan : Range(new[k].ins) = Range(plan[k].ins),
         NEW c \in DOMAIN plan
  PROVE  Upstream(new)[c] = Upstream(plan)[c]
<1>1. c \in Upstream(plan)[c] /\ Closed(plan, Upstream(plan)[c])
  BY UpstreamFacts
<1>2. c \in Upstream(new)[c] /\ Closed(new, Upstream(new)[c])
  BY UpstreamFacts
<1>3. \A S : Closed(new, S) <=> Closed(plan, S)
  BY DEF Closed
<1>4. Upstream(plan)[c] \subseteq Upstream(new)[c]
  BY <1>2, <1>3, UpstreamFacts
<1>5. Upstream(new)[c] \subseteq Upstream(plan)[c]
  BY <1>1, <1>3, UpstreamFacts
<1> QED
  BY <1>4, <1>5

(* What an operator is, apart from its edges and its filter.               *)
SameOutput(x, y) == /\ x.kind = y.kind /\ x.schema = y.schema /\ x.entity = y.entity
                    /\ x.pairs = y.pairs /\ x.part = y.part

(* What a step of selection pushdown or of subquery flattening changes     *)
(* when it leaves the graph alone.                                         *)
SameGraph(plan, new) ==
  /\ DOMAIN new = DOMAIN plan /\ new = [k \in DOMAIN plan |-> new[k]]
  /\ \A k \in DOMAIN plan :
       /\ IsOperator(new[k])
       /\ new[k].kind = plan[k].kind /\ new[k].ins = plan[k].ins /\ new[k].outs = plan[k].outs

LEMMA SameGraphFacts ==
  ASSUME NEW plan, WellFormed(plan), NEW new, SameGraph(plan, new)
  PROVE  /\ WellFormed(new)
         /\ \A c \in DOMAIN plan : Upstream(new)[c] = Upstream(plan)[c]
         /\ \A N \in SUBSET DOMAIN plan : Agree(plan, N) => Agree(new, N)
<1>1. WellFormed(new)
  <2>1. new \in Seq(Range(new))
    <3> DEFINE n == Len(plan)
    <3>1. n \in Nat /\ DOMAIN plan = 1..n
      BY PlanFacts
    <3> HIDE DEF n
    <3> QED
      BY <3>1, SeqOfFunction DEF SameGraph
  <2>2. \A k \in DOMAIN new : IsNode(new, k)
    BY DEF SameGraph, WellFormed, IsNode
  <2> QED
    BY <2>1, <2>2 DEF WellFormed
<1>2. \A c \in DOMAIN plan : Upstream(new)[c] = Upstream(plan)[c]
  BY <1>1, SameUpstream DEF SameGraph
<1>3. \A N \in SUBSET DOMAIN plan : Agree(plan, N) => Agree(new, N)
  BY DEF SameGraph, Agree
<1> QED
  BY <1>1, <1>2, <1>3

(* A selection is bypassed: it alone leaves what c needs.                  *)
LEMMA BypassFacts ==
  ASSUME NEW plan, WellFormed(plan), NEW s \in DOMAIN plan, plan[s].kind = "select",
         NEW c \in DOMAIN plan, c # s, Agree(plan, Upstream(plan)[c])
  PROVE  LET new == Bypass(plan, s)
         IN  /\ WellFormed(new) /\ DOMAIN new = DOMAIN plan
             /\ \A k \in DOMAIN plan : new[k].kind = plan[k].kind
             /\ Agree(new, Upstream(new)[c])
             /\ Upstream(new)[c] \ {s} = Upstream(plan)[c] \ {s}
             /\ plan[s].ins # << >> => s \notin Upstream(new)[c]
<1> DEFINE below == Left(plan, s)
           P == Redirect(plan, s, below)
           new == [P EXCEPT ![below].outs = KeepIn(P[below].outs, DOMAIN plan \ {s})]
           N == Upstream(plan)[c]
<1>1. CASE plan[s].ins = << >>
  <2>1. Bypass(plan, s) = plan
    BY <1>1 DEF Bypass
  <2> QED
    BY <1>1, <2>1
<1>2. CASE plan[s].ins # << >>
  <2>1. Bypass(plan, s) = new
    BY <1>2 DEF Bypass
  <2>2. Range(plan[s].ins) = {below}
    <3> DEFINE ins == plan[s].ins
    <3>1. ins \in Seq(DOMAIN plan) /\ Len(ins) <= 1 /\ ins # << >>
      BY <1>2 DEF WellFormed, IsNode
    <3>2. DOMAIN ins = {1}
      <4>1. DOMAIN ins = 1..Len(ins) /\ Len(ins) \in Nat /\ Len(ins) # 0
        BY <3>1
      <4>2. Len(ins) = 1
        <5> HIDE DEF ins
        <5>1. Len(ins) \in Nat /\ Len(ins) # 0 /\ Len(ins) <= 1
          BY <3>1, <4>1
        <5>2. \A m \in Nat : m # 0 /\ m <= 1 => m = 1
          OBVIOUS
        <5> QED
          BY <5>1, <5>2
      <4> QED
        BY <4>1, <4>2
    <3> QED
      BY <3>2 DEF Range, Left
  <2>3. below \in DOMAIN plan /\ below < s /\ below # s
    BY <2>2, PlanFacts
  <2> HIDE DEF below
  <2>4. Redirected(plan, P, s, below)
    BY <2>3, RedirectFacts
  <2> HIDE DEF P
  <2>5. /\ c \in N /\ N \subseteq DOMAIN plan /\ Closed(plan, N)
    BY UpstreamFacts DEF Closed
  <2>6. s \in N => below \in N
    BY <2>2, <2>5 DEF Closed
  <2>7. Upstream(P)[c] \subseteq N \ {s} /\ Agree(P, Upstream(P)[c])
    <3> HIDE DEF N
    <3> QED
      BY <2>3, <2>4, <2>6, RedirectKeepsAgreement DEF N
  <2>8. WellFormed(P) /\ DOMAIN P = DOMAIN plan
    BY <2>4 DEF Redirected
  <2> DEFINE outs == KeepIn(P[below].outs, DOMAIN plan \ {s})
  <2>9. outs \in Seq(DOMAIN plan) /\ Range(outs) = Range(P[below].outs) \ {s}
    <3>1. P[below].outs \in Seq(DOMAIN plan) /\ Range(P[below].outs) \subseteq DOMAIN plan
      <4>1. P[below].outs \in Seq(DOMAIN plan)
        BY <2>3, <2>8 DEF WellFormed, IsNode
      <4> QED
        BY <4>1, RangeFacts
    <3> DEFINE D == DOMAIN plan
    <3>2. P[below].outs \in Seq(D)
      BY <3>1
    <3> HIDE DEF D
    <3>3. KeepIn(P[below].outs, D \ {s}) \in Seq(D)
          /\ Range(KeepIn(P[below].outs, D \ {s})) = Range(P[below].outs) \cap (D \ {s})
      BY <3>2, KeepInFacts
    <3> QED
      BY <3>1, <3>3 DEF D
  <2> HIDE DEF outs
  <2>10. /\ DOMAIN new = DOMAIN plan /\ new = [k \in DOMAIN plan |-> new[k]]
         /\ \A k \in DOMAIN plan \ {below} : new[k] = P[k]
         /\ new[below] = [P[below] EXCEPT !.outs = outs]
    BY <2>3, <2>8 DEF outs
  <2> HIDE DEF new
  <2>11. /\ IsOperator(new[below]) /\ new[below].kind = P[below].kind
         /\ new[below].ins = P[below].ins /\ new[below].outs = outs
    BY <2>3, <2>8, <2>10 DEF WellFormed, IsNode, IsOperator
  <2>12. WellFormed(new)
    <3>1. new \in Seq(Range(new))
      <4> DEFINE n == Len(plan)
      <4>1. n \in Nat /\ DOMAIN plan = 1..n
        BY PlanFacts
      <4> HIDE DEF n
      <4> QED
        BY <2>10, <4>1, SeqOfFunction
    <3>2. IsNode(new, below)
      <4>1. IsNode(P, below)
        BY <2>3, <2>8 DEF WellFormed
      <4>2. \A k \in Range(outs) : below < k
        BY <2>9, <4>1 DEF IsNode
      <4> QED
        BY <2>8, <2>9, <2>10, <2>11, <4>1, <4>2 DEF IsNode
    <3>3. ASSUME NEW k \in DOMAIN plan, k # below PROVE IsNode(new, k)
      <4>1. IsNode(P, k) /\ new[k] = P[k]
        BY <2>8, <2>10, <3>3 DEF WellFormed
      <4> QED
        BY <2>8, <2>10, <4>1 DEF IsNode
    <3> QED
      BY <2>10, <3>1, <3>2, <3>3 DEF WellFormed
  <2>13. \A k \in DOMAIN plan : new[k].ins = P[k].ins /\ new[k].kind = plan[k].kind
    BY <2>4, <2>10, <2>11 DEF Redirected
  <2>14. Upstream(new)[c] = Upstream(P)[c]
    <3>1. \A k \in DOMAIN P : Range(new[k].ins) = Range(P[k].ins)
      BY <2>8, <2>13
    <3> QED
      BY <2>8, <2>10, <2>12, <3>1, SameUpstream
  <2> DEFINE M == Upstream(new)[c]
  <2>15. M \subseteq N \ {s} /\ c \in M /\ Closed(new, M) /\ Agree(P, M)
    BY <2>7, <2>10, <2>12, <2>14, UpstreamFacts
  <2> HIDE DEF M
  <2>16. Agree(new, M)
    <3>1. ASSUME NEW a \in M, NEW b \in DOMAIN plan
          PROVE  b \in Range(new[a].ins) <=> a \in Range(new[b].outs)
      <4>1. a \in DOMAIN plan /\ a # s
        BY <2>5, <2>15
      <4>2. b \in Range(P[a].ins) <=> a \in Range(P[b].outs)
        BY <2>8, <2>15 DEF Agree
      <4>3. a \in Range(new[b].outs) <=> a \in Range(P[b].outs)
        BY <2>9, <2>10, <2>11, <4>1
      <4> QED
        BY <2>13, <4>1, <4>2, <4>3
    <3> QED
      BY <2>10, <3>1 DEF Agree
  <2>17. N \subseteq M \cup {s}
    <3> DEFINE T == M \cup (IF below \in M THEN {s} ELSE {})
    <3>1. T \subseteq DOMAIN plan /\ c \in T
      BY <2>5, <2>15
    <3>2. ASSUME NEW a \in M PROVE Range(plan[a].ins) \subseteq T
      <4>1. a \in N /\ a \in DOMAIN plan \ {s} /\ Range(P[a].ins) \subseteq M
        BY <2>5, <2>13, <2>15 DEF Closed
      <4>2. s \in Range(plan[a].ins) => a \in Range(plan[s].outs)
        BY <4>1 DEF Agree, N
      <4>3. Range(P[a].ins) = IF s \in Range(plan[a].ins)
                                THEN (Range(plan[a].ins) \ {s}) \cup {below}
                                ELSE Range(plan[a].ins)
        BY <2>4, <4>1, <4>2 DEF Redirected
      <4> QED
        BY <4>1, <4>3
    <3>3. below \in M => Range(plan[s].ins) \subseteq T
      BY <2>2
    <3>4. Closed(plan, T)
      BY <3>1, <3>2, <3>3 DEF Closed
    <3> HIDE DEF T
    <3>5. N \subseteq T
      BY <3>1, <3>4, UpstreamFacts
    <3> QED
      BY <3>5 DEF T
  <2> QED
    BY <2>1, <2>10, <2>12, <2>13, <2>15, <2>16, <2>17 DEF M
<1> QED
  BY <1>1, <1>2
-----------------------------------------------------------------------------
(* An operator has the inputs of its kind, and a selection is read by one  *)
(* operator at most: what subquery flattening relies on.                   *)
Shaped(op) ==
  /\ op.kind \in JoinKinds \cup {"source", "select", "project", "boundary"}
  /\ op.kind \in JoinKinds => DOMAIN op.ins = {1, 2}
  /\ op.kind \in {"select", "project", "boundary"} => DOMAIN op.ins = {1}
  /\ op.kind = "select" => op.part = NoPart
ReadOnce(plan) ==
  \A x, y \in DOMAIN plan : \A b \in Range(plan[x].ins) \cap Range(plan[y].ins) :
    plan[b].kind = "select" => x = y
Tidy(plan) == ReadOnce(plan) /\ \A k \in DOMAIN plan : Shaped(plan[k])

(* No operator reads b if it is a selection.                               *)
Unread(plan, b) == plan[b].kind = "select" => \A k \in DOMAIN plan : b \notin Range(plan[k].ins)

(* What planning builds: every edge is known at both of its ends.          *)
Built(plan) == WellFormed(plan) /\ Agree(plan, DOMAIN plan)

LEMMA Longer ==
  ASSUME NEW plan, WellFormed(plan), NEW new, WellFormed(new), Len(plan) <= Len(new)
  PROVE  DOMAIN plan \subseteq DOMAIN new
<1> DEFINE m == Len(plan)
           n == Len(new)
<1>1. m \in Nat /\ n \in Nat /\ m <= n /\ DOMAIN plan = 1..m /\ DOMAIN new = 1..n
  BY PlanFacts
<1> HIDE DEF m, n
<1> QED
  BY <1>1

(* What new has of plan reads and filters the same; in a plan that grows,  *)
(* what is new filters nothing.                                            *)
Extends(plan, new) ==
  /\ DOMAIN plan \subseteq DOMAIN new
  /\ \A k \in DOMAIN plan : /\ new[k].kind = plan[k].kind /\ new[k].ins = plan[k].ins
                            /\ new[k].filter = plan[k].filter /\ new[k].part = plan[k].part
Grows(plan, new) ==
  Extends(plan, new) /\ \A k \in DOMAIN new \ DOMAIN plan : new[k].filter = {}

(* What is new has the inputs of its kind, is no selection and reads none. *)
Apart(plan, new) ==
  \A k \in DOMAIN new \ DOMAIN plan :
    /\ Shaped(new[k]) /\ new[k].kind # "select"
    /\ \A b \in Range(new[k].ins) : new[b].kind # "select"

(* An operator that can go on top of a plan.                               *)
Placeable(op, plan) ==
  /\ IsOperator(op) /\ op.outs = << >> /\ op.ins \in Seq(DOMAIN plan)
  /\ op.kind # "source" /\ (op.kind = "select" => Len(op.ins) <= 1)

LEMMA AddFacts ==
  ASSUME NEW plan, Built(plan), NEW op, Placeable(op, plan)
  PROVE  /\ Built(Add(plan, op)) /\ Len(Add(plan, op)) = Len(plan) + 1
         /\ Len(plan) + 1 \in DOMAIN Add(plan, op)
         /\ DOMAIN plan \subseteq DOMAIN Add(plan, op)
         /\ Add(plan, op)[Len(plan) + 1] = op
         /\ DOMAIN Add(plan, op) = DOMAIN plan \cup {Len(plan) + 1}
         /\ Extends(plan, Add(plan, op))
<1> DEFINE n == Len(plan)
           D == DOMAIN plan
           old == [j \in DOMAIN plan |-> IF j \in Range(op.ins)
                                           THEN [plan[j] EXCEPT !.outs = Append(@, n + 1)]
                                           ELSE plan[j]]
           new == Add(plan, op)
<1>1. n \in Nat /\ D = 1..n /\ WellFormed(plan) /\ Agree(plan, D)
  BY PlanFacts DEF Built
<1>2. new = Append(old, op)
  BY DEF Add
<1>3. DOMAIN old = D /\ old = [k \in D |-> old[k]]
  OBVIOUS
<1>4. \A k \in D : old[k] = IF k \in Range(op.ins)
                              THEN [plan[k] EXCEPT !.outs = Append(plan[k].outs, n + 1)]
                              ELSE plan[k]
  OBVIOUS
<1> HIDE DEF n, old, new
<1>5. old \in Seq(Range(old) \cup {op}) /\ Len(old) = n
  <2>1. old \in Seq(Range(old)) /\ Len(old) = n
    BY <1>1, <1>3, SeqOfFunction
  <2> QED
    BY <2>1, RangeFacts
<1>6. /\ new \in Seq(Range(old) \cup {op}) /\ Len(new) = n + 1 /\ new[n + 1] = op
      /\ \A k \in D : new[k] = old[k]
  <2> DEFINE T == Range(old) \cup {op}
  <2>1. old \in Seq(T) /\ op \in T
    BY <1>5
  <2> HIDE DEF T
  <2>2. /\ Append(old, op) \in Seq(T) /\ Len(Append(old, op)) = Len(old) + 1
        /\ Append(old, op)[Len(old) + 1] = op
        /\ \A k \in 1..Len(old) : Append(old, op)[k] = old[k]
    BY <2>1, AppendFacts
  <2> QED
    BY <1>1, <1>2, <1>5, <2>2 DEF T
<1>7. /\ DOMAIN new = D \cup {n + 1} /\ new \in Seq(Range(new))
      /\ n + 1 \notin D /\ \A k \in D : k < n + 1
  <2>1. DOMAIN new = 1..(n + 1) /\ new \in Seq(Range(new))
    BY <1>6, RangeFacts
  <2>2. 1..(n + 1) = 1..n \cup {n + 1} /\ n + 1 \notin 1..n /\ \A k \in 1..n : k < n + 1
    BY <1>1
  <2> QED
    BY <1>1, <2>1, <2>2
<1>8. ASSUME NEW k \in D
      PROVE  /\ IsOperator(new[k]) /\ new[k].kind = plan[k].kind /\ new[k].ins = plan[k].ins
             /\ new[k].filter = plan[k].filter /\ new[k].part = plan[k].part
             /\ new[k].outs \in Seq(DOMAIN new)
             /\ Range(new[k].outs) = Range(plan[k].outs)
                                       \cup (IF k \in Range(op.ins) THEN {n + 1} ELSE {})
  <2>1. IsOperator(plan[k]) /\ plan[k].outs \in Seq(D)
    BY <1>1 DEF WellFormed, IsNode
  <2>2. plan[k].outs \in Seq(DOMAIN new)
    <3>1. Range(plan[k].outs) \subseteq DOMAIN new
      BY <1>7, <2>1, RangeFacts
    <3> QED
      BY <2>1, <3>1, RangeFacts
  <2>3. CASE k \in Range(op.ins)
    <3> DEFINE outs == Append(plan[k].outs, n + 1)
    <3>1. outs \in Seq(DOMAIN new) /\ Range(outs) = Range(plan[k].outs) \cup {n + 1}
      <4> DEFINE T == DOMAIN new
      <4>1. plan[k].outs \in Seq(T) /\ n + 1 \in T
        BY <1>7, <2>2
      <4> HIDE DEF T
      <4>2. outs \in Seq(T) /\ Range(outs) = Range(plan[k].outs) \cup {n + 1}
        BY <4>1, AppendFacts
      <4> QED
        BY <4>2 DEF T
    <3>2. new[k] = [plan[k] EXCEPT !.outs = outs]
      BY <1>4, <1>6, <2>3
    <3> HIDE DEF outs
    <3> QED
      BY <2>1, <2>3, <3>1, <3>2 DEF IsOperator
  <2>4. CASE k \notin Range(op.ins)
    BY <1>4, <1>6, <2>1, <2>2, <2>4
  <2> QED
    BY <2>3, <2>4
<1>9. ASSUME NEW k \in D PROVE IsNode(new, k)
  <2>1. IsNode(plan, k)
    BY <1>1 DEF WellFormed
  <2>2. plan[k].ins \in Seq(DOMAIN new)
    <3>1. plan[k].ins \in Seq(D)
      BY <2>1 DEF IsNode
    <3>2. Range(plan[k].ins) \subseteq DOMAIN new
      BY <1>7, <3>1, RangeFacts
    <3> QED
      BY <3>1, <3>2, RangeFacts
  <2> QED
    BY <1>7, <1>8, <2>1, <2>2 DEF IsNode
<1>10. IsNode(new, n + 1) /\ Range(new[n + 1].ins) \subseteq D /\ Range(new[n + 1].outs) = {}
  <2>1. op.ins \in Seq(D) /\ Range(op.ins) \subseteq D
    <3>1. op.ins \in Seq(D)
      BY DEF Placeable
    <3> QED
      BY <3>1, RangeFacts
  <2>2. op.ins \in Seq(DOMAIN new)
    BY <1>7, <2>1, RangeFacts
  <2>3. << >> \in Seq(DOMAIN new) /\ Range(<< >>) = {}
    BY DEF Range
  <2> QED
    BY <1>6, <1>7, <2>1, <2>2, <2>3 DEF IsNode, Placeable
<1>11. Agree(new, DOMAIN new)
  <2>1. ASSUME NEW a \in DOMAIN new, NEW b \in DOMAIN new
        PROVE  b \in Range(new[a].ins) <=> a \in Range(new[b].outs)
    <3>1. CASE a \in D /\ b \in D
      <4>1. b \in Range(plan[a].ins) <=> a \in Range(plan[b].outs)
        BY <1>1, <3>1 DEF Agree
      <4> QED
        BY <1>7, <1>8, <3>1, <4>1
    <3>2. CASE a = n + 1 /\ b \in D
      <4>1. n + 1 \notin Range(plan[b].outs)
        BY <1>1, <1>7, <3>2, PlanFacts
      <4> QED
        BY <1>6, <1>8, <3>2, <4>1
    <3>3. CASE b = n + 1
      <4>1. a \in D => n + 1 \notin Range(plan[a].ins)
        BY <1>1, <1>7, PlanFacts
      <4>2. n + 1 \notin Range(new[a].ins)
        BY <1>7, <1>8, <1>10, <4>1
      <4> QED
        BY <1>10, <3>3, <4>2
    <3> QED
      BY <1>7, <3>1, <3>2, <3>3
  <2> QED
    BY <2>1 DEF Agree
<1> QED
  BY <1>6, <1>7, <1>8, <1>9, <1>10, <1>11 DEF Built, WellFormed, Extends, n, new

LEMMA GrowsFurther ==
  ASSUME NEW plan, NEW mid, NEW new, Grows(plan, mid), Grows(mid, new)
  PROVE  Grows(plan, new)
BY DEF Grows, Extends

LEMMA ApartFurther ==
  ASSUME NEW plan, NEW mid, NEW new, WellFormed(mid), Extends(plan, mid), Extends(mid, new),
         Apart(plan, mid), Apart(mid, new)
  PROVE  Apart(plan, new)
<1> SUFFICES ASSUME NEW k \in DOMAIN new \ DOMAIN plan
             PROVE  /\ Shaped(new[k]) /\ new[k].kind # "select"
                    /\ \A b \in Range(new[k].ins) : new[b].kind # "select"
  BY DEF Apart
<1>1. CASE k \in DOMAIN mid
  <2>1. /\ Shaped(mid[k]) /\ mid[k].kind # "select"
        /\ \A b \in Range(mid[k].ins) : b \in DOMAIN mid /\ mid[b].kind # "select"
    BY <1>1, PlanFacts DEF Apart
  <2>2. /\ new[k].kind = mid[k].kind /\ new[k].ins = mid[k].ins /\ new[k].part = mid[k].part
        /\ \A b \in DOMAIN mid : new[b].kind = mid[b].kind
    BY <1>1 DEF Extends
  <2>3. Shaped(new[k])
    BY <2>1, <2>2 DEF Shaped
  <2> QED
    BY <2>1, <2>2, <2>3
<1>2. CASE k \notin DOMAIN mid
  BY <1>2 DEF Apart
<1> QED
  BY <1>1, <1>2

LEMMA AddApart ==
  ASSUME NEW plan, Built(plan), NEW op, Placeable(op, plan), Shaped(op), op.kind # "select",
         \A b \in Range(op.ins) : plan[b].kind # "select"
  PROVE  Apart(plan, Add(plan, op))
<1> DEFINE new == Add(plan, op)
<1>1. /\ Extends(plan, new) /\ new[Len(plan) + 1] = op
      /\ DOMAIN new = DOMAIN plan \cup {Len(plan) + 1}
  BY AddFacts
<1> HIDE DEF new
<1>2. Range(op.ins) \subseteq DOMAIN plan
  <2>1. op.ins \in Seq(DOMAIN plan)
    BY DEF Placeable
  <2> QED
    BY <2>1, RangeFacts
<1>3. \A b \in DOMAIN plan : new[b].kind = plan[b].kind
  BY <1>1 DEF Extends
<1>4. Apart(plan, new)
  BY <1>1, <1>2, <1>3 DEF Apart
<1> QED
  BY <1>4 DEF new

(* A tidy plan stays tidy when what is put on it stands apart, or when an  *)
(* operator goes on top of what nothing reads yet.                         *)
LEMMA ApartTidy ==
  ASSUME NEW plan, WellFormed(plan), Tidy(plan), NEW new, WellFormed(new),
         Extends(plan, new), Apart(plan, new)
  PROVE  Tidy(new) /\ \A b \in DOMAIN plan : Unread(plan, b) => Unread(new, b)
<1>1. \A k \in DOMAIN plan : /\ k \in DOMAIN new /\ new[k].kind = plan[k].kind
                             /\ new[k].ins = plan[k].ins /\ new[k].part = plan[k].part
                             /\ Range(plan[k].ins) \subseteq DOMAIN plan
  BY PlanFacts DEF Extends
<1>2. \A k \in DOMAIN new : Shaped(new[k])
  <2> TAKE k \in DOMAIN new
  <2>1. CASE k \in DOMAIN plan
    <3>1. Shaped(plan[k])
      BY <2>1 DEF Tidy
    <3> QED
      BY <1>1, <2>1, <3>1 DEF Shaped
  <2>2. CASE k \notin DOMAIN plan
    BY <2>2 DEF Apart
  <2> QED
    BY <2>1, <2>2
<1>3. \A k \in DOMAIN new \ DOMAIN plan : \A b \in Range(new[k].ins) : new[b].kind # "select"
  BY DEF Apart
<1>4. ReadOnce(new)
  <2>1. ReadOnce(plan)
    BY DEF Tidy
  <2> SUFFICES ASSUME NEW x \in DOMAIN new, NEW y \in DOMAIN new, NEW b,
                      b \in Range(new[x].ins), b \in Range(new[y].ins), new[b].kind = "select"
               PROVE  x = y
    BY DEF ReadOnce
  <2>2. x \in DOMAIN plan /\ y \in DOMAIN plan
    BY <1>3
  <2>3. b \in Range(plan[x].ins) /\ b \in Range(plan[y].ins) /\ plan[b].kind = "select"
    BY <1>1, <2>2
  <2> QED
    BY <2>1, <2>2, <2>3 DEF ReadOnce
<1>5. \A b \in DOMAIN plan : Unread(plan, b) => Unread(new, b)
  BY <1>1, <1>3 DEF Unread
<1> QED
  BY <1>2, <1>4, <1>5 DEF Tidy

LEMMA AddTidy ==
  ASSUME NEW plan, Built(plan), Tidy(plan), NEW op, Placeable(op, plan), Shaped(op),
         \A b \in Range(op.ins) : Unread(plan, b)
  PROVE  /\ Tidy(Add(plan, op)) /\ Unread(Add(plan, op), Len(plan) + 1)
         /\ \A b \in DOMAIN plan \ Range(op.ins) : Unread(plan, b) => Unread(Add(plan, op), b)
<1> DEFINE new == Add(plan, op)
           n == Len(plan)
<1>1. /\ Extends(plan, new) /\ new[n + 1] = op /\ DOMAIN new = DOMAIN plan \cup {n + 1}
  BY AddFacts
<1>2. WellFormed(plan) /\ n + 1 \notin DOMAIN plan
  <2>1. WellFormed(plan)
    BY DEF Built
  <2>2. DOMAIN plan = 1..n /\ n \in Nat
    BY <2>1, PlanFacts
  <2> HIDE DEF n
  <2> QED
    BY <2>1, <2>2
<1> HIDE DEF new, n
<1>3. Range(op.ins) \subseteq DOMAIN plan
  <2>1. op.ins \in Seq(DOMAIN plan)
    BY DEF Placeable
  <2> QED
    BY <2>1, RangeFacts
<1>4. \A k \in DOMAIN plan : /\ k \in DOMAIN new /\ new[k].kind = plan[k].kind
                             /\ new[k].ins = plan[k].ins /\ new[k].part = plan[k].part
                             /\ Range(plan[k].ins) \subseteq DOMAIN plan
  BY <1>1, <1>2, PlanFacts DEF Extends
<1>5. \A k \in DOMAIN new : Shaped(new[k])
  <2> TAKE k \in DOMAIN new
  <2>1. CASE k \in DOMAIN plan
    <3>1. Shaped(plan[k])
      BY <2>1 DEF Tidy
    <3> QED
      BY <1>4, <2>1, <3>1 DEF Shaped
  <2> QED
    BY <1>1, <2>1
<1>6. ReadOnce(new)
  <2>1. ReadOnce(plan)
    BY DEF Tidy
  <2> SUFFICES ASSUME NEW x \in DOMAIN new, NEW y \in DOMAIN new, NEW b,
                      b \in Range(new[x].ins), b \in Range(new[y].ins), new[b].kind = "select"
               PROVE  x = y
    BY DEF ReadOnce
  <2>2. b \in DOMAIN plan /\ plan[b].kind = "select"
    BY <1>1, <1>3, <1>4
  <2>3. CASE x \in DOMAIN plan /\ y \in DOMAIN plan
    BY <1>4, <2>1, <2>2, <2>3 DEF ReadOnce
  <2>4. CASE x = n + 1 /\ y \in DOMAIN plan
    <3>1. Unread(plan, b)
      BY <1>1, <2>4
    <3> QED
      BY <1>4, <2>2, <2>4, <3>1 DEF Unread
  <2>5. CASE y = n + 1 /\ x \in DOMAIN plan
    <3>1. Unread(plan, b)
      BY <1>1, <2>5
    <3> QED
      BY <1>4, <2>2, <2>5, <3>1 DEF Unread
  <2> QED
    BY <1>1, <2>3, <2>4, <2>5
<1>7. \A k \in DOMAIN new : n + 1 \notin Range(new[k].ins)
  BY <1>1, <1>2, <1>3, <1>4
<1>8. Unread(new, n + 1)
  BY <1>7 DEF Unread
<1>9. \A b \in DOMAIN plan \ Range(op.ins) : Unread(plan, b) => Unread(new, b)
  BY <1>1, <1>4 DEF Unread
<1> QED
  BY <1>5, <1>6, <1>8, <1>9 DEF Tidy, new, n

LEMMA AddGrows ==
  ASSUME NEW plan, Built(plan), NEW op, Placeable(op, plan), op.filter = {}
  PROVE  Grows(plan, Add(plan, op))
<1>1. /\ Extends(plan, Add(plan, op)) /\ Add(plan, op)[Len(plan) + 1] = op
      /\ DOMAIN Add(plan, op) = DOMAIN plan \cup {Len(plan) + 1}
  BY AddFacts
<1> QED
  BY <1>1 DEF Grows

LEMMA RangeOfPair ==
  \A l, r : Range(<<l, r>>) = {l, r} /\ Range(<<l>>) = {l}
BY DEF Range

(* The operators planning makes can go on top of what they read.           *)
LEMMA OperatorFacts ==
  ASSUME NEW kind, NEW ins, NEW schema
  PROVE  LET op == Operator(kind, ins, schema)
         IN  /\ IsOperator(op) /\ op.kind = kind /\ op.ins = ins /\ op.outs = << >>
             /\ op.filter = {} /\ op.part = NoPart
BY DEF Operator, IsOperator

LEMMA JoinIsPlaceable ==
  ASSUME NEW plan, NEW kind \in JoinKinds, NEW l \in DOMAIN plan, NEW r \in DOMAIN plan,
         NEW pairs
  PROVE  LET op == Join(plan, kind, l, r, pairs)
         IN  /\ Placeable(op, plan) /\ op.filter = {} /\ op.kind = kind /\ op.ins = <<l, r>>
             /\ Shaped(op)
<1> DEFINE ins == <<l, r>>
           base == Operator(kind, ins, plan[l].schema \cup plan[r].schema)
           op == Join(plan, kind, l, r, pairs)
<1>1. /\ IsOperator(base) /\ base.kind = kind /\ base.ins = ins /\ base.outs = << >>
      /\ base.filter = {}
  BY OperatorFacts
<1>2. op = [base EXCEPT !.pairs = pairs]
  BY DEF Join
<1>3. ins \in Seq(DOMAIN plan)
  OBVIOUS
<1>4. kind # "source" /\ kind # "select"
  BY DEF JoinKinds
<1> HIDE DEF ins, base, op
<1>5. /\ IsOperator(op) /\ op.kind = kind /\ op.ins = ins /\ op.outs = << >>
      /\ op.filter = {}
  BY <1>1, <1>2 DEF IsOperator
<1>6. DOMAIN ins = {1, 2}
  BY DEF ins
<1>7. Shaped(op)
  BY <1>4, <1>5, <1>6 DEF Shaped, JoinKinds
<1> QED
  BY <1>3, <1>4, <1>5, <1>6, <1>7 DEF Placeable, op, ins

LEMMA SelectionIsPlaceable ==
  ASSUME NEW plan, NEW i \in DOMAIN plan, NEW filter
  PROVE  LET op == Selection(plan, i, filter)
         IN  /\ Placeable(op, plan) /\ op.filter = filter /\ op.kind = "select" /\ op.ins = <<i>>
             /\ Shaped(op)
<1> DEFINE ins == <<i>>
           base == Operator("select", ins, plan[i].schema)
           op == Selection(plan, i, filter)
<1>1. /\ IsOperator(base) /\ base.kind = "select" /\ base.ins = ins /\ base.outs = << >>
      /\ base.part = NoPart
  BY OperatorFacts
<1>2. op = [base EXCEPT !.filter = filter]
  BY DEF Selection
<1>3. ins \in Seq(DOMAIN plan) /\ Len(ins) <= 1
  OBVIOUS
<1> HIDE DEF ins, base, op
<1>4. /\ IsOperator(op) /\ op.kind = "select" /\ op.ins = ins /\ op.outs = << >>
      /\ op.filter = filter /\ op.part = NoPart
  BY <1>1, <1>2 DEF IsOperator
<1>5. DOMAIN ins = {1}
  BY DEF ins
<1>6. Shaped(op)
  BY <1>4, <1>5 DEF Shaped, JoinKinds
<1> QED
  BY <1>3, <1>4, <1>5, <1>6 DEF Placeable, op, ins

LEMMA OutputIsPlaceable ==
  ASSUME NEW plan, NEW kind \in {"boundary", "project"}, NEW i \in DOMAIN plan, NEW p
  PROVE  LET op == Output(kind, i, p)
         IN  /\ Placeable(op, plan) /\ op.filter = {} /\ op.kind = kind /\ op.ins = <<i>>
             /\ Shaped(op)
<1> DEFINE ins == <<i>>
           base == Operator(kind, ins, OutputOf(p))
           op == Output(kind, i, p)
<1>1. /\ IsOperator(base) /\ base.kind = kind /\ base.ins = ins /\ base.outs = << >>
      /\ base.filter = {}
  BY OperatorFacts
<1>2. op = [base EXCEPT !.part = p]
  BY DEF Output
<1>3. ins \in Seq(DOMAIN plan)
  OBVIOUS
<1> HIDE DEF ins, base, op
<1>4. /\ IsOperator(op) /\ op.kind = kind /\ op.ins = ins /\ op.outs = << >>
      /\ op.filter = {}
  BY <1>1, <1>2 DEF IsOperator
<1>5. DOMAIN ins = {1}
  BY DEF ins
<1>6. Shaped(op)
  BY <1>4, <1>5 DEF Shaped, JoinKinds
<1> QED
  BY <1>3, <1>4, <1>5, <1>6 DEF Placeable, op, ins

(* The data sources of a pattern have no edges yet.                        *)
LEMMA AddSourcesFacts ==
  ASSUME NEW plan, Built(plan), NEW T, NEW srcs \in Seq(T),
         \A x \in Range(srcs) : /\ IsOperator(x) /\ x.kind = "source"
                                /\ x.ins = << >> /\ x.outs = << >> /\ x.filter = {}
  PROVE  /\ Built(plan \o srcs) /\ Len(plan \o srcs) = Len(plan) + Len(srcs)
         /\ Grows(plan, plan \o srcs) /\ Apart(plan, plan \o srcs)
<1> DEFINE n == Len(plan)
           m == Len(srcs)
           D == DOMAIN plan
           new == plan \o srcs
<1>1. n \in Nat /\ D = 1..n /\ WellFormed(plan) /\ Agree(plan, D)
  BY PlanFacts DEF Built
<1>2. m \in Nat /\ DOMAIN srcs = 1..m
  BY RangeFacts
<1>3. /\ new \in Seq(Range(plan) \cup T) /\ Len(new) = n + m
      /\ \A k \in 1..n : new[k] = plan[k]
      /\ \A k \in 1..m : new[n + k] = srcs[k]
  <2> DEFINE U == Range(plan) \cup T
  <2>1. plan \in Seq(U) /\ srcs \in Seq(U)
    <3>1. plan \in Seq(Range(plan)) /\ Range(srcs) \subseteq T
      BY <1>1, RangeFacts DEF WellFormed
    <3>2. Range(plan) \subseteq U /\ Range(srcs) \subseteq U
      BY <3>1
    <3> HIDE DEF U
    <3> QED
      BY <3>1, <3>2, RangeFacts
  <2> HIDE DEF U
  <2> QED
    BY <2>1, ConcatFacts DEF U
<1> HIDE DEF n, m, new
<1>4. DOMAIN new = 1..(n + m) /\ new \in Seq(Range(new)) /\ D \subseteq DOMAIN new
  <2>1. DOMAIN new = 1..(n + m) /\ new \in Seq(Range(new))
    BY <1>3, RangeFacts
  <2>2. 1..n \subseteq 1..(n + m)
    BY <1>1, <1>2
  <2> QED
    BY <1>1, <2>1, <2>2
<1>5. \A k \in DOMAIN new \ D : \E x \in Range(srcs) : new[k] = x
  <2> TAKE k \in DOMAIN new \ D
  <2>1. k - n \in 1..m /\ n + (k - n) = k
    BY <1>1, <1>2, <1>4
  <2>2. new[k] = srcs[k - n]
    BY <1>3, <2>1
  <2> QED
    BY <1>2, <2>1, <2>2 DEF Range
<1>6. Range(<< >>) = {} /\ << >> \in Seq(DOMAIN new) /\ Len(<< >>) <= 1
  BY DEF Range
<1>7. ASSUME NEW k \in DOMAIN new \ D
      PROVE  IsNode(new, k) /\ Range(new[k].ins) = {} /\ Range(new[k].outs) = {}
  <2>1. IsOperator(new[k]) /\ new[k].kind = "source" /\ new[k].ins = << >> /\ new[k].outs = << >>
    BY <1>5
  <2> QED
    BY <1>6, <2>1 DEF IsNode
<1>8. ASSUME NEW k \in D PROVE IsNode(new, k) /\ new[k] = plan[k]
  <2>1. IsNode(plan, k) /\ new[k] = plan[k]
    BY <1>1, <1>3 DEF WellFormed
  <2>2. plan[k].ins \in Seq(DOMAIN new) /\ plan[k].outs \in Seq(DOMAIN new)
    <3>1. plan[k].ins \in Seq(D) /\ plan[k].outs \in Seq(D)
      BY <2>1 DEF IsNode
    <3>2. Range(plan[k].ins) \subseteq DOMAIN new /\ Range(plan[k].outs) \subseteq DOMAIN new
      BY <1>4, <3>1, RangeFacts
    <3> QED
      BY <3>1, <3>2, RangeFacts
  <2> QED
    BY <2>1, <2>2 DEF IsNode
<1>9. Agree(new, DOMAIN new)
  <2>1. ASSUME NEW a \in DOMAIN new, NEW b \in DOMAIN new
        PROVE  b \in Range(new[a].ins) <=> a \in Range(new[b].outs)
    <3>1. CASE a \in D /\ b \in D
      BY <1>1, <1>8, <3>1 DEF Agree
    <3>2. CASE a \in D /\ b \notin D
      <4>1. b \notin Range(plan[a].ins)
        BY <1>1, <3>2, PlanFacts
      <4> QED
        BY <1>7, <1>8, <3>2, <4>1
    <3>3. CASE a \notin D /\ b \in D
      <4>1. a \notin Range(plan[b].outs)
        BY <1>1, <3>3, PlanFacts
      <4> QED
        BY <1>7, <1>8, <3>3, <4>1
    <3>4. CASE a \notin D /\ b \notin D
      BY <1>7, <3>4
    <3> QED
      BY <3>1, <3>2, <3>3, <3>4
  <2> QED
    BY <2>1 DEF Agree
<1>10. Grows(plan, new)
  BY <1>4, <1>5, <1>8 DEF Grows, Extends
<1>11. Apart(plan, new)
  <2> SUFFICES ASSUME NEW k \in DOMAIN new \ D
               PROVE  /\ Shaped(new[k]) /\ new[k].kind # "select"
                      /\ \A b \in Range(new[k].ins) : new[b].kind # "select"
    BY DEF Apart
  <2>1. new[k].kind = "source" /\ Range(new[k].ins) = {}
    BY <1>5, <1>7
  <2> QED
    BY <2>1 DEF Shaped, JoinKinds
<1> QED
  BY <1>3, <1>4, <1>7, <1>8, <1>9, <1>10, <1>11 DEF Built, WellFormed, n, m, new

(* The tree of a pattern grows entity after entity.                        *)
IsTree(tree, plan, pattern) ==
  /\ tree[0] = [plan |-> plan \o Sources(pattern), root |-> 0, node |-> ""]
  /\ \A k \in 1..Len(pattern) :
       tree[k] = JoinEntity(tree[k-1], pattern, k, SourceOf(plan, pattern, pattern[k].alias))

LEMMA MatchTreeDef ==
  ASSUME NEW plan, NEW T, NEW pattern \in Seq(T)
  PROVE  \E tree : IsTree(tree, plan, pattern) /\ MatchTree(plan, pattern) = tree[Len(pattern)]
<1> DEFINE n == Len(pattern)
           base == [plan |-> plan \o Sources(pattern), root |-> 0, node |-> ""]
           Joined(t, k) == JoinEntity(t, pattern, k, SourceOf(plan, pattern, pattern[k].alias))
           Body(f, k) == IF k = 0 THEN base ELSE Joined(f[k-1], k)
           tree == CHOOSE f : f = [k \in 0..n |-> Body(f, k)]
           Good == {m \in 0..n : \E f : f = [k \in 0..m |-> f[k]]
                                        /\ \A k \in 0..m : f[k] = Body(f, k)}
<1>1. n \in Nat /\ MatchTree(plan, pattern) = tree[n]
  BY RangeFacts DEF MatchTree
<1> HIDE DEF n, base, Joined
<1>2. 0 \in Good
  <2> DEFINE f == [k \in 0..0 |-> base]
  <2>1. 0 \in 0..n /\ 0..0 = {0}
    BY <1>1
  <2>2. f = [k \in 0..0 |-> f[k]] /\ \A k \in 0..0 : f[k] = Body(f, k)
    BY <2>1
  <2> HIDE DEF f
  <2> QED
    BY <2>1, <2>2
<1>3. ASSUME NEW m \in 0..(n-1), m \in Good PROVE m + 1 \in Good
  <2>1. PICK f : f = [k \in 0..m |-> f[k]] /\ \A k \in 0..m : f[k] = Body(f, k)
    BY <1>3
  <2> DEFINE g == [k \in 0..(m+1) |-> IF k = m + 1 THEN Joined(f[m], m + 1) ELSE f[k]]
  <2>2. /\ m \in Nat /\ m + 1 \in 0..n /\ (m + 1) - 1 = m /\ m + 1 # 0 /\ m # m + 1
        /\ m \in 0..(m+1) /\ m + 1 \in 0..(m+1)
    BY <1>1
  <2>3. \A k \in 0..(m+1) : k # m + 1 => k \in 0..m /\ (k # 0 => k - 1 \in 0..(m+1) /\ k - 1 # m + 1)
    BY <2>2
  <2>4. g = [k \in 0..(m+1) |-> g[k]]
    OBVIOUS
  <2>5. ASSUME NEW k \in 0..(m+1) PROVE g[k] = Body(g, k)
    <3>1. CASE k = m + 1
      <4>1. g[m] = f[m] /\ g[m + 1] = Joined(f[m], m + 1)
        BY <2>2
      <4> HIDE DEF g
      <4> QED
        BY <2>2, <3>1, <4>1
    <3>2. CASE k # m + 1
      <4>1. g[k] = f[k] /\ f[k] = Body(f, k) /\ (k # 0 => g[k-1] = f[k-1])
        BY <2>1, <2>3, <3>2
      <4> HIDE DEF g
      <4> QED
        BY <4>1
    <3> QED
      BY <3>1, <3>2
  <2> HIDE DEF g
  <2>6. \E h : h = [k \in 0..(m+1) |-> h[k]] /\ \A k \in 0..(m+1) : h[k] = Body(h, k)
    <3> HIDE DEF Body
    <3> QED
      BY <2>4, <2>5
  <2> QED
    BY <2>2, <2>6
<1>4. n \in Good
  <2>1. n \in 0..n
    BY <1>1
  <2> HIDE DEF Good
  <2> QED
    BY <1>1, <1>2, <1>3, <2>1, Stepwise
<1>5. \E f : f = [k \in 0..n |-> Body(f, k)]
  <2>1. PICK f : f = [k \in 0..n |-> f[k]] /\ \A k \in 0..n : f[k] = Body(f, k)
    BY <1>4
  <2> HIDE DEF Body
  <2>2. f = [k \in 0..n |-> Body(f, k)]
    BY <2>1
  <2> QED
    BY <2>2
<1>6. tree = [k \in 0..n |-> Body(tree, k)]
  <2> HIDE DEF Body
  <2> QED
    BY <1>5
<1> HIDE DEF tree
<1>7. \A k \in 0..n : tree[k] = Body(tree, k)
  <2> HIDE DEF Body
  <2> QED
    BY <1>6
<1>8. 0 \in 0..n /\ \A k \in 1..n : k \in 0..n /\ k # 0
  BY <1>1
<1>9. IsTree(tree, plan, pattern)
  BY <1>7, <1>8 DEF IsTree, n, base, Joined
<1> QED
  BY <1>1, <1>9 DEF n

(* Its plan only adds to the one it is built on, and its root is in it.    *)
LEMMA MatchTreeFacts ==
  ASSUME NEW plan, Built(plan), NEW T, NEW pattern \in Seq(T), pattern # << >>
  PROVE  LET t == MatchTree(plan, pattern)
         IN  /\ Built(t.plan) /\ Len(plan) <= Len(t.plan) /\ t.root \in DOMAIN t.plan
             /\ Grows(plan, t.plan) /\ Apart(plan, t.plan) /\ t.root \notin DOMAIN plan
<1> DEFINE n == Len(pattern)
           p == Len(plan)
           names == Names(pattern)
           base == plan \o Sources(pattern)
<1>1. n \in Nat /\ n # 0 /\ DOMAIN pattern = 1..n /\ p \in Nat
  BY PlanFacts, RangeFacts DEF Built
<1>2. PICK tree : IsTree(tree, plan, pattern) /\ MatchTree(plan, pattern) = tree[n]
  BY MatchTreeDef
<1> HIDE DEF n, p
<1>3. /\ names \in Seq({pattern[k].alias : k \in 1..n})
      /\ Range(names) = {pattern[k].alias : k \in 1..n}
  <2> DEFINE aliases == [k \in DOMAIN pattern |-> pattern[k].alias]
             A == {pattern[k].alias : k \in 1..n}
  <2>1. aliases \in [1..n -> A] /\ Range(aliases) = A
    BY <1>1 DEF Range
  <2> HIDE DEF A
  <2>2. aliases \in Seq(A)
    BY <1>1, <2>1
  <2> HIDE DEF aliases
  <2>3. Distinct(aliases) \in Seq(A) /\ Range(Distinct(aliases)) = Range(aliases)
    BY <2>2, DistinctFacts
  <2> QED
    BY <2>1, <2>3 DEF Names, aliases, A
<1> DEFINE m == Len(names)
<1>4. m \in Nat /\ DOMAIN names = 1..m
  BY <1>3, RangeFacts
<1> HIDE DEF names, m
<1>5. Built(base) /\ Len(base) = p + m /\ Grows(plan, base) /\ Apart(plan, base)
  <2> DEFINE srcs == Sources(pattern)
  <2>1. srcs = [k \in 1..m |-> srcs[k]]
    BY <1>4 DEF Sources, names
  <2>2. ASSUME NEW k \in 1..m
        PROVE  /\ IsOperator(srcs[k]) /\ srcs[k].kind = "source"
               /\ srcs[k].ins = << >> /\ srcs[k].outs = << >> /\ srcs[k].filter = {}
    <3> DEFINE e == WithResolvedName(FirstEntity(pattern, Names(pattern)[k]))
    <3>1. srcs[k] = Source(e)
      BY <1>4, <2>2 DEF Sources, names
    <3> HIDE DEF e
    <3> QED
      BY <3>1 DEF Source, Operator, IsOperator
  <2> HIDE DEF srcs
  <2>3. srcs \in Seq(Range(srcs)) /\ Len(srcs) = m /\ DOMAIN srcs = 1..m
    BY <1>4, <2>1, SeqOfFunction
  <2>4. \A x \in Range(srcs) : /\ IsOperator(x) /\ x.kind = "source"
                               /\ x.ins = << >> /\ x.outs = << >> /\ x.filter = {}
    BY <2>2, <2>3 DEF Range
  <2>5. /\ Built(plan \o srcs) /\ Len(plan \o srcs) = Len(plan) + Len(srcs)
        /\ Grows(plan, plan \o srcs) /\ Apart(plan, plan \o srcs)
    BY <2>3, <2>4, AddSourcesFacts
  <2> QED
    BY <2>3, <2>5 DEF srcs, p
<1>6. ASSUME NEW k \in 1..n
      PROVE  /\ SourceOf(plan, pattern, pattern[k].alias) \in 1..(p + m)
             /\ SourceOf(plan, pattern, pattern[k].alias) \notin DOMAIN plan
  <2>1. \E i \in DOMAIN Names(pattern) : Names(pattern)[i] = pattern[k].alias
    BY <1>3, <1>4 DEF Range, names
  <2> DEFINE i == CHOOSE i \in DOMAIN Names(pattern) : Names(pattern)[i] = pattern[k].alias
  <2>2. i \in 1..m
    BY <1>4, <2>1 DEF names
  <2>3. SourceOf(plan, pattern, pattern[k].alias) = p + i
    BY DEF SourceOf, p
  <2>4. DOMAIN plan = 1..p
    BY PlanFacts DEF Built, p
  <2> HIDE DEF i
  <2> QED
    BY <1>1, <1>4, <2>2, <2>3, <2>4
<1> DEFINE Good == {k \in 0..n : /\ Built(tree[k].plan) /\ p + m <= Len(tree[k].plan)
                                 /\ Grows(plan, tree[k].plan) /\ Apart(plan, tree[k].plan)
                                 /\ k # 0 => tree[k].root \in DOMAIN tree[k].plan \ DOMAIN plan}
<1>7. 0 \in Good
  <2>1. tree[0].plan = base /\ 0 \in 0..n
    <3>1. tree[0] = [plan |-> base, root |-> 0, node |-> ""]
      BY <1>2 DEF IsTree
    <3> HIDE DEF base
    <3>2. \A x, y, z : x = [plan |-> y, root |-> 0, node |-> z] => x.plan = y
      OBVIOUS
    <3>4. tree[0].plan = base
      BY <3>1, <3>2, Zenon
    <3>3. 0 \in 0..n
      BY <1>1
    <3> QED
      BY <3>3, <3>4
  <2>2. p + m <= Len(base)
    BY <1>1, <1>4, <1>5
  <2> HIDE DEF base
  <2> QED
    BY <1>5, <2>1, <2>2
<1>8. ASSUME NEW j \in 0..(n-1), j \in Good PROVE j + 1 \in Good
  <2> DEFINE k == j + 1
             t == tree[j]
             source == SourceOf(plan, pattern, pattern[k].alias)
             node == IF pattern[k].sort = "node" THEN pattern[k].alias ELSE t.node
             u == tree[k]
  <2>1. k \in 1..n /\ k \in 0..n /\ k - 1 = j /\ j \in Nat /\ (k # 1 => j # 0) /\ (k > 1 => j # 0)
    BY <1>1
  <2>2. u = JoinEntity(t, pattern, k, source)
    BY <1>2, <2>1 DEF IsTree, n
  <2>3. /\ Built(t.plan) /\ p + m <= Len(t.plan)
        /\ (j # 0 => t.root \in DOMAIN t.plan \ DOMAIN plan)
        /\ Grows(plan, t.plan) /\ Apart(plan, t.plan)
    BY <1>8
  <2>4. DOMAIN t.plan = 1..Len(t.plan) /\ Len(t.plan) \in Nat
    BY <2>3, PlanFacts DEF Built
  <2>5. source \in DOMAIN t.plan \ DOMAIN plan
    <3>1. source \in 1..(p + m) /\ source \notin DOMAIN plan
      BY <1>6, <2>1
    <3> HIDE DEF source, t
    <3> QED
      BY <1>1, <1>4, <2>3, <2>4, <3>1
  <2> HIDE DEF k, t, source, node, u
  <2>6. SUFFICES /\ Built(u.plan) /\ p + m <= Len(u.plan)
                 /\ u.root \in DOMAIN u.plan \ DOMAIN plan
                 /\ Grows(plan, u.plan) /\ Apart(plan, u.plan)
    BY <2>1 DEF u, k
  <2>7. CASE k = 1
    <3>1. u.plan = t.plan /\ u.root = source
      BY <2>2, <2>7 DEF JoinEntity
    <3> QED
      BY <2>3, <2>5, <3>1
  <2>8. CASE k # 1 /\ k > 1 /\ Returning(pattern, k)
    <3>1. u.plan = WithReturn(t.plan, t.root, pattern, k) /\ u.root = t.root
      BY <2>2, <2>8 DEF JoinEntity
    <3>2. t.root \in DOMAIN t.plan \ DOMAIN plan
      BY <2>1, <2>3, <2>8
    <3>3. /\ SameGraph(t.plan, u.plan)
          /\ \A i \in DOMAIN t.plan : /\ u.plan[i].filter = t.plan[i].filter
                                      /\ u.plan[i].part = t.plan[i].part
      <4>1. IsOperator(t.plan[t.root]) /\ \A i \in DOMAIN t.plan : IsOperator(t.plan[i])
        BY <2>3, <3>2 DEF Built, WellFormed, IsNode
      <4>2. t.plan = [i \in DOMAIN t.plan |-> t.plan[i]]
        <5> DEFINE tp == t.plan
        <5>1. tp \in Seq(Range(tp))
          BY <2>3 DEF Built, WellFormed
        <5> HIDE DEF tp
        <5>2. tp = [i \in DOMAIN tp |-> tp[i]]
          BY <5>1
        <5> QED
          BY <5>2 DEF tp
      <4>3. CASE u.plan = t.plan
        BY <4>1, <4>2, <4>3 DEF SameGraph
      <4>4. CASE u.plan = [t.plan EXCEPT ![t.root].pairs = @ \cup {FarPair(pattern, k)}]
        <5> DEFINE old == t.plan[t.root]
                   pairs == old.pairs \cup {FarPair(pattern, k)}
                   op == [old EXCEPT !.pairs = pairs]
        <5>1. u.plan = [i \in DOMAIN t.plan |-> IF i = t.root THEN op ELSE t.plan[i]]
          BY <3>2, <4>2, <4>4
        <5> HIDE DEF pairs
        <5>2. /\ IsOperator(op) /\ op.kind = t.plan[t.root].kind
              /\ op.ins = t.plan[t.root].ins /\ op.outs = t.plan[t.root].outs
              /\ op.filter = t.plan[t.root].filter /\ op.part = t.plan[t.root].part
          BY <4>1 DEF IsOperator
        <5> HIDE DEF op
        <5> QED
          BY <4>1, <5>1, <5>2 DEF SameGraph
      <4> QED
        BY <3>1, <4>3, <4>4 DEF WithReturn
    <3>4. Built(u.plan) /\ DOMAIN u.plan = DOMAIN t.plan
      <4>1. WellFormed(t.plan) /\ Agree(t.plan, DOMAIN t.plan)
        BY <2>3 DEF Built
      <4>2. WellFormed(u.plan) /\ Agree(u.plan, DOMAIN t.plan)
        BY <3>3, <4>1, SameGraphFacts
      <4> QED
        BY <3>3, <4>2 DEF Built, SameGraph
    <3>5. Len(u.plan) = Len(t.plan)
      <4> DEFINE a == Len(u.plan)
                 b == Len(t.plan)
      <4>1. a \in Nat /\ b \in Nat /\ 1..a = 1..b
        BY <2>4, <3>4, PlanFacts DEF Built
      <4> HIDE DEF a, b
      <4>2. a = b
        <5>1. a # 0 => a \in 1..b
          BY <4>1
        <5>2. b # 0 => b \in 1..a
          BY <4>1
        <5> QED
          BY <4>1, <5>1, <5>2
      <4> QED
        BY <4>2 DEF a, b
    <3>6. Grows(plan, u.plan)
      <4>1. Grows(t.plan, u.plan)
        BY <3>3, <3>4 DEF Grows, Extends, SameGraph
      <4> QED
        BY <2>3, <4>1, GrowsFurther
    <3>7. Apart(plan, u.plan)
      <4>1. Extends(t.plan, u.plan) /\ Apart(t.plan, u.plan)
        BY <3>3, <3>4 DEF Extends, SameGraph, Apart
      <4> QED
        BY <2>3, <4>1, ApartFurther DEF Built, Grows
    <3> QED
      BY <2>3, <3>1, <3>2, <3>4, <3>5, <3>6, <3>7
  <2>9. CASE k # 1 /\ ~ (k > 1 /\ Returning(pattern, k))
    <3> DEFINE op == Join(t.plan, "join", t.root, source, Pairs(pattern, k, t.node))
    <3>1. u.plan = Add(t.plan, op) /\ u.root = Len(t.plan) + 1
      BY <2>2, <2>9 DEF JoinEntity
    <3>2. /\ Placeable(op, t.plan) /\ op.filter = {} /\ op.kind = "join" /\ Shaped(op)
          /\ op.ins = <<t.root, source>>
      <4>1. t.root \in DOMAIN t.plan /\ source \in DOMAIN t.plan
        BY <2>1, <2>3, <2>5, <2>9
      <4>2. "join" \in JoinKinds
        BY DEF JoinKinds
      <4> DEFINE kind == "join"
                 tp == t.plan
                 root == t.root
                 pairs == Pairs(pattern, k, t.node)
                 x == Join(tp, kind, root, source, pairs)
      <4>3. kind \in JoinKinds /\ root \in DOMAIN tp /\ source \in DOMAIN tp
        BY <4>1, <4>2
      <4> HIDE DEF kind, tp, root, pairs
      <4>4. /\ Placeable(x, tp) /\ x.filter = {} /\ x.kind = kind /\ Shaped(x)
            /\ x.ins = <<root, source>>
        BY <4>3, JoinIsPlaceable
      <4> HIDE DEF x
      <4>5. op = x
        BY DEF x, kind, tp, root, pairs
      <4> HIDE DEF op
      <4> QED
        BY <4>4, <4>5 DEF kind, tp, root
    <3> HIDE DEF op
    <3>3. /\ Built(u.plan) /\ Len(u.plan) = Len(t.plan) + 1
          /\ Len(t.plan) + 1 \in DOMAIN u.plan
      <4>1. /\ Built(Add(t.plan, op)) /\ Len(Add(t.plan, op)) = Len(t.plan) + 1
            /\ Len(t.plan) + 1 \in DOMAIN Add(t.plan, op)
        BY <2>3, <3>2, AddFacts
      <4> QED
        BY <3>1, <4>1
    <3>4. p + m <= Len(t.plan) + 1
      BY <1>1, <1>4, <2>3, <2>4
    <3>5. Grows(plan, u.plan)
      <4>1. Grows(t.plan, u.plan)
        BY <2>3, <3>1, <3>2, AddGrows
      <4> QED
        BY <2>3, <4>1, GrowsFurther
    <3>6. Apart(plan, u.plan)
      <4>1. Extends(t.plan, u.plan)
        <5>1. Extends(t.plan, Add(t.plan, op))
          BY <2>3, <3>2, AddFacts
        <5> QED
          BY <3>1, <5>1
      <4>2. t.root \in DOMAIN t.plan \ DOMAIN plan /\ source \in DOMAIN t.plan \ DOMAIN plan
        BY <2>1, <2>3, <2>5, <2>9
      <4>3. \A b \in Range(op.ins) : t.plan[b].kind # "select"
        <5>1. \A b \in Range(op.ins) : b = t.root \/ b = source
          BY <3>2, RangeOfPair
        <5> QED
          BY <2>3, <4>2, <5>1 DEF Apart
      <4>4. Apart(t.plan, u.plan)
        BY <2>3, <3>1, <3>2, <4>3, AddApart
      <4> QED
        BY <2>3, <4>1, <4>4, ApartFurther DEF Built, Grows
    <3>7. u.root \notin DOMAIN plan
      <4>1. DOMAIN plan = 1..p
        BY PlanFacts DEF Built, p
      <4>2. p + m <= Len(t.plan) /\ Len(t.plan) \in Nat
        BY <2>3, <2>4
      <4> DEFINE l == Len(t.plan)
      <4> HIDE DEF l
      <4>3. l + 1 \notin 1..p
        BY <1>1, <1>4, <4>2 DEF l
      <4> QED
        BY <3>1, <4>1, <4>3 DEF l
    <3> QED
      BY <3>1, <3>3, <3>4, <3>5, <3>6, <3>7
  <2> QED
    BY <2>7, <2>8, <2>9
<1>9. n \in Good
  <2>1. n \in 0..n
    BY <1>1
  <2> HIDE DEF Good
  <2> QED
    BY <1>1, <1>7, <1>8, <2>1, Stepwise
<1>10. p <= Len(tree[n].plan)
  <2> DEFINE l == Len(tree[n].plan)
  <2>1. Built(tree[n].plan)
    BY <1>9
  <2>2. l \in Nat /\ p + m <= l
    BY <1>9, <2>1, PlanFacts DEF Built
  <2> HIDE DEF l
  <2>3. p <= l
    BY <1>1, <1>4, <2>2
  <2> QED
    BY <2>3 DEF l
<1> QED
  BY <1>1, <1>2, <1>9, <1>10 DEF p
-----------------------------------------------------------------------------
(* The inductive invariant.  While planning every edge of the graph agrees *)
(* at both ends; afterwards that is promised of what the terminal still    *)
(* needs, since a pass leaves the operators it cut off half connected.     *)
(* Eliminating a join and bypassing a selection are only sound for it      *)
(* because the terminal is a projection, a selection has one input, and    *)
(* selection pushdown visits nothing but selections.                       *)
SourcesOf(plan, c) == {i \in Upstream(plan)[c] : plan[i].kind = "source"}

Planning ==
  /\ Agree(ops, DOMAIN ops)
  /\ part \in 1..(Len(query) + 1) /\ clause \in Nat \ {0}
  /\ current \in DOMAIN ops \/ (current = 0 /\ part = 1 /\ clause = 1)
  /\ boundary \in DOMAIN ops \cup {0}
  /\ part > Len(query) => ops[current].kind = "project"

Rewriting ==
  /\ current \in DOMAIN ops /\ ops[current].kind = "project"
  /\ Agree(ops, Upstream(ops)[current])
  /\ starts \in Seq(DOMAIN ops) /\ Range(starts) = SourcesOf(ops, current)
  /\ work \in Seq(DOMAIN ops)
  /\ pc = "push" => \A i \in Range(work) : ops[i].kind = "select"

PlanInv ==
  /\ query \in Queries
  /\ pc \in {"build", "eliminate", "push", "flatten", "done"}
  /\ WellFormed(ops)
  /\ pc = "build" => Planning
  /\ pc # "build" => Rewriting

(* A rewrite that keeps the operators and their kinds.                     *)
Rewrites(plan, new, c) ==
  /\ WellFormed(new) /\ DOMAIN new = DOMAIN plan
  /\ \A k \in DOMAIN plan : new[k].kind = plan[k].kind
  /\ Agree(new, Upstream(new)[c])

LEMMA InvImpliesBothWalksAgree == PlanInv => BothWalksAgree
<1> SUFFICES ASSUME PlanInv, pc # "build" PROVE BothWalksAgree
  BY DEF BothWalksAgree
<1> DEFINE needed == Upstream(ops)[current]
<1>1. Rewriting /\ WellFormed(ops)
  BY DEF PlanInv
<1>2. needed \subseteq DOMAIN ops
  BY <1>1, UpstreamFacts DEF Rewriting, Closed
<1> HIDE DEF needed
<1>3. Range(starts) = {i \in needed : ops[i].kind = "source"}
  BY <1>1 DEF Rewriting, SourcesOf, needed
<1>4. \A i, j \in needed : j \in Range(ops[i].ins) <=> i \in Range(ops[j].outs)
  BY <1>1, <1>2 DEF Rewriting, Agree, needed
<1> QED
  BY <1>3, <1>4 DEF BothWalksAgree, needed

LEMMA PlanInvInit == Init => PlanInv
<1> SUFFICES ASSUME Init PROVE PlanInv
  OBVIOUS
<1>1. /\ ops = << >> /\ query \in Queries /\ pc = "build" /\ part = 1 /\ clause = 1
      /\ current = 0 /\ boundary = 0
  BY DEF Init
<1>2. DOMAIN ops = {} /\ WellFormed(ops)
  <2>1. DOMAIN << >> = {} /\ << >> \in Seq(Range(<< >>))
    OBVIOUS
  <2> QED
    BY <1>1, <2>1, Zenon DEF WellFormed
<1>3. Len(query) \in Nat /\ Len(query) # 0
  <2>1. query \in Seq(Range(query)) /\ query # << >>
    BY <1>1, QueriesAssumption
  <2> DEFINE q == query
  <2> HIDE DEF q
  <2>2. q \in Seq(Range(q)) /\ q # << >>
    BY <2>1 DEF q
  <2>3. Len(q) \in Nat /\ Len(q) # 0
    BY <2>2
  <2> QED
    BY <2>3 DEF q
<1>4. Planning
  <2>1. 1 \in 1..(Len(query) + 1) /\ ~ (1 > Len(query))
    BY <1>3
  <2> QED
    BY <1>1, <1>2, <2>1 DEF Planning, Agree
<1> QED
  BY <1>1, <1>2, <1>4 DEF PlanInv

-----------------------------------------------------------------------------
(* The clauses of a query are ones a tree can be made of.                  *)
LEMMA QueryFacts ==
  ASSUME query \in Queries
  PROVE  /\ Len(query) \in Nat \ {0} /\ query[1].clauses # << >>
         /\ \A k \in 1..Len(query) :
              /\ Len(query[k].clauses) \in Nat
              /\ query[k].clauses # << >> => 1 <= Len(query[k].clauses)
              /\ \A n \in 1..Len(query[k].clauses) :
                   LET pattern == query[k].clauses[n].pattern
                   IN  pattern \in Seq(Range(pattern)) /\ pattern # << >>
<1>1. /\ query \in Seq(Range(query)) /\ query # << >> /\ query[1].clauses # << >>
      /\ \A k \in DOMAIN query :
           LET clauses == query[k].clauses
           IN  /\ clauses \in Seq(Range(clauses))
               /\ \A c \in Range(clauses) :
                    c.pattern \in Seq(Range(c.pattern)) /\ c.pattern # << >>
  BY QueriesAssumption
<1>2. \A T : \A s \in Seq(T) : /\ DOMAIN s = 1..Len(s) /\ Len(s) \in Nat
                               /\ s # << >> => Len(s) # 0 /\ 1 <= Len(s)
  OBVIOUS
<1>3. Len(query) \in Nat \ {0} /\ DOMAIN query = 1..Len(query)
  BY <1>1, <1>2
<1>4. ASSUME NEW k \in 1..Len(query)
      PROVE  /\ Len(query[k].clauses) \in Nat
             /\ query[k].clauses # << >> => 1 <= Len(query[k].clauses)
             /\ \A n \in 1..Len(query[k].clauses) :
                  LET pattern == query[k].clauses[n].pattern
                  IN  pattern \in Seq(Range(pattern)) /\ pattern # << >>
  <2> DEFINE clauses == query[k].clauses
  <2>1. /\ clauses \in Seq(Range(clauses))
        /\ \A c \in Range(clauses) : c.pattern \in Seq(Range(c.pattern)) /\ c.pattern # << >>
    BY <1>1, <1>3
  <2> HIDE DEF clauses
  <2>2. /\ DOMAIN clauses = 1..Len(clauses) /\ Len(clauses) \in Nat
        /\ clauses # << >> => 1 <= Len(clauses)
    BY <1>2, <2>1
  <2>3. \A n \in 1..Len(clauses) : clauses[n] \in Range(clauses)
    BY <2>2 DEF Range
  <2> QED
    BY <2>1, <2>2, <2>3 DEF clauses
<1> QED
  BY <1>1, <1>3, <1>4
LEMMA PlanClauseKeeps == PlanInv /\ PlanClause => PlanInv'
<1> SUFFICES ASSUME PlanInv, PlanClause PROVE PlanInv'
  OBVIOUS
<1> DEFINE c == query[part].clauses[clause]
           below == IF AfterBoundary /\ clause = 1 THEN boundary ELSE current
           tree == MatchTree(ops, c.pattern)
           kind == IF c.optional THEN "left" ELSE "join"
           join == Join(tree.plan, kind, below, tree.root, CorrelationPairs(c.pattern))
           joined == IF below = 0 THEN tree.plan ELSE Add(tree.plan, join)
           top == IF below = 0 THEN tree.root ELSE Len(joined)
           select == Selection(joined, top, c.where)
<1>1. /\ ops' = IF c.where = {} THEN joined ELSE Add(joined, select)
      /\ current' = IF c.where = {} THEN top ELSE Len(joined) + 1
      /\ clause' = clause + 1 /\ pc = "build" /\ part <= Len(query)
      /\ clause <= Len(query[part].clauses)
      /\ UNCHANGED <<query, pc, part, boundary>>
  BY DEF PlanClause
<1>2. /\ Built(ops) /\ query \in Queries /\ part \in 1..(Len(query) + 1) /\ clause \in Nat \ {0}
      /\ current \in DOMAIN ops \/ (current = 0 /\ part = 1 /\ clause = 1)
      /\ boundary \in DOMAIN ops \cup {0}
  BY <1>1 DEF PlanInv, Planning, Built
<1>3. c.pattern \in Seq(Range(c.pattern)) /\ c.pattern # << >>
  <2>1. Len(query) \in Nat
    BY <1>2, QueryFacts
  <2>2. part \in 1..Len(query)
    BY <1>1, <1>2, <2>1
  <2>3. Len(query[part].clauses) \in Nat
    BY <1>2, <2>2, QueryFacts
  <2>4. clause \in 1..Len(query[part].clauses)
    BY <1>1, <1>2, <2>3
  <2> QED
    BY <1>2, <2>2, <2>4, QueryFacts
<1> HIDE DEF c
<1>4. Built(tree.plan) /\ Len(ops) <= Len(tree.plan) /\ tree.root \in DOMAIN tree.plan
  BY <1>2, <1>3, MatchTreeFacts
<1>5. below \in DOMAIN ops \cup {0}
  BY <1>2
<1>6. DOMAIN ops \subseteq DOMAIN tree.plan
  BY <1>2, <1>4, Longer DEF Built
<1> HIDE DEF tree, below
<1>7. Built(joined) /\ top \in DOMAIN joined /\ DOMAIN ops \subseteq DOMAIN joined
  <2>1. CASE below = 0
    BY <1>4, <1>6, <2>1
  <2>2. CASE below # 0
    <3>1. below \in DOMAIN tree.plan
      BY <1>5, <1>6, <2>2
    <3>2. Placeable(join, tree.plan)
      <4>1. kind \in JoinKinds
        BY DEF JoinKinds
      <4> HIDE DEF kind
      <4> QED
        BY <1>4, <3>1, <4>1, JoinIsPlaceable
    <3> HIDE DEF join
    <3>3. /\ Built(Add(tree.plan, join)) /\ Len(Add(tree.plan, join)) = Len(tree.plan) + 1
          /\ Len(tree.plan) + 1 \in DOMAIN Add(tree.plan, join)
          /\ DOMAIN tree.plan \subseteq DOMAIN Add(tree.plan, join)
      BY <1>4, <3>2, AddFacts
    <3> QED
      BY <1>6, <2>2, <3>3
  <2> QED
    BY <2>1, <2>2
<1> HIDE DEF joined, top
<1>8. Built(ops') /\ current' \in DOMAIN ops' /\ DOMAIN ops \subseteq DOMAIN ops'
  <2>1. CASE c.where = {}
    BY <1>1, <1>7, <2>1
  <2>2. CASE c.where # {}
    <3>1. Placeable(select, joined)
      BY <1>7, SelectionIsPlaceable
    <3> HIDE DEF select
    <3>2. /\ Built(Add(joined, select)) /\ Len(joined) + 1 \in DOMAIN Add(joined, select)
          /\ DOMAIN joined \subseteq DOMAIN Add(joined, select)
      BY <1>7, <3>1, AddFacts
    <3> QED
      BY <1>1, <1>7, <2>2, <3>2
  <2> QED
    BY <2>1, <2>2
<1>9. ~ (part > Len(query)) /\ clause + 1 \in Nat \ {0}
  <2>1. Len(query) \in Nat /\ part \in Nat
    BY <1>2, QueryFacts
  <2> QED
    BY <1>1, <1>2, <2>1
<1> QED
  BY <1>1, <1>2, <1>8, <1>9 DEF PlanInv, Planning, Built

LEMMA FinishPartKeeps == PlanInv /\ FinishPart => PlanInv'
<1> SUFFICES ASSUME PlanInv, FinishPart PROVE PlanInv'
  OBVIOUS
<1> DEFINE makesBoundary == ~ AfterBoundary /\ MakesBoundary
           kind == IF makesBoundary THEN "boundary" ELSE "project"
           op == Output(kind, current, query[part])
<1>1. /\ ops' = Add(ops, op) /\ current' = Len(ops')
      /\ boundary' = IF makesBoundary THEN Len(ops') ELSE IF AfterBoundary THEN 0 ELSE boundary
      /\ part' = part + 1 /\ clause' = 1 /\ pc = "build" /\ part <= Len(query)
      /\ clause > Len(query[part].clauses) /\ UNCHANGED <<query, pc>>
  BY DEF FinishPart
<1>2. /\ Built(ops) /\ query \in Queries /\ part \in 1..(Len(query) + 1) /\ clause \in Nat \ {0}
      /\ current \in DOMAIN ops \/ (current = 0 /\ part = 1 /\ clause = 1)
      /\ boundary \in DOMAIN ops \cup {0}
  BY <1>1 DEF PlanInv, Planning, Built
<1>3. Len(query) \in Nat \ {0} /\ part \in 1..Len(query)
  <2>1. Len(query) \in Nat \ {0}
    BY <1>2, QueryFacts
  <2> QED
    BY <1>1, <1>2, <2>1
<1>4. current \in DOMAIN ops
  <2>1. Len(query[1].clauses) \in Nat /\ 1 <= Len(query[1].clauses)
    <3>1. 1 \in 1..Len(query)
      BY <1>3
    <3> QED
      BY <1>2, <3>1, QueryFacts
  <2>2. ~ (1 > Len(query[1].clauses))
    BY <2>1
  <2> QED
    BY <1>1, <1>2, <2>2
<1>5. part + 1 > Len(query) => kind = "project"
  <2>1. ASSUME part + 1 > Len(query) PROVE (part+1)..Len(query) = {}
    BY <1>3, <2>1
  <2> QED
    BY <2>1 DEF MakesBoundary
<1>6. Placeable(op, ops) /\ op.kind = kind
  <2>1. kind \in {"boundary", "project"}
    OBVIOUS
  <2> HIDE DEF kind
  <2> QED
    BY <1>4, <2>1, OutputIsPlaceable
<1> HIDE DEF op, kind
<1>7. /\ Built(ops') /\ current' = Len(ops) + 1 /\ Len(ops') \in DOMAIN ops'
      /\ DOMAIN ops \subseteq DOMAIN ops' /\ ops'[current'].kind = kind
  <2>1. /\ Built(Add(ops, op)) /\ Len(Add(ops, op)) = Len(ops) + 1
        /\ Len(ops) + 1 \in DOMAIN Add(ops, op)
        /\ DOMAIN ops \subseteq DOMAIN Add(ops, op)
        /\ Add(ops, op)[Len(ops) + 1] = op
    BY <1>2, <1>6, AddFacts
  <2> QED
    BY <1>1, <1>6, <2>1
<1>8. boundary' \in DOMAIN ops' \cup {0}
  BY <1>1, <1>2, <1>7
<1>9. part' \in 1..(Len(query) + 1) /\ 1 \in Nat \ {0}
  BY <1>1, <1>3
<1> QED
  BY <1>1, <1>2, <1>5, <1>7, <1>8, <1>9 DEF PlanInv, Planning, Built

(* The passes start from the sources the terminal reads from.              *)
LEMMA NextPassKeeps == PlanInv /\ NextPass => PlanInv'
<1> SUFFICES ASSUME PlanInv, NextPass PROVE PlanInv'
  OBVIOUS
<1> DEFINE roots == IF pc = "build" THEN SourcesBelow(ops)[current] ELSE starts
           D == DOMAIN ops
<1>1. /\ pc # "done" /\ (pc = "build" => part > Len(query))
      /\ starts' = roots /\ work' = Visits(Following[pc], roots) /\ pc' = Following[pc]
      /\ UNCHANGED <<query, ops, current>>
  BY DEF NextPass
<1>2. query \in Queries /\ WellFormed(ops)
      /\ pc \in {"build", "eliminate", "push", "flatten", "done"}
  BY DEF PlanInv
<1>3. pc' \in {"eliminate", "push", "flatten", "done"}
  BY <1>1, <1>2 DEF Following
<1>4. current \in D /\ ops[current].kind = "project" /\ Agree(ops, Upstream(ops)[current])
  <2>1. CASE pc = "build"
    <3>1. Planning
      BY <2>1 DEF PlanInv
    <3>2. Len(query) \in Nat \ {0}
      BY <1>2, QueryFacts
    <3>3. part # 1
      BY <1>1, <2>1, <3>2
    <3>4. current \in D /\ ops[current].kind = "project"
      BY <1>1, <2>1, <3>1, <3>3 DEF Planning
    <3>5. Upstream(ops)[current] \subseteq D
      BY <1>2, <3>4, UpstreamFacts DEF Closed
    <3> QED
      BY <3>1, <3>4, <3>5 DEF Planning, Agree
  <2>2. CASE pc # "build"
    BY <2>2 DEF PlanInv, Rewriting
  <2> QED
    BY <2>1, <2>2
<1>5. roots \in Seq(D) /\ Range(roots) = SourcesOf(ops, current)
  <2>1. CASE pc = "build"
    BY <1>2, <1>4, <2>1, SourcesBelowFacts DEF SourcesOf
  <2>2. CASE pc # "build"
    BY <2>2 DEF PlanInv, Rewriting
  <2> QED
    BY <2>1, <2>2
<1> HIDE DEF roots
<1>6. /\ Visits(Following[pc], roots) \in Seq(D)
      /\ Following[pc] = "push" =>
           \A i \in Range(Visits(Following[pc], roots)) : ops[i].kind = "select"
  <2> DEFINE walked == AllOperators(ops, roots)
             numbers == [i \in D |-> i]
             pass == Following[pc]
             v == Visits(pass, roots)
  <2>1. walked \in Seq(D)
    BY <1>2, <1>5, AllOperatorsFacts
  <2>2. numbers \in Seq(D)
    <3> DEFINE n == Len(ops)
    <3>1. D = 1..n /\ n \in Nat
      BY <1>2, PlanFacts
    <3>2. numbers \in [1..n -> D]
      BY <3>1
    <3> HIDE DEF n, D, numbers
    <3> QED
      BY <3>1, <3>2
  <2>3. \A S : KeepIn(walked, S) \in Seq(D) /\ Range(KeepIn(walked, S)) \subseteq S
    <3> HIDE DEF walked, D
    <3> QED
      BY <2>1, KeepInFacts
  <2>4. \A S : KeepIn(numbers, S) \in Seq(D)
    <3> HIDE DEF numbers, D
    <3> QED
      BY <2>2, KeepInFacts
  <2>5. << >> \in Seq(D) /\ Range(<< >>) = {}
    BY DEF Range
  <2>6. v \in Seq(D)
    <3> DEFINE merged == KeepIn(numbers, OfKind({"select", "project"}) \cap Upstream(ops)[current])
    <3>1. v \in {KeepIn(walked, OfKind(JoinKinds)), KeepIn(walked, OfKind({"select"})),
                merged, << >>}
      <4> HIDE DEF pass
      <4> QED
        BY DEF Visits
    <3>2. merged \in Seq(D)
      BY <2>4
    <3> HIDE DEF v, walked, merged, D
    <3> QED
      BY <2>3, <2>5, <3>1, <3>2
  <2>7. ASSUME pass = "push" PROVE \A i \in Range(v) : ops[i].kind = "select"
    <3>1. v = IF opts.pushdown THEN KeepIn(walked, OfKind({"select"})) ELSE << >>
      <4> HIDE DEF pass
      <4> QED
        BY <2>7 DEF Visits
    <3>2. Range(v) \subseteq OfKind({"select"})
      <4> HIDE DEF v, walked
      <4> QED
        BY <2>3, <2>5, <3>1
    <3> HIDE DEF v
    <3> QED
      BY <3>2 DEF OfKind
  <2> QED
    BY <2>6, <2>7
<1> DEFINE next == Visits(Following[pc], roots)
           pass == Following[pc]
<1>7. /\ starts' = roots /\ work' = next /\ pc' = pass /\ ops' = ops /\ current' = current
      /\ query' = query
  BY <1>1
<1> HIDE DEF next, pass
<1>8. Rewriting'
  BY <1>4, <1>5, <1>6, <1>7 DEF Rewriting, SourcesOf, next, pass
<1> QED
  BY <1>2, <1>3, <1>7, <1>8 DEF PlanInv
-----------------------------------------------------------------------------
(* One step of a pass.                                                     *)
LEMMA VisitKeeps ==
  ASSUME PlanInv, pc # "build", work # << >>, work' = Tail(work),
         UNCHANGED <<query, pc, current>>,
         Rewrites(ops, ops', current),
         starts' \in Seq(DOMAIN ops), Range(starts') = SourcesOf(ops', current)
  PROVE  PlanInv'
<1>1. Rewriting /\ query \in Queries /\ pc \in {"build", "eliminate", "push", "flatten", "done"}
  BY DEF PlanInv
<1>2. Tail(work) \in Seq(DOMAIN ops) /\ Range(Tail(work)) \subseteq Range(work)
      /\ Range(work) \subseteq DOMAIN ops
  <2> DEFINE D == DOMAIN ops
  <2>1. work \in Seq(D)
    BY <1>1 DEF Rewriting
  <2> HIDE DEF D
  <2>2. Tail(work) \in Seq(D) /\ Range(Tail(work)) \subseteq Range(work) /\ Range(work) \subseteq D
    BY <2>1, TailFacts, RangeFacts
  <2> QED
    BY <2>2 DEF D
<1>3. Rewriting'
  BY <1>1, <1>2 DEF Rewriting, Rewrites
<1> QED
  BY <1>1, <1>3 DEF PlanInv, Rewrites

LEMMA EliminateJoinKeeps == PlanInv /\ EliminateJoin => PlanInv'
<1> SUFFICES ASSUME PlanInv, EliminateJoin PROVE PlanInv'
  OBVIOUS
<1> DEFINE j == Head(work)
           edge == FirstSource(ops, {"rel"})[j]
           D == DOMAIN ops
<1>1. /\ pc = "eliminate" /\ work # << >> /\ work' = Tail(work)
      /\ UNCHANGED <<query, pc, current>>
  BY DEF EliminateJoin, Visiting
<1>2. Rewriting /\ WellFormed(ops)
  BY <1>1 DEF PlanInv
<1>3. CASE ~ Eliminable(j)
  <2>1. ops' = ops /\ starts' = starts
    BY <1>3 DEF EliminateJoin
  <2>2. Rewrites(ops, ops', current)
    BY <1>2, <2>1 DEF Rewrites, Rewriting
  <2>3. starts' \in Seq(D) /\ Range(starts') = SourcesOf(ops', current)
    BY <1>2, <2>1 DEF Rewriting
  <2> QED
    BY <1>1, <2>2, <2>3, VisitKeeps
<1>4. CASE Eliminable(j)
  <2> DEFINE new == Redirect(ops, j, edge)
             N == Upstream(ops)[current]
  <2>1. ops' = new /\ starts' = KeepIn(starts, Upstream(ops')[current])
    BY <1>4 DEF EliminateJoin
  <2>2. j \in D
    <3>1. work \in Seq(D)
      BY <1>2 DEF Rewriting
    <3> HIDE DEF D
    <3> QED
      BY <1>1, <3>1, TailFacts
  <2>3. ops[j].kind = "join" /\ edge # 0
    BY <1>4 DEF Eliminable
  <2> HIDE DEF j
  <2>4. edge \in Upstream(ops)[j] /\ ops[edge].kind = "source"
    BY <1>2, <2>2, <2>3, FirstSourceFacts
  <2> HIDE DEF edge
  <2>5. edge \in D /\ edge < j
    <3>1. edge \in D /\ edge <= j
      BY <1>2, <2>2, <2>4, UpstreamIsOlder
    <3>2. edge # j
      BY <2>3, <2>4
    <3>3. edge \in Nat /\ j \in Nat
      BY <1>2, <2>2, <3>1, PlanFacts
    <3> QED
      BY <3>1, <3>2, <3>3
  <2>6. Redirected(ops, new, j, edge)
    BY <1>2, <2>2, <2>5, RedirectFacts
  <2>7. current \in D /\ current # j /\ Agree(ops, N)
    BY <1>2, <2>3 DEF Rewriting
  <2>8. j \in N => edge \in N
    <3>1. Closed(ops, N)
      BY <1>2, <2>7, UpstreamFacts
    <3>2. j \in N => Upstream(ops)[j] \subseteq N
      BY <1>2, <2>2, <3>1, UpstreamFacts
    <3> QED
      BY <2>4, <3>2
  <2> HIDE DEF new
  <2>9. Upstream(new)[current] \subseteq N \ {j} /\ Agree(new, Upstream(new)[current])
    BY <1>2, <2>2, <2>5, <2>6, <2>7, <2>8, RedirectKeepsAgreement
  <2>10. Rewrites(ops, new, current)
    BY <2>6, <2>9 DEF Rewrites, Redirected
  <2>11. N \subseteq D
    BY <1>2, <2>7, UpstreamFacts DEF Closed
  <2>12. SourcesOf(new, current) = SourcesOf(ops, current) \cap Upstream(new)[current]
    BY <2>9, <2>10, <2>11 DEF SourcesOf, Rewrites
  <2>13. starts' \in Seq(D) /\ Range(starts') = SourcesOf(ops', current)
    <3> DEFINE U == Upstream(new)[current]
    <3>1. starts \in Seq(D) /\ Range(starts) = SourcesOf(ops, current)
      BY <1>2 DEF Rewriting
    <3>2. starts' = KeepIn(starts, U) /\ ops' = new
      BY <2>1
    <3> HIDE DEF D, U
    <3>3. KeepIn(starts, U) \in Seq(D) /\ Range(KeepIn(starts, U)) = Range(starts) \cap U
      BY <3>1, KeepInFacts
    <3> QED
      BY <2>12, <3>1, <3>2, <3>3 DEF U
  <2>14. Rewrites(ops, ops', current)
    BY <2>1, <2>10
  <2> HIDE DEF D
  <2> QED
    BY <1>1, <2>13, <2>14, VisitKeeps DEF D
<1> QED
  BY <1>3, <1>4

(* Bypassing a selection of a plan with the same graph loses no source.    *)
LEMMA BypassRewrites ==
  ASSUME NEW plan, WellFormed(plan), NEW same, SameGraph(plan, same),
         NEW c \in DOMAIN plan, plan[c].kind = "project", Agree(plan, Upstream(plan)[c]),
         NEW s \in DOMAIN plan, plan[s].kind = "select"
  PROVE  /\ Rewrites(plan, Bypass(same, s), c)
         /\ SourcesOf(Bypass(same, s), c) = SourcesOf(plan, c)
<1> DEFINE new == Bypass(same, s)
<1>1. /\ WellFormed(same) /\ DOMAIN same = DOMAIN plan
      /\ Upstream(same)[c] = Upstream(plan)[c] /\ Agree(same, Upstream(same)[c])
      /\ \A k \in DOMAIN plan : same[k].kind = plan[k].kind
  <2>1. Upstream(plan)[c] \in SUBSET DOMAIN plan
    BY UpstreamFacts DEF Closed
  <2>2. /\ WellFormed(same) /\ Upstream(same)[c] = Upstream(plan)[c]
        /\ Agree(same, Upstream(plan)[c])
    BY <2>1, SameGraphFacts
  <2> QED
    BY <2>2 DEF SameGraph
<1>2. same[s].kind = "select" /\ c # s
  BY <1>1
<1>3. /\ WellFormed(new) /\ DOMAIN new = DOMAIN same
      /\ \A k \in DOMAIN same : new[k].kind = same[k].kind
      /\ Agree(new, Upstream(new)[c])
      /\ Upstream(new)[c] \ {s} = Upstream(same)[c] \ {s}
  BY <1>1, <1>2, BypassFacts
<1> HIDE DEF new
<1>4. Rewrites(plan, new, c)
  BY <1>1, <1>3 DEF Rewrites
<1>5. SourcesOf(new, c) = SourcesOf(plan, c)
  <2>1. Upstream(new)[c] \subseteq DOMAIN plan /\ Upstream(plan)[c] \subseteq DOMAIN plan
    BY <1>1, <1>3, UpstreamFacts DEF Closed
  <2>2. new[s].kind # "source" /\ plan[s].kind # "source"
    BY <1>1, <1>2, <1>3
  <2> QED
    BY <1>1, <1>3, <2>1, <2>2 DEF SourcesOf
<1> QED
  BY <1>4, <1>5 DEF new

(* A step that changes filters alone rewrites nothing else.                *)
LEMMA SameGraphRewrites ==
  ASSUME NEW plan, WellFormed(plan), NEW same, SameGraph(plan, same),
         NEW c \in DOMAIN plan, Agree(plan, Upstream(plan)[c])
  PROVE  Rewrites(plan, same, c) /\ SourcesOf(same, c) = SourcesOf(plan, c)
<1>1. Upstream(plan)[c] \in SUBSET DOMAIN plan
  BY UpstreamFacts DEF Closed
<1>2. /\ WellFormed(same) /\ Upstream(same)[c] = Upstream(plan)[c]
      /\ Agree(same, Upstream(plan)[c])
  BY <1>1, SameGraphFacts
<1>3. DOMAIN same = DOMAIN plan /\ \A k \in DOMAIN plan : same[k].kind = plan[k].kind
  BY DEF SameGraph
<1> QED
  BY <1>1, <1>2, <1>3 DEF Rewrites, SourcesOf

LEMMA SameFilters ==
  ASSUME NEW plan, WellFormed(plan), NEW filters
  PROVE  LET new == [i \in DOMAIN plan |-> [plan[i] EXCEPT !.filter = filters[i]]]
         IN  SameGraph(plan, new) /\ \A i \in DOMAIN plan : SameOutput(new[i], plan[i])
<1> DEFINE new == [i \in DOMAIN plan |-> [plan[i] EXCEPT !.filter = filters[i]]]
<1>1. DOMAIN new = DOMAIN plan /\ new = [i \in DOMAIN plan |-> new[i]]
  OBVIOUS
<1>2. ASSUME NEW i \in DOMAIN plan
      PROVE  /\ IsOperator(new[i]) /\ SameOutput(new[i], plan[i])
             /\ new[i].ins = plan[i].ins /\ new[i].outs = plan[i].outs
  <2>1. IsOperator(plan[i])
    BY DEF WellFormed, IsNode
  <2> DEFINE f == filters[i]
  <2>2. new[i] = [plan[i] EXCEPT !.filter = f]
    OBVIOUS
  <2> HIDE DEF new, f
  <2> QED
    BY <2>1, <2>2 DEF IsOperator, SameOutput
<1> HIDE DEF new
<1>3. \A i \in DOMAIN plan : new[i].kind = plan[i].kind
  BY <1>2 DEF SameOutput
<1> QED
  BY <1>1, <1>2, <1>3 DEF SameGraph, new

(* What a step of selection pushdown does to the filters.                  *)
LEMMA PushSelectionFacts ==
  ASSUME PlanInv, PushSelection
  PROVE  LET s == Head(work)
             pushed == {p \in ops[s].filter : Pushable(p, s)}
         IN  /\ s \in DOMAIN ops /\ ops[s].kind = "select"
             /\ \E plan :
                  /\ SameGraph(ops, plan) /\ \A i \in DOMAIN ops : SameOutput(plan[i], ops[i])
                  /\ plan[s].filter = ops[s].filter \ pushed
                  /\ \A i \in DOMAIN ops \ {s} :
                       plan[i].filter = ops[i].filter \cup
                         {p \in pushed : \E v \in p.on : Head(DataSourcesFor(v)) = i}
                  /\ ops' = IF ops[s].filter \ pushed = {} THEN Bypass(plan, s) ELSE plan
<1> DEFINE s == Head(work)
           pushed == {p \in ops[s].filter : Pushable(p, s)}
           Received(i) == {p \in pushed : \E v \in p.on : Head(DataSourcesFor(v)) = i}
           plan == [i \in DOMAIN ops |->
                      IF i = s THEN [ops[s] EXCEPT !.filter = Remaining(s, pushed)]
                               ELSE [ops[i] EXCEPT !.filter = @ \cup Received(i)]]
           filters == [i \in DOMAIN ops |-> IF i = s THEN Remaining(s, pushed)
                                            ELSE ops[i].filter \cup Received(i)]
           D == DOMAIN ops
<1>1. /\ pc = "push" /\ work # << >>
      /\ ops' = IF Remaining(s, pushed) = {} THEN Bypass(plan, s) ELSE plan
  BY DEF PushSelection, Visiting
<1>2. Rewriting /\ WellFormed(ops)
  BY <1>1 DEF PlanInv
<1>3. s \in D /\ ops[s].kind = "select"
  <2>1. work \in Seq(D) /\ \A i \in Range(work) : ops[i].kind = "select"
    BY <1>1, <1>2 DEF Rewriting
  <2> HIDE DEF D
  <2>2. Head(work) \in D /\ Head(work) \in Range(work)
    BY <1>1, <2>1, TailFacts
  <2> QED
    BY <2>1, <2>2
<1> HIDE DEF s
<1>4. plan = [i \in D |-> [ops[i] EXCEPT !.filter = filters[i]]]
  <2> HIDE DEF pushed, Received
  <2>1. ASSUME NEW i \in D
        PROVE  plan[i] = [ops[i] EXCEPT !.filter = filters[i]]
    <3>1. CASE i = s
      BY <3>1
    <3>2. CASE i # s
      BY <3>2
    <3> QED
      BY <3>1, <3>2
  <2>2. plan = [i \in D |-> plan[i]]
    OBVIOUS
  <2> HIDE DEF plan, filters
  <2> QED
    BY <2>1, <2>2
<1>5. SameGraph(ops, plan) /\ \A i \in D : SameOutput(plan[i], ops[i])
  <2> HIDE DEF plan, filters, pushed
  <2> QED
    BY <1>2, <1>4, SameFilters
<1>6. \A i \in D : plan[i].filter = filters[i]
  <2> HIDE DEF plan, filters, pushed
  <2> TAKE i \in D
  <2> DEFINE f == filters[i]
             op == ops[i]
  <2>1. IsOperator(op)
    BY <1>2 DEF WellFormed, IsNode
  <2>2. plan[i] = [op EXCEPT !.filter = f]
    BY <1>4
  <2> HIDE DEF f, op
  <2>3. plan[i].filter = f
    BY <2>1, <2>2 DEF IsOperator
  <2> QED
    BY <2>3 DEF f
<1>7. filters[s] = ops[s].filter \ pushed /\ \A i \in D \ {s} : filters[i] = ops[i].filter \cup Received(i)
  BY <1>3 DEF Remaining
<1>8. \E q :
        /\ SameGraph(ops, q) /\ \A i \in D : SameOutput(q[i], ops[i])
        /\ q[s].filter = ops[s].filter \ pushed
        /\ \A i \in D \ {s} : q[i].filter = ops[i].filter \cup Received(i)
        /\ ops' = IF ops[s].filter \ pushed = {} THEN Bypass(q, s) ELSE q
  <2> HIDE DEF plan, filters, pushed, Received
  <2> QED
    BY <1>1, <1>3, <1>5, <1>6, <1>7 DEF Remaining
<1> QED
  BY <1>3, <1>8 DEF s

LEMMA PushSelectionKeeps == PlanInv /\ PushSelection => PlanInv'
<1> SUFFICES ASSUME PlanInv, PushSelection PROVE PlanInv'
  OBVIOUS
<1> DEFINE s == Head(work)
           pushed == {p \in ops[s].filter : Pushable(p, s)}
           D == DOMAIN ops
<1>1. /\ pc = "push" /\ work # << >> /\ work' = Tail(work)
      /\ UNCHANGED <<query, pc, current>> /\ starts' = starts
  BY DEF PushSelection, Visiting
<1>2. Rewriting /\ WellFormed(ops)
  BY <1>1 DEF PlanInv
<1>3. s \in D /\ ops[s].kind = "select"
  BY PushSelectionFacts
<1>4. PICK plan : /\ SameGraph(ops, plan)
                  /\ ops' = IF ops[s].filter \ pushed = {} THEN Bypass(plan, s) ELSE plan
  BY PushSelectionFacts
<1> HIDE DEF s, pushed
<1>5. current \in D /\ ops[current].kind = "project" /\ Agree(ops, Upstream(ops)[current])
      /\ starts \in Seq(D) /\ Range(starts) = SourcesOf(ops, current)
  BY <1>2 DEF Rewriting
<1>6. Rewrites(ops, ops', current) /\ SourcesOf(ops', current) = SourcesOf(ops, current)
  <2>1. CASE ops' = Bypass(plan, s)
    BY <1>2, <1>3, <1>4, <1>5, <2>1, BypassRewrites
  <2>2. CASE ops' = plan
    BY <1>2, <1>4, <1>5, <2>2, SameGraphRewrites
  <2> QED
    BY <1>4, <2>1, <2>2
<1>7. starts' \in Seq(D) /\ Range(starts') = SourcesOf(ops', current)
  BY <1>1, <1>5, <1>6
<1> HIDE DEF D
<1> QED
  BY <1>1, <1>6, <1>7, VisitKeeps DEF D

(* What a step of subquery flattening does to the filters.                 *)
LEMMA MergeFacts ==
  ASSUME PlanInv, Flatten
  PROVE  LET i == Head(work)
             below == Left(ops, i)
         IN  /\ i \in DOMAIN ops
             /\ \/ ops' = ops
                \/ /\ below \in DOMAIN ops /\ below \in Range(ops[i].ins)
                   /\ ops[below].kind = "select" /\ ops[below].ins # << >>
                   /\ \E plan :
                        /\ SameGraph(ops, plan)
                        /\ \A k \in DOMAIN ops : SameOutput(plan[k], ops[k])
                        /\ plan[i].filter = ops[i].filter \cup ops[below].filter
                        /\ \A k \in DOMAIN ops \ {i} : plan[k].filter = ops[k].filter
                        /\ ops' = Bypass(plan, below)
<1> DEFINE i == Head(work)
           below == Left(ops, i)
           Merged == [ops EXCEPT ![i].filter = @ \cup ops[below].filter]
           Merges == /\ ops[i].ins # << >> /\ ops[below].kind = "select"
                     /\ ops[below].ins # << >>
                     /\ (ops[i].kind = "project" => ops[i].filter = {})
           D == DOMAIN ops
<1>1. pc = "flatten" /\ work # << >> /\ ops' = IF Merges THEN Bypass(Merged, below) ELSE ops
  BY DEF Flatten, Visiting
<1>2. Rewriting /\ WellFormed(ops)
  BY <1>1 DEF PlanInv
<1>3. i \in D
  <2>1. work \in Seq(D)
    BY <1>2 DEF Rewriting
  <2> HIDE DEF D
  <2> QED
    BY <1>1, <2>1, TailFacts
<1>4. CASE ~ Merges
  BY <1>1, <1>3, <1>4
<1>5. CASE Merges
  <2> HIDE DEF i
  <2>1. below \in D /\ below \in Range(ops[i].ins)
    <3> DEFINE ins == ops[i].ins
    <3>1. ins \in Seq(D) /\ ins # << >>
      BY <1>2, <1>3, <1>5 DEF WellFormed, IsNode
    <3>2. ins[1] \in D /\ ins[1] \in Range(ins)
      <4> HIDE DEF ins, D
      <4>1. 1 \in DOMAIN ins /\ ins[1] \in D
        BY <3>1
      <4> QED
        BY <4>1 DEF Range
    <3> QED
      BY <3>2 DEF Left
  <2> DEFINE filters == [k \in D |-> IF k = i THEN ops[i].filter \cup ops[below].filter
                                     ELSE ops[k].filter]
  <2>2. ASSUME NEW k \in D PROVE Merged[k] = [ops[k] EXCEPT !.filter = filters[k]]
    <3>1. IsOperator(ops[k])
      BY <1>2 DEF WellFormed, IsNode
    <3>2. CASE k = i
      BY <1>3, <3>2
    <3>3. CASE k # i
      <4>1. Merged[k] = ops[k] /\ filters[k] = ops[k].filter
        BY <3>3
      <4> HIDE DEF Merged, filters
      <4>2. [ops[k] EXCEPT !.filter = ops[k].filter] = ops[k]
        BY <3>1 DEF IsOperator
      <4> QED
        BY <4>1, <4>2
    <3> QED
      BY <3>2, <3>3
  <2>3. Merged = [k \in D |-> Merged[k]]
    <3> DEFINE op == [ops[i] EXCEPT !.filter = @ \cup ops[below].filter]
    <3>1. Merged = [ops EXCEPT ![i] = op]
      OBVIOUS
    <3> HIDE DEF op
    <3>2. ops = [k \in D |-> ops[k]]
      <4>1. ops \in Seq(Range(ops))
        BY <1>2 DEF WellFormed
      <4> QED
        BY <4>1
    <3> QED
      BY <3>1, <3>2
  <2>4. /\ filters[i] = ops[i].filter \cup ops[below].filter
        /\ \A k \in D \ {i} : filters[k] = ops[k].filter
    BY <1>3
  <2>5. ops' = Bypass(Merged, below) /\ ops[below].kind = "select" /\ ops[below].ins # << >>
    BY <1>1, <1>5
  <2> HIDE DEF Merged, filters
  <2>6. Merged = [k \in D |-> [ops[k] EXCEPT !.filter = filters[k]]]
    BY <2>2, <2>3
  <2>7. SameGraph(ops, Merged) /\ \A k \in D : SameOutput(Merged[k], ops[k])
    BY <1>2, <2>6, SameFilters
  <2>8. \A k \in D : Merged[k].filter = filters[k]
    <3> TAKE k \in D
    <3> DEFINE f == filters[k]
               op == ops[k]
    <3>1. IsOperator(op)
      BY <1>2 DEF WellFormed, IsNode
    <3>2. Merged[k] = [op EXCEPT !.filter = f]
      BY <2>6
    <3> HIDE DEF f, op
    <3>3. Merged[k].filter = f
      BY <3>1, <3>2 DEF IsOperator
    <3> QED
      BY <3>3 DEF f
  <2> HIDE DEF below
  <2>9. \E plan :
          /\ SameGraph(ops, plan) /\ \A k \in D : SameOutput(plan[k], ops[k])
          /\ plan[i].filter = ops[i].filter \cup ops[below].filter
          /\ \A k \in D \ {i} : plan[k].filter = ops[k].filter
          /\ ops' = Bypass(plan, below)
    BY <1>3, <2>4, <2>5, <2>7, <2>8
  <2> QED
    BY <1>3, <2>1, <2>5, <2>9 DEF i, below
<1> QED
  BY <1>4, <1>5

LEMMA FlattenKeeps == PlanInv /\ Flatten => PlanInv'
<1> SUFFICES ASSUME PlanInv, Flatten PROVE PlanInv'
  OBVIOUS
<1> DEFINE i == Head(work)
           below == Left(ops, i)
           D == DOMAIN ops
<1>1. /\ pc = "flatten" /\ work # << >> /\ work' = Tail(work)
      /\ UNCHANGED <<query, pc, current>> /\ starts' = starts
  BY DEF Flatten, Visiting
<1>2. Rewriting /\ WellFormed(ops)
  BY <1>1 DEF PlanInv
<1>3. \/ ops' = ops
      \/ /\ below \in D /\ ops[below].kind = "select"
         /\ \E plan : SameGraph(ops, plan) /\ ops' = Bypass(plan, below)
  BY MergeFacts
<1>4. current \in D /\ ops[current].kind = "project" /\ Agree(ops, Upstream(ops)[current])
      /\ starts \in Seq(D) /\ Range(starts) = SourcesOf(ops, current)
  BY <1>2 DEF Rewriting
<1> HIDE DEF i, below
<1>5. Rewrites(ops, ops', current) /\ SourcesOf(ops', current) = SourcesOf(ops, current)
  <2>1. CASE ops' = ops
    BY <1>2, <1>4, <2>1 DEF Rewrites
  <2>2. CASE ops' # ops
    <3>1. PICK plan : SameGraph(ops, plan) /\ ops' = Bypass(plan, below)
      BY <1>3, <2>2
    <3> QED
      BY <1>2, <1>3, <1>4, <2>2, <3>1, BypassRewrites
  <2> QED
    BY <2>1, <2>2
<1>6. starts' \in Seq(D) /\ Range(starts') = SourcesOf(ops', current)
  BY <1>1, <1>4, <1>5
<1> HIDE DEF D
<1> QED
  BY <1>1, <1>5, <1>6, VisitKeeps DEF D

-----------------------------------------------------------------------------
LEMMA PlanInvNext == PlanInv /\ [Next]_vars => PlanInv'
<1> SUFFICES ASSUME PlanInv, [Next]_vars PROVE PlanInv'
  OBVIOUS
<1>1. CASE PlanClause
  BY <1>1, PlanClauseKeeps
<1>2. CASE FinishPart
  BY <1>2, FinishPartKeeps
<1>3. CASE NextPass
  BY <1>3, NextPassKeeps
<1>4. CASE EliminateJoin
  BY <1>4, EliminateJoinKeeps
<1>5. CASE PushSelection
  BY <1>5, PushSelectionKeeps
<1>6. CASE Flatten
  BY <1>6, FlattenKeeps
<1>7. CASE UNCHANGED vars
  BY <1>7 DEF vars, PlanInv, Planning, Rewriting
<1> QED
  BY <1>1, <1>2, <1>3, <1>4, <1>5, <1>6, <1>7 DEF Next

(* The walk down from starting_operators and the walk up from the terminal *)
(* see one and the same graph after every rewrite of every pass, whatever  *)
(* the query and whichever passes are enabled: dead table elimination,     *)
(* selection pushdown and subquery flattening keep the edges of what the   *)
(* terminal still needs known at both of their ends.                       *)
THEOREM WalksAgree == Spec => []BothWalksAgree
<1>1. Spec => []PlanInv
  BY PlanInvInit, PlanInvNext, PTL DEF Spec
<1> QED
  BY <1>1, InvImpliesBothWalksAgree, PTL
-----------------------------------------------------------------------------
(* Where the conjuncts of the WHEREs stand.  A place is a clause of the    *)
(* query; it is planned once the planner is past it.                       *)
Places == UNION {{k} \X (1..Len(query[k].clauses)) : k \in 1..Len(query)}
WhereAt(a) == query[a[1]].clauses[a[2]].where
Before(a, b) == a[1] < b[1] \/ (a[1] = b[1] /\ a[2] < b[2])
IsLast(a) == \A b \in Places : ~ Before(a, b)
Planned(a) == Before(a, <<part, clause>>)
PlannedLast(a) == Planned(a) /\ \A b \in Places : Before(a, b) => ~ Planned(b)

(* No conjunct is written in two clauses: a copy would be a conjunct of    *)
(* its own, which this model cannot tell from the first.                   *)
DistinctConjuncts == \A a, b \in Places : a # b => WhereAt(a) \cap WhereAt(b) = {}

Holders(plan, p) == {i \in DOMAIN plan : p \in plan[i].filter}
StandsOnce(plan, p) == \E i \in DOMAIN plan : Holders(plan, p) = {i}
AboveJoins(plan, p) ==
  \A i \in Holders(plan, p), j \in DOMAIN plan : plan[j].kind \in JoinKinds => j < i
FiltersBelow(plan, c) == \A i \in DOMAIN plan : plan[i].filter # {} => i \in Upstream(plan)[c]

(* While planning: what is planned stands once, and above every join if it *)
(* was planned last; no clause to come leaves out an operator that has a   *)
(* filter, whether it goes on top of current or of the boundary.           *)
Writing ==
  /\ \A a \in Places : \A p \in WhereAt(a) :
       /\ Planned(a) => StandsOnce(ops, p)
       /\ ~ Planned(a) => Holders(ops, p) = {}
       /\ PlannedLast(a) => AboveJoins(ops, p)
  /\ IF current = 0 THEN \A i \in DOMAIN ops : ops[i].filter = {} ELSE FiltersBelow(ops, current)
  /\ boundary # 0 /\ (AfterBoundary => clause = 1) => FiltersBelow(ops, boundary)

(* Afterwards: a conjunct stands at most once in what the terminal needs,  *)
(* and is there unless a join that was planned above it may have been      *)
(* eliminated.  An operator flattening has merged away has no input left,  *)
(* so that it is not visited to any effect.                                *)
Moving ==
  LET needed == Upstream(ops)[current]
  IN  /\ \A a \in Places : \A p \in WhereAt(a) :
           /\ pc \in {"eliminate", "push"} => StandsOnce(ops, p)
           /\ \A i, j \in Holders(ops, p) \cap needed : i = j
           /\ (opts.deadTables => IsLast(a)) => Holders(ops, p) \cap needed # {}
           /\ pc = "eliminate" /\ IsLast(a) => AboveJoins(ops, p)
      /\ pc = "eliminate" /\ work # << >> => opts.deadTables
      /\ pc = "flatten" => \A i \in Range(work) : i \in needed \/ Range(ops[i].ins) = {}

ConjunctInv == IF pc = "build" THEN Writing ELSE Moving

(* Where a conjunct is in the SQL that would be rendered; a step that      *)
(* leaves every conjunct that is there somewhere in it.                    *)
Rendered(p) == Holders(ops, p) \cap Upstream(ops)[current]
LosesNone == \A a \in Places : \A p \in WhereAt(a) : Rendered(p) # {} => Rendered(p)' # {}

-----------------------------------------------------------------------------
LEMMA PlacesFacts ==
  ASSUME query \in Queries
  PROVE  \A a \in Places : /\ a[1] \in 1..Len(query) /\ a[2] \in 1..Len(query[a[1]].clauses)
                           /\ a[1] \in Nat /\ a[2] \in Nat /\ a = <<a[1], a[2]>>
<1>1. Len(query) \in Nat /\ \A k \in 1..Len(query) : Len(query[k].clauses) \in Nat
  BY QueryFacts
<1> TAKE a \in Places
<1>2. PICK k \in 1..Len(query) : a \in {k} \X (1..Len(query[k].clauses))
  BY DEF Places
<1> QED
  BY <1>1, <1>2

(* A plan that is extended loses nothing that is upstream.                 *)
LEMMA ExtendsUpstream ==
  ASSUME NEW plan, WellFormed(plan), NEW new, WellFormed(new), Extends(plan, new),
         NEW c \in DOMAIN plan
  PROVE  Upstream(plan)[c] \subseteq Upstream(new)[c]
<1> DEFINE U == Upstream(new)[c]
           S == U \cap DOMAIN plan
<1>1. c \in U /\ Closed(new, U)
  BY UpstreamFacts DEF Extends
<1> HIDE DEF U
<1>2. c \in S /\ Closed(plan, S)
  <2>1. \A a \in S : Range(plan[a].ins) \subseteq U /\ Range(plan[a].ins) \subseteq DOMAIN plan
    BY <1>1, PlanFacts DEF Closed, Extends
  <2> QED
    BY <1>1, <2>1 DEF Closed
<1> HIDE DEF S
<1>3. Upstream(plan)[c] \subseteq S
  BY <1>2, UpstreamFacts
<1> QED
  BY <1>3 DEF S, U

(* What an input of i needs, i needs.                                      *)
LEMMA UpstreamOfInput ==
  ASSUME NEW plan, WellFormed(plan), NEW i \in DOMAIN plan, NEW j \in Range(plan[i].ins)
  PROVE  Upstream(plan)[j] \subseteq Upstream(plan)[i]
<1>1. i \in Upstream(plan)[i] /\ Closed(plan, Upstream(plan)[i])
  BY UpstreamFacts
<1>2. j \in Upstream(plan)[i] /\ j \in DOMAIN plan
  BY <1>1, PlanFacts DEF Closed
<1> QED
  BY <1>1, <1>2, UpstreamFacts

(* An operator without a filter, put on top of one every filter is below,  *)
(* is itself one.                                                          *)
LEMMA GrowsBelow ==
  ASSUME NEW plan, WellFormed(plan), NEW new, WellFormed(new), Grows(plan, new),
         NEW c \in DOMAIN plan, FiltersBelow(plan, c)
  PROVE  /\ FiltersBelow(new, c)
         /\ \A i \in DOMAIN new : c \in Range(new[i].ins) => FiltersBelow(new, i)
         /\ \A p : Holders(new, p) = Holders(plan, p)
<1>1. Upstream(plan)[c] \subseteq Upstream(new)[c]
  BY ExtendsUpstream DEF Grows
<1>2. \A i \in DOMAIN new : new[i].filter # {} => i \in DOMAIN plan /\ plan[i].filter # {}
  BY DEF Grows, Extends
<1>3. FiltersBelow(new, c)
  BY <1>1, <1>2 DEF FiltersBelow
<1>4. \A i \in DOMAIN new : c \in Range(new[i].ins) => FiltersBelow(new, i)
  BY <1>3, UpstreamOfInput DEF FiltersBelow
<1>5. \A p : Holders(new, p) = Holders(plan, p)
  BY DEF Grows, Extends, Holders
<1> QED
  BY <1>3, <1>4, <1>5

LEMMA GrowsHolders ==
  ASSUME NEW plan, NEW new, Grows(plan, new), NEW p
  PROVE  /\ Holders(new, p) = Holders(plan, p)
         /\ StandsOnce(plan, p) => StandsOnce(new, p)
BY DEF Grows, Extends, Holders, StandsOnce

LEMMA ConjunctInvInit == Init => ConjunctInv
<1> SUFFICES ASSUME Init PROVE Writing
  BY DEF ConjunctInv, Init
<1>1. /\ query \in Queries /\ ops = << >> /\ part = 1 /\ clause = 1 /\ boundary = 0
  BY DEF Init
<1>2. DOMAIN ops = {}
  BY <1>1
<1>3. ASSUME NEW a \in Places PROVE ~ Planned(a)
  <2>1. a[1] \in Nat /\ a[2] \in Nat /\ a[1] >= 1 /\ a[2] >= 1
    <3>1. /\ a[1] \in 1..Len(query) /\ a[2] \in 1..Len(query[a[1]].clauses)
          /\ a[1] \in Nat /\ a[2] \in Nat
      BY <1>1, PlacesFacts
    <3> QED
      BY <3>1
  <2>2. ~ (a[1] < 1) /\ ~ (a[2] < 1)
    BY <2>1
  <2> QED
    BY <1>1, <2>2 DEF Planned, Before
<1>4. \A p : Holders(ops, p) = {}
  BY <1>2 DEF Holders
<1>5. \A c : FiltersBelow(ops, c)
  BY <1>2 DEF FiltersBelow
<1> QED
  BY <1>2, <1>3, <1>4, <1>5 DEF Writing, PlannedLast

(* A selection put on top holds its conjuncts and nothing else changes.    *)
LEMMA SelectionHolds ==
  ASSUME NEW plan, Built(plan), NEW top \in DOMAIN plan, NEW where, FiltersBelow(plan, top)
  PROVE  LET new == Add(plan, Selection(plan, top, where))
             s == Len(plan) + 1
         IN  /\ FiltersBelow(new, s)
             /\ \A p : Holders(new, p) = Holders(plan, p) \cup (IF p \in where THEN {s} ELSE {})
             /\ s \in DOMAIN new /\ s \notin DOMAIN plan
             /\ \A j \in DOMAIN new : new[j].kind \in JoinKinds => j < s
<1> DEFINE op == Selection(plan, top, where)
           new == Add(plan, op)
           s == Len(plan) + 1
<1>1. Placeable(op, plan) /\ op.filter = where /\ op.kind = "select" /\ op.ins = <<top>>
  BY SelectionIsPlaceable
<1> HIDE DEF op
<1>2. /\ Built(new) /\ s \in DOMAIN new /\ new[s] = op
      /\ DOMAIN new = DOMAIN plan \cup {s} /\ Extends(plan, new)
  BY <1>1, AddFacts
<1>3. DOMAIN plan = 1..Len(plan) /\ Len(plan) \in Nat
  BY PlanFacts DEF Built
<1>4. s \notin DOMAIN plan /\ \A j \in DOMAIN plan : j < s
  BY <1>3
<1> HIDE DEF new, s
<1>5. \A p : Holders(new, p) = Holders(plan, p) \cup (IF p \in where THEN {s} ELSE {})
  BY <1>1, <1>2, <1>4 DEF Holders, Extends
<1>6. \A j \in DOMAIN new : new[j].kind \in JoinKinds => j < s
  BY <1>1, <1>2, <1>4 DEF JoinKinds
<1>7. FiltersBelow(new, s)
  <2>1. top \in Range(new[s].ins)
    <3>1. DOMAIN <<top>> = {1} /\ <<top>>[1] = top
      OBVIOUS
    <3> QED
      BY <1>1, <1>2, <3>1 DEF Range
  <2>2. Upstream(plan)[top] \subseteq Upstream(new)[top]
    BY <1>2, ExtendsUpstream DEF Built
  <2>3. Upstream(new)[top] \subseteq Upstream(new)[s]
    BY <1>2, <2>1, UpstreamOfInput DEF Built
  <2>4. s \in Upstream(new)[s]
    BY <1>2, UpstreamFacts DEF Built
  <2> QED
    BY <1>2, <2>2, <2>3, <2>4 DEF FiltersBelow, Extends
<1> QED
  BY <1>2, <1>4, <1>5, <1>6, <1>7 DEF new, s, op

(* What there was is joined with the tree of the next pattern.             *)
LEMMA JoinedKeepsFilters ==
  ASSUME NEW plan, Built(plan), NEW tree, Built(tree), Grows(plan, tree),
         NEW below \in DOMAIN plan, FiltersBelow(plan, below),
         NEW root \in DOMAIN tree, NEW kind \in JoinKinds, NEW pairs
  PROVE  LET new == Add(tree, Join(tree, kind, below, root, pairs))
         IN  /\ Built(new) /\ Grows(plan, new) /\ Len(new) \in DOMAIN new
             /\ FiltersBelow(new, Len(new))
<1> DEFINE op == Join(tree, kind, below, root, pairs)
           new == Add(tree, op)
           s == Len(tree) + 1
<1>1. below \in DOMAIN tree
  BY DEF Grows, Extends
<1>2. Placeable(op, tree) /\ op.filter = {} /\ op.ins = <<below, root>>
  BY <1>1, JoinIsPlaceable
<1> HIDE DEF op
<1>3. /\ Built(new) /\ s \in DOMAIN new /\ Len(new) = s /\ new[s] = op
      /\ Grows(tree, new)
  BY <1>2, AddFacts, AddGrows
<1> HIDE DEF new, s
<1>4. Grows(plan, new)
  BY <1>3, GrowsFurther
<1>5. below \in Range(new[s].ins)
  <2>1. 1 \in DOMAIN <<below, root>> /\ <<below, root>>[1] = below
    OBVIOUS
  <2> QED
    BY <1>2, <1>3, <2>1 DEF Range
<1>6. FiltersBelow(new, s)
  BY <1>3, <1>4, <1>5, GrowsBelow DEF Built
<1> QED
  BY <1>3, <1>4, <1>6 DEF new, op

LEMMA PlanClauseMovesOn ==
  ASSUME PlanInv, PlanClause
  PROVE  /\ <<part, clause>> \in Places
         /\ Places' = Places /\ \A a \in Places : WhereAt(a)' = WhereAt(a)
         /\ \A b \in Places : Planned(b)' <=> Planned(b) \/ b = <<part, clause>>
         /\ ~ Planned(<<part, clause>>)
<1>1. /\ query' = query /\ part' = part /\ clause' = clause + 1 /\ part <= Len(query)
      /\ clause <= Len(query[part].clauses) /\ pc = "build"
  BY DEF PlanClause
<1>2. query \in Queries /\ part \in 1..(Len(query) + 1) /\ clause \in Nat \ {0}
  BY <1>1 DEF PlanInv, Planning
<1>3. part \in 1..Len(query) /\ part \in Nat
  BY <1>1, <1>2, QueryFacts
<1>4. clause \in 1..Len(query[part].clauses)
  BY <1>1, <1>2, <1>3, QueryFacts
<1>5. <<part, clause>> \in Places
  BY <1>3, <1>4 DEF Places
<1>6. Places' = Places /\ \A a \in Places : WhereAt(a)' = WhereAt(a)
  BY <1>1 DEF Places, WhereAt
<1>7. ASSUME NEW b \in Places
      PROVE  Planned(b)' <=> Planned(b) \/ b = <<part, clause>>
  <2>1. b[1] \in Nat /\ b[2] \in Nat /\ b = <<b[1], b[2]>>
    BY <1>2, PlacesFacts
  <2>2. Planned(b)' <=> b[1] < part \/ (b[1] = part /\ b[2] < clause + 1)
    BY <1>1 DEF Planned, Before
  <2>3. Planned(b) <=> b[1] < part \/ (b[1] = part /\ b[2] < clause)
    BY DEF Planned, Before
  <2>4. b[2] < clause + 1 <=> b[2] < clause \/ b[2] = clause
    BY <1>2, <2>1
  <2>5. b = <<part, clause>> <=> b[1] = part /\ b[2] = clause
    BY <2>1
  <2> QED
    BY <1>2, <1>3, <2>1, <2>2, <2>3, <2>4, <2>5
<1>8. ~ Planned(<<part, clause>>)
  BY <1>2, <1>3 DEF Planned, Before
<1> QED
  BY <1>5, <1>6, <1>7, <1>8

LEMMA FinishPartMovesOn ==
  ASSUME PlanInv, FinishPart
  PROVE  /\ Places' = Places /\ \A a \in Places : WhereAt(a)' = WhereAt(a)
         /\ \A b \in Places : Planned(b)' <=> Planned(b)
<1>1. /\ query' = query /\ part' = part + 1 /\ clause' = 1 /\ part <= Len(query)
      /\ clause > Len(query[part].clauses) /\ pc = "build"
  BY DEF FinishPart
<1>2. query \in Queries /\ part \in 1..(Len(query) + 1) /\ clause \in Nat \ {0}
  BY <1>1 DEF PlanInv, Planning
<1>3. part \in 1..Len(query) /\ part \in Nat
  BY <1>1, <1>2, QueryFacts
<1>4. Len(query[part].clauses) \in Nat
  BY <1>2, <1>3, QueryFacts
<1>5. Places' = Places /\ \A a \in Places : WhereAt(a)' = WhereAt(a)
  BY <1>1 DEF Places, WhereAt
<1>6. ASSUME NEW b \in Places PROVE Planned(b)' <=> Planned(b)
  <2>1. /\ b[1] \in Nat /\ b[2] \in Nat
        /\ b[1] \in 1..Len(query) /\ b[2] \in 1..Len(query[b[1]].clauses)
    BY <1>2, PlacesFacts
  <2>2. Planned(b)' <=> b[1] < part + 1 \/ (b[1] = part + 1 /\ b[2] < 1)
    BY <1>1 DEF Planned, Before
  <2>3. Planned(b) <=> b[1] < part \/ (b[1] = part /\ b[2] < clause)
    BY DEF Planned, Before
  <2>4. ~ (b[2] < 1)
    BY <2>1
  <2>5. b[1] = part => b[2] < clause
    BY <1>1, <1>2, <1>4, <2>1
  <2> QED
    BY <1>3, <2>1, <2>2, <2>3, <2>4, <2>5
<1> QED
  BY <1>5, <1>6

LEMMA PlanClauseConjuncts ==
  PlanInv /\ DistinctConjuncts /\ ConjunctInv /\ PlanClause => ConjunctInv'
<1> SUFFICES ASSUME PlanInv, DistinctConjuncts, ConjunctInv, PlanClause PROVE Writing'
  BY DEF ConjunctInv, PlanClause
<1> DEFINE c == query[part].clauses[clause]
           next == <<part, clause>>
           below == IF AfterBoundary /\ clause = 1 THEN boundary ELSE current
           tree == MatchTree(ops, c.pattern)
           kind == IF c.optional THEN "left" ELSE "join"
           pairs == CorrelationPairs(c.pattern)
           join == Join(tree.plan, kind, below, tree.root, pairs)
           joined == IF below = 0 THEN tree.plan ELSE Add(tree.plan, join)
           top == IF below = 0 THEN tree.root ELSE Len(joined)
           select == Selection(joined, top, c.where)
           s == Len(joined) + 1
<1>1. /\ ops' = IF c.where = {} THEN joined ELSE Add(joined, select)
      /\ current' = IF c.where = {} THEN top ELSE s
      /\ clause' = clause + 1 /\ pc = "build" /\ part <= Len(query)
      /\ clause <= Len(query[part].clauses)
      /\ UNCHANGED <<query, pc, part, boundary>>
  BY DEF PlanClause
<1>2. /\ Built(ops) /\ query \in Queries /\ part \in 1..(Len(query) + 1) /\ clause \in Nat \ {0}
      /\ current \in DOMAIN ops \/ (current = 0 /\ part = 1 /\ clause = 1)
      /\ boundary \in DOMAIN ops \cup {0}
  BY <1>1 DEF PlanInv, Planning, Built
<1>3. c.pattern \in Seq(Range(c.pattern)) /\ c.pattern # << >>
  <2>1. part \in 1..Len(query)
    BY <1>1, <1>2, QueryFacts
  <2>2. clause \in 1..Len(query[part].clauses)
    BY <1>1, <1>2, <2>1, QueryFacts
  <2> QED
    BY <1>2, <2>1, <2>2, QueryFacts
<1>4. /\ next \in Places
      /\ Places' = Places /\ \A a \in Places : WhereAt(a)' = WhereAt(a)
      /\ \A b \in Places : Planned(b)' <=> Planned(b) \/ b = next
      /\ ~ Planned(next) /\ WhereAt(next) = c.where
  BY PlanClauseMovesOn DEF WhereAt
<1>5. Writing
  BY <1>1 DEF ConjunctInv
<1> HIDE DEF c, pairs
<1>6. /\ Built(tree.plan) /\ tree.root \in DOMAIN tree.plan /\ Grows(ops, tree.plan)
  BY <1>2, <1>3, MatchTreeFacts
<1>7. below # 0 => below \in DOMAIN ops /\ FiltersBelow(ops, below)
  <2>1. CASE AfterBoundary /\ clause = 1
    BY <1>2, <1>5, <2>1 DEF AfterBoundary, Writing
  <2>2. CASE ~ (AfterBoundary /\ clause = 1)
    BY <1>2, <1>5, <2>2 DEF Writing
  <2> QED
    BY <2>1, <2>2
<1>8. below = 0 => \A i \in DOMAIN ops : ops[i].filter = {}
  BY <1>2, <1>5, PlanFacts DEF AfterBoundary, Writing, Built
<1> HIDE DEF tree, below
<1>9. Built(joined) /\ top \in DOMAIN joined /\ Grows(ops, joined) /\ FiltersBelow(joined, top)
  <2>1. CASE below = 0
    <3>1. FiltersBelow(tree.plan, tree.root)
      BY <1>6, <1>8, <2>1 DEF FiltersBelow, Grows, Extends
    <3> QED
      BY <1>6, <2>1, <3>1
  <2>2. CASE below # 0
    <3>1. kind \in JoinKinds
      BY DEF JoinKinds
    <3> HIDE DEF kind
    <3>2. /\ Built(Add(tree.plan, join)) /\ Grows(ops, Add(tree.plan, join))
          /\ Len(Add(tree.plan, join)) \in DOMAIN Add(tree.plan, join)
          /\ FiltersBelow(Add(tree.plan, join), Len(Add(tree.plan, join)))
      BY <1>2, <1>6, <1>7, <2>2, <3>1, JoinedKeepsFilters
    <3> QED
      BY <2>2, <3>2
  <2> QED
    BY <2>1, <2>2
<1> HIDE DEF joined, top
<1>10. /\ FiltersBelow(ops', current') /\ current' # 0
       /\ \A p : Holders(ops', p) = Holders(ops, p) \cup (IF p \in c.where THEN {s} ELSE {})
       /\ c.where # {} => /\ s \in DOMAIN ops' /\ s \notin DOMAIN ops
                          /\ \A j \in DOMAIN ops' : ops'[j].kind \in JoinKinds => j < s
       /\ DOMAIN ops \subseteq DOMAIN ops'
  <2>1. \A p : Holders(joined, p) = Holders(ops, p)
    BY <1>9, GrowsHolders
  <2>2. DOMAIN ops \subseteq DOMAIN joined
    BY <1>9 DEF Grows, Extends
  <2>3. CASE c.where = {}
    <3>1. top # 0
      BY <1>9, PlanFacts DEF Built
    <3> QED
      BY <1>1, <1>9, <2>1, <2>2, <2>3, <3>1
  <2>4. CASE c.where # {}
    <3>1. /\ FiltersBelow(Add(joined, select), s)
          /\ \A p : Holders(Add(joined, select), p)
                      = Holders(joined, p) \cup (IF p \in c.where THEN {s} ELSE {})
          /\ s \in DOMAIN Add(joined, select) /\ s \notin DOMAIN joined
          /\ \A j \in DOMAIN Add(joined, select) :
               Add(joined, select)[j].kind \in JoinKinds => j < s
      BY <1>9, SelectionHolds
    <3>2. DOMAIN joined \subseteq DOMAIN Add(joined, select)
      BY <1>9, SelectionIsPlaceable, AddFacts
    <3>3. s # 0
      BY <1>9, PlanFacts DEF Built
    <3> HIDE DEF select, s
    <3> QED
      BY <1>1, <2>1, <2>2, <2>4, <3>1, <3>2, <3>3
  <2> QED
    BY <2>3, <2>4
<1> HIDE DEF s
<1>11. ASSUME NEW a \in Places, NEW p \in WhereAt(a)
       PROVE  /\ Planned(a)' => StandsOnce(ops', p)
              /\ ~ Planned(a)' => Holders(ops', p) = {}
              /\ PlannedLast(a)' => AboveJoins(ops', p)
  <2>1. CASE a = next
    <3>1. p \in c.where /\ Holders(ops, p) = {}
      BY <1>4, <1>5, <1>11, <2>1 DEF Writing
    <3>2. Holders(ops', p) = {s} /\ s \in DOMAIN ops'
      BY <1>10, <3>1
    <3>3. AboveJoins(ops', p)
      BY <1>10, <3>1, <3>2 DEF AboveJoins
    <3>4. Planned(a)'
      BY <1>4, <2>1
    <3> QED
      BY <3>2, <3>3, <3>4 DEF StandsOnce
  <2>2. CASE a # next
    <3>1. p \notin c.where
      BY <1>4, <1>11, <2>2 DEF DistinctConjuncts
    <3>2. Holders(ops', p) = Holders(ops, p)
      BY <1>10, <3>1
    <3>3. Planned(a) => StandsOnce(ops', p)
      BY <1>5, <1>10, <1>11, <3>2 DEF Writing, StandsOnce
    <3>4. ~ PlannedLast(a)'
      <4>1. SUFFICES ASSUME Planned(a) PROVE ~ PlannedLast(a)'
        BY <1>4, <2>2 DEF PlannedLast
      <4>2. PICK b \in Places : b = next
        BY <1>4
      <4>3. Before(a, b) /\ Planned(b)'
        BY <1>4, <4>1, <4>2 DEF Planned
      <4> QED
        BY <1>4, <4>3 DEF PlannedLast, Before
    <3> QED
      BY <1>4, <1>5, <1>11, <2>2, <3>2, <3>3, <3>4 DEF Writing
  <2> QED
    BY <2>1, <2>2
<1>12. boundary' # 0 => AfterBoundary' /\ clause' # 1
  <2>1. query[part].clauses # << >>
    <3>1. Len(query[part].clauses) \in Nat
      BY <1>1, <1>2, QueryFacts
    <3>2. Len(query[part].clauses) # 0
      BY <1>1, <1>2, <3>1
    <3>3. Len(<< >>) = 0
      OBVIOUS
    <3> QED
      BY <3>2, <3>3
  <2> QED
    BY <1>1, <1>2, <2>1 DEF AfterBoundary
<1> QED
  BY <1>4, <1>10, <1>11, <1>12 DEF Writing

LEMMA FinishPartConjuncts == PlanInv /\ ConjunctInv /\ FinishPart => ConjunctInv'
<1> SUFFICES ASSUME PlanInv, ConjunctInv, FinishPart PROVE Writing'
  BY DEF ConjunctInv, FinishPart
<1> DEFINE makesBoundary == ~ AfterBoundary /\ MakesBoundary
           kind == IF makesBoundary THEN "boundary" ELSE "project"
           op == Output(kind, current, query[part])
           s == Len(ops) + 1
<1>1. /\ ops' = Add(ops, op) /\ current' = Len(ops')
      /\ boundary' = IF makesBoundary THEN Len(ops') ELSE IF AfterBoundary THEN 0 ELSE boundary
      /\ part' = part + 1 /\ clause' = 1 /\ pc = "build" /\ part <= Len(query)
      /\ clause > Len(query[part].clauses) /\ UNCHANGED <<query, pc>>
  BY DEF FinishPart
<1>2. /\ Built(ops) /\ query \in Queries /\ part \in 1..(Len(query) + 1) /\ clause \in Nat \ {0}
      /\ current \in DOMAIN ops \/ (current = 0 /\ part = 1 /\ clause = 1)
      /\ boundary \in DOMAIN ops \cup {0}
  BY <1>1 DEF PlanInv, Planning, Built
<1>3. part \in 1..Len(query) /\ Len(query) \in Nat
  BY <1>1, <1>2, QueryFacts
<1>4. current \in DOMAIN ops /\ current # 0
  <2>1. Len(query[1].clauses) \in Nat /\ 1 <= Len(query[1].clauses)
    <3>1. 1 \in 1..Len(query)
      BY <1>3
    <3> QED
      BY <1>2, <3>1, QueryFacts
  <2>2. ~ (1 > Len(query[1].clauses))
    BY <2>1
  <2>3. 0 \notin DOMAIN ops
    BY <1>2, PlanFacts DEF Built
  <2> QED
    BY <1>1, <1>2, <2>2, <2>3
<1>5. Writing
  BY <1>1 DEF ConjunctInv
<1>6. Placeable(op, ops) /\ op.kind = kind /\ op.filter = {} /\ op.ins = <<current>>
  <2>1. kind \in {"boundary", "project"}
    OBVIOUS
  <2> HIDE DEF kind
  <2> QED
    BY <1>4, <2>1, OutputIsPlaceable
<1>7. kind \notin JoinKinds
  BY DEF JoinKinds
<1> HIDE DEF op, kind, makesBoundary
<1>8. /\ Built(ops') /\ Len(ops') = s /\ s \in DOMAIN ops' /\ ops'[s] = op
      /\ DOMAIN ops' = DOMAIN ops \cup {s} /\ Grows(ops, ops')
  BY <1>1, <1>2, <1>6, AddFacts, AddGrows
<1>9. s # 0
  BY <1>2, PlanFacts DEF Built
<1> HIDE DEF s
<1>10. FiltersBelow(ops', s)
  <2>1. current \in Range(ops'[s].ins)
    <3>1. 1 \in DOMAIN <<current>> /\ <<current>>[1] = current
      OBVIOUS
    <3> QED
      BY <1>6, <1>8, <3>1 DEF Range
  <2>2. FiltersBelow(ops, current)
    BY <1>4, <1>5 DEF Writing
  <2> QED
    BY <1>2, <1>4, <1>8, <2>1, <2>2, GrowsBelow DEF Built
<1>11. boundary' # 0 => FiltersBelow(ops', boundary')
  <2>1. CASE makesBoundary
    BY <1>1, <1>8, <1>10, <2>1
  <2>2. CASE ~ makesBoundary /\ boundary' # 0
    <3>1. boundary' = boundary /\ boundary # 0 /\ ~ AfterBoundary
      BY <1>1, <2>2
    <3>2. FiltersBelow(ops, boundary)
      BY <1>5, <3>1 DEF Writing
    <3> QED
      BY <1>2, <1>8, <3>1, <3>2, GrowsBelow DEF Built
  <2> QED
    BY <2>1, <2>2
<1>12. /\ Places' = Places /\ \A a \in Places : WhereAt(a)' = WhereAt(a)
       /\ \A b \in Places : Planned(b)' <=> Planned(b)
  BY FinishPartMovesOn
<1>13. ASSUME NEW a \in Places, NEW p \in WhereAt(a)
       PROVE  /\ Planned(a)' => StandsOnce(ops', p)
              /\ ~ Planned(a)' => Holders(ops', p) = {}
              /\ PlannedLast(a)' => AboveJoins(ops', p)
  <2>1. Holders(ops', p) = Holders(ops, p) /\ (StandsOnce(ops, p) => StandsOnce(ops', p))
    BY <1>8, GrowsHolders
  <2>2. AboveJoins(ops, p) => AboveJoins(ops', p)
    BY <1>6, <1>7, <1>8, <2>1 DEF AboveJoins, Grows, Extends
  <2>3. PlannedLast(a)' => PlannedLast(a)
    BY <1>12 DEF PlannedLast, Before
  <2> QED
    BY <1>5, <1>12, <1>13, <2>1, <2>2, <2>3 DEF Writing
<1> QED
  BY <1>1, <1>8, <1>9, <1>10, <1>11, <1>12, <1>13 DEF Writing

(* Every clause has been planned when the passes start.                    *)
LEMMA AllPlanned ==
  ASSUME PlanInv, pc = "build", part > Len(query)
  PROVE  \A a \in Places : Planned(a) /\ (IsLast(a) => PlannedLast(a))
<1>1. query \in Queries /\ part \in 1..(Len(query) + 1)
  BY DEF PlanInv, Planning
<1>2. Len(query) \in Nat
  BY <1>1, QueryFacts
<1>3. ASSUME NEW a \in Places PROVE Planned(a)
  <2>1. a[1] \in 1..Len(query) /\ a[1] \in Nat
    BY <1>1, PlacesFacts
  <2>2. a[1] < part
    BY <1>1, <1>2, <2>1
  <2> QED
    BY <2>2 DEF Planned, Before
<1> QED
  BY <1>3 DEF IsLast, PlannedLast

LEMMA NextPassConjuncts == PlanInv /\ ConjunctInv /\ NextPass => ConjunctInv'
<1> SUFFICES ASSUME PlanInv, ConjunctInv, NextPass PROVE ConjunctInv'
  OBVIOUS
<1> DEFINE roots == IF pc = "build" THEN SourcesBelow(ops)[current] ELSE starts
           pass == Following[pc]
           next == Visits(pass, roots)
           needed == Upstream(ops)[current]
           D == DOMAIN ops
<1>1. /\ pc # "done" /\ (pc = "build" => part > Len(query))
      /\ work' = next /\ pc' = pass
      /\ UNCHANGED <<query, opts, ops, current>>
  BY DEF NextPass
<1>2. query \in Queries /\ WellFormed(ops)
      /\ pc \in {"build", "eliminate", "push", "flatten", "done"}
  BY DEF PlanInv
<1>3. /\ pc' # "build" /\ (pc' = "eliminate" <=> pc = "build") /\ (pc' = "push" <=> pc = "eliminate")
  BY <1>1, <1>2 DEF Following
<1>4. pass = "eliminate" /\ next # << >> => opts.deadTables
  <2> HIDE DEF pass, roots
  <2> QED
    BY DEF Visits
<1>5. pass = "flatten" => Range(next) \subseteq needed
  <2> DEFINE numbers == [i \in D |-> i]
             merged == OfKind({"select", "project"}) \cap needed
  <2>1. numbers \in Seq(D)
    <3> DEFINE n == Len(ops)
    <3>1. D = 1..n /\ n \in Nat
      BY <1>2, PlanFacts
    <3>2. numbers \in [1..n -> D]
      BY <3>1
    <3> HIDE DEF n, D, numbers
    <3> QED
      BY <3>1, <3>2
  <2>2. Range(KeepIn(numbers, merged)) \subseteq merged
    <3> HIDE DEF numbers, merged, D
    <3> QED
      BY <2>1, KeepInFacts
  <2>3. Range(<< >>) = {}
    BY DEF Range
  <2>4. pass = "flatten" => next \in {KeepIn(numbers, merged), << >>}
    <3> HIDE DEF pass, roots
    <3> QED
      BY DEF Visits
  <2> HIDE DEF next, numbers, pass, needed
  <2> QED
    BY <2>2, <2>3, <2>4
<1>6. Places' = Places /\ \A a \in Places : WhereAt(a)' = WhereAt(a) /\ (IsLast(a)' <=> IsLast(a))
  BY <1>1 DEF Places, WhereAt, IsLast, Before
<1>7. ASSUME NEW a \in Places, NEW p \in WhereAt(a)
      PROVE  /\ pass \in {"eliminate", "push"} => StandsOnce(ops, p)
             /\ \A i, j \in Holders(ops, p) \cap needed : i = j
             /\ (opts.deadTables => IsLast(a)) => Holders(ops, p) \cap needed # {}
             /\ pass = "eliminate" /\ IsLast(a) => AboveJoins(ops, p)
  <2>1. CASE pc = "build"
    <3>1. Writing /\ Planned(a) /\ (IsLast(a) => PlannedLast(a))
      BY <1>1, <2>1, AllPlanned DEF ConjunctInv
    <3>2. StandsOnce(ops, p) /\ (IsLast(a) => AboveJoins(ops, p))
      BY <1>7, <3>1 DEF Writing
    <3>3. PICK i \in D : Holders(ops, p) = {i}
      BY <3>2 DEF StandsOnce
    <3>4. ops[i].filter # {}
      BY <3>3 DEF Holders
    <3>5. i \in needed
      BY <3>1, <3>4 DEF Writing, FiltersBelow
    <3> QED
      BY <3>2, <3>3, <3>5
  <2>2. CASE pc # "build"
    <3>1. Moving
      BY <2>2 DEF ConjunctInv
    <3> QED
      BY <1>1, <1>3, <1>7, <2>2, <3>1 DEF Moving
  <2> QED
    BY <2>1, <2>2
<1>8. pc' = pass /\ work' = next /\ ops' = ops /\ current' = current /\ opts' = opts
  BY <1>1
<1> HIDE DEF pass, next
<1>9. Moving'
  BY <1>3, <1>4, <1>5, <1>6, <1>7, <1>8 DEF Moving
<1> QED
  BY <1>3, <1>9 DEF ConjunctInv

-----------------------------------------------------------------------------
(* No rewrite of the graph touches a filter.                               *)
LEMMA RedirectFilters ==
  ASSUME NEW plan, WellFormed(plan), NEW i, NEW j, i # j, NEW k \in DOMAIN plan
  PROVE  /\ k \in DOMAIN Redirect(plan, i, j) /\ IsOperator(Redirect(plan, i, j)[k])
         /\ Redirect(plan, i, j)[k].filter = plan[k].filter
         /\ k = i \/ plan[k].ins = << >> => Range(Redirect(plan, i, j)[k].ins) = {}
<1> DEFINE new == Redirect(plan, i, j)
           op == plan[k]
<1>1. IsOperator(op)
  BY DEF WellFormed, IsNode
<1>2. k \in DOMAIN new
  BY DEF Redirect
<1>3. Range(<< >>) = {} /\ Range(Replaced(<< >>, i, j)) = {}
  BY DEF Range, Replaced
<1>4. CASE k = i
  <2>1. new[k] = [op EXCEPT !.ins = << >>, !.outs = << >>]
    <3>1. new[i] = [plan[i] EXCEPT !.ins = << >>, !.outs = << >>]
      BY <1>4 DEF Redirect
    <3> QED
      BY <1>4, <3>1
  <2> HIDE DEF new, op
  <2>2. new[k].filter = op.filter /\ new[k].ins = << >> /\ IsOperator(new[k])
    BY <1>1, <2>1 DEF IsOperator
  <2> QED
    BY <1>1, <1>2, <1>3, <2>2 DEF new, op
<1>5. CASE k # i /\ k = j
  <2> DEFINE outs == Distinct(plan[j].outs \o plan[i].outs)
  <2>1. new[k] = [op EXCEPT !.outs = outs]
    BY <1>2, <1>5 DEF Redirect
  <2> HIDE DEF new, outs, op
  <2>2. new[k].filter = op.filter /\ new[k].ins = op.ins /\ IsOperator(new[k])
    BY <1>1, <2>1 DEF IsOperator
  <2> QED
    BY <1>1, <1>2, <1>3, <1>5, <2>2 DEF new, op
<1>6. CASE k # i /\ k # j
  <2> DEFINE ins == Replaced(op.ins, i, j)
  <2>1. new[k] = [op EXCEPT !.ins = ins] \/ new[k] = op
    <3>1. CASE k \in Range(plan[i].outs)
      BY <1>6, <3>1 DEF Redirect
    <3>2. CASE k \notin Range(plan[i].outs)
      BY <1>6, <3>2 DEF Redirect
    <3> QED
      BY <3>1, <3>2
  <2>2. op.ins = << >> => Range(ins) = {}
    BY <1>3
  <2> HIDE DEF new, ins, op
  <2>3. /\ new[k].filter = op.filter /\ IsOperator(new[k])
        /\ new[k].ins = ins \/ new[k].ins = op.ins
    <3>1. CASE new[k] = op
      BY <1>1, <3>1
    <3>2. CASE new[k] = [op EXCEPT !.ins = ins]
      BY <1>1, <3>2 DEF IsOperator
    <3> QED
      BY <2>1, <3>1, <3>2
  <2>4. op.ins = << >> => Range(new[k].ins) = {}
    BY <1>3, <2>2, <2>3
  <2> QED
    BY <1>1, <1>2, <1>6, <2>3, <2>4 DEF new, op
<1> QED
  BY <1>4, <1>5, <1>6

LEMMA BypassFilters ==
  ASSUME NEW plan, WellFormed(plan), NEW s, NEW k \in DOMAIN plan,
         plan[s].ins # << >> => Left(plan, s) # s,
         NEW new, new = Bypass(plan, s)
  PROVE  /\ new[k].filter = plan[k].filter
         /\ k = s \/ plan[k].ins = << >> => Range(new[k].ins) = {}
<1> DEFINE below == Left(plan, s)
           P == Redirect(plan, s, below)
           outs == KeepIn(P[below].outs, DOMAIN plan \ {s})
           op == P[below]
<1>1. Range(<< >>) = {}
  BY DEF Range
<1>2. CASE plan[s].ins = << >>
  BY <1>1, <1>2 DEF Bypass
<1>3. CASE plan[s].ins # << >>
  <2>1. new = [P EXCEPT ![below].outs = outs]
    BY <1>3 DEF Bypass
  <2>2. /\ k \in DOMAIN P /\ P[k].filter = plan[k].filter /\ IsOperator(P[k])
        /\ k = s \/ plan[k].ins = << >> => Range(P[k].ins) = {}
    BY <1>3, RedirectFilters
  <2>3. new[k].filter = P[k].filter /\ new[k].ins = P[k].ins
    <3>1. CASE k = below
      <4>1. new[k] = [op EXCEPT !.outs = outs]
        BY <2>1, <2>2, <3>1
      <4>2. IsOperator(op)
        BY <2>2, <3>1
      <4> HIDE DEF op, outs
      <4>3. new[k].filter = op.filter /\ new[k].ins = op.ins
        BY <4>1, <4>2 DEF IsOperator
      <4> QED
        BY <3>1, <4>3 DEF op
    <3>2. CASE k # below
      <4>1. new[k] = P[k]
        BY <2>1, <2>2, <3>2
      <4> QED
        BY <4>1
    <3> QED
      BY <3>1, <3>2
  <2> HIDE DEF P
  <2> QED
    BY <2>2, <2>3
<1> QED
  BY <1>2, <1>3

(* What c needs and is younger than a redirected operator, c still needs.  *)
LEMMA RedirectKeepsYounger ==
  ASSUME NEW plan, WellFormed(plan), NEW i \in DOMAIN plan, NEW j \in DOMAIN plan, j < i,
         NEW new, Redirected(plan, new, i, j),
         NEW c \in DOMAIN plan,
         NEW a \in Upstream(plan)[c], i < a
  PROVE  a \in Upstream(new)[c]
<1> DEFINE M == Upstream(new)[c]
           Older == {k \in DOMAIN plan : k <= i}
           T == M \cup Older
<1>1. WellFormed(new) /\ DOMAIN new = DOMAIN plan
  BY DEF Redirected
<1>2. c \in M /\ M \subseteq DOMAIN plan /\ \A k \in M : Range(new[k].ins) \subseteq M
  BY <1>1, UpstreamFacts DEF Closed
<1>3. \A k \in DOMAIN plan : k \in Nat /\ \A m \in Range(plan[k].ins) : m \in DOMAIN plan /\ m < k
  BY PlanFacts
<1> HIDE DEF M
<1>4. i \in Older
  BY <1>3
<1>5. \A k \in Older : Range(plan[k].ins) \subseteq Older
  <2> TAKE k \in Older
  <2>1. \A m \in Range(plan[k].ins) : m \in DOMAIN plan /\ m < k /\ m \in Nat /\ k \in Nat /\ i \in Nat
    BY <1>3
  <2> QED
    BY <2>1
<1> HIDE DEF Older
<1>6. \A k \in M : Range(plan[k].ins) \subseteq T
  <2> TAKE k \in M
  <2>1. CASE k = i
    BY <1>4, <1>5, <2>1
  <2>2. CASE k # i
    <3>1. Range(plan[k].ins) \subseteq Range(new[k].ins) \cup {i}
      BY <1>2, <2>2 DEF Redirected
    <3> QED
      BY <1>2, <1>4, <3>1
  <2> QED
    BY <2>1, <2>2
<1>7. T \subseteq DOMAIN plan /\ c \in T
  BY <1>2 DEF Older
<1>8. Closed(plan, T)
  BY <1>5, <1>6, <1>7 DEF Closed
<1>9. a \in T
  <2> HIDE DEF T
  <2> QED
    BY <1>7, <1>8, UpstreamFacts
<1>10. a \notin Older
  <2>1. a \in Nat /\ i \in Nat
    BY <1>3, UpstreamIsOlder
  <2> QED
    BY <2>1 DEF Older
<1> QED
  BY <1>9, <1>10 DEF M

LEMMA WorkFacts ==
  ASSUME PlanInv, pc # "build", work # << >>
  PROVE  /\ Head(work) \in DOMAIN ops /\ Head(work) \in Range(work)
         /\ Range(Tail(work)) \subseteq Range(work) /\ Range(work) \subseteq DOMAIN ops
<1> DEFINE D == DOMAIN ops
<1>1. work \in Seq(D)
  BY DEF PlanInv, Rewriting
<1> HIDE DEF D
<1>2. Head(work) \in D /\ Head(work) \in Range(work)
  BY <1>1, TailFacts
<1>3. Range(Tail(work)) \subseteq Range(work)
  BY <1>1, TailFacts
<1>4. Range(work) \subseteq D
  BY <1>1, RangeFacts
<1> QED
  BY <1>2, <1>3, <1>4 DEF D

LEMMA EliminateJoinConjuncts == PlanInv /\ ConjunctInv /\ EliminateJoin => ConjunctInv'
<1> SUFFICES ASSUME PlanInv, ConjunctInv, EliminateJoin PROVE Moving'
  BY DEF ConjunctInv, EliminateJoin, Visiting
<1> DEFINE j == Head(work)
           edge == FirstSource(ops, {"rel"})[j]
           D == DOMAIN ops
           N == Upstream(ops)[current]
           N1 == Upstream(ops')[current]
<1>1. /\ pc = "eliminate" /\ work # << >> /\ work' = Tail(work)
      /\ UNCHANGED <<query, opts, pc, current>>
  BY DEF EliminateJoin, Visiting
<1>2. Rewriting /\ WellFormed(ops)
  BY <1>1 DEF PlanInv
<1>3. Moving /\ opts.deadTables
  BY <1>1 DEF ConjunctInv, Moving
<1>4. /\ \A p : Holders(ops', p) = Holders(ops, p)
      /\ DOMAIN ops' = D /\ \A k \in D : ops'[k].kind = ops[k].kind
      /\ N1 \subseteq N
      /\ \A k \in N : (\A i \in D : ops[i].kind \in JoinKinds => i < k) => k \in N1
  <2>1. CASE ~ Eliminable(j)
    <3>1. ops' = ops
      BY <2>1 DEF EliminateJoin
    <3> QED
      BY <3>1
  <2>2. CASE Eliminable(j)
    <3> DEFINE new == Redirect(ops, j, edge)
    <3>1. ops' = new
      BY <2>2 DEF EliminateJoin
    <3>2. j \in D
      BY <1>1, WorkFacts
    <3>3. ops[j].kind = "join" /\ edge # 0
      BY <2>2 DEF Eliminable
    <3> HIDE DEF j
    <3>4. edge \in Upstream(ops)[j] /\ ops[edge].kind = "source"
      BY <1>2, <3>2, <3>3, FirstSourceFacts
    <3> HIDE DEF edge
    <3>5. edge \in D /\ edge < j
      <4>1. edge \in D /\ edge <= j
        BY <1>2, <3>2, <3>4, UpstreamIsOlder
      <4>2. edge # j
        BY <3>3, <3>4
      <4>3. edge \in Nat /\ j \in Nat
        BY <1>2, <3>2, <4>1, PlanFacts
      <4> QED
        BY <4>1, <4>2, <4>3
    <3>6. Redirected(ops, new, j, edge)
      BY <1>2, <3>2, <3>5, RedirectFacts
    <3>7. current \in D /\ current # j /\ Agree(ops, N)
      BY <1>2, <3>3 DEF Rewriting
    <3>8. j \in N => edge \in N
      <4>1. Closed(ops, N)
        BY <1>2, <3>7, UpstreamFacts
      <4>2. j \in N => Upstream(ops)[j] \subseteq N
        BY <1>2, <3>2, <4>1, UpstreamFacts
      <4> QED
        BY <3>4, <4>2
    <3>9. \A k \in D : new[k].filter = ops[k].filter
      <4>1. j # edge
        BY <3>3, <3>4
      <4> QED
        BY <1>2, <4>1, RedirectFilters
    <3> HIDE DEF new
    <3>10. Upstream(new)[current] \subseteq N
      BY <1>2, <3>2, <3>5, <3>6, <3>7, <3>8, RedirectKeepsAgreement
    <3>11. \A k \in N : j < k => k \in Upstream(new)[current]
      BY <1>2, <3>2, <3>5, <3>6, <3>7, RedirectKeepsYounger
    <3>12. DOMAIN new = D /\ \A k \in D : new[k].kind = ops[k].kind
      BY <3>6 DEF Redirected
    <3>13. \A p : Holders(new, p) = Holders(ops, p)
      BY <3>9, <3>12 DEF Holders
    <3>14. "join" \in JoinKinds
      BY DEF JoinKinds
    <3> QED
      BY <3>1, <3>2, <3>3, <3>10, <3>11, <3>12, <3>13, <3>14
  <2> QED
    BY <2>1, <2>2
<1>5. Places' = Places /\ \A a \in Places : WhereAt(a)' = WhereAt(a) /\ (IsLast(a)' <=> IsLast(a))
  BY <1>1 DEF Places, WhereAt, IsLast, Before
<1>6. current' = current /\ pc' = pc /\ opts' = opts
  BY <1>1
<1> HIDE DEF N, N1
<1>7. ASSUME NEW a \in Places, NEW p \in WhereAt(a)
      PROVE  /\ StandsOnce(ops', p)
             /\ \A i, k \in Holders(ops', p) \cap N1 : i = k
             /\ IsLast(a) => Holders(ops', p) \cap N1 # {}
             /\ IsLast(a) => AboveJoins(ops', p)
  <2>1. /\ StandsOnce(ops, p) /\ \A i, k \in Holders(ops, p) \cap N : i = k
        /\ IsLast(a) => Holders(ops, p) \cap N # {} /\ AboveJoins(ops, p)
    BY <1>1, <1>3, <1>7 DEF Moving, N
  <2>2. IsLast(a) => AboveJoins(ops', p)
    BY <1>4, <2>1 DEF AboveJoins
  <2>3. IsLast(a) => Holders(ops', p) \cap N1 # {}
    BY <1>4, <2>1 DEF AboveJoins
  <2> QED
    BY <1>4, <2>1, <2>2, <2>3 DEF StandsOnce
<1> QED
  BY <1>1, <1>3, <1>5, <1>6, <1>7 DEF Moving, N1

(* Bypassing a selection of a plan that differs in its filters moves no    *)
(* filter, and what has no input keeps none.                               *)
LEMMA BypassHolders ==
  ASSUME NEW plan, WellFormed(plan), NEW same, SameGraph(plan, same),
         NEW c \in DOMAIN plan, plan[c].kind = "project", Agree(plan, Upstream(plan)[c]),
         NEW s \in DOMAIN plan, plan[s].kind = "select",
         NEW new, new = Bypass(same, s)
  PROVE  /\ DOMAIN new = DOMAIN plan
         /\ \A p : Holders(new, p) = Holders(same, p)
         /\ Upstream(new)[c] \ {s} = Upstream(plan)[c] \ {s}
         /\ plan[s].ins # << >> => s \notin Upstream(new)[c]
         /\ \A k \in DOMAIN plan : k = s \/ plan[k].ins = << >> => Range(new[k].ins) = {}
<1>1. /\ WellFormed(same) /\ DOMAIN same = DOMAIN plan
      /\ Upstream(same)[c] = Upstream(plan)[c] /\ Agree(same, Upstream(same)[c])
      /\ \A k \in DOMAIN plan : same[k].kind = plan[k].kind /\ same[k].ins = plan[k].ins
  <2>1. Upstream(plan)[c] \in SUBSET DOMAIN plan
    BY UpstreamFacts DEF Closed
  <2>2. /\ WellFormed(same) /\ Upstream(same)[c] = Upstream(plan)[c]
        /\ Agree(same, Upstream(plan)[c])
    BY <2>1, SameGraphFacts
  <2> QED
    BY <2>2 DEF SameGraph
<1>2. same[s].kind = "select" /\ c # s
  BY <1>1
<1>3. /\ WellFormed(new) /\ DOMAIN new = DOMAIN same
      /\ Upstream(new)[c] \ {s} = Upstream(same)[c] \ {s}
      /\ same[s].ins # << >> => s \notin Upstream(new)[c]
  BY <1>1, <1>2, BypassFacts
<1>4. same[s].ins # << >> => Left(same, s) # s
  <2> SUFFICES ASSUME same[s].ins # << >> PROVE Left(same, s) # s
    OBVIOUS
  <2> DEFINE ins == same[s].ins
             D == DOMAIN same
  <2>1. ins \in Seq(D) /\ ins # << >>
    BY <1>1 DEF WellFormed, IsNode
  <2>2. ins[1] \in Range(ins)
    <3> HIDE DEF ins, D
    <3>1. 1 \in DOMAIN ins
      BY <2>1
    <3> QED
      BY <3>1 DEF Range
  <2>3. \A k \in Range(ins) : k # s
    BY <1>1, PlanFacts
  <2> QED
    BY <2>2, <2>3 DEF Left
<1>5. \A k \in DOMAIN same : /\ new[k].filter = same[k].filter
                             /\ k = s \/ same[k].ins = << >> => Range(new[k].ins) = {}
  <2>1. WellFormed(same) /\ new = Bypass(same, s)
    BY <1>1
  <2> HIDE DEF Bypass
  <2> TAKE k \in DOMAIN same
  <2> QED
    BY <1>4, <2>1, BypassFilters
<1>6. \A p : Holders(new, p) = Holders(same, p)
  BY <1>3, <1>5 DEF Holders
<1> QED
  BY <1>1, <1>3, <1>5, <1>6

(* A conjunct that is pushed down goes into one source the terminal needs. *)
LEMMA PushedToOneSource ==
  ASSUME Rewriting, WellFormed(ops), NEW p, NEW s \in DOMAIN ops, ops[s].kind = "select",
         Pushable(p, s)
  PROVE  \E i \in Upstream(ops)[current] :
           /\ i # s
           /\ \A k : (\E v \in p.on : Head(DataSourcesFor(v)) = k) <=> k = i
<1> DEFINE D == DOMAIN ops
<1>1. PICK v \in p.on : p.on = {v} /\ DataSourcesFor(v) # << >>
  BY DEF Pushable
<1> DEFINE S == {i \in D : ops[i].entity.alias = v}
           i == Head(DataSourcesFor(v))
<1>2. starts \in Seq(D) /\ Range(starts) = SourcesOf(ops, current)
  BY DEF Rewriting
<1>3. i \in Range(starts)
  <2> HIDE DEF D, S
  <2>1. DataSourcesFor(v) = KeepIn(starts, S)
    BY DEF DataSourcesFor, S, D
  <2>2. /\ DataSourcesFor(v) \in Seq(D) /\ DataSourcesFor(v) # << >>
        /\ Range(DataSourcesFor(v)) = Range(starts) \cap S
    BY <1>1, <1>2, <2>1, KeepInFacts
  <2>3. Head(DataSourcesFor(v)) \in Range(DataSourcesFor(v))
    BY <2>2, TailFacts
  <2> QED
    BY <2>2, <2>3
<1> HIDE DEF i
<1>4. i \in Upstream(ops)[current] /\ ops[i].kind = "source"
  BY <1>2, <1>3 DEF SourcesOf
<1>5. i # s
  BY <1>4
<1>6. \A k : (\E u \in p.on : Head(DataSourcesFor(u)) = k) <=> k = i
  BY <1>1 DEF i
<1> QED
  BY <1>4, <1>5, <1>6


LEMMA PushSelectionConjuncts == PlanInv /\ ConjunctInv /\ PushSelection => ConjunctInv' /\ LosesNone
<1> SUFFICES ASSUME PlanInv, ConjunctInv, PushSelection PROVE Moving' /\ LosesNone
  BY DEF ConjunctInv, PushSelection, Visiting
<1> DEFINE s == Head(work)
           pushed == {p \in ops[s].filter : Pushable(p, s)}
           D == DOMAIN ops
           N == Upstream(ops)[current]
           N1 == Upstream(ops')[current]
<1>1. pc = "push" /\ UNCHANGED <<query, opts, pc, current>>
  BY DEF PushSelection, Visiting
<1>2. Rewriting /\ WellFormed(ops)
  BY <1>1 DEF PlanInv
<1>3. s \in D /\ ops[s].kind = "select"
  BY PushSelectionFacts
<1>4. PICK plan :
        /\ SameGraph(ops, plan)
        /\ plan[s].filter = ops[s].filter \ pushed
        /\ \A i \in D \ {s} :
             plan[i].filter = ops[i].filter \cup
               {p \in pushed : \E v \in p.on : Head(DataSourcesFor(v)) = i}
        /\ ops' = IF ops[s].filter \ pushed = {} THEN Bypass(plan, s) ELSE plan
  BY PushSelectionFacts
<1> HIDE DEF s
<1>5. /\ DOMAIN ops' = D /\ \A p : Holders(ops', p) = Holders(plan, p)
      /\ \A p : \A k \in Holders(plan, p) : k \in N => k \in N1
  <2>1. current \in D /\ ops[current].kind = "project" /\ Agree(ops, N)
    BY <1>2 DEF Rewriting
  <2>2. CASE ops[s].filter \ pushed = {}
    <3>1. ops' = Bypass(plan, s) /\ plan[s].filter = {}
      BY <1>4, <2>2
    <3>2. DOMAIN ops' = D /\ (\A p : Holders(ops', p) = Holders(plan, p)) /\ N1 \ {s} = N \ {s}
      BY <1>2, <1>3, <1>4, <2>1, <3>1, BypassHolders
    <3>3. \A p : s \notin Holders(plan, p)
      BY <3>1 DEF Holders
    <3> HIDE DEF N, N1
    <3> QED
      BY <3>2, <3>3
  <2>3. CASE ops[s].filter \ pushed # {}
    <3>1. ops' = plan
      BY <1>4, <2>3
    <3>2. DOMAIN ops' = D /\ N1 = N
      BY <1>2, <1>4, <2>1, <3>1, SameGraphFacts DEF SameGraph
    <3> QED
      BY <3>1, <3>2
  <2> QED
    BY <2>2, <2>3
<1>6. N \subseteq D
  BY <1>2, UpstreamFacts DEF Rewriting, Closed
<1>7. Moving
  BY <1>1 DEF ConjunctInv
<1>8. Places' = Places /\ \A a \in Places : WhereAt(a)' = WhereAt(a) /\ (IsLast(a)' <=> IsLast(a))
  BY <1>1 DEF Places, WhereAt, IsLast, Before
<1>9. current' = current /\ pc' = pc /\ opts' = opts /\ pc = "push"
  BY <1>1
<1>10. ASSUME NEW a \in Places, NEW p \in WhereAt(a)
       PROVE  /\ StandsOnce(ops', p)
              /\ Holders(ops, p) \cap N # {} => Holders(ops', p) \cap N1 # {}
  <2>1. StandsOnce(ops, p)
    BY <1>7, <1>9, <1>10 DEF Moving, N
  <2>2. DOMAIN plan = D
    BY <1>4 DEF SameGraph
  <2>3. CASE p \in pushed
    <3>1. p \in ops[s].filter /\ Pushable(p, s)
      BY <2>3
    <3>2. PICK i \in N : /\ i # s
                         /\ \A k : (\E v \in p.on : Head(DataSourcesFor(v)) = k) <=> k = i
      BY <1>2, <1>3, <3>1, PushedToOneSource
    <3>3. Holders(ops, p) = {s}
      BY <1>3, <2>1, <3>1 DEF StandsOnce, Holders
    <3>4. \A k \in D : p \in plan[k].filter <=> k = i
      <4> HIDE DEF pushed
      <4>1. p \notin plan[s].filter
        BY <1>4, <2>3
      <4>2. ASSUME NEW k \in D, k # s PROVE p \in plan[k].filter <=> k = i
        <5>1. p \notin ops[k].filter
          BY <3>3, <4>2 DEF Holders
        <5> QED
          BY <1>4, <2>3, <3>2, <4>2, <5>1
      <4> QED
        BY <3>2, <4>1, <4>2
    <3>5. Holders(plan, p) = {i} /\ i \in D
      BY <1>6, <2>2, <3>2, <3>4 DEF Holders
    <3> HIDE DEF N, N1
    <3> QED
      BY <1>5, <3>2, <3>5 DEF StandsOnce
  <2>4. CASE p \notin pushed
    <3>1. \A k \in D : p \in plan[k].filter <=> p \in ops[k].filter
      <4> HIDE DEF pushed
      <4> QED
        BY <1>3, <1>4, <2>4
    <3>2. Holders(plan, p) = Holders(ops, p)
      BY <2>2, <3>1 DEF Holders
    <3> HIDE DEF N, N1
    <3> QED
      BY <1>5, <2>1, <3>2 DEF StandsOnce
  <2> QED
    BY <2>3, <2>4
<1>11. ASSUME NEW a \in Places, NEW p \in WhereAt(a)
       PROVE  \A i, k \in Holders(ops', p) \cap N1 : i = k
  BY <1>10, <1>11 DEF StandsOnce
<1>12. ASSUME NEW a \in Places, NEW p \in WhereAt(a)
       PROVE  (opts.deadTables => IsLast(a)) => Holders(ops, p) \cap N # {}
  BY <1>7, <1>12 DEF Moving, N
<1>13. LosesNone
  BY <1>9, <1>10 DEF LosesNone, Rendered
<1> HIDE DEF N, N1
<1>14. Moving'
  BY <1>8, <1>9, <1>10, <1>11, <1>12 DEF Moving, N1
<1> QED
  BY <1>13, <1>14

(* The operators still to visit are needed, or have been merged away.      *)
LEMMA FlattenConjuncts == PlanInv /\ ConjunctInv /\ Flatten => ConjunctInv' /\ LosesNone
<1> SUFFICES ASSUME PlanInv, ConjunctInv, Flatten PROVE Moving' /\ LosesNone
  BY DEF ConjunctInv, Flatten, Visiting
<1> DEFINE i == Head(work)
           below == Left(ops, i)
           D == DOMAIN ops
           N == Upstream(ops)[current]
           N1 == Upstream(ops')[current]
<1>1. /\ pc = "flatten" /\ work # << >> /\ work' = Tail(work)
      /\ UNCHANGED <<query, opts, pc, current>>
  BY DEF Flatten, Visiting
<1>2. Rewriting /\ WellFormed(ops)
  BY <1>1 DEF PlanInv
<1>3. Moving
  BY <1>1 DEF ConjunctInv
<1>4. i \in Range(work) /\ Range(work') \subseteq Range(work) /\ Range(work) \subseteq D
  BY <1>1, WorkFacts
<1>5. \A k \in Range(work) : k \in N \/ Range(ops[k].ins) = {}
  BY <1>1, <1>3 DEF Moving
<1>6. Places' = Places /\ \A a \in Places : WhereAt(a)' = WhereAt(a) /\ (IsLast(a)' <=> IsLast(a))
  BY <1>1 DEF Places, WhereAt, IsLast, Before
<1>7. current' = current /\ pc' = pc /\ opts' = opts /\ pc = "flatten"
  BY <1>1
<1>8. ASSUME NEW a \in Places, NEW p \in WhereAt(a)
      PROVE  /\ \A j, k \in Holders(ops, p) \cap N : j = k
             /\ (opts.deadTables => IsLast(a)) => Holders(ops, p) \cap N # {}
  BY <1>3, <1>8 DEF Moving, N
<1>9. CASE ops' = ops
  <2>1. N1 = N
    BY <1>7, <1>9
  <2>2. LosesNone
    BY <1>7, <1>9 DEF LosesNone, Rendered, Holders
  <2> HIDE DEF N, N1
  <2>3. Moving'
    BY <1>4, <1>5, <1>6, <1>7, <1>8, <1>9, <2>1 DEF Moving, N1
  <2> QED
    BY <2>2, <2>3
<1>10. CASE ops' # ops
  <2>1. /\ below \in D /\ below \in Range(ops[i].ins) /\ i \in D
        /\ ops[below].kind = "select" /\ ops[below].ins # << >>
    BY <1>10, MergeFacts
  <2>2. PICK plan :
          /\ SameGraph(ops, plan)
          /\ plan[i].filter = ops[i].filter \cup ops[below].filter
          /\ \A k \in D \ {i} : plan[k].filter = ops[k].filter
          /\ ops' = Bypass(plan, below)
    BY <1>10, MergeFacts
  <2> HIDE DEF i, below
  <2>3. current \in D /\ ops[current].kind = "project" /\ Agree(ops, N)
    BY <1>2 DEF Rewriting
  <2>4. /\ DOMAIN ops' = D /\ \A p : Holders(ops', p) = Holders(plan, p)
        /\ N1 \ {below} = N \ {below} /\ below \notin N1
        /\ \A k \in D : k = below \/ ops[k].ins = << >> => Range(ops'[k].ins) = {}
    <3> DEFINE new == ops'
    <3>1. new = Bypass(plan, below)
      BY <2>2
    <3> HIDE DEF new
    <3>2. DOMAIN new = D /\ \A p : Holders(new, p) = Holders(plan, p)
      BY <1>2, <2>1, <2>2, <2>3, <3>1, BypassHolders
    <3>3. Upstream(new)[current] \ {below} = N \ {below} /\ below \notin Upstream(new)[current]
      BY <1>2, <2>1, <2>2, <2>3, <3>1, BypassHolders
    <3>4. \A k \in D : k = below \/ ops[k].ins = << >> => Range(new[k].ins) = {}
      BY <1>2, <2>1, <2>2, <2>3, <3>1, BypassHolders
    <3>5. N1 = Upstream(new)[current]
      BY <1>7 DEF new
    <3> HIDE DEF N, N1
    <3> QED
      BY <3>2, <3>3, <3>4, <3>5 DEF new
  <2>5. i # below
    BY <1>2, <2>1, PlanFacts
  <2>6. i \in N
    BY <1>4, <1>5, <2>1
  <2>7. below \in N
    BY <1>2, <2>1, <2>3, <2>6, UpstreamFacts DEF Closed
  <2>8. DOMAIN plan = D
    BY <2>2 DEF SameGraph
  <2>9. \A k \in D : Range(ops[k].ins) = {} => ops[k].ins = << >>
    <3> TAKE k \in D
    <3> DEFINE ins == ops[k].ins
    <3>1. ins \in Seq(D)
      BY <1>2 DEF WellFormed, IsNode
    <3> HIDE DEF ins, D
    <3>2. ins # << >> => ins[1] \in Range(ins)
      <4>1. ins # << >> => 1 \in DOMAIN ins
        BY <3>1
      <4> QED
        BY <4>1 DEF Range
    <3> QED
      BY <3>2 DEF ins
  <2> HIDE DEF N, N1
  <2>10. \A k \in Range(work') : k \in N1 \/ Range(ops'[k].ins) = {}
    <3> TAKE k \in Range(work')
    <3>1. k \in D /\ (k \in N \/ Range(ops[k].ins) = {})
      BY <1>4, <1>5
    <3> QED
      BY <2>4, <2>9, <3>1
  <2>11. ASSUME NEW a \in Places, NEW p \in WhereAt(a)
         PROVE  /\ \A j, k \in Holders(ops', p) \cap N1 : j = k
                /\ Holders(ops, p) \cap N # {} => Holders(ops', p) \cap N1 # {}
    <3>1. CASE p \in ops[below].filter
      <4>1. below \in Holders(ops, p) \cap N
        BY <2>1, <2>7, <3>1 DEF Holders
      <4>2. Holders(ops, p) \cap N = {below}
        BY <1>8, <2>11, <4>1
      <4>3. Holders(plan, p) = Holders(ops, p) \cup {i}
        BY <2>1, <2>2, <2>8, <3>1 DEF Holders
      <4>4. Holders(ops', p) \cap N1 = {i}
        BY <2>4, <2>5, <2>6, <4>2, <4>3
      <4> QED
        BY <4>4
    <3>2. CASE p \notin ops[below].filter
      <4>1. Holders(plan, p) = Holders(ops, p)
        BY <2>1, <2>2, <2>8, <3>2 DEF Holders
      <4>2. below \notin Holders(ops, p)
        BY <3>2 DEF Holders
      <4>3. Holders(ops', p) \cap N1 = Holders(ops, p) \cap N
        BY <2>4, <4>1, <4>2
      <4> QED
        BY <1>8, <2>11, <4>3
    <3> QED
      BY <3>1, <3>2
  <2>12. Moving'
    BY <1>6, <1>7, <1>8, <2>10, <2>11 DEF Moving, N1
  <2>13. LosesNone
    BY <1>7, <2>11 DEF LosesNone, Rendered, N, N1
  <2> QED
    BY <2>12, <2>13
<1> QED
  BY <1>9, <1>10

LEMMA ConjunctInvNext ==
  PlanInv /\ (DistinctConjuncts => ConjunctInv) /\ [Next]_vars => (DistinctConjuncts => ConjunctInv)'
<1> SUFFICES ASSUME PlanInv, DistinctConjuncts => ConjunctInv, [Next]_vars, DistinctConjuncts'
             PROVE  ConjunctInv'
  OBVIOUS
<1>1. query' = query
  BY DEF Next, vars, PlanClause, FinishPart, NextPass, EliminateJoin, PushSelection, Flatten, Visiting
<1>2. DistinctConjuncts
  BY <1>1 DEF DistinctConjuncts, Places, WhereAt
<1>3. ConjunctInv
  BY <1>2
<1>4. CASE PlanClause
  BY <1>2, <1>3, <1>4, PlanClauseConjuncts
<1>5. CASE FinishPart
  BY <1>3, <1>5, FinishPartConjuncts
<1>6. CASE NextPass
  BY <1>3, <1>6, NextPassConjuncts
<1>7. CASE EliminateJoin
  BY <1>3, <1>7, EliminateJoinConjuncts
<1>8. CASE PushSelection
  BY <1>3, <1>8, PushSelectionConjuncts
<1>9. CASE Flatten
  BY <1>3, <1>9, FlattenConjuncts
<1>10. CASE UNCHANGED vars
  <2>1. /\ query' = query /\ opts' = opts /\ pc' = pc /\ part' = part /\ clause' = clause
        /\ ops' = ops /\ current' = current /\ boundary' = boundary /\ work' = work
    BY <1>10 DEF vars
  <2>2. /\ Places' = Places /\ (AfterBoundary' <=> AfterBoundary)
        /\ \A a \in Places : /\ WhereAt(a)' = WhereAt(a) /\ (IsLast(a)' <=> IsLast(a))
                             /\ (Planned(a)' <=> Planned(a)) /\ (PlannedLast(a)' <=> PlannedLast(a))
    BY <2>1 DEF Places, WhereAt, IsLast, Before, Planned, PlannedLast, AfterBoundary
  <2>3. CASE pc = "build"
    <3>1. Writing'
      BY <1>3, <2>1, <2>2, <2>3 DEF ConjunctInv, Writing
    <3> QED
      BY <2>1, <2>3, <3>1 DEF ConjunctInv
  <2>4. CASE pc # "build"
    <3>1. Moving'
      BY <1>3, <2>1, <2>2, <2>4 DEF ConjunctInv, Moving
    <3> QED
      BY <2>1, <2>4, <3>1 DEF ConjunctInv
  <2> QED
    BY <2>3, <2>4
<1> QED
  BY <1>4, <1>5, <1>6, <1>7, <1>8, <1>9, <1>10 DEF Next

LEMMA ConjunctInvAlways == Spec => [](PlanInv /\ (DistinctConjuncts => ConjunctInv))
<1>1. Init => PlanInv /\ (DistinctConjuncts => ConjunctInv)
  BY PlanInvInit, ConjunctInvInit
<1>2. /\ PlanInv /\ (DistinctConjuncts => ConjunctInv) /\ [Next]_vars
      => (PlanInv /\ (DistinctConjuncts => ConjunctInv))'
  BY PlanInvNext, ConjunctInvNext
<1> QED
  BY <1>1, <1>2, PTL DEF Spec

-----------------------------------------------------------------------------
NoConjunctTwice ==
  pc # "build" => \A a \in Places : \A p \in WhereAt(a) : \A i, j \in Rendered(p) : i = j

(* The conjuncts dead table elimination cannot take away.                  *)
KeptConjunctsOnce ==
  pc # "build" =>
    \A a \in Places : (opts.deadTables => IsLast(a)) =>
      \A p \in WhereAt(a) : Cardinality(Rendered(p)) = 1

(* No clause but the last of the query has a WHERE.                        *)
OnlyLastFilters == \A a \in Places : WhereAt(a) # {} => IsLast(a)

LEMMA KeptOnce ==
  ASSUME PlanInv, ConjunctInv
  PROVE  NoConjunctTwice /\ KeptConjunctsOnce
<1> SUFFICES ASSUME pc # "build", NEW a \in Places, NEW p \in WhereAt(a)
             PROVE  /\ \A i, j \in Rendered(p) : i = j
                    /\ (opts.deadTables => IsLast(a)) => Cardinality(Rendered(p)) = 1
  BY DEF NoConjunctTwice, KeptConjunctsOnce
<1>1. /\ \A i, j \in Rendered(p) : i = j
      /\ (opts.deadTables => IsLast(a)) => Rendered(p) # {}
  BY DEF ConjunctInv, Moving, Rendered
<1>2. Rendered(p) # {} => \E i : Rendered(p) = {i}
  BY <1>1
<1>3. \A i : Cardinality({i}) = 1
  BY FS_Singleton
<1> QED
  BY <1>1, <1>2, <1>3

LEMMA StepLosesNone ==
  PlanInv /\ ConjunctInv /\ pc # "build" /\ [Next]_vars
    /\ ~ (pc = "eliminate" /\ work # << >> /\ Eliminable(Head(work)))
  => LosesNone
<1> SUFFICES ASSUME PlanInv, ConjunctInv, pc # "build", [Next]_vars,
                    ~ (pc = "eliminate" /\ work # << >> /\ Eliminable(Head(work)))
             PROVE  LosesNone
  OBVIOUS
<1>1. CASE PushSelection
  BY <1>1, PushSelectionConjuncts
<1>2. CASE Flatten
  BY <1>2, FlattenConjuncts
<1>3. CASE NextPass \/ EliminateJoin \/ UNCHANGED vars
  <2>1. ops' = ops /\ current' = current
    BY <1>3 DEF NextPass, EliminateJoin, Visiting, vars
  <2>2. \A p : Rendered(p)' = Rendered(p)
    BY <2>1 DEF Rendered, Holders
  <2> QED
    BY <2>2 DEF LosesNone
<1>4. ~ PlanClause /\ ~ FinishPart
  BY DEF PlanClause, FinishPart
<1> QED
  BY <1>1, <1>2, <1>3, <1>4 DEF Next

(* Only a join that dead table elimination takes away takes a conjunct     *)
(* with it: selection pushdown, subquery flattening and the steps from one *)
(* pass to the next never do.                                              *)
THEOREM OnlyEliminationLoses ==
  Spec => [][DistinctConjuncts /\ pc # "build"
               /\ ~ (pc = "eliminate" /\ work # << >> /\ Eliminable(Head(work)))
             => LosesNone]_vars
<1>1. /\ PlanInv /\ (DistinctConjuncts => ConjunctInv) /\ [Next]_vars
      => [DistinctConjuncts /\ pc # "build"
            /\ ~ (pc = "eliminate" /\ work # << >> /\ Eliminable(Head(work)))
          => LosesNone]_vars
  BY StepLosesNone
<1> QED
  BY <1>1, ConjunctInvAlways, PTL DEF Spec

(* A conjunct of a WHERE is never evaluated twice: after every rewrite of  *)
(* every pass at most one operator of the plan the SQL is rendered from    *)
(* has it, for every query that writes no conjunct in two clauses and      *)
(* whichever passes are enabled.                                           *)
THEOREM NeverTwice == Spec => [](DistinctConjuncts => NoConjunctTwice)
<1>1. PlanInv /\ (DistinctConjuncts => ConjunctInv) => (DistinctConjuncts => NoConjunctTwice)
  BY KeptOnce
<1> QED
  BY <1>1, ConjunctInvAlways, PTL

(* Exactly one operator has a conjunct of the last clause, through every   *)
(* rewrite of every pass; with dead table elimination off, exactly one has *)
(* a conjunct of any clause.                                               *)
THEOREM KeptStandOnce == Spec => [](DistinctConjuncts => KeptConjunctsOnce)
<1>1. PlanInv /\ (DistinctConjuncts => ConjunctInv) => (DistinctConjuncts => KeptConjunctsOnce)
  BY KeptOnce
<1> QED
  BY <1>1, ConjunctInvAlways, PTL

LEMMA OnceAtPlaces ==
  ASSUME PlanInv, KeptConjunctsOnce, opts.deadTables => OnlyLastFilters
  PROVE  EachConjunctOnce
<1> SUFFICES ASSUME pc # "build", NEW k \in DOMAIN query, NEW c \in Range(query[k].clauses),
                    NEW p \in c.where
             PROVE  Cardinality({i \in Upstream(ops)[current] : p \in ops[i].filter}) = 1
  BY DEF EachConjunctOnce
<1> DEFINE clauses == query[k].clauses
<1>1. DOMAIN query = 1..Len(query)
  <2>1. query \in Seq(Range(query))
    BY QueriesAssumption DEF PlanInv
  <2> QED
    BY <2>1
<1>2. PICK n \in 1..Len(clauses) : c = clauses[n]
  <2>1. clauses \in Seq(Range(clauses))
    BY QueriesAssumption DEF PlanInv
  <2> HIDE DEF clauses
  <2>2. DOMAIN clauses = 1..Len(clauses)
    BY <2>1
  <2>3. PICK n \in DOMAIN clauses : c = clauses[n]
    BY DEF Range, clauses
  <2> QED
    BY <2>2, <2>3
<1>3. <<k, n>> \in Places
  <2>1. <<k, n>> \in {k} \X (1..Len(query[k].clauses)) /\ k \in 1..Len(query)
    BY <1>1, <1>2
  <2> QED
    BY <2>1 DEF Places
<1>4. p \in WhereAt(<<k, n>>)
  BY <1>2 DEF WhereAt
<1>5. Cardinality(Rendered(p)) = 1
  BY <1>3, <1>4 DEF KeptConjunctsOnce, OnlyLastFilters
<1>6. Rendered(p) = {i \in Upstream(ops)[current] : p \in ops[i].filter}
  <2>1. Upstream(ops)[current] \subseteq DOMAIN ops
    BY UpstreamFacts DEF PlanInv, Rewriting, Closed
  <2> QED
    BY <2>1 DEF Rendered, Holders
<1> QED
  BY <1>5, <1>6

(* Each conjunct of every WHERE is rendered once, after every rewrite of   *)
(* every pass, for the queries that write no conjunct in two clauses; with *)
(* dead table elimination on, for those of them in which no clause but the *)
(* last has a WHERE, since a join that is removed takes along the          *)
(* selections only it needed.                                              *)
THEOREM ConjunctsStandOnce ==
  Spec => [](DistinctConjuncts /\ (opts.deadTables => OnlyLastFilters) => EachConjunctOnce)
<1>1. PlanInv /\ (DistinctConjuncts => ConjunctInv)
      => (DistinctConjuncts /\ (opts.deadTables => OnlyLastFilters) => EachConjunctOnce)
  BY KeptOnce, OnceAtPlaces
<1> QED
  BY <1>1, ConjunctInvAlways, PTL

-----------------------------------------------------------------------------
(* What the SQL of an operator yields, and where it has the columns of a   *)
(* name, follow from the same of its inputs: both recursions are defined.  *)
InputsOf(plan, values, i) == [k \in DOMAIN plan[i].ins |-> values[plan[i].ins[k]]]

LEMMA InputsBelow ==
  ASSUME NEW plan, WellFormed(plan), NEW N, Closed(plan, N), NEW i \in N
  PROVE  /\ i \in Nat /\ i \in 1..Len(plan)
         /\ \A k \in DOMAIN plan[i].ins : /\ plan[i].ins[k] \in N /\ plan[i].ins[k] \in Nat
                                          /\ plan[i].ins[k] < i
<1>1. i \in DOMAIN plan /\ Range(plan[i].ins) \subseteq N /\ N \subseteq DOMAIN plan
  BY DEF Closed
<1>2. \A k \in DOMAIN plan[i].ins : plan[i].ins[k] \in Range(plan[i].ins)
  BY DEF Range
<1> QED
  BY <1>1, <1>2, PlanFacts

LEMMA ScopesDef ==
  ASSUME NEW plan, WellFormed(plan), NEW N, Closed(plan, N)
  PROVE  \A i \in N : Scopes(plan, N)[i] = ScopeOf(plan, i, InputsOf(plan, Scopes(plan, N), i))
<1> DEFINE n == Len(plan)
           Body(f, i) == ScopeOf(plan, i, InputsOf(plan, f, i))
           Upto(m) == {i \in N : i <= m}
           scope == CHOOSE f : f = [i \in N |-> Body(f, i)]
           Good == {m \in 0..n : \E f : f = [i \in Upto(m) |-> Body(f, i)]}
<1>1. Scopes(plan, N) = scope
  BY DEF Scopes, InputsOf
<1>2. n \in Nat /\ \A i \in N : i \in Nat /\ 1 <= i /\ i <= n
  <2>1. n \in Nat
    BY PlanFacts
  <2>2. \A i \in N : i \in 1..n
    BY InputsBelow
  <2> HIDE DEF n
  <2> QED
    BY <2>1, <2>2
<1> HIDE DEF n
<1>3. 0 \in Good
  <2> DEFINE f == [i \in Upto(0) |-> 0]
  <2>1. Upto(0) = {} /\ 0 \in 0..n
    BY <1>2
  <2> HIDE DEF Body, Upto
  <2>2. f = [i \in Upto(0) |-> Body(f, i)]
    BY <2>1
  <2> QED
    BY <2>1, <2>2
<1>4. ASSUME NEW m \in 0..(n-1), m \in Good PROVE m + 1 \in Good
  <2> HIDE DEF Body
  <2>1. PICK f : f = [i \in Upto(m) |-> Body(f, i)]
    BY <1>4
  <2> DEFINE g == [i \in Upto(m + 1) |-> Body(f, i)]
  <2>2. ASSUME NEW i \in Upto(m + 1) PROVE Body(g, i) = Body(f, i)
    <3>1. ASSUME NEW k \in DOMAIN plan[i].ins
          PROVE  g[plan[i].ins[k]] = f[plan[i].ins[k]]
      <4> DEFINE j == plan[i].ins[k]
      <4>1. j \in N /\ j \in Nat /\ i \in Nat /\ j < i /\ i <= m + 1
        BY <2>2, InputsBelow
      <4>2. j \in Upto(m) /\ j \in Upto(m + 1)
        BY <1>2, <4>1
      <4> HIDE DEF j, Upto
      <4>3. f[j] = Body(f, j) /\ g[j] = Body(f, j)
        BY <2>1, <4>2
      <4> QED
        BY <4>3 DEF j
    <3>2. InputsOf(plan, g, i) = InputsOf(plan, f, i)
      <4> HIDE DEF g
      <4> QED
        BY <3>1 DEF InputsOf
    <3> HIDE DEF g
    <3> QED
      BY <3>2 DEF Body
  <2>3. g = [i \in Upto(m + 1) |-> Body(g, i)]
    <3> DEFINE S == Upto(m + 1)
    <3>1. g = [i \in S |-> Body(f, i)] /\ \A i \in S : Body(g, i) = Body(f, i)
      BY <2>2
    <3> HIDE DEF g, S
    <3>2. g = [i \in S |-> Body(g, i)]
      BY <3>1
    <3> QED
      BY <3>2 DEF S
  <2>4. m + 1 \in 0..n
    BY <1>2
  <2> HIDE DEF g, Upto
  <2> QED
    BY <2>3, <2>4
<1>5. n \in Good
  <2>1. n \in 0..n
    BY <1>2
  <2> HIDE DEF Good
  <2> QED
    BY <1>2, <1>3, <1>4, <2>1, Stepwise
<1>6. \E f : f = [i \in N |-> Body(f, i)]
  <2>1. Upto(n) = N
    BY <1>2
  <2> HIDE DEF Body, Upto
  <2> QED
    BY <1>5, <2>1
<1>7. scope = [i \in N |-> Body(scope, i)]
  <2> HIDE DEF Body
  <2> QED
    BY <1>6
<1> HIDE DEF scope
<1>8. \A i \in N : scope[i] = Body(scope, i)
  <2> HIDE DEF Body
  <2> QED
    BY <1>7
<1> QED
  BY <1>1, <1>8
LEMMA RowsOfDef ==
  ASSUME NEW plan, WellFormed(plan), NEW N, Closed(plan, N), NEW scope
  PROVE  LET rows == RowsOf(plan, N, scope)
         IN  \A i \in N : rows[i] = RowsAt(plan, scope, i, InputsOf(plan, rows, i))
<1> DEFINE n == Len(plan)
           Body(f, i) == RowsAt(plan, scope, i, InputsOf(plan, f, i))
           Upto(m) == {i \in N : i <= m}
           rows == CHOOSE f : f = [i \in N |-> Body(f, i)]
           Good == {m \in 0..n : \E f : f = [i \in Upto(m) |-> Body(f, i)]}
<1>1. RowsOf(plan, N, scope) = rows
  BY DEF RowsOf, InputsOf
<1>2. n \in Nat /\ \A i \in N : i \in Nat /\ 1 <= i /\ i <= n
  <2>1. n \in Nat
    BY PlanFacts
  <2>2. \A i \in N : i \in 1..n
    BY InputsBelow
  <2> HIDE DEF n
  <2> QED
    BY <2>1, <2>2
<1> HIDE DEF n
<1>3. 0 \in Good
  <2> DEFINE f == [i \in Upto(0) |-> 0]
  <2>1. Upto(0) = {} /\ 0 \in 0..n
    BY <1>2
  <2> HIDE DEF Body, Upto
  <2>2. f = [i \in Upto(0) |-> Body(f, i)]
    BY <2>1
  <2> QED
    BY <2>1, <2>2
<1>4. ASSUME NEW m \in 0..(n-1), m \in Good PROVE m + 1 \in Good
  <2> HIDE DEF Body
  <2>1. PICK f : f = [i \in Upto(m) |-> Body(f, i)]
    BY <1>4
  <2> DEFINE g == [i \in Upto(m + 1) |-> Body(f, i)]
  <2>2. ASSUME NEW i \in Upto(m + 1) PROVE Body(g, i) = Body(f, i)
    <3>1. ASSUME NEW k \in DOMAIN plan[i].ins
          PROVE  g[plan[i].ins[k]] = f[plan[i].ins[k]]
      <4> DEFINE j == plan[i].ins[k]
      <4>1. j \in N /\ j \in Nat /\ i \in Nat /\ j < i /\ i <= m + 1
        BY <2>2, InputsBelow
      <4>2. j \in Upto(m) /\ j \in Upto(m + 1)
        BY <1>2, <4>1
      <4> HIDE DEF j, Upto
      <4>3. f[j] = Body(f, j) /\ g[j] = Body(f, j)
        BY <2>1, <4>2
      <4> QED
        BY <4>3 DEF j
    <3>2. InputsOf(plan, g, i) = InputsOf(plan, f, i)
      <4> HIDE DEF g
      <4> QED
        BY <3>1 DEF InputsOf
    <3> HIDE DEF g
    <3> QED
      BY <3>2 DEF Body
  <2>3. g = [i \in Upto(m + 1) |-> Body(g, i)]
    <3> DEFINE S == Upto(m + 1)
    <3>1. g = [i \in S |-> Body(f, i)] /\ \A i \in S : Body(g, i) = Body(f, i)
      BY <2>2
    <3> HIDE DEF g, S
    <3>2. g = [i \in S |-> Body(g, i)]
      BY <3>1
    <3> QED
      BY <3>2 DEF S
  <2>4. m + 1 \in 0..n
    BY <1>2
  <2> HIDE DEF g, Upto
  <2> QED
    BY <2>3, <2>4
<1>5. n \in Good
  <2>1. n \in 0..n
    BY <1>2
  <2> HIDE DEF Good
  <2> QED
    BY <1>2, <1>3, <1>4, <2>1, Stepwise
<1>6. \E f : f = [i \in N |-> Body(f, i)]
  <2>1. Upto(n) = N
    BY <1>2
  <2> HIDE DEF Body, Upto
  <2> QED
    BY <1>5, <2>1
<1>7. rows = [i \in N |-> Body(rows, i)]
  <2> HIDE DEF Body
  <2> QED
    BY <1>6
<1> HIDE DEF rows
<1>8. \A i \in N : rows[i] = Body(rows, i)
  <2> HIDE DEF Body
  <2> QED
    BY <1>7
<1> QED
  BY <1>1, <1>8

-----------------------------------------------------------------------------
(* The selection b merged into the operator i that reads it, among the     *)
(* operators N that are rendered.                                          *)
MergedInto(plan, new, N, b, i) ==
  /\ WellFormed(plan) /\ Closed(plan, N) /\ \A k \in N : Shaped(plan[k])
  /\ WellFormed(new) /\ Closed(new, N \ {b})
  /\ b \in N /\ i \in N \ {b} /\ plan[b].kind = "select" /\ plan[i].kind \in {"select", "project"}
  /\ plan[i].ins[1] = b /\ new[i].ins = plan[b].ins
  /\ new[i].filter = plan[i].filter \cup plan[b].filter
  /\ \A k \in N \ {b} : SameOutput(new[k], plan[k])
  /\ \A k \in N \ {b, i} : /\ new[k].filter = plan[k].filter /\ new[k].ins = plan[k].ins
                           /\ b \notin Range(plan[k].ins)

LEMMA MergedInputs ==
  ASSUME NEW plan, NEW new, NEW N, NEW b, NEW i, MergedInto(plan, new, N, b, i),
         NEW k \in N \ {b, i}
  PROVE  /\ \A n \in DOMAIN plan[k].ins : plan[k].ins[n] \in N \ {b}
         /\ plan[k].kind # "source" => Left(plan, k) \in N \ {b} /\ Left(new, k) = Left(plan, k)
         /\ plan[k].kind \in JoinKinds => Right(plan, k) \in N \ {b} /\ Right(new, k) = Right(plan, k)
<1>1. \A n \in DOMAIN plan[k].ins : plan[k].ins[n] \in N \ {b}
  BY DEF MergedInto, Closed, Range
<1>2. Shaped(plan[k]) /\ new[k].ins = plan[k].ins
  BY DEF MergedInto
<1>3. /\ plan[k].kind # "source" => 1 \in DOMAIN plan[k].ins
      /\ plan[k].kind \in JoinKinds => 2 \in DOMAIN plan[k].ins
  BY <1>2 DEF Shaped
<1> QED
  BY <1>1, <1>2, <1>3 DEF Left, Right

LEMMA MergedLeft ==
  ASSUME NEW plan, NEW new, NEW N, NEW b, NEW i, MergedInto(plan, new, N, b, i),
         NEW k \in N \ {b, i}, plan[k].kind \in JoinKinds
  PROVE  /\ BoundaryJoin(new, k) <=> BoundaryJoin(plan, k)
         /\ Conditions(new, k) = Conditions(plan, k)
         /\ \A p : NodeOnLeft(new, k, p) <=> NodeOnLeft(plan, k, p)
         /\ ExpandsUndirected(new, k) <=> ExpandsUndirected(plan, k)
         /\ BoundaryJoin(plan, k) => /\ Left(new, Left(new, k)) = Left(plan, Left(plan, k))
                                     /\ Left(plan, Left(plan, k)) \in N \ {b}
<1> DEFINE l == Left(plan, k)
           r == Right(plan, k)
<1>1. /\ l \in N \ {b} /\ Left(new, k) = l /\ r \in N \ {b} /\ Right(new, k) = r
  <2>1. "source" \notin JoinKinds
    BY DEF JoinKinds
  <2> QED
    BY <2>1, MergedInputs
<1> HIDE DEF l, r
<1>2. SameOutput(new[k], plan[k]) /\ SameOutput(new[l], plan[l]) /\ SameOutput(new[r], plan[r])
  BY <1>1 DEF MergedInto
<1>3. BoundaryJoin(plan, k) => Left(new, l) = Left(plan, l) /\ Left(plan, l) \in N \ {b}
  <2> SUFFICES ASSUME BoundaryJoin(plan, k)
               PROVE  Left(new, l) = Left(plan, l) /\ Left(plan, l) \in N \ {b}
    OBVIOUS
  <2>1. plan[l].kind = "boundary"
    BY DEF BoundaryJoin, l
  <2>2. l # i
    BY <2>1 DEF MergedInto
  <2> QED
    BY <1>1, <2>1, <2>2, MergedInputs
<1>4. BoundaryJoin(new, k) <=> BoundaryJoin(plan, k)
  BY <1>1, <1>2 DEF BoundaryJoin, SameOutput, l
<1>5. Conditions(new, k) = Conditions(plan, k)
  BY <1>1, <1>2, <1>4 DEF Conditions, SameOutput, l
<1>6. \A p : NodeOnLeft(new, k, p) <=> NodeOnLeft(plan, k, p)
  BY <1>1, <1>2 DEF NodeOnLeft, SameOutput, l
<1>7. ExpandsUndirected(new, k) <=> ExpandsUndirected(plan, k)
  BY <1>1, <1>2 DEF ExpandsUndirected, SameOutput, r
<1> QED
  BY <1>1, <1>3, <1>4, <1>5, <1>6, <1>7 DEF l

(* The merged plan finds every name where the other did.                   *)
LEMMA MergedScopes ==
  ASSUME NEW plan, NEW new, NEW N, NEW b, NEW i, MergedInto(plan, new, N, b, i),
         NEW M, M = N \ {b}
  PROVE  /\ \A k \in M : Scopes(new, M)[k] = Scopes(plan, N)[k]
         /\ Left(plan, i) = b /\ Left(new, i) = Left(plan, b) /\ Left(plan, b) \in M
         /\ Scopes(plan, N)[b] = Scopes(plan, N)[Left(plan, b)]
<1> DEFINE s == Scopes(plan, N)
           t == Scopes(new, M)
           b0 == Left(plan, b)
           n == Len(plan)
           Good == {k \in 1..n : k \in M => t[k] = s[k]}
<1>1. /\ WellFormed(plan) /\ Closed(plan, N) /\ WellFormed(new) /\ Closed(new, M)
      /\ b \in N /\ i \in M /\ plan[b].kind = "select" /\ plan[i].kind \in {"select", "project"}
      /\ Shaped(plan[b]) /\ Shaped(plan[i])
      /\ plan[i].ins[1] = b /\ new[i].ins = plan[b].ins
  BY DEF MergedInto
<1>2. DOMAIN plan[b].ins = {1} /\ DOMAIN plan[i].ins = {1}
  BY <1>1 DEF Shaped
<1>3. b0 \in N /\ b0 # b
  <2>1. /\ b \in Nat /\ \A k \in DOMAIN plan[b].ins : /\ plan[b].ins[k] \in N /\ plan[b].ins[k] \in Nat
                                          /\ plan[b].ins[k] < b
    BY <1>1, InputsBelow
  <2>2. b0 \in N /\ b0 \in Nat /\ b0 < b
    BY <1>2, <2>1 DEF Left
  <2> HIDE DEF b0
  <2> QED
    BY <2>1, <2>2
<1>4. Left(plan, i) = b /\ Left(new, i) = b0
  BY <1>1 DEF Left
<1>5. \A k \in N : s[k] = ScopeOf(plan, k, InputsOf(plan, s, k))
  BY <1>1, ScopesDef
<1>6. \A k \in M : t[k] = ScopeOf(new, k, InputsOf(new, t, k))
  BY <1>1, ScopesDef
<1> HIDE DEF s, t, b0
<1>7. s[b] = s[b0]
  <2>1. s[b] = InputsOf(plan, s, b)[1]
    <3>1. s[b] = ScopeOf(plan, b, InputsOf(plan, s, b))
      BY <1>1, <1>5
    <3>2. \A x : ScopeOf(plan, b, x) = x[1]
      BY <1>1 DEF ScopeOf, JoinKinds
    <3> QED
      BY <3>1, <3>2
  <2>2. InputsOf(plan, s, b)[1] = s[b0]
    BY <1>2 DEF InputsOf, Left, b0
  <2> QED
    BY <2>1, <2>2
<1>8. ASSUME NEW k \in M, k # i, InputsOf(new, t, k) = InputsOf(plan, s, k)
      PROVE  t[k] = s[k]
  <2>1. k \in N \ {b, i}
    BY <1>8
  <2>2. SameOutput(new[k], plan[k])
    BY <1>8 DEF MergedInto
  <2>3. plan[k].kind \in JoinKinds => (BoundaryJoin(new, k) <=> BoundaryJoin(plan, k))
    BY <2>1, MergedLeft
  <2>4. \A x : ScopeOf(new, k, x) = ScopeOf(plan, k, x)
    <3>1. /\ new[k].kind = plan[k].kind /\ new[k].entity = plan[k].entity
          /\ new[k].part = plan[k].part
      BY <2>2 DEF SameOutput
    <3>2. plan[k].kind \in JoinKinds \cup {"source", "select", "project", "boundary"}
      BY <2>1 DEF MergedInto, Shaped
    <3> QED
      BY <2>3, <3>1, <3>2 DEF ScopeOf, JoinKinds
  <2>5. k \in N
    BY <1>8
  <2> QED
    BY <1>5, <1>6, <1>8, <2>4, <2>5
<1>9. ASSUME t[b0] = s[b0] PROVE t[i] = s[i]
  <2>1. InputsOf(new, t, i) = InputsOf(plan, s, i)
    <3>1. DOMAIN new[i].ins = {1} /\ DOMAIN plan[i].ins = {1} /\ t[new[i].ins[1]] = s[plan[i].ins[1]]
      BY <1>1, <1>2, <1>7, <1>9 DEF b0, Left
    <3> QED
      BY <3>1 DEF InputsOf
  <2>2. \A x : ScopeOf(new, i, x) = ScopeOf(plan, i, x)
    <3>1. SameOutput(new[i], plan[i])
      BY <1>1 DEF MergedInto
    <3>2. new[i].kind = plan[i].kind /\ new[i].part = plan[i].part
      BY <3>1 DEF SameOutput
    <3> QED
      BY <1>1, <3>2 DEF ScopeOf, JoinKinds
  <2> QED
    BY <1>1, <1>5, <1>6, <2>1, <2>2
<1>10. n \in Nat /\ M \subseteq 1..n
  BY <1>1, PlanFacts DEF Closed
<1>11. ASSUME NEW k \in 1..n, \A j \in 1..(k-1) : j \in Good PROVE k \in Good
  <2> SUFFICES ASSUME k \in M PROVE t[k] = s[k]
    BY <1>11
  <2>1. \A j \in M : j < k => t[j] = s[j]
    <3> TAKE j \in M
    <3>1. j < k => j \in 1..(k-1)
      BY <1>10
    <3> QED
      BY <1>11, <3>1
  <2>2. CASE k = i
    <3>1. b0 < i
      <4>1. /\ i \in Nat /\ \A m \in DOMAIN new[i].ins : new[i].ins[m] \in M /\ new[i].ins[m] < i
        BY <1>1, InputsBelow
      <4> QED
        BY <1>1, <1>2, <4>1 DEF b0, Left
    <3> QED
      BY <1>3, <1>9, <2>1, <2>2, <3>1
  <2>3. CASE k # i
    <3>1. k \in N \ {b, i} /\ k \in N
      BY <2>3
    <3>2. new[k].ins = plan[k].ins
      BY <3>1 DEF MergedInto
    <3>3. \A m \in DOMAIN plan[k].ins : plan[k].ins[m] \in M /\ plan[k].ins[m] < k
      BY <1>1, <3>1, InputsBelow, MergedInputs
    <3>4. InputsOf(new, t, k) = InputsOf(plan, s, k)
      BY <2>1, <3>2, <3>3 DEF InputsOf
    <3> QED
      BY <1>8, <2>3, <3>4
  <2> QED
    BY <2>2, <2>3
<1>12. \A k \in M : t[k] = s[k]
  <2> HIDE DEF Good
  <2>1. \A k \in 1..n : k \in Good
    BY <1>10, <1>11, Upwards
  <2> QED
    BY <1>10, <2>1 DEF Good
<1> QED
  BY <1>3, <1>4, <1>7, <1>12 DEF s, t, b0

LEMMA NoPartReads == /\ NoPart.keys = {} /\ ~ Aggregates(NoPart)
BY Zenon DEF NoPart, PartialQuery, Aggregates

(* The merged plan resolves its names when the other did.                  *)
LEMMA MergedResolves ==
  ASSUME NEW plan, NEW new, NEW N, NEW b, NEW i, MergedInto(plan, new, N, b, i),
         NEW M, M = N \ {b}
  PROVE  (\A k \in M : Resolves(new, Scopes(new, M), k))
           <=> (\A k \in N : Resolves(plan, Scopes(plan, N), k))
<1> DEFINE s == Scopes(plan, N)
           t == Scopes(new, M)
           b0 == Left(plan, b)
<1>1. /\ b \in N /\ i \in M /\ plan[b].kind = "select" /\ plan[i].kind \in {"select", "project"}
      /\ Shaped(plan[b]) /\ new[i].filter = plan[i].filter \cup plan[b].filter
  BY DEF MergedInto
<1>2. /\ \A k \in M : t[k] = s[k]
      /\ Left(plan, i) = b /\ Left(new, i) = b0 /\ b0 \in M /\ s[b] = s[b0]
  BY MergedScopes
<1> HIDE DEF s, t, b0
<1>3. ASSUME NEW k \in N \ {b, i} PROVE Resolves(new, t, k) <=> Resolves(plan, s, k)
  <2>1. /\ new[k].kind = plan[k].kind /\ new[k].part = plan[k].part
        /\ new[k].filter = plan[k].filter
    BY DEF MergedInto, SameOutput
  <2>2. CASE plan[k].kind = "source"
    <3>1. new[k].kind = "source"
      BY <2>1, <2>2
    <3>2. Resolves(new, t, k)
      BY <3>1 DEF Resolves, JoinKinds
    <3>3. Resolves(plan, s, k)
      BY <2>2 DEF Resolves, JoinKinds
    <3> QED
      BY <3>2, <3>3
  <2>3. CASE plan[k].kind \in JoinKinds
    <3> DEFINE l == Left(plan, k)
               r == Right(plan, k)
    <3>1. plan[k].kind # "source"
      BY <2>3 DEF JoinKinds
    <3>2. l \in M /\ Left(new, k) = l /\ r \in M /\ Right(new, k) = r
      BY <2>3, <3>1, MergedInputs
    <3> HIDE DEF l, r
    <3>3. /\ BoundaryJoin(new, k) <=> BoundaryJoin(plan, k)
          /\ Conditions(new, k) = Conditions(plan, k)
          /\ \A p : NodeOnLeft(new, k, p) <=> NodeOnLeft(plan, k, p)
      BY <2>3, MergedLeft
    <3>4. t[l] = s[l] /\ t[r] = s[r]
      BY <1>2, <3>2
    <3>5. Resolves(new, t, k) <=>
            (BoundaryJoin(plan, k) \/
             \A p \in Conditions(plan, k) :
               LET nodeSide == IF NodeOnLeft(plan, k, p) THEN l ELSE r
                   otherSide == IF NodeOnLeft(plan, k, p) THEN r ELSE l
               IN  p.node \in DOMAIN t[nodeSide] /\ p.other \in DOMAIN t[otherSide])
      BY <2>1, <2>3, <3>1, <3>2, <3>3 DEF Resolves
    <3>6. Resolves(plan, s, k) <=>
            (BoundaryJoin(plan, k) \/
             \A p \in Conditions(plan, k) :
               LET nodeSide == IF NodeOnLeft(plan, k, p) THEN l ELSE r
                   otherSide == IF NodeOnLeft(plan, k, p) THEN r ELSE l
               IN  p.node \in DOMAIN s[nodeSide] /\ p.other \in DOMAIN s[otherSide])
      BY <2>3, <3>1 DEF Resolves, l, r
    <3> QED
      BY <3>4, <3>5, <3>6
  <2>4. CASE plan[k].kind \notin JoinKinds /\ plan[k].kind # "source"
    <3>1. Left(plan, k) \in M /\ Left(new, k) = Left(plan, k)
      BY <2>4, MergedInputs
    <3>2. Reads(new[k]) = Reads(plan[k])
      BY <2>1 DEF Reads
    <3> QED
      BY <1>2, <2>1, <2>4, <3>1, <3>2 DEF Resolves
  <2> QED
    BY <2>2, <2>3, <2>4
<1>4. Resolves(new, t, i) <=> (Resolves(plan, s, i) /\ Resolves(plan, s, b))
  <2>1. new[i].kind = plan[i].kind /\ new[i].part = plan[i].part
    BY <1>1 DEF MergedInto, SameOutput
  <2>2. Reads(plan[b]) = VariablesOf(plan[b].filter)
    <3>1. plan[b].part = NoPart
      BY <1>1 DEF Shaped
    <3> QED
      BY <3>1, NoPartReads DEF Reads
  <2>3. VariablesOf(new[i].filter) = VariablesOf(plan[i].filter) \cup VariablesOf(plan[b].filter)
    BY <1>1 DEF VariablesOf
  <2>4. Reads(new[i]) = Reads(plan[i]) \cup Reads(plan[b])
    BY <2>1, <2>2, <2>3 DEF Reads
  <2>5. /\ Resolves(new, t, i) <=> Reads(new[i]) \subseteq DOMAIN t[b0]
        /\ Resolves(plan, s, i) <=> Reads(plan[i]) \subseteq DOMAIN s[b]
        /\ Resolves(plan, s, b) <=> Reads(plan[b]) \subseteq DOMAIN s[b0]
    BY <1>1, <1>2, <2>1 DEF Resolves, JoinKinds, b0
  <2>6. t[b0] = s[b0]
    BY <1>2
  <2> QED
    BY <1>2, <2>4, <2>5, <2>6
<1>5. (\A k \in M : Resolves(new, t, k)) <=> (\A k \in N : Resolves(plan, s, k))
  BY <1>1, <1>3, <1>4
<1> QED
  BY <1>5 DEF s, t

LEMMA PassingTwice ==
  ASSUME NEW f, NEW g, NEW columns, NEW rows
  PROVE  Passing(f, columns, Passing(g, columns, rows)) = Passing(f \cup g, columns, rows)
<1> DEFINE Ok(r, p) == [v \in p.on |-> r[columns[v]]] \in p.sat
<1>1. \A h, S : Passing(h, columns, S) = {r \in S : \A p \in h : Ok(r, p)}
  BY DEF Passing
<1> HIDE DEF Ok
<1>2. {r \in {x \in rows : \A p \in g : Ok(x, p)} : \A p \in f : Ok(r, p)}
        = {r \in rows : \A p \in f \cup g : Ok(r, p)}
  OBVIOUS
<1>3. Passing(g, columns, rows) = {r \in rows : \A p \in g : Ok(r, p)}
  BY <1>1
<1>4. Passing(f, columns, Passing(g, columns, rows))
        = {r \in Passing(g, columns, rows) : \A p \in f : Ok(r, p)}
  BY <1>1
<1>5. Passing(f \cup g, columns, rows) = {r \in rows : \A p \in f \cup g : Ok(r, p)}
  BY <1>1
<1> QED
  BY <1>2, <1>3, <1>4, <1>5

(* A join of the merged plan joins the same rows.                          *)
LEMMA MergedJoins ==
  ASSUME NEW plan, NEW new, NEW N, NEW b, NEW i, MergedInto(plan, new, N, b, i),
         NEW s, NEW t, \A k \in N \ {b} : t[k] = s[k],
         NEW k \in N \ {b, i}, plan[k].kind \in JoinKinds, NEW X, NEW Y
  PROVE  JoinRows(new, t, k, X, Y) = JoinRows(plan, s, k, X, Y)
<1> DEFINE l == Left(plan, k)
           r == Right(plan, k)
           ll == Left(plan, l)
<1>1. plan[k].kind # "source" /\ new[k].kind = plan[k].kind
  BY DEF JoinKinds, MergedInto, SameOutput
<1>2. /\ l \in N \ {b} /\ Left(new, k) = l /\ r \in N \ {b} /\ Right(new, k) = r
  BY <1>1, MergedInputs
<1> HIDE DEF l, r
<1>3. /\ BoundaryJoin(new, k) <=> BoundaryJoin(plan, k)
      /\ Conditions(new, k) = Conditions(plan, k)
      /\ \A p : NodeOnLeft(new, k, p) <=> NodeOnLeft(plan, k, p)
  BY MergedLeft
<1>4. BoundaryJoin(plan, k) => Left(new, l) = ll /\ ll \in N \ {b}
  BY <1>2, MergedLeft DEF l
<1> HIDE DEF ll
<1>5. /\ t[l] = s[l] /\ t[r] = s[r] /\ BoundaryJoin(plan, k) => t[ll] = s[ll]
  BY <1>2, <1>4
<1> DEFINE keys == IF BoundaryJoin(plan, k) THEN s[ll] ELSE s[l]
           Equal(p, x, y) ==
             IF NodeOnLeft(plan, k, p)
               THEN x[keys[p.node]] # Null /\ x[keys[p.node]] = JoinKey(y, s[r][p.other], p.type)
               ELSE y[s[r][p.node]] # Null /\ y[s[r][p.node]] = JoinKey(x, s[l][p.other], p.type)
           On(x, y) ==
             \A p \in Conditions(plan, k) :
               IF BoundaryJoin(plan, k) THEN x[keys[p.node]] = y[s[r][p.node]] ELSE Equal(p, x, y)
<1>6. ASSUME NEW x, NEW y PROVE JoinsOn(plan, s, k, x, y) <=> On(x, y)
  BY DEF JoinsOn, l, r, ll
<1>7. ASSUME NEW x, NEW y PROVE JoinsOn(new, t, k, x, y) <=> On(x, y)
  <2>1. (IF BoundaryJoin(new, k) THEN t[Left(new, Left(new, k))] ELSE t[Left(new, k)]) = keys
    BY <1>2, <1>3, <1>4, <1>5
  <2>2. t[Right(new, k)] = s[r] /\ t[Left(new, k)] = s[l]
    BY <1>2, <1>5
  <2> HIDE DEF keys
  <2> QED
    BY <1>3, <2>1, <2>2 DEF JoinsOn
<1> HIDE DEF On
<1>8. \A x, y : JoinsOn(new, t, k, x, y) <=> JoinsOn(plan, s, k, x, y)
  BY <1>6, <1>7
<1>9. Range(t[Right(new, k)]) = Range(s[Right(plan, k)])
  BY <1>2, <1>5 DEF r
<1> DEFINE joined(P, u) == {w \in X \X Y : JoinsOn(P, u, k, w[1], w[2])}
           Nulls(P, u) == [c \in Range(u[Right(P, k)]) |-> Null]
           alone(P, u) == {x \in X : P[k].kind = "left" /\ \A y \in Y : <<x, y>> \notin joined(P, u)}
<1>10. joined(new, t) = joined(plan, s)
  BY <1>8
<1>11. Nulls(new, t) = Nulls(plan, s)
  BY <1>9
<1> HIDE DEF joined, Nulls
<1>12. alone(new, t) = alone(plan, s)
  BY <1>1, <1>10
<1> HIDE DEF alone
<1> DEFINE Union(J, n, A) == {z[1] @@ z[2] : z \in J} \cup {x @@ n : x \in A}
<1>13. JoinRows(new, t, k, X, Y) = Union(joined(new, t), Nulls(new, t), alone(new, t))
  BY Zenon DEF JoinRows, joined, Nulls, alone
<1>14. JoinRows(plan, s, k, X, Y) = Union(joined(plan, s), Nulls(plan, s), alone(plan, s))
  BY Zenon DEF JoinRows, joined, Nulls, alone
<1> HIDE DEF Union
<1> QED
  BY <1>10, <1>11, <1>12, <1>13, <1>14

(* An operator the merge leaves alone yields the same rows of the same     *)
(* inputs.                                                                 *)
LEMMA MergedAlike ==
  ASSUME NEW plan, NEW new, NEW N, NEW b, NEW i, MergedInto(plan, new, N, b, i),
         NEW M, M = N \ {b}, NEW k \in M, k # i, NEW inputs
  PROVE  RowsAt(new, Scopes(new, M), k, inputs) = RowsAt(plan, Scopes(plan, N), k, inputs)
<1> DEFINE s == Scopes(plan, N)
           t == Scopes(new, M)
<1>a. \A j \in M : t[j] = s[j]
  BY MergedScopes
<1> SUFFICES RowsAt(new, t, k, inputs) = RowsAt(plan, s, k, inputs)
  OBVIOUS
<1> HIDE DEF s, t
<1>0. k \in N \ {b, i} /\ \A j \in N \ {b} : t[j] = s[j]
  BY <1>a
<1>1. /\ new[k].kind = plan[k].kind /\ new[k].part = plan[k].part
      /\ new[k].filter = plan[k].filter /\ new[k].entity = plan[k].entity
  BY <1>0 DEF MergedInto, SameOutput
<1>2. CASE plan[k].kind = "source"
  <2>1. SourceRows(new, k) = SourceRows(plan, k)
    BY <1>1 DEF SourceRows
  <2>2. new[k].kind = "source"
    BY <1>1, <1>2
  <2>3. RowsAt(new, t, k, inputs) = SourceRows(new, k)
    BY <2>2 DEF RowsAt, JoinKinds
  <2>4. RowsAt(plan, s, k, inputs) = SourceRows(plan, k)
    BY <1>2 DEF RowsAt, JoinKinds
  <2> QED
    BY <2>1, <2>3, <2>4
<1>3. CASE plan[k].kind \in JoinKinds
  <2> DEFINE Y == IF ExpandsUndirected(plan, k) THEN UndirectedRows(plan, Right(plan, k))
                                                ELSE inputs[2]
  <2>1. plan[k].kind # "source" /\ new[k].kind \in JoinKinds /\ new[k].kind # "source"
    BY <1>1, <1>3 DEF JoinKinds
  <2>2. ExpandsUndirected(new, k) <=> ExpandsUndirected(plan, k)
    BY <1>0, <1>3, MergedLeft
  <2>3. Right(new, k) = Right(plan, k)
    BY <1>0, <1>3, MergedInputs
  <2>4. \A r : UndirectedRows(new, r) = UndirectedRows(plan, r)
    BY DEF UndirectedRows
  <2>5. RowsAt(plan, s, k, inputs) = JoinRows(plan, s, k, inputs[1], Y)
    BY <1>3, <2>1 DEF RowsAt
  <2>6. (IF ExpandsUndirected(new, k) THEN UndirectedRows(new, Right(new, k)) ELSE inputs[2]) = Y
    BY <2>2, <2>3, <2>4
  <2> HIDE DEF Y
  <2>7. RowsAt(new, t, k, inputs) = JoinRows(new, t, k, inputs[1], Y)
    BY <2>1, <2>6 DEF RowsAt
  <2>8. JoinRows(new, t, k, inputs[1], Y) = JoinRows(plan, s, k, inputs[1], Y)
    BY <1>0, <1>3, MergedJoins
  <2> QED
    BY <2>5, <2>7, <2>8
<1>4. CASE plan[k].kind # "source" /\ plan[k].kind \notin JoinKinds
  <2>1. Left(new, k) = Left(plan, k) /\ t[Left(new, k)] = s[Left(plan, k)]
    BY <1>0, <1>4, MergedInputs
  <2> DEFINE below == s[Left(plan, k)]
             passing == Passing(plan[k].filter, below, inputs[1])
             Result == IF plan[k].kind = "select" \/ ~ Aggregates(plan[k].part)
                         THEN passing ELSE GroupRows(passing, below, k, plan[k].part)
  <2>2. RowsAt(plan, s, k, inputs) = Result
    BY <1>4 DEF RowsAt
  <2>3. RowsAt(new, t, k, inputs) = Result
    BY <1>1, <1>4, <2>1 DEF RowsAt
  <2> QED
    BY <2>2, <2>3
<1> QED
  BY <1>2, <1>3, <1>4

(* The operator the selection went into yields what it did.                *)
LEMMA MergedRow ==
  ASSUME NEW plan, NEW new, NEW N, NEW b, NEW i, MergedInto(plan, new, N, b, i),
         NEW s, NEW t, NEW b0, Left(plan, i) = b, Left(new, i) = b0, Left(plan, b) = b0,
         t[b0] = s[b0], s[b] = s[b0],
         NEW x, NEW y, NEW z,
         y[1] = RowsAt(plan, s, b, x), z[1] = x[1]
  PROVE  RowsAt(new, t, i, z) = RowsAt(plan, s, i, y)
<1>1. /\ plan[b].kind = "select" /\ plan[i].kind \in {"select", "project"}
      /\ new[i].filter = plan[i].filter \cup plan[b].filter
      /\ new[i].kind = plan[i].kind /\ new[i].part = plan[i].part
  BY DEF MergedInto, SameOutput
<1>2. y[1] = Passing(plan[b].filter, s[b0], x[1])
  BY <1>1 DEF RowsAt, JoinKinds
<1> DEFINE passing == Passing(plan[i].filter \cup plan[b].filter, s[b0], x[1])
           Result == IF plan[i].kind = "select" \/ ~ Aggregates(plan[i].part)
                       THEN passing ELSE GroupRows(passing, s[b0], i, plan[i].part)
<1>3. Passing(plan[i].filter, s[b], y[1]) = passing
  BY <1>2, PassingTwice
<1>4. Passing(new[i].filter, t[b0], z[1]) = passing
  BY <1>1
<1> HIDE DEF passing
<1>5. RowsAt(plan, s, i, y) = Result
  BY <1>1, <1>3 DEF RowsAt, JoinKinds
<1>6. RowsAt(new, t, i, z) = Result
  BY <1>1, <1>4 DEF RowsAt, JoinKinds
<1> QED
  BY <1>5, <1>6

(* Every operator but the merged selection yields the rows it did.         *)
LEMMA MergedRows ==
  ASSUME NEW plan, NEW new, NEW N, NEW b, NEW i, MergedInto(plan, new, N, b, i),
         NEW M, M = N \ {b}
  PROVE  \A k \in M : RowsOf(new, M, Scopes(new, M))[k] = RowsOf(plan, N, Scopes(plan, N))[k]
<1> DEFINE s == Scopes(plan, N)
           t == Scopes(new, M)
           b0 == Left(plan, b)
           old == RowsOf(plan, N, s)
           rows == RowsOf(new, M, t)
           n == Len(plan)
           Good == {k \in 1..n : k \in M => rows[k] = old[k]}
<1>1. /\ WellFormed(plan) /\ Closed(plan, N) /\ WellFormed(new) /\ Closed(new, M)
      /\ b \in N /\ i \in M /\ plan[b].kind = "select" /\ plan[i].kind \in {"select", "project"}
      /\ Shaped(plan[b]) /\ Shaped(plan[i])
      /\ plan[i].ins[1] = b /\ new[i].ins = plan[b].ins
  BY DEF MergedInto
<1>2. DOMAIN plan[b].ins = {1} /\ DOMAIN plan[i].ins = {1}
  BY <1>1 DEF Shaped
<1>3. /\ \A k \in M : t[k] = s[k]
      /\ Left(plan, i) = b /\ Left(new, i) = b0 /\ b0 \in M /\ s[b] = s[b0]
  BY MergedScopes
<1> HIDE DEF s, t, b0
<1>4. \A k \in N : old[k] = RowsAt(plan, s, k, InputsOf(plan, old, k))
  BY <1>1, RowsOfDef
<1>5. \A k \in M : rows[k] = RowsAt(new, t, k, InputsOf(new, rows, k))
  BY <1>1, RowsOfDef
<1> HIDE DEF old, rows
<1>6. ASSUME rows[b0] = old[b0] PROVE rows[i] = old[i]
  <2> DEFINE x == InputsOf(plan, old, b)
             y == InputsOf(plan, old, i)
             z == InputsOf(new, rows, i)
  <2>1. x[1] = old[b0]
    BY <1>2 DEF InputsOf, Left, b0
  <2>2. z[1] = rows[b0]
    <3>1. DOMAIN new[i].ins = {1} /\ new[i].ins[1] = b0
      BY <1>1, <1>2 DEF Left, b0
    <3> QED
      BY <3>1 DEF InputsOf
  <2>3. y[1] = old[b]
    BY <1>1, <1>2 DEF InputsOf
  <2>4. y[1] = RowsAt(plan, s, b, x) /\ z[1] = x[1]
    BY <1>1, <1>4, <1>6, <2>1, <2>2, <2>3
  <2>5. old[i] = RowsAt(plan, s, i, y) /\ rows[i] = RowsAt(new, t, i, z)
    BY <1>1, <1>4, <1>5
  <2> HIDE DEF x, y, z
  <2>6. Left(plan, b) = b0 /\ t[b0] = s[b0]
    BY <1>3 DEF b0
  <2>7. RowsAt(new, t, i, z) = RowsAt(plan, s, i, y)
    BY <1>3, <2>4, <2>6, MergedRow
  <2> QED
    BY <2>5, <2>7
<1>7. n \in Nat /\ M \subseteq 1..n
  BY <1>1, PlanFacts DEF Closed
<1>8. ASSUME NEW k \in 1..n, \A j \in 1..(k-1) : j \in Good PROVE k \in Good
  <2> SUFFICES ASSUME k \in M PROVE rows[k] = old[k]
    BY <1>8
  <2>1. \A j \in M : j < k => rows[j] = old[j]
    <3> TAKE j \in M
    <3>1. j < k => j \in 1..(k-1)
      BY <1>7
    <3> QED
      BY <1>8, <3>1
  <2>2. CASE k = i
    <3>1. b0 < i
      <4>1. /\ i \in Nat /\ \A m \in DOMAIN new[i].ins : new[i].ins[m] \in M /\ new[i].ins[m] < i
        BY <1>1, InputsBelow
      <4> QED
        BY <1>1, <1>2, <4>1 DEF b0, Left
    <3> QED
      BY <1>3, <1>6, <2>1, <2>2, <3>1
  <2>3. CASE k # i
    <3>1. k \in N \ {b, i} /\ k \in N
      BY <2>3
    <3>2. new[k].ins = plan[k].ins
      BY <3>1 DEF MergedInto
    <3>3. \A m \in DOMAIN plan[k].ins : plan[k].ins[m] \in M /\ plan[k].ins[m] < k
      BY <1>1, <3>1, InputsBelow, MergedInputs
    <3>4. InputsOf(new, rows, k) = InputsOf(plan, old, k)
      BY <2>1, <3>2, <3>3 DEF InputsOf
    <3>5. ASSUME NEW x PROVE RowsAt(new, t, k, x) = RowsAt(plan, s, k, x)
      BY <2>3, MergedAlike DEF s, t
    <3> QED
      BY <1>4, <1>5, <3>1, <3>4, <3>5
  <2> QED
    BY <2>2, <2>3
<1>9. \A k \in M : rows[k] = old[k]
  <2> HIDE DEF Good
  <2>1. \A k \in 1..n : k \in Good
    BY <1>7, <1>8, Upwards
  <2> QED
    BY <1>7, <2>1 DEF Good
<1> QED
  BY <1>9 DEF s, t, old, rows

(* The SQL of the merged plan returns what that of the other does.         *)
LEMMA MergedMeaning ==
  ASSUME NEW plan, NEW new, NEW N, NEW b, NEW i, MergedInto(plan, new, N, b, i),
         NEW c \in N \ {b}, N = Upstream(plan)[c], N \ {b} = Upstream(new)[c]
  PROVE  Meaning(new, c) = Meaning(plan, c)
<1> DEFINE M == N \ {b}
           s == Scopes(plan, N)
           t == Scopes(new, M)
<1>1. M = N \ {b} /\ M = Upstream(new)[c] /\ c \in M
  OBVIOUS
<1> HIDE DEF M
<1>2. t[c] = s[c]
  BY <1>1, MergedScopes
<1>3. (\A k \in M : Resolves(new, t, k)) <=> (\A k \in N : Resolves(plan, s, k))
  BY <1>1, MergedResolves
<1>4. RowsOf(new, M, t)[c] = RowsOf(plan, N, s)[c]
  BY <1>1, MergedRows
<1>5. Meaning(new, c) = IF \A k \in M : Resolves(new, t, k)
                          THEN Returns(ResultOf(RowsOf(new, M, t)[c], t[c])) ELSE Failure
  BY <1>1 DEF Meaning
<1>6. Meaning(plan, c) = IF \A k \in N : Resolves(plan, s, k)
                           THEN Returns(ResultOf(RowsOf(plan, N, s)[c], s[c])) ELSE Failure
  BY DEF Meaning
<1> HIDE DEF s, t
<1> QED
  BY <1>2, <1>3, <1>4, <1>5, <1>6

-----------------------------------------------------------------------------
(* No rewrite of the graph changes what an operator is.                    *)
SameShape(x, y) == SameOutput(x, y) /\ x.filter = y.filter /\ DOMAIN x.ins = DOMAIN y.ins

LEMMA RedirectShape ==
  ASSUME NEW plan, WellFormed(plan), NEW i, NEW j, i # j, NEW k \in DOMAIN plan, k # i,
         NEW new, new = Redirect(plan, i, j)
  PROVE  /\ SameShape(new[k], plan[k]) /\ IsOperator(new[k])
         /\ new[k].ins = IF k # j /\ k \in Range(plan[i].outs)
                           THEN Replaced(plan[k].ins, i, j) ELSE plan[k].ins
<1> DEFINE op == plan[k]
<1>1. IsOperator(op)
  BY DEF WellFormed, IsNode
<1>2. CASE k = j
  <2> DEFINE outs == Distinct(plan[j].outs \o plan[i].outs)
  <2>1. new[k] = [op EXCEPT !.outs = outs]
    BY <1>2 DEF Redirect
  <2> HIDE DEF outs, op
  <2>2. SameShape(new[k], op) /\ new[k].ins = op.ins /\ IsOperator(new[k])
    BY <1>1, <2>1 DEF IsOperator, SameShape, SameOutput
  <2> QED
    BY <1>2, <2>2 DEF op
<1>3. CASE k # j /\ k \in Range(plan[i].outs)
  <2> DEFINE ins == Replaced(op.ins, i, j)
  <2>1. new[k] = [op EXCEPT !.ins = ins]
    BY <1>3 DEF Redirect
  <2>2. DOMAIN ins = DOMAIN op.ins
    BY DEF Replaced
  <2> HIDE DEF ins, op
  <2>3. SameShape(new[k], op) /\ new[k].ins = ins /\ IsOperator(new[k])
    BY <1>1, <2>1, <2>2 DEF IsOperator, SameShape, SameOutput
  <2> QED
    BY <1>3, <2>3 DEF op, ins
<1>4. CASE k # j /\ k \notin Range(plan[i].outs)
  <2>1. new[k] = op
    BY <1>4 DEF Redirect
  <2> QED
    BY <1>1, <1>4, <2>1 DEF SameShape, SameOutput
<1> QED
  BY <1>2, <1>3, <1>4

LEMMA BypassShape ==
  ASSUME NEW plan, WellFormed(plan), NEW s \in DOMAIN plan, plan[s].kind = "select",
         plan[s].ins # << >>, NEW k \in DOMAIN plan, k # s,
         NEW new, new = Bypass(plan, s)
  PROVE  /\ Left(plan, s) \in Range(plan[s].ins) /\ Left(plan, s) # s
         /\ SameShape(new[k], plan[k])
         /\ new[k].ins = IF k # Left(plan, s) /\ k \in Range(plan[s].outs)
                           THEN Replaced(plan[k].ins, s, Left(plan, s)) ELSE plan[k].ins
<1> DEFINE below == Left(plan, s)
           mid == Redirect(plan, s, below)
           op == mid[k]
<1>1. below \in Range(plan[s].ins) /\ below \in DOMAIN plan /\ below # s
  <2> DEFINE ins == plan[s].ins
             D == DOMAIN plan
  <2>1. ins \in Seq(D)
    BY DEF WellFormed, IsNode
  <2>2. ins[1] \in Range(ins)
    <3> HIDE DEF ins, D
    <3>1. 1 \in DOMAIN plan[s].ins
      BY <2>1 DEF ins
    <3> QED
      BY <3>1 DEF Range, ins
  <2>3. below \in Range(ins)
    BY <2>2 DEF Left
  <2> QED
    BY <2>3, PlanFacts
<1> HIDE DEF below
<1>2. /\ SameShape(op, plan[k]) /\ IsOperator(op)
      /\ op.ins = IF k # below /\ k \in Range(plan[s].outs)
                    THEN Replaced(plan[k].ins, s, below) ELSE plan[k].ins
  BY <1>1, RedirectShape
<1> DEFINE outs == KeepIn(mid[below].outs, DOMAIN plan \ {s})
<1>3. new = [mid EXCEPT ![below].outs = outs]
  BY DEF Bypass, below
<1>4. k \in DOMAIN mid
  BY DEF Redirect
<1> HIDE DEF mid, outs
<1>5. CASE k # below
  <2>1. new[k] = op
    BY <1>3, <1>4, <1>5
  <2> QED
    BY <1>1, <1>2, <2>1 DEF below
<1>6. CASE k = below
  <2>1. new[k] = [op EXCEPT !.outs = outs]
    BY <1>3, <1>4, <1>6
  <2> HIDE DEF op
  <2>2. SameShape(new[k], op) /\ new[k].ins = op.ins
    BY <1>2, <2>1 DEF IsOperator, SameShape, SameOutput
  <2> QED
    BY <1>1, <1>2, <2>2 DEF below, SameShape, SameOutput
<1> QED
  BY <1>5, <1>6

LEMMA RedirectReadsOnce ==
  ASSUME NEW plan, WellFormed(plan), ReadOnce(plan), NEW i \in DOMAIN plan, NEW j \in DOMAIN plan,
         NEW new, Redirected(plan, new, i, j),
         plan[j].kind = "select" => plan[i].kind = "select" /\ j \in Range(plan[i].ins)
  PROVE  ReadOnce(new)
<1> SUFFICES ASSUME NEW x \in DOMAIN plan, NEW y \in DOMAIN plan,
                    NEW b \in DOMAIN plan, plan[b].kind = "select",
                    b \in Range(new[x].ins), b \in Range(new[y].ins)
             PROVE  x = y
  <2>1. DOMAIN new = DOMAIN plan /\ \A k \in DOMAIN plan : new[k].kind = plan[k].kind
    BY DEF Redirected
  <2>2. \A k \in DOMAIN new : Range(new[k].ins) \subseteq DOMAIN new
    BY PlanFacts DEF Redirected
  <2> QED
    BY <2>1, <2>2 DEF ReadOnce
<1>1. ASSUME NEW k \in DOMAIN plan, b \in Range(new[k].ins)
      PROVE  /\ k # i
             /\ b \in Range(plan[k].ins) \/ (b = j /\ i \in Range(plan[k].ins))
  BY <1>1 DEF Redirected
<1>2. CASE b # j
  BY <1>1, <1>2 DEF ReadOnce
<1>3. CASE b = j
  <2>1. \A k \in DOMAIN plan : j \in Range(plan[k].ins) => k = i
    BY <1>3 DEF ReadOnce
  <2>2. i \in Range(plan[x].ins) /\ i \in Range(plan[y].ins)
    BY <1>1, <1>3, <2>1
  <2> QED
    BY <1>3, <2>2 DEF ReadOnce
<1> QED
  BY <1>2, <1>3

LEMMA SameGraphReadsOnce ==
  ASSUME NEW plan, NEW new, SameGraph(plan, new), ReadOnce(plan), WellFormed(plan)
  PROVE  ReadOnce(new)
<1>1. /\ DOMAIN new = DOMAIN plan
      /\ \A k \in DOMAIN plan : new[k].kind = plan[k].kind /\ new[k].ins = plan[k].ins
  BY DEF SameGraph
<1>2. \A k \in DOMAIN plan : Range(plan[k].ins) \subseteq DOMAIN plan
  BY PlanFacts
<1> QED
  BY <1>1, <1>2 DEF ReadOnce

LEMMA BypassReadsOnce ==
  ASSUME NEW plan, WellFormed(plan), ReadOnce(plan), NEW s \in DOMAIN plan,
         plan[s].kind = "select", NEW new, new = Bypass(plan, s), WellFormed(new)
  PROVE  ReadOnce(new)
<1> DEFINE below == Left(plan, s)
           mid == Redirect(plan, s, below)
           outs == KeepIn(mid[below].outs, DOMAIN plan \ {s})
<1>1. CASE plan[s].ins = << >>
  BY <1>1 DEF Bypass
<1>2. CASE plan[s].ins # << >>
  <2>1. below \in Range(plan[s].ins) /\ below \in DOMAIN plan /\ below < s
    <3> DEFINE ins == plan[s].ins
               D == DOMAIN plan
    <3>1. ins \in Seq(D) /\ ins # << >>
      BY <1>2 DEF WellFormed, IsNode
    <3>2. ins[1] \in Range(ins)
      <4> HIDE DEF ins, D
      <4>1. 1 \in DOMAIN ins
        BY <3>1
      <4> QED
        BY <4>1 DEF Range
    <3>3. below \in Range(ins)
      BY <3>2 DEF Left
    <3> QED
      BY <3>3, PlanFacts
  <2>2. new = [mid EXCEPT ![below].outs = outs]
    BY <1>2 DEF Bypass
  <2> HIDE DEF below
  <2>3. Redirected(plan, mid, s, below)
    BY <2>1, RedirectFacts
  <2>4. ReadOnce(mid)
    <3> HIDE DEF mid
    <3> QED
      BY <2>1, <2>3, RedirectReadsOnce
  <2>5. /\ WellFormed(mid) /\ DOMAIN mid = DOMAIN plan
        /\ \A k \in DOMAIN plan : Range(mid[k].ins) \subseteq DOMAIN plan
    <3>1. WellFormed(mid) /\ DOMAIN mid = DOMAIN plan
      BY <2>3 DEF Redirected
    <3> HIDE DEF mid
    <3> QED
      BY <3>1, PlanFacts
  <2> HIDE DEF mid, outs
  <2>6. DOMAIN new = DOMAIN mid
    BY <2>2
  <2>7. \A k \in DOMAIN mid : new[k].ins = mid[k].ins /\ new[k].kind = mid[k].kind
    <3> TAKE k \in DOMAIN mid
    <3>1. CASE k # below
      <4>1. new[k] = mid[k]
        BY <2>2, <3>1
      <4> QED
        BY <4>1
    <3>2. CASE k = below
      <4> DEFINE op == mid[k]
      <4>1. new[k] = [op EXCEPT !.outs = outs]
        BY <2>2, <3>2
      <4>2. IsOperator(op)
        BY <2>5 DEF WellFormed, IsNode
      <4> HIDE DEF op
      <4>3. new[k].ins = op.ins /\ new[k].kind = op.kind
        BY <4>1, <4>2 DEF IsOperator
      <4> QED
        BY <4>3 DEF op
    <3> QED
      BY <3>1, <3>2
  <2>8. \A k \in DOMAIN mid : Range(mid[k].ins) \subseteq DOMAIN mid
    BY <2>5
  <2> QED
    BY <2>4, <2>6, <2>7, <2>8 DEF ReadOnce
<1> QED
  BY <1>1, <1>2

LEMMA ShapeKept ==
  ASSUME NEW x, NEW y, SameShape(x, y), Shaped(y)
  PROVE  Shaped(x)
BY DEF SameShape, SameOutput, Shaped

-----------------------------------------------------------------------------
(* What subquery flattening finds.  While planning, what the next operator *)
(* goes on top of is read by nothing if it is a selection; afterwards      *)
(* every operator the terminal needs has the inputs of its kind, and a     *)
(* selection has a single reader: to merge it into that one changes what   *)
(* no other operator reads.                                                *)
Stacked ==
  /\ Tidy(ops)
  /\ current # 0 => Unread(ops, current)
  /\ boundary # 0 => ops[boundary].kind # "select"
Mergeable ==
  /\ ReadOnce(ops)
  /\ \A k \in Upstream(ops)[current] : Shaped(ops[k])
  /\ pc = "flatten" => \A i \in Range(work) :
       /\ ops[i].kind \in {"select", "project"}
       /\ i \in Upstream(ops)[current] \/ Range(ops[i].ins) = {}
MergeInv == IF pc = "build" THEN Stacked ELSE Mergeable

LEMMA MergeInvInit == Init => MergeInv
<1> SUFFICES ASSUME Init PROVE MergeInv
  OBVIOUS
<1>1. ops = << >> /\ pc = "build" /\ current = 0 /\ boundary = 0
  BY DEF Init
<1>2. DOMAIN ops = {}
  <2>1. DOMAIN << >> = {}
    OBVIOUS
  <2> QED
    BY <1>1, <2>1, Zenon
<1> QED
  BY <1>1, <1>2 DEF MergeInv, Stacked, Tidy, ReadOnce

LEMMA PlanClauseMerges == PlanInv /\ MergeInv /\ PlanClause => MergeInv'
<1> SUFFICES ASSUME PlanInv, MergeInv, PlanClause PROVE MergeInv'
  OBVIOUS
<1> DEFINE c == query[part].clauses[clause]
           below == IF AfterBoundary /\ clause = 1 THEN boundary ELSE current
           tree == MatchTree(ops, c.pattern)
           kind == IF c.optional THEN "left" ELSE "join"
           join == Join(tree.plan, kind, below, tree.root, CorrelationPairs(c.pattern))
           joined == IF below = 0 THEN tree.plan ELSE Add(tree.plan, join)
           top == IF below = 0 THEN tree.root ELSE Len(joined)
           select == Selection(joined, top, c.where)
<1>1. /\ ops' = IF c.where = {} THEN joined ELSE Add(joined, select)
      /\ current' = IF c.where = {} THEN top ELSE Len(joined) + 1
      /\ clause' = clause + 1 /\ pc = "build" /\ part <= Len(query)
      /\ clause <= Len(query[part].clauses)
      /\ UNCHANGED <<query, pc, part, boundary>>
  BY DEF PlanClause
<1>2. /\ Built(ops) /\ query \in Queries /\ part \in 1..(Len(query) + 1) /\ clause \in Nat \ {0}
      /\ current \in DOMAIN ops \cup {0} /\ boundary \in DOMAIN ops \cup {0}
  BY <1>1 DEF PlanInv, Planning, Built
<1>3. c.pattern \in Seq(Range(c.pattern)) /\ c.pattern # << >>
  <2>1. Len(query) \in Nat
    BY <1>2, QueryFacts
  <2>2. part \in 1..Len(query)
    BY <1>1, <1>2, <2>1
  <2>3. Len(query[part].clauses) \in Nat
    BY <1>2, <2>2, QueryFacts
  <2>4. clause \in 1..Len(query[part].clauses)
    BY <1>1, <1>2, <2>3
  <2> QED
    BY <1>2, <2>2, <2>4, QueryFacts
<1> HIDE DEF c
<1>4. /\ Built(tree.plan) /\ tree.root \in DOMAIN tree.plan \ DOMAIN ops
      /\ Extends(ops, tree.plan) /\ Apart(ops, tree.plan)
  <2>1. /\ Built(tree.plan) /\ tree.root \in DOMAIN tree.plan /\ tree.root \notin DOMAIN ops
        /\ Grows(ops, tree.plan) /\ Apart(ops, tree.plan)
    BY <1>2, <1>3, MatchTreeFacts
  <2> QED
    BY <2>1 DEF Grows
<1>5. /\ Tidy(ops) /\ (below # 0 => below \in DOMAIN ops /\ Unread(ops, below))
      /\ boundary # 0 => ops[boundary].kind # "select"
  <2>1. Stacked
    BY <1>1 DEF MergeInv
  <2>2. CASE below = boundary
    BY <1>2, <2>1, <2>2 DEF Stacked, Unread
  <2>3. CASE below = current
    BY <1>2, <2>1, <2>3 DEF Stacked
  <2> QED
    BY <2>1, <2>2, <2>3 DEF Stacked
<1> HIDE DEF tree, below
<1>6. /\ Tidy(tree.plan) /\ Unread(tree.plan, tree.root)
      /\ below # 0 => below \in DOMAIN tree.plan /\ Unread(tree.plan, below)
  <2>1. Tidy(tree.plan) /\ \A b \in DOMAIN ops : Unread(ops, b) => Unread(tree.plan, b)
    BY <1>2, <1>4, <1>5, ApartTidy DEF Built
  <2>2. DOMAIN ops \subseteq DOMAIN tree.plan
    BY <1>4 DEF Extends
  <2>3. tree.plan[tree.root].kind # "select"
    BY <1>4 DEF Apart
  <2> QED
    BY <1>5, <2>1, <2>2, <2>3 DEF Unread
<1>7. /\ Built(joined) /\ top \in DOMAIN joined /\ Extends(ops, joined)
      /\ Tidy(joined) /\ Unread(joined, top)
  <2>1. CASE below = 0
    BY <1>4, <1>6, <2>1
  <2>2. CASE below # 0
    <3>1. /\ Placeable(join, tree.plan) /\ Shaped(join) /\ join.ins = <<below, tree.root>>
      <4>1. kind \in JoinKinds
        BY DEF JoinKinds
      <4> HIDE DEF kind
      <4> QED
        BY <1>4, <1>6, <2>2, <4>1, JoinIsPlaceable
    <3> HIDE DEF join
    <3>2. \A b \in Range(join.ins) : Unread(tree.plan, b)
      BY <1>6, <2>2, <3>1, RangeOfPair
    <3> DEFINE new == Add(tree.plan, join)
    <3>3. /\ Built(new) /\ Len(new) = Len(tree.plan) + 1 /\ Len(tree.plan) + 1 \in DOMAIN new
          /\ Extends(tree.plan, new)
      BY <1>4, <3>1, AddFacts
    <3>4. Tidy(new) /\ Unread(new, Len(tree.plan) + 1)
      BY <1>4, <1>6, <3>1, <3>2, AddTidy
    <3>5. joined = new /\ top = Len(tree.plan) + 1
      BY <2>2, <3>3
    <3> HIDE DEF new, joined, top
    <3>6. Extends(ops, new)
      BY <1>4, <3>3 DEF Extends
    <3> QED
      BY <3>3, <3>4, <3>5, <3>6
  <2> QED
    BY <2>1, <2>2
<1> HIDE DEF joined, top
<1>8. Extends(ops, ops') /\ Tidy(ops') /\ Unread(ops', current')
  <2>1. CASE c.where = {}
    BY <1>1, <1>7, <2>1
  <2>2. CASE c.where # {}
    <3>1. Placeable(select, joined) /\ Shaped(select) /\ select.ins = <<top>>
      BY <1>7, SelectionIsPlaceable
    <3> HIDE DEF select
    <3>2. \A b \in Range(select.ins) : Unread(joined, b)
      BY <1>7, <3>1, RangeOfPair
    <3> DEFINE new == Add(joined, select)
    <3>3. Extends(joined, new)
      BY <1>7, <3>1, AddFacts
    <3>4. Tidy(new) /\ Unread(new, Len(joined) + 1)
      BY <1>7, <3>1, <3>2, AddTidy
    <3>5. ops' = new /\ current' = Len(joined) + 1
      BY <1>1, <2>2
    <3> HIDE DEF new
    <3>6. Extends(ops, new)
      BY <1>7, <3>3 DEF Extends
    <3> QED
      BY <3>4, <3>5, <3>6
  <2> QED
    BY <2>1, <2>2
<1>9. boundary' # 0 => ops'[boundary'].kind # "select"
  BY <1>1, <1>2, <1>5, <1>8 DEF Extends
<1>10. Stacked'
  BY <1>8, <1>9 DEF Stacked
<1> QED
  BY <1>1, <1>10 DEF MergeInv

LEMMA FinishPartMerges == PlanInv /\ MergeInv /\ FinishPart => MergeInv'
<1> SUFFICES ASSUME PlanInv, MergeInv, FinishPart PROVE MergeInv'
  OBVIOUS
<1> DEFINE makesBoundary == ~ AfterBoundary /\ MakesBoundary
           kind == IF makesBoundary THEN "boundary" ELSE "project"
           op == Output(kind, current, query[part])
<1>1. /\ ops' = Add(ops, op) /\ current' = Len(ops')
      /\ boundary' = IF makesBoundary THEN Len(ops') ELSE IF AfterBoundary THEN 0 ELSE boundary
      /\ pc = "build" /\ part <= Len(query)
      /\ clause > Len(query[part].clauses) /\ UNCHANGED <<query, pc>>
  BY DEF FinishPart
<1>2. /\ Built(ops) /\ query \in Queries /\ part \in 1..(Len(query) + 1) /\ clause \in Nat \ {0}
      /\ current \in DOMAIN ops \/ (current = 0 /\ part = 1 /\ clause = 1)
      /\ boundary \in DOMAIN ops \cup {0}
  BY <1>1 DEF PlanInv, Planning, Built
<1>3. Len(query) \in Nat \ {0} /\ part \in 1..Len(query)
  <2>1. Len(query) \in Nat \ {0}
    BY <1>2, QueryFacts
  <2> QED
    BY <1>1, <1>2, <2>1
<1>4. current \in DOMAIN ops /\ current # 0
  <2>1. Len(query[1].clauses) \in Nat /\ 1 <= Len(query[1].clauses)
    <3>1. 1 \in 1..Len(query)
      BY <1>3
    <3> QED
      BY <1>2, <3>1, QueryFacts
  <2>2. ~ (1 > Len(query[1].clauses))
    BY <2>1
  <2>3. current \in DOMAIN ops
    BY <1>1, <1>2, <2>2
  <2>4. DOMAIN ops = 1..Len(ops) /\ Len(ops) \in Nat
    BY <1>2, PlanFacts DEF Built
  <2>5. \A n \in Nat : 0 \notin 1..n
    OBVIOUS
  <2> QED
    BY <2>3, <2>4, <2>5
<1>5. /\ Placeable(op, ops) /\ op.kind = kind /\ Shaped(op) /\ op.ins = <<current>>
      /\ kind # "select"
  <2>1. kind \in {"boundary", "project"} /\ kind # "select"
    OBVIOUS
  <2> HIDE DEF kind
  <2> QED
    BY <1>4, <2>1, OutputIsPlaceable
<1>6. Stacked
  BY <1>1 DEF MergeInv
<1> HIDE DEF op, kind
<1>7. \A b \in Range(op.ins) : Unread(ops, b)
  BY <1>4, <1>5, <1>6, RangeOfPair DEF Stacked
<1> DEFINE new == Add(ops, op)
<1>8. /\ Len(new) = Len(ops) + 1 /\ Extends(ops, new) /\ new[Len(ops) + 1] = op
  BY <1>2, <1>5, AddFacts
<1>9. Tidy(new) /\ Unread(new, Len(ops) + 1)
  BY <1>2, <1>5, <1>6, <1>7, AddTidy DEF Stacked
<1>10. ops' = new /\ current' = Len(ops) + 1
  BY <1>1, <1>8
<1> HIDE DEF new, makesBoundary
<1>11. boundary' # 0 => new[boundary'].kind # "select"
  <2>1. CASE boundary' = Len(ops')
    BY <1>5, <1>8, <1>10, <2>1
  <2>2. CASE boundary' = boundary
    BY <1>2, <1>6, <1>8, <2>2 DEF Extends, Stacked
  <2> QED
    BY <1>1, <2>1, <2>2
<1>12. Stacked'
  BY <1>9, <1>10, <1>11 DEF Stacked
<1> QED
  BY <1>1, <1>12 DEF MergeInv

LEMMA NextPassMerges == PlanInv /\ MergeInv /\ NextPass => MergeInv'
<1> SUFFICES ASSUME PlanInv, MergeInv, NextPass PROVE MergeInv'
  OBVIOUS
<1> DEFINE roots == IF pc = "build" THEN SourcesBelow(ops)[current] ELSE starts
           pass == Following[pc]
           next == Visits(pass, roots)
           needed == Upstream(ops)[current]
           D == DOMAIN ops
<1>1. pc # "done" /\ work' = next /\ pc' = pass /\ UNCHANGED <<ops, current>>
  BY DEF NextPass
<1>2. WellFormed(ops) /\ pc \in {"build", "eliminate", "push", "flatten", "done"}
  BY DEF PlanInv
<1>3. pc' # "build"
  BY <1>1, <1>2 DEF Following
<1>4. needed \subseteq D
  <2>1. Rewriting'
    BY <1>3, NextPassKeeps DEF PlanInv
  <2>2. current \in D
    BY <1>1, <2>1 DEF Rewriting
  <2> QED
    BY <1>2, <2>2, UpstreamFacts DEF Closed
<1>5. ReadOnce(ops) /\ \A k \in needed : Shaped(ops[k])
  <2>1. CASE pc = "build"
    <3>1. Tidy(ops)
      BY <2>1 DEF MergeInv, Stacked
    <3> HIDE DEF needed
    <3> QED
      BY <1>4, <3>1 DEF Tidy
  <2>2. CASE pc # "build"
    BY <2>2 DEF MergeInv, Mergeable
  <2> QED
    BY <2>1, <2>2
<1>6. pass = "flatten" =>
        \A i \in Range(next) : ops[i].kind \in {"select", "project"} /\ i \in needed
  <2> DEFINE numbers == [i \in D |-> i]
             merged == OfKind({"select", "project"}) \cap needed
  <2>1. numbers \in Seq(D)
    <3> DEFINE n == Len(ops)
    <3>1. D = 1..n /\ n \in Nat
      BY <1>2, PlanFacts
    <3>2. numbers \in [1..n -> D]
      BY <3>1
    <3> HIDE DEF n, D, numbers
    <3> QED
      BY <3>1, <3>2
  <2>2. Range(KeepIn(numbers, merged)) \subseteq merged
    <3> HIDE DEF numbers, merged, D
    <3> QED
      BY <2>1, KeepInFacts
  <2>3. Range(<< >>) = {}
    BY DEF Range
  <2>4. pass = "flatten" => next \in {KeepIn(numbers, merged), << >>}
    <3> HIDE DEF pass, roots
    <3> QED
      BY DEF Visits
  <2>5. \A i \in merged : ops[i].kind \in {"select", "project"} /\ i \in needed
    BY DEF OfKind
  <2> HIDE DEF next, numbers, pass, needed, merged
  <2> QED
    BY <2>2, <2>3, <2>4, <2>5
<1>7. pc' = pass /\ work' = next /\ ops' = ops /\ current' = current
  BY <1>1
<1> HIDE DEF pass, next
<1>8. Mergeable'
  BY <1>5, <1>6, <1>7 DEF Mergeable
<1> QED
  BY <1>3, <1>8 DEF MergeInv

LEMMA EliminateJoinMerges == PlanInv /\ MergeInv /\ EliminateJoin => MergeInv'
<1> SUFFICES ASSUME PlanInv, MergeInv, EliminateJoin PROVE Mergeable'
  BY DEF MergeInv, EliminateJoin, Visiting
<1> DEFINE j == Head(work)
           edge == FirstSource(ops, {"rel"})[j]
           D == DOMAIN ops
           N == Upstream(ops)[current]
<1>1. /\ pc = "eliminate" /\ work # << >> /\ pc' = pc /\ current' = current
  BY DEF EliminateJoin, Visiting
<1>2. Rewriting /\ WellFormed(ops) /\ ReadOnce(ops) /\ \A k \in N : Shaped(ops[k])
  BY <1>1 DEF PlanInv, MergeInv, Mergeable
<1>3. CASE ~ Eliminable(j)
  <2>1. ops' = ops
    BY <1>3 DEF EliminateJoin
  <2> QED
    BY <1>1, <1>2, <2>1 DEF Mergeable
<1>4. CASE Eliminable(j)
  <2> DEFINE new == Redirect(ops, j, edge)
  <2>1. ops' = new
    BY <1>4 DEF EliminateJoin
  <2>2. j \in D
    BY <1>1, WorkFacts
  <2>3. ops[j].kind = "join" /\ edge # 0
    BY <1>4 DEF Eliminable
  <2> HIDE DEF j
  <2>4. edge \in Upstream(ops)[j] /\ ops[edge].kind = "source"
    BY <1>2, <2>2, <2>3, FirstSourceFacts
  <2> HIDE DEF edge
  <2>5. edge \in D /\ edge < j /\ edge # j
    <3>1. edge \in D /\ edge <= j
      BY <1>2, <2>2, <2>4, UpstreamIsOlder
    <3>2. edge # j
      BY <2>3, <2>4
    <3>3. edge \in Nat /\ j \in Nat
      BY <1>2, <2>2, <3>1, PlanFacts
    <3> QED
      BY <3>1, <3>2, <3>3
  <2>6. Redirected(ops, new, j, edge)
    BY <1>2, <2>2, <2>5, RedirectFacts
  <2>7. current \in D /\ current # j /\ Agree(ops, N)
    BY <1>2, <2>3 DEF Rewriting
  <2>8. j \in N => edge \in N
    <3>1. Closed(ops, N)
      BY <1>2, <2>7, UpstreamFacts
    <3>2. j \in N => Upstream(ops)[j] \subseteq N
      BY <1>2, <2>2, <3>1, UpstreamFacts
    <3> QED
      BY <2>4, <3>2
  <2>9. N \subseteq D
    BY <1>2, <2>7, UpstreamFacts DEF Closed
  <2>10. \A k \in D \ {j} : SameShape(new[k], ops[k])
    BY <1>2, <2>5, RedirectShape
  <2> HIDE DEF new
  <2>11. Upstream(new)[current] \subseteq N \ {j}
    BY <1>2, <2>2, <2>5, <2>6, <2>7, <2>8, RedirectKeepsAgreement
  <2>12. ReadOnce(new)
    BY <1>2, <2>2, <2>4, <2>5, <2>6, RedirectReadsOnce
  <2> HIDE DEF N
  <2>13. \A k \in Upstream(new)[current] : Shaped(new[k])
    <3> TAKE k \in Upstream(new)[current]
    <3>1. k \in D \ {j} /\ Shaped(ops[k])
      BY <1>2, <2>9, <2>11
    <3>2. SameShape(new[k], ops[k])
      BY <2>10, <3>1
    <3> QED
      BY <3>1, <3>2, ShapeKept
  <2> QED
    BY <1>1, <2>1, <2>12, <2>13 DEF Mergeable
<1> QED
  BY <1>3, <1>4

(* A selection bypassed, of a plan whose filters alone have changed.       *)
LEMMA BypassMerges ==
  ASSUME NEW plan, WellFormed(plan), ReadOnce(plan), NEW same, SameGraph(plan, same),
         \A k \in DOMAIN plan : SameOutput(same[k], plan[k]),
         NEW c \in DOMAIN plan, plan[c].kind = "project", Agree(plan, Upstream(plan)[c]),
         \A k \in Upstream(plan)[c] : Shaped(plan[k]),
         NEW s \in DOMAIN plan, plan[s].kind = "select",
         NEW new, new = Bypass(same, s)
  PROVE  ReadOnce(new) /\ \A k \in Upstream(new)[c] : Shaped(new[k])
<1> DEFINE N == Upstream(plan)[c]
           N1 == Upstream(new)[c]
<1>1. WellFormed(same) /\ ReadOnce(same) /\ WellFormed(new)
  <2>1. WellFormed(same) /\ ReadOnce(same)
    BY SameGraphFacts, SameGraphReadsOnce
  <2>2. Rewrites(plan, Bypass(same, s), c)
    BY BypassRewrites
  <2> QED
    BY <2>1, <2>2 DEF Rewrites
<1>2. /\ DOMAIN same = DOMAIN plan
      /\ \A k \in DOMAIN plan : /\ same[k].kind = plan[k].kind /\ same[k].ins = plan[k].ins
                                /\ same[k].part = plan[k].part
  BY DEF SameGraph, SameOutput
<1>3. ReadOnce(new)
  <2>1. s \in DOMAIN same /\ same[s].kind = "select"
    BY <1>2
  <2> QED
    BY <1>1, <2>1, BypassReadsOnce
<1>4. /\ N1 \ {s} = N \ {s} /\ (plan[s].ins # << >> => s \notin N1)
  BY BypassHolders
<1>5. N \subseteq DOMAIN plan
  BY UpstreamFacts DEF Closed
<1>6. \A k \in N : Shaped(same[k])
  BY <1>2, <1>5 DEF Shaped
<1>7. CASE plan[s].ins = << >>
  <2>1. new = same
    BY <1>2, <1>7 DEF Bypass
  <2>2. N1 = N
    BY <2>1, SameGraphFacts
  <2> QED
    BY <1>3, <1>6, <2>1, <2>2
<1>8. CASE plan[s].ins # << >>
  <2> SUFFICES ASSUME NEW k \in N1 PROVE Shaped(new[k])
    BY <1>3
  <2>1. k \in N /\ k # s /\ k \in DOMAIN same
    BY <1>2, <1>4, <1>5, <1>8
  <2>2. SameShape(new[k], same[k])
    <3>1. s \in DOMAIN same /\ same[s].kind = "select" /\ same[s].ins # << >>
      BY <1>2, <1>8
    <3> QED
      BY <1>1, <2>1, <3>1, BypassShape
  <2> QED
    BY <1>6, <2>1, <2>2, ShapeKept
<1> QED
  BY <1>7, <1>8

LEMMA PushSelectionMerges == PlanInv /\ MergeInv /\ PushSelection => MergeInv'
<1> SUFFICES ASSUME PlanInv, MergeInv, PushSelection PROVE Mergeable'
  BY DEF MergeInv, PushSelection, Visiting
<1> DEFINE s == Head(work)
           pushed == {p \in ops[s].filter : Pushable(p, s)}
           D == DOMAIN ops
           N == Upstream(ops)[current]
           new == ops'
<1>1. pc = "push" /\ work # << >> /\ pc' = pc /\ current' = current
  BY DEF PushSelection, Visiting
<1>2. Rewriting /\ WellFormed(ops) /\ ReadOnce(ops) /\ \A k \in N : Shaped(ops[k])
  BY <1>1 DEF PlanInv, MergeInv, Mergeable
<1>3. s \in D /\ ops[s].kind = "select"
  BY PushSelectionFacts
<1>4. PICK plan : /\ SameGraph(ops, plan) /\ \A i \in D : SameOutput(plan[i], ops[i])
                  /\ ops' = IF ops[s].filter \ pushed = {} THEN Bypass(plan, s) ELSE plan
  BY PushSelectionFacts
<1> HIDE DEF s, pushed
<1>5. current \in D /\ ops[current].kind = "project" /\ Agree(ops, N)
  BY <1>2 DEF Rewriting
<1>6. new = Bypass(plan, s) \/ new = plan
  BY <1>4
<1> HIDE DEF new
<1>7. ReadOnce(new) /\ \A k \in Upstream(new)[current] : Shaped(new[k])
  <2>1. CASE new = Bypass(plan, s)
    BY <1>2, <1>3, <1>4, <1>5, <2>1, BypassMerges
  <2>2. CASE new = plan
    <3>1. ReadOnce(plan) /\ Upstream(plan)[current] = N
      BY <1>2, <1>4, <1>5, SameGraphFacts, SameGraphReadsOnce
    <3>2. N \subseteq D
      BY <1>2, <1>5, UpstreamFacts DEF Closed
    <3>3. \A k \in D : plan[k].kind = ops[k].kind /\ plan[k].ins = ops[k].ins /\ plan[k].part = ops[k].part
      BY <1>4 DEF SameGraph, SameOutput
    <3> HIDE DEF N
    <3>4. \A k \in N : Shaped(plan[k])
      BY <1>2, <3>2, <3>3 DEF Shaped
    <3> QED
      BY <2>2, <3>1, <3>4
  <2> QED
    BY <1>6, <2>1, <2>2
<1> QED
  BY <1>1, <1>7 DEF Mergeable, new

(* What a merge does to what the terminal needs.                           *)
LEMMA MergeStep ==
  ASSUME PlanInv, MergeInv, Flatten, ops' # ops
  PROVE  LET i == Head(work)
             below == Left(ops, i)
             N == Upstream(ops)[current]
         IN  /\ current \in N \ {below} /\ N \ {below} = Upstream(ops')[current]
             /\ MergedInto(ops, ops', N, below, i)
             /\ ReadOnce(ops') /\ \A k \in Upstream(ops')[current] : Shaped(ops'[k])
             /\ \A k \in DOMAIN ops : /\ ops'[k].kind = ops[k].kind
                                      /\ Range(ops[k].ins) = {} => Range(ops'[k].ins) = {}
             /\ Range(ops'[below].ins) = {}
<1> DEFINE i == Head(work)
           below == Left(ops, i)
           D == DOMAIN ops
           N == Upstream(ops)[current]
           new == ops'
<1>1. pc = "flatten" /\ work # << >> /\ current' = current
  BY DEF Flatten, Visiting
<1>2. /\ Rewriting /\ WellFormed(ops) /\ ReadOnce(ops) /\ \A k \in N : Shaped(ops[k])
      /\ \A k \in Range(work) : /\ ops[k].kind \in {"select", "project"}
                                /\ k \in N \/ Range(ops[k].ins) = {}
  BY <1>1 DEF PlanInv, MergeInv, Mergeable
<1>3. i \in Range(work)
  BY <1>1, WorkFacts
<1>4. /\ below \in D /\ below \in Range(ops[i].ins) /\ i \in D
      /\ ops[below].kind = "select" /\ ops[below].ins # << >>
  BY MergeFacts
<1>5. PICK plan :
        /\ SameGraph(ops, plan) /\ \A k \in D : SameOutput(plan[k], ops[k])
        /\ plan[i].filter = ops[i].filter \cup ops[below].filter
        /\ \A k \in D \ {i} : plan[k].filter = ops[k].filter
        /\ new = Bypass(plan, below)
  BY MergeFacts
<1>6. WellFormed(new)
  BY FlattenKeeps DEF PlanInv
<1>7. below = ops[i].ins[1]
  BY DEF Left
<1> HIDE DEF i, below, new
<1>8. current \in D /\ ops[current].kind = "project" /\ Agree(ops, N)
  BY <1>2 DEF Rewriting
<1>9. /\ i \in N /\ ops[i].kind \in {"select", "project"} /\ i # below
      /\ below \in N /\ N \subseteq D /\ Closed(ops, N) /\ current \in N \ {below}
  <2>1. i \in N /\ ops[i].kind \in {"select", "project"}
    BY <1>2, <1>3, <1>4
  <2>2. Closed(ops, N) /\ current \in N
    BY <1>2, <1>8, UpstreamFacts
  <2>3. i # below
    BY <1>2, <1>4, PlanFacts
  <2> HIDE DEF N
  <2>4. N \subseteq D /\ below \in N
    BY <1>4, <2>1, <2>2 DEF Closed
  <2> QED
    BY <1>4, <1>8, <2>1, <2>2, <2>3, <2>4
<1>10. /\ DOMAIN new = D /\ Upstream(new)[current] \ {below} = N \ {below}
       /\ below \notin Upstream(new)[current]
       /\ \A k \in D : k = below \/ ops[k].ins = << >> => Range(new[k].ins) = {}
  <2>1. DOMAIN new = D
    BY <1>2, <1>4, <1>5, <1>8, BypassHolders
  <2>2. Upstream(new)[current] \ {below} = N \ {below} /\ below \notin Upstream(new)[current]
    BY <1>2, <1>4, <1>5, <1>8, BypassHolders
  <2>3. \A k \in D : k = below \/ ops[k].ins = << >> => Range(new[k].ins) = {}
    BY <1>2, <1>4, <1>5, <1>8, BypassHolders
  <2> HIDE DEF N
  <2> QED
    BY <2>1, <2>2, <2>3
<1>11. N \ {below} = Upstream(new)[current]
  BY <1>10
<1>12. ReadOnce(new) /\ \A k \in Upstream(new)[current] : Shaped(new[k])
  BY <1>2, <1>4, <1>5, <1>8, BypassMerges
<1>13. Closed(new, N \ {below})
  BY <1>6, <1>8, <1>10, <1>11, UpstreamFacts
<1> HIDE DEF N
<1> DEFINE b0 == Left(ops, below)
<1>14. /\ WellFormed(plan) /\ DOMAIN plan = D
       /\ \A k \in D : plan[k].kind = ops[k].kind /\ plan[k].ins = ops[k].ins /\ plan[k].outs = ops[k].outs
       /\ Left(plan, below) = b0
  <2>1. WellFormed(plan)
    BY <1>2, <1>5, SameGraphFacts
  <2> QED
    BY <1>4, <1>5, <2>1 DEF SameGraph, Left
<1>15. ASSUME NEW k \in D \ {below}
       PROVE  /\ SameShape(new[k], plan[k]) /\ b0 \in Range(ops[below].ins)
              /\ new[k].ins = IF k # b0 /\ k \in Range(ops[below].outs)
                                THEN Replaced(ops[k].ins, below, b0) ELSE ops[k].ins
  <2>1. /\ below \in DOMAIN plan /\ plan[below].kind = "select" /\ plan[below].ins # << >>
        /\ k \in DOMAIN plan /\ k # below
    BY <1>4, <1>14
  <2>2. /\ Left(plan, below) \in Range(plan[below].ins)
        /\ SameShape(new[k], plan[k])
        /\ new[k].ins = IF k # Left(plan, below) /\ k \in Range(plan[below].outs)
                          THEN Replaced(plan[k].ins, below, Left(plan, below)) ELSE plan[k].ins
    BY <1>5, <1>14, <2>1, BypassShape
  <2> HIDE DEF b0
  <2> QED
    BY <1>4, <1>14, <2>2
<1>16. \A k \in N : below \in Range(ops[k].ins) <=> k \in Range(ops[below].outs)
  BY <1>4, <1>8 DEF Agree, N
<1>17. new[i].ins = ops[below].ins
  <2>1. i \in D \ {below} /\ b0 \in Range(ops[below].ins) /\ i \in Range(ops[below].outs)
    BY <1>4, <1>9, <1>15, <1>16
  <2>2. i # b0
    <3>1. b0 < below /\ below < i /\ b0 \in D
      BY <1>2, <1>4, <2>1, PlanFacts
    <3>2. b0 \in Nat /\ below \in Nat /\ i \in Nat
      BY <1>2, <1>4, <3>1, PlanFacts
    <3> HIDE DEF b0
    <3> QED
      BY <3>1, <3>2
  <2>3. new[i].ins = Replaced(ops[i].ins, below, b0)
    BY <1>15, <2>1, <2>2
  <2>4. DOMAIN ops[i].ins = {1} /\ DOMAIN ops[below].ins = {1}
    <3>1. Shaped(ops[i]) /\ Shaped(ops[below])
      BY <1>2, <1>9 DEF N
    <3> QED
      BY <1>4, <1>9, <3>1 DEF Shaped
  <2>5. new[i].ins = [n \in {1} |-> b0]
    <3>1. new[i].ins = [n \in {1} |-> IF ops[i].ins[n] = below THEN b0 ELSE ops[i].ins[n]]
      BY <2>3, <2>4 DEF Replaced
    <3> HIDE DEF b0
    <3> QED
      BY <1>7, <3>1
  <2>6. ops[below].ins = [n \in {1} |-> b0]
    <3> DEFINE ins == ops[below].ins
    <3>1. ins \in Seq(D) /\ DOMAIN ins = {1} /\ b0 = ins[1]
      BY <1>2, <1>4, <2>4 DEF WellFormed, IsNode, Left
    <3> HIDE DEF ins, b0, D
    <3>2. ins = [n \in DOMAIN ins |-> ins[n]]
      BY <3>1
    <3>3. ins = [n \in {1} |-> b0]
      BY <3>1, <3>2
    <3> QED
      BY <3>3 DEF ins
  <2> QED
    BY <2>5, <2>6
<1> HIDE DEF b0
<1>18. \A k \in N \ {below, i} : below \notin Range(ops[k].ins) /\ new[k].ins = ops[k].ins
  <2> TAKE k \in N \ {below, i}
  <2>1. k \in D /\ k # i /\ k \in D \ {below}
    BY <1>9
  <2>2. below \notin Range(ops[k].ins)
    BY <1>2, <1>4, <2>1 DEF ReadOnce
  <2>3. k \notin Range(ops[below].outs)
    BY <1>16, <2>2
  <2> QED
    BY <1>15, <2>1, <2>2, <2>3
<1>19. \A k \in D \ {below} : SameOutput(new[k], ops[k]) /\ new[k].filter = plan[k].filter
  <2> TAKE k \in D \ {below}
  <2>1. SameShape(new[k], plan[k]) /\ SameOutput(plan[k], ops[k])
    BY <1>5, <1>15
  <2> QED
    BY <2>1 DEF SameShape, SameOutput
<1>20. MergedInto(ops, new, N, below, i)
  <2>1. \A k \in N : Shaped(ops[k])
    BY <1>2 DEF N
  <2>2. \A k \in N \ {below} : k \in D \ {below}
    BY <1>9
  <2>3. new[i].filter = ops[i].filter \cup ops[below].filter
    BY <1>5, <1>9, <1>19, <2>2
  <2>4. \A k \in N \ {below, i} : new[k].filter = ops[k].filter
    BY <1>5, <1>19, <2>2
  <2>5. i \in N \ {below}
    BY <1>9
  <2> HIDE DEF D
  <2> QED
    BY <1>2, <1>4, <1>6, <1>7, <1>9, <1>13, <1>17, <1>18, <1>19, <2>1, <2>2, <2>3, <2>4, <2>5
       DEF MergedInto
<1>21. \A k \in D : /\ new[k].kind = ops[k].kind
                    /\ Range(ops[k].ins) = {} => Range(new[k].ins) = {}
  <2>1. Rewrites(ops, Bypass(plan, below), current)
    BY <1>2, <1>4, <1>5, <1>8, BypassRewrites DEF N
  <2> TAKE k \in D
  <2>2. new[k].kind = ops[k].kind
    BY <1>5, <2>1 DEF Rewrites
  <2>3. Range(ops[k].ins) = {} => ops[k].ins = << >>
    <3> DEFINE ins == ops[k].ins
    <3>1. ins \in Seq(D)
      BY <1>2 DEF WellFormed, IsNode
    <3> HIDE DEF ins, D
    <3>2. ins # << >> => ins[1] \in Range(ins)
      <4>1. ins # << >> => 1 \in DOMAIN ins
        BY <3>1
      <4> QED
        BY <4>1 DEF Range
    <3> QED
      BY <3>2 DEF ins
  <2> QED
    BY <1>10, <2>2, <2>3
<1>22. Range(new[below].ins) = {}
  BY <1>4, <1>10
<1> HIDE DEF D
<1> QED
  BY <1>1, <1>9, <1>11, <1>12, <1>20, <1>21, <1>22 DEF new, D, i, below, N

LEMMA FlattenMerges == PlanInv /\ MergeInv /\ Flatten => MergeInv'
<1> SUFFICES ASSUME PlanInv, MergeInv, Flatten PROVE Mergeable'
  BY DEF MergeInv, Flatten, Visiting
<1> DEFINE i == Head(work)
           below == Left(ops, i)
           N == Upstream(ops)[current]
           N1 == Upstream(ops')[current]
<1>1. pc = "flatten" /\ work # << >> /\ work' = Tail(work) /\ pc' = pc /\ current' = current
  BY DEF Flatten, Visiting
<1>2. Mergeable /\ Range(work') \subseteq Range(work) /\ Range(work) \subseteq DOMAIN ops
  BY <1>1, WorkFacts DEF MergeInv
<1>3. CASE ops' = ops
  BY <1>1, <1>2, <1>3 DEF Mergeable
<1>4. CASE ops' # ops
  <2>1. /\ N \ {below} = N1 /\ ReadOnce(ops') /\ \A k \in N1 : Shaped(ops'[k])
        /\ \A k \in DOMAIN ops : /\ ops'[k].kind = ops[k].kind
                                 /\ Range(ops[k].ins) = {} => Range(ops'[k].ins) = {}
        /\ Range(ops'[below].ins) = {}
    BY <1>4, MergeStep
  <2>2. \A k \in Range(work) : /\ ops[k].kind \in {"select", "project"}
                               /\ k \in N \/ Range(ops[k].ins) = {}
    BY <1>1, <1>2 DEF Mergeable
  <2>3. Upstream(ops')[current'] = N1
    BY <1>1
  <2> HIDE DEF N, N1, i, below
  <2>4. \A k \in Range(work') : /\ ops'[k].kind \in {"select", "project"}
                                /\ k \in N1 \/ Range(ops'[k].ins) = {}
    <3> TAKE k \in Range(work')
    <3>1. k \in Range(work) /\ k \in DOMAIN ops
      BY <1>2
    <3>2. ops'[k].kind = ops[k].kind /\ ops[k].kind \in {"select", "project"}
      BY <2>1, <2>2, <3>1
    <3>3. k \in N1 \/ Range(ops'[k].ins) = {}
      BY <2>1, <2>2, <3>1
    <3> QED
      BY <3>2, <3>3
  <2> QED
    BY <1>1, <2>1, <2>3, <2>4 DEF Mergeable
<1> QED
  BY <1>3, <1>4

LEMMA MergeInvNext == PlanInv /\ MergeInv /\ [Next]_vars => MergeInv'
<1> SUFFICES ASSUME PlanInv, MergeInv, [Next]_vars PROVE MergeInv'
  OBVIOUS
<1>1. CASE PlanClause
  BY <1>1, PlanClauseMerges
<1>2. CASE FinishPart
  BY <1>2, FinishPartMerges
<1>3. CASE NextPass
  BY <1>3, NextPassMerges
<1>4. CASE EliminateJoin
  BY <1>4, EliminateJoinMerges
<1>5. CASE PushSelection
  BY <1>5, PushSelectionMerges
<1>6. CASE Flatten
  BY <1>6, FlattenMerges
<1>7. CASE UNCHANGED vars
  BY <1>7 DEF vars, MergeInv, Stacked, Mergeable
<1> QED
  BY <1>1, <1>2, <1>3, <1>4, <1>5, <1>6, <1>7 DEF Next

LEMMA MergeInvAlways == Spec => [](PlanInv /\ MergeInv)
<1>1. PlanInv /\ MergeInv /\ [Next]_vars => PlanInv' /\ MergeInv'
  BY PlanInvNext, MergeInvNext
<1> QED
  BY <1>1, PlanInvInit, MergeInvInit, PTL DEF Spec

LEMMA StepKeepsMeaning ==
  PlanInv /\ MergeInv /\ [Next]_vars /\ pc = "flatten"
    => Meaning(ops, current)' = Meaning(ops, current)
<1> SUFFICES ASSUME PlanInv, MergeInv, [Next]_vars, pc = "flatten"
             PROVE  Meaning(ops', current') = Meaning(ops, current)
  OBVIOUS
<1>1. CASE Flatten /\ ops' # ops
  <2> DEFINE N == Upstream(ops)[current]
             i == Head(work)
             below == Left(ops, i)
             new == ops'
  <2>1. current' = current
    BY <1>1 DEF Flatten, Visiting
  <2>2. /\ current \in N \ {below} /\ N \ {below} = Upstream(ops')[current]
        /\ MergedInto(ops, ops', N, below, i)
    BY <1>1, MergeStep
  <2>3. /\ current \in N \ {below} /\ N \ {below} = Upstream(new)[current]
        /\ MergedInto(ops, new, N, below, i) /\ N = Upstream(ops)[current]
    BY <2>2
  <2> HIDE DEF N, i, below, new
  <2>4. Meaning(new, current) = Meaning(ops, current)
    BY <2>3, MergedMeaning
  <2> QED
    BY <2>1, <2>4 DEF new
<1>2. CASE (Flatten /\ ops' = ops) \/ NextPass \/ UNCHANGED vars
  <2>1. ops' = ops /\ current' = current
    BY <1>2 DEF Flatten, NextPass, Visiting, vars
  <2> QED
    BY <2>1
<1>3. ~ PlanClause /\ ~ FinishPart /\ ~ EliminateJoin /\ ~ PushSelection
  BY DEF PlanClause, FinishPart, EliminateJoin, PushSelection, Visiting
<1> QED
  BY <1>1, <1>2, <1>3 DEF Next

(* Subquery flattening never changes what the generated query means: the   *)
(* SQL rendered after each of its steps runs if the one before ran, and    *)
(* returns the same bag of rows, for every query, every graph and          *)
(* whichever passes ran before it.                                         *)
THEOREM FlatteningKeepsMeaning ==
  Spec => [][pc = "flatten" => Meaning(ops, current)' = Meaning(ops, current)]_vars
<1>1. PlanInv /\ MergeInv /\ [Next]_vars
      => [pc = "flatten" => Meaning(ops, current)' = Meaning(ops, current)]_vars
  BY StepKeepsMeaning
<1> QED
  BY <1>1, MergeInvAlways, PTL DEF Spec
=============================================================================
