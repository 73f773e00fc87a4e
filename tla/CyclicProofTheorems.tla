-------------------------- MODULE CyclicProofTheorems --------------------------
(***************************************************************************)
(* Proofs about the global trace condition, for graphs of every size.      *)
(* The recursion of Walks computes the least set of walks that holds the   *)
(* edges and can be followed by any edge; from then on walks are handled   *)
(* through that description alone.                                         *)
(***************************************************************************)
EXTENDS CyclicProof, WellFoundedInduction, TLAPS

USE Zenon

-----------------------------------------------------------------------------
(* Labels *)

\* A composition relates a to c when the first operand relates a to some b that
\* the second relates to c.
LEMMA ComposePairs ==
  ASSUME NEW t1 \in SUBSET TagPair, NEW t2 \in SUBSET TagPair
  PROVE  /\ compose(t1, t2) \in SUBSET TagPair
         /\ \A a, c : <<a, c>> \in compose(t1, t2)
                        <=> \E b \in Int : <<a, b>> \in t1 /\ <<b, c>> \in t2
<1>1. \A x : x \in compose(t1, t2)
               <=> \E p \in t1, q \in t2 : p[2] = q[1] /\ x = <<p[1], q[2]>>
  <2>1. ASSUME NEW x \in compose(t1, t2)
        PROVE  \E p \in t1, q \in t2 : p[2] = q[1] /\ x = <<p[1], q[2]>>
    BY DEF compose
  <2>2. ASSUME NEW p \in t1, NEW q \in t2, p[2] = q[1]
        PROVE  <<p[1], q[2]>> \in compose(t1, t2)
    <3>1. <<p, q>> \in {xs \in t1 \X t2 : xs[1][2] = xs[2][1]}
      BY <2>2
    <3> QED
      BY <3>1, SMT DEF compose
  <2> QED
    BY <2>1, <2>2
<1>2. compose(t1, t2) \in SUBSET TagPair
  BY <1>1, SMT DEF TagPair
<1>3. ASSUME NEW a, NEW c, <<a, c>> \in compose(t1, t2)
      PROVE  \E b \in Int : <<a, b>> \in t1 /\ <<b, c>> \in t2
  BY <1>1, <1>3, SMTT(30) DEF TagPair
<1>4. ASSUME NEW a, NEW c, NEW b \in Int, <<a, b>> \in t1, <<b, c>> \in t2
      PROVE  <<a, c>> \in compose(t1, t2)
  BY <1>1, <1>4 DEF TagPair
<1> QED
  BY <1>2, <1>3, <1>4

LEMMA LabelFields ==
  ASSUME NEW a \in Label
  PROVE  a.tv \in SUBSET TagPair /\ a.tp \in SUBSET TagPair /\ a = [tv |-> a.tv, tp |-> a.tp]
BY DEF Label

\* The pairs of the label of two adjacent edges.
LEMMA FusePairs ==
  ASSUME NEW a \in Label, NEW b \in Label
  PROVE  /\ FuseLabels(a, b) \in Label
         /\ \A x, z : <<x, z>> \in FuseLabels(a, b).tv
                        <=> \E y \in Int : <<x, y>> \in a.tv /\ <<y, z>> \in b.tv
         /\ \A x, z : <<x, z>> \in FuseLabels(a, b).tp
                        <=> \E y \in Int :
                              \/ <<x, y>> \in a.tp /\ <<y, z>> \in b.tp
                              \/ <<x, y>> \in a.tv /\ <<y, z>> \in b.tp
                              \/ <<x, y>> \in a.tp /\ <<y, z>> \in b.tv
<1>1. /\ FuseLabels(a, b).tv = compose(a.tv, b.tv)
      /\ FuseLabels(a, b).tp
           = compose(a.tp, b.tp) \cup compose(a.tv, b.tp) \cup compose(a.tp, b.tv)
      /\ FuseLabels(a, b) = [tv |-> FuseLabels(a, b).tv, tp |-> FuseLabels(a, b).tp]
  BY DEF FuseLabels
<1>2. /\ a.tv \in SUBSET TagPair /\ a.tp \in SUBSET TagPair
      /\ b.tv \in SUBSET TagPair /\ b.tp \in SUBSET TagPair
  BY LabelFields
<1>3. /\ compose(a.tv, b.tv) \in SUBSET TagPair
      /\ \A x, z : <<x, z>> \in compose(a.tv, b.tv)
                     <=> \E y \in Int : <<x, y>> \in a.tv /\ <<y, z>> \in b.tv
  BY <1>2, ComposePairs
<1>4. /\ compose(a.tp, b.tp) \in SUBSET TagPair
      /\ \A x, z : <<x, z>> \in compose(a.tp, b.tp)
                     <=> \E y \in Int : <<x, y>> \in a.tp /\ <<y, z>> \in b.tp
  BY <1>2, ComposePairs
<1>5. /\ compose(a.tv, b.tp) \in SUBSET TagPair
      /\ \A x, z : <<x, z>> \in compose(a.tv, b.tp)
                     <=> \E y \in Int : <<x, y>> \in a.tv /\ <<y, z>> \in b.tp
  BY <1>2, ComposePairs
<1>6. /\ compose(a.tp, b.tv) \in SUBSET TagPair
      /\ \A x, z : <<x, z>> \in compose(a.tp, b.tv)
                     <=> \E y \in Int : <<x, y>> \in a.tp /\ <<y, z>> \in b.tv
  BY <1>2, ComposePairs
<1>7. FuseLabels(a, b) \in Label
  BY <1>1, <1>3, <1>4, <1>5, <1>6 DEF Label
<1>8. ASSUME NEW x, NEW z
      PROVE  <<x, z>> \in FuseLabels(a, b).tp
               <=> \E y \in Int :
                     \/ <<x, y>> \in a.tp /\ <<y, z>> \in b.tp
                     \/ <<x, y>> \in a.tv /\ <<y, z>> \in b.tp
                     \/ <<x, y>> \in a.tp /\ <<y, z>> \in b.tv
  <2>1. <<x, z>> \in FuseLabels(a, b).tp
          <=> \/ <<x, z>> \in compose(a.tp, b.tp)
              \/ <<x, z>> \in compose(a.tv, b.tp)
              \/ <<x, z>> \in compose(a.tp, b.tv)
    BY <1>1
  <2> QED
    BY <2>1, <1>4, <1>5, <1>6
<1> QED
  BY <1>1, <1>3, <1>7, <1>8

\* Two labels with the same pairs are equal.
LEMMA PairSetsEqual ==
  ASSUME NEW s \in SUBSET (Int \X Int), NEW t \in SUBSET (Int \X Int),
         \A x, z \in Int : <<x, z>> \in s <=> <<x, z>> \in t
  PROVE  s = t
BY SMT

LEMMA LabelsEqual ==
  ASSUME NEW a \in Label, NEW b \in Label,
         \A x, z \in Int : <<x, z>> \in a.tv <=> <<x, z>> \in b.tv,
         \A x, z \in Int : <<x, z>> \in a.tp <=> <<x, z>> \in b.tp
  PROVE  a = b
<1>1. /\ a.tv \in SUBSET (Int \X Int) /\ b.tv \in SUBSET (Int \X Int)
      /\ a.tp \in SUBSET (Int \X Int) /\ b.tp \in SUBSET (Int \X Int)
  BY LabelFields DEF TagPair
<1>2. a.tv = b.tv
  BY <1>1, PairSetsEqual
<1>3. a.tp = b.tp
  BY <1>1, PairSetsEqual
<1> QED
  BY <1>2, <1>3, LabelFields

\* The label of a path does not depend on how the path is cut into pieces.
LEMMA FuseAssociative ==
  ASSUME NEW a \in Label, NEW b \in Label, NEW c \in Label
  PROVE  FuseLabels(FuseLabels(a, b), c) = FuseLabels(a, FuseLabels(b, c))
<1> DEFINE ab == FuseLabels(a, b)
           bc == FuseLabels(b, c)
<1>1. ab \in Label /\ bc \in Label
  BY FusePairs
<1>2. FuseLabels(ab, c) \in Label /\ FuseLabels(a, bc) \in Label
  BY <1>1, FusePairs
<1>3. ASSUME NEW x \in Int, NEW z \in Int
      PROVE  <<x, z>> \in FuseLabels(ab, c).tv <=> <<x, z>> \in FuseLabels(a, bc).tv
  <2>1. <<x, z>> \in FuseLabels(ab, c).tv
          <=> \E v \in Int : <<x, v>> \in ab.tv /\ <<v, z>> \in c.tv
    BY <1>1, FusePairs
  <2>2. <<x, z>> \in FuseLabels(a, bc).tv
          <=> \E u \in Int : <<x, u>> \in a.tv /\ <<u, z>> \in bc.tv
    BY <1>1, FusePairs
  <2>3. \A v : <<x, v>> \in ab.tv <=> \E u \in Int : <<x, u>> \in a.tv /\ <<u, v>> \in b.tv
    BY FusePairs
  <2>4. \A u : <<u, z>> \in bc.tv <=> \E v \in Int : <<u, v>> \in b.tv /\ <<v, z>> \in c.tv
    BY FusePairs
  <2> QED
    BY <2>1, <2>2, <2>3, <2>4
<1>4. ASSUME NEW x \in Int, NEW z \in Int
      PROVE  <<x, z>> \in FuseLabels(ab, c).tp <=> <<x, z>> \in FuseLabels(a, bc).tp
  <2>1. <<x, z>> \in FuseLabels(ab, c).tp
          <=> \E v \in Int : \/ <<x, v>> \in ab.tp /\ <<v, z>> \in c.tp
                             \/ <<x, v>> \in ab.tv /\ <<v, z>> \in c.tp
                             \/ <<x, v>> \in ab.tp /\ <<v, z>> \in c.tv
    BY <1>1, FusePairs
  <2>2. <<x, z>> \in FuseLabels(a, bc).tp
          <=> \E u \in Int : \/ <<x, u>> \in a.tp /\ <<u, z>> \in bc.tp
                             \/ <<x, u>> \in a.tv /\ <<u, z>> \in bc.tp
                             \/ <<x, u>> \in a.tp /\ <<u, z>> \in bc.tv
    BY <1>1, FusePairs
  <2>3. \A v : <<x, v>> \in ab.tv <=> \E u \in Int : <<x, u>> \in a.tv /\ <<u, v>> \in b.tv
    BY FusePairs
  <2>4. \A u : <<u, z>> \in bc.tv <=> \E v \in Int : <<u, v>> \in b.tv /\ <<v, z>> \in c.tv
    BY FusePairs
  <2>5. \A v : <<x, v>> \in ab.tp
                 <=> \E u \in Int : \/ <<x, u>> \in a.tp /\ <<u, v>> \in b.tp
                                    \/ <<x, u>> \in a.tv /\ <<u, v>> \in b.tp
                                    \/ <<x, u>> \in a.tp /\ <<u, v>> \in b.tv
    BY FusePairs
  <2>6. \A u : <<u, z>> \in bc.tp
                 <=> \E v \in Int : \/ <<u, v>> \in b.tp /\ <<v, z>> \in c.tp
                                    \/ <<u, v>> \in b.tv /\ <<v, z>> \in c.tp
                                    \/ <<u, v>> \in b.tp /\ <<v, z>> \in c.tv
    BY FusePairs
  <2>7. ASSUME <<x, z>> \in FuseLabels(ab, c).tp PROVE <<x, z>> \in FuseLabels(a, bc).tp
    <3>1. PICK v \in Int : \/ <<x, v>> \in ab.tp /\ <<v, z>> \in c.tp
                           \/ <<x, v>> \in ab.tv /\ <<v, z>> \in c.tp
                           \/ <<x, v>> \in ab.tp /\ <<v, z>> \in c.tv
      BY <2>1, <2>7
    <3> QED
      BY <3>1, <2>2, <2>3, <2>4, <2>5, <2>6
  <2>8. ASSUME <<x, z>> \in FuseLabels(a, bc).tp PROVE <<x, z>> \in FuseLabels(ab, c).tp
    <3>1. PICK u \in Int : \/ <<x, u>> \in a.tp /\ <<u, z>> \in bc.tp
                           \/ <<x, u>> \in a.tv /\ <<u, z>> \in bc.tp
                           \/ <<x, u>> \in a.tp /\ <<u, z>> \in bc.tv
      BY <2>2, <2>8
    <3> QED
      BY <3>1, <2>1, <2>3, <2>4, <2>5, <2>6
  <2> QED
    BY <2>7, <2>8
<1> QED
  BY <1>2, <1>3, <1>4, LabelsEqual

-----------------------------------------------------------------------------
(* Finite sets *)

\* A non-empty set of natural numbers has a least element.
LEMMA LeastNatural ==
  ASSUME NEW S, S \subseteq Nat, S # {}
  PROVE  \E x \in S : \A y \in S : x =< y
<1> DEFINE Less == {ss \in Nat \X Nat : ss[1] < ss[2]}
<1>1. IsWellFoundedOn(Less, Nat)
  <2>1. OpToRel(<, Nat) = Less
    BY DEF OpToRel
  <2> QED
    BY <2>1, NatLessThanWellFounded
<1>2. PICK x \in S : \A y \in S : ~(<<y, x>> \in Less)
  <2> HIDE DEF Less
  <2> QED
    BY <1>1, WFMin
<1>3. ASSUME NEW y \in S PROVE x =< y
  <2>1. ~(<<y, x>> \in Less)
    BY <1>2
  <2> QED
    BY <2>1, SMT
<1> QED
  BY <1>3

\* Finite sets by the induction that defines them: a property of sets that the
\* empty set has, and that is kept when an element is added, holds of them.
Grows(F, S) == {} \in F /\ \A A \in F : \A x \in S : A \cup {x} \in F

Finite(S) == \A F \in SUBSET (SUBSET S) : Grows(F, S) => S \in F

LEMMA FiniteSubset ==
  ASSUME NEW S, Finite(S), NEW T, T \subseteq S
  PROVE  Finite(T)
<1> SUFFICES ASSUME NEW G \in SUBSET (SUBSET T), Grows(G, T) PROVE T \in G
  BY DEF Finite
<1> DEFINE F == {A \in SUBSET S : A \cap T \in G}
<1>1. {} \in F
  <2>1. {} \cap T = {}
    OBVIOUS
  <2> QED
    BY <2>1 DEF Grows
<1>2. ASSUME NEW A \in F, NEW x \in S PROVE A \cup {x} \in F
  <2>1. CASE x \in T
    <3>1. (A \cup {x}) \cap T = (A \cap T) \cup {x}
      BY <2>1
    <3>2. (A \cap T) \cup {x} \in G
      BY <2>1 DEF Grows
    <3> QED
      BY <3>1, <3>2
  <2>2. CASE x \notin T
    <3>1. (A \cup {x}) \cap T = A \cap T
      BY <2>2, SMT
    <3> QED
      BY <3>1
  <2> QED
    BY <2>1, <2>2
<1>3. S \in F
  BY <1>1, <1>2 DEF Finite, Grows
<1>4. S \cap T = T
  OBVIOUS
<1> QED
  BY <1>3, <1>4

LEMMA FiniteUnion ==
  ASSUME NEW S, Finite(S), NEW T, Finite(T)
  PROVE  Finite(S \cup T)
<1> SUFFICES ASSUME NEW G \in SUBSET (SUBSET (S \cup T)), Grows(G, S \cup T) PROVE S \cup T \in G
  BY DEF Finite
<1> DEFINE F == {A \in SUBSET S : A \in G}
           H == {B \in SUBSET T : S \cup B \in G}
<1>1. Grows(F, S)
  BY DEF Grows
<1>2. S \in G
  BY <1>1 DEF Finite
<1>3. Grows(H, T)
  <2>1. S \cup {} = S
    OBVIOUS
  <2>2. ASSUME NEW B \in H, NEW x \in T PROVE B \cup {x} \in H
    <3>1. S \cup (B \cup {x}) = (S \cup B) \cup {x}
      OBVIOUS
    <3>2. (S \cup B) \cup {x} \in G
      BY DEF Grows
    <3> QED
      BY <3>1, <3>2
  <2> QED
    BY <1>2, <2>1, <2>2 DEF Grows
<1> QED
  BY <1>3 DEF Finite

LEMMA FiniteSmall ==
  ASSUME NEW x
  PROVE  Finite({}) /\ Finite({x})
<1>1. Finite({})
  BY DEF Finite, Grows
<1>2. {} \cup {x} = {x}
  OBVIOUS
<1>3. Finite({x})
  BY <1>2 DEF Finite, Grows
<1> QED
  BY <1>1, <1>3

LEMMA FiniteImage ==
  ASSUME NEW S, Finite(S), NEW f
  PROVE  Finite({f[x] : x \in S})
<1> DEFINE img(A) == {f[x] : x \in A}
<1> SUFFICES ASSUME NEW G \in SUBSET (SUBSET img(S)), Grows(G, img(S)) PROVE img(S) \in G
  BY DEF Finite
<1> DEFINE F == {A \in SUBSET S : img(A) \in G}
<1>1. img({}) = {} /\ \A A, x : img(A \cup {x}) = img(A) \cup {f[x]}
  OBVIOUS
<1>2. \A x \in S : f[x] \in img(S)
  OBVIOUS
<1> HIDE DEF img
<1>3. Grows(F, S)
  <2>1. {} \in F
    BY <1>1 DEF Grows
  <2>2. ASSUME NEW A \in F, NEW x \in S PROVE A \cup {x} \in F
    <3>1. img(A) \cup {f[x]} \in G
      BY <1>2 DEF Grows
    <3> QED
      BY <1>1, <3>1
  <2> QED
    BY <2>1, <2>2 DEF Grows
<1> QED
  BY <1>3 DEF Finite

\* The sets that are finite by the definition of IsFiniteSet.
LEMMA FiniteInterval ==
  ASSUME NEW n \in Nat
  PROVE  Finite(1 .. n)
<1> DEFINE Wrong == {k \in Nat : ~Finite(1 .. k)}
<1>1. SUFFICES ASSUME Wrong # {} PROVE FALSE
  OBVIOUS
<1>2. PICK k \in Wrong : \A m \in Wrong : k =< m
  <2>1. Wrong \subseteq Nat
    OBVIOUS
  <2> HIDE DEF Wrong
  <2> QED
    BY <1>1, <2>1, LeastNatural
<1>3. k # 0
  <2>1. 1 .. 0 = {}
    BY SMT
  <2> QED
    BY <2>1, FiniteSmall
<1>4. k - 1 \in Nat /\ 1 .. k = (1 .. (k - 1)) \cup {k}
  BY <1>3, SMT
<1>5. Finite(1 .. (k - 1))
  BY <1>2, <1>4, SMT
<1>6. Finite((1 .. (k - 1)) \cup {k})
  BY <1>5, FiniteSmall, FiniteUnion
<1> QED
  BY <1>4, <1>6

LEMMA FiniteByCount ==
  ASSUME NEW S, IsFiniteSet(S)
  PROVE  Finite(S)
<1>1. PICK s \in Seq(S) : \A x \in S : \E i \in 1 .. Len(s) : s[i] = x
  BY DEF IsFiniteSet
<1>2. Finite({s[i] : i \in 1 .. Len(s)})
  BY FiniteInterval, FiniteImage, SMT
<1> QED
  BY <1>1, <1>2, FiniteSubset, SMT

-----------------------------------------------------------------------------
(* Walks *)

\* A walk followed by an edge, or by another walk.
Extend(w, e) == [src |-> w.src, dst |-> e.dst, label |-> FuseLabels(w.label, e.label)]

LEMMA WalkFields ==
  ASSUME NEW w \in Walk
  PROVE  /\ w.src \in Int /\ w.dst \in Int /\ w.label \in Label
         /\ w = [src |-> w.src, dst |-> w.dst, label |-> w.label]
BY DEF Walk

LEMMA ExtendFields ==
  ASSUME NEW w \in Walk, NEW e \in Walk
  PROVE  /\ Extend(w, e) \in Walk
         /\ Extend(w, e).src = w.src
         /\ Extend(w, e).dst = e.dst
         /\ Extend(w, e).label = FuseLabels(w.label, e.label)
<1>1. FuseLabels(w.label, e.label) \in Label
  BY WalkFields, FusePairs
<1> QED
  BY <1>1, WalkFields DEF Extend, Walk

LEMMA ExtendAssociative ==
  ASSUME NEW u \in Walk, NEW v \in Walk, NEW w \in Walk
  PROVE  Extend(Extend(u, v), w) = Extend(u, Extend(v, w))
<1>1. u.label \in Label /\ v.label \in Label /\ w.label \in Label
  BY WalkFields
<1>2. FuseLabels(FuseLabels(u.label, v.label), w.label)
        = FuseLabels(u.label, FuseLabels(v.label, w.label))
  BY <1>1, FuseAssociative
<1>3. /\ Extend(u, v).src = u.src /\ Extend(u, v).label = FuseLabels(u.label, v.label)
      /\ Extend(v, w).dst = w.dst /\ Extend(v, w).label = FuseLabels(v.label, w.label)
  BY ExtendFields
<1>4. /\ Extend(Extend(u, v), w)
           = [src |-> u.src, dst |-> w.dst,
              label |-> FuseLabels(FuseLabels(u.label, v.label), w.label)]
      /\ Extend(u, Extend(v, w))
           = [src |-> u.src, dst |-> w.dst,
              label |-> FuseLabels(u.label, FuseLabels(v.label, w.label))]
  BY <1>3 DEF Extend
<1> QED
  BY <1>2, <1>4

\* S holds the edges, and the walks in S followed by an edge.
Following(S, edges) ==
  /\ edges \subseteq S
  /\ \A w \in S, e \in edges : e.src = w.dst => Extend(w, e) \in S

\* The least such set.
Paths(edges) == {w \in Walk : \A S \in SUBSET Walk : Following(S, edges) => w \in S}

LEMMA PathsFollowing ==
  ASSUME NEW edges \in SUBSET Walk
  PROVE  Following(Paths(edges), edges) /\ Paths(edges) \in SUBSET Walk
<1>1. Paths(edges) \in SUBSET Walk
  BY DEF Paths
<1>2. edges \subseteq Paths(edges)
  BY DEF Paths, Following
<1>3. ASSUME NEW w \in Paths(edges), NEW e \in edges, e.src = w.dst
      PROVE  Extend(w, e) \in Paths(edges)
  <2>1. Extend(w, e) \in Walk
    BY <1>1, ExtendFields
  <2>2. ASSUME NEW S \in SUBSET Walk, Following(S, edges) PROVE Extend(w, e) \in S
    <3>1. w \in S
      BY <2>2 DEF Paths
    <3> QED
      BY <3>1, <2>2, <1>3 DEF Following
  <2> QED
    BY <2>1, <2>2 DEF Paths
<1> QED
  BY <1>1, <1>2, <1>3 DEF Following

LEMMA PathsLeast ==
  ASSUME NEW edges, NEW S \in SUBSET Walk, Following(S, edges)
  PROVE  Paths(edges) \subseteq S
BY DEF Paths

-----------------------------------------------------------------------------
(* What the recursion of Walks computes *)

WalkSearch == [found : SUBSET Walk, latest : SUBSET Walk]

SearchStep(s, edges) ==
  [found |-> s.found \cup s.latest,
   latest |-> Extensions(s.latest, edges) \ (s.found \cup s.latest)]

Computes(f, edges) ==
  f = [s \in WalkSearch |-> IF s.latest = {} THEN s.found ELSE f[SearchStep(s, edges)]]

\* The search states that the recursion meets from s on, and its last ones.
Visits(S, s, edges) ==
  s \in S /\ \A x \in S : x.latest # {} => SearchStep(x, edges) \in S

Orbit(s, edges) ==
  {t \in WalkSearch : \A S \in SUBSET WalkSearch : Visits(S, s, edges) => t \in S}

Ends(s, edges) == {t \in Orbit(s, edges) : t.latest = {}}

Result(ends) == IF ends = {} THEN {} ELSE (CHOOSE t : t \in ends).found

\* A search state on the way to all paths: what was found before the last round
\* has been followed by every edge.
OnTheWay(s, edges) ==
  /\ s \in WalkSearch
  /\ edges \subseteq s.found \cup s.latest
  /\ \A w \in s.found, e \in edges : e.src = w.dst => Extend(w, e) \in s.found \cup s.latest
  /\ s.found \cup s.latest \subseteq Paths(edges)
  /\ s.found \cap s.latest = {}

\* Walks finds all paths, provided that there are finitely many: no round is made
\* twice, as each one but the last adds to what was found.
LEMMA WalksArePaths ==
  \A edges \in SUBSET Walk : Finite(Paths(edges)) => Walks(edges) = Paths(edges)
\* A family of subsets of a finite set has a maximal member.
<1>FiniteMaximal.
    ASSUME NEW S, Finite(S), NEW C \in SUBSET (SUBSET S), C # {}
    PROVE  \E M \in C : \A B \in C : M \subseteq B => B = M
  <2> USE <1>FiniteMaximal
  <2> DEFINE Top(M, D) == \A B \in D : M \subseteq B => B = M
             Good(A) == \A D \in SUBSET (SUBSET A) : D # {} => \E M \in D : Top(M, D)
             F == {A \in SUBSET S : Good(A)}
  <2>1. {} \in F
    <3>1. ASSUME NEW D \in SUBSET (SUBSET {}), D # {} PROVE \E M \in D : Top(M, D)
      <4>1. \A B \in D : B = {}
        OBVIOUS
      <4> QED
        BY <3>1, <4>1, SMT
    <3> QED
      BY <3>1
  <2>2. ASSUME NEW A \in F, NEW x \in S PROVE A \cup {x} \in F
    <3> SUFFICES ASSUME NEW D \in SUBSET (SUBSET (A \cup {x})), D # {}
                 PROVE  \E M \in D : Top(M, D)
      OBVIOUS
    <3> DEFINE D1 == {B \in D : x \in B}
               E == {B \ {x} : B \in D1}
    <3>1. CASE D1 = {}
      <4>1. D \in SUBSET (SUBSET A)
        BY <3>1, SMT
      <4> QED
        BY <4>1
    <3>2. CASE D1 # {}
      <4>1. E \in SUBSET (SUBSET A) /\ E # {}
        <5>1. \A B \in D1 : B \ {x} \subseteq A
          OBVIOUS
        <5>2. \A N \in E : \E B \in D1 : N = B \ {x}
          OBVIOUS
        <5>3. E \in SUBSET (SUBSET A)
          <6> HIDE DEF E
          <6> QED
            BY <5>1, <5>2, SMT
        <5>4. PICK B \in D1 : TRUE
          BY <3>2
        <5>5. B \ {x} \in E
          OBVIOUS
        <5> QED
          BY <5>3, <5>5
      <4>2. PICK N \in E : Top(N, E)
        BY <4>1
      <4>3. PICK M \in D1 : N = M \ {x}
        OBVIOUS
      <4>4. ASSUME NEW B \in D, M \subseteq B PROVE B = M
        <5>1. B \in D1 /\ B \ {x} \in E /\ N \subseteq B \ {x}
          BY <4>3, <4>4
        <5>2. B \ {x} = M \ {x}
          BY <4>2, <4>3, <5>1
        <5>3. x \in B /\ x \in M
          BY <5>1
        <5>4. B = (B \ {x}) \cup {x} /\ M = (M \ {x}) \cup {x}
          BY <5>3, SMT
        <5> QED
          BY <5>2, <5>4
      <4> QED
        BY <4>4
    <3> QED
      BY <3>1, <3>2
  <2>3. S \in F
    BY <2>1, <2>2 DEF Finite, Grows
  <2> QED
    BY <2>3

<1>ExtensionsAre.
    ASSUME NEW ws, NEW edges
    PROVE  \A x : x \in Extensions(ws, edges)
                    <=> \E w \in ws, e \in edges : e.src = w.dst /\ x = Extend(w, e)
  <2> USE <1>ExtensionsAre
  <2> DEFINE after(w) == {Extend(w, e) : e \in {x \in edges : x.src = w.dst}}
  <2>1. Extensions(ws, edges) = UNION {after(w) : w \in ws}
    BY DEF Extensions, Extend
  <2>2. \A w, x : x \in after(w) <=> \E e \in edges : e.src = w.dst /\ x = Extend(w, e)
    OBVIOUS
  <2> HIDE DEF after
  <2>3. \A x : x \in UNION {after(w) : w \in ws} <=> \E w \in ws : x \in after(w)
    OBVIOUS
  <2>4. \A x : x \in Extensions(ws, edges) <=> \E w \in ws : x \in after(w)
    BY <2>1, <2>3
  <2> QED
    BY <2>2, <2>4, SMT

<1>WalksByClosure.
    ASSUME NEW edges
    PROVE  Walks(edges) = (CHOOSE f : Computes(f, edges))[[found |-> {}, latest |-> edges]]
  BY <1>WalksByClosure DEF Walks, Computes, WalkSearch, SearchStep

<1>SearchStepTyped.
    ASSUME NEW edges \in SUBSET Walk, NEW s \in WalkSearch
    PROVE  SearchStep(s, edges) \in WalkSearch
  <2> USE <1>SearchStepTyped
  <2>1. s.found \in SUBSET Walk /\ s.latest \in SUBSET Walk
    BY DEF WalkSearch
  <2>2. Extensions(s.latest, edges) \in SUBSET Walk
    BY <2>1, <1>ExtensionsAre, ExtendFields, SMT
  <2> QED
    BY <2>1, <2>2 DEF SearchStep, WalkSearch

<1>EndsNow.
    ASSUME NEW edges, NEW s \in WalkSearch, s.latest = {}
    PROVE  Ends(s, edges) = {s}
  <2> USE <1>EndsNow
  <2>1. Visits({s}, s, edges)
    BY DEF Visits
  <2>2. Orbit(s, edges) \subseteq {s}
    BY <2>1 DEF Orbit
  <2>3. s \in Orbit(s, edges)
    BY DEF Orbit, Visits
  <2> QED
    BY <2>2, <2>3 DEF Ends

<1>EndsLater.
    ASSUME NEW edges \in SUBSET Walk, NEW s \in WalkSearch, s.latest # {}
    PROVE  Ends(s, edges) = Ends(SearchStep(s, edges), edges)
  <2> USE <1>EndsLater
  <2> DEFINE n == SearchStep(s, edges)
  <2>1. ASSUME NEW t \in Ends(s, edges) PROVE t \in Ends(n, edges)
    <3>1. t \in WalkSearch /\ t.latest = {}
      BY DEF Ends, Orbit
    <3>2. ASSUME NEW S \in SUBSET WalkSearch, Visits(S, n, edges) PROVE t \in S
      <4>1. Visits(S \cup {s}, s, edges)
        BY <3>2 DEF Visits
      <4>2. t \in S \cup {s}
        BY <4>1 DEF Ends, Orbit
      <4> QED
        BY <4>2, <3>1
    <3> QED
      BY <3>1, <3>2 DEF Ends, Orbit
  <2>2. ASSUME NEW t \in Ends(n, edges) PROVE t \in Ends(s, edges)
    <3>1. t \in WalkSearch /\ t.latest = {}
      BY DEF Ends, Orbit
    <3>2. ASSUME NEW S \in SUBSET WalkSearch, Visits(S, s, edges) PROVE t \in S
      <4>1. Visits(S, n, edges)
        BY <3>2 DEF Visits
      <4> QED
        BY <4>1 DEF Ends, Orbit
    <3> QED
      BY <3>1, <3>2 DEF Ends, Orbit
  <2> QED
    BY <2>1, <2>2

\* The recursive definition of Walks has a solution.
<1>ClosureExists.
    ASSUME NEW edges \in SUBSET Walk
    PROVE  \E f : Computes(f, edges)
  <2> USE <1>ClosureExists
  <2> DEFINE last(s) == Result(Ends(s, edges))
             f == [s \in WalkSearch |-> last(s)]
  <2>1. ASSUME NEW s \in WalkSearch
        PROVE  last(s) = IF s.latest = {} THEN s.found ELSE f[SearchStep(s, edges)]
    <3>1. CASE s.latest = {}
      <4>1. Ends(s, edges) = {s}
        BY <3>1, <1>EndsNow
      <4>2. Result({s}) = s.found
        BY DEF Result
      <4> QED
        BY <3>1, <4>1, <4>2
    <3>2. CASE s.latest # {}
      <4>1. Ends(s, edges) = Ends(SearchStep(s, edges), edges)
        BY <3>2, <1>EndsLater
      <4>2. last(s) = last(SearchStep(s, edges))
        BY <4>1
      <4>3. SearchStep(s, edges) \in WalkSearch
        BY <1>SearchStepTyped
      <4>4. f[SearchStep(s, edges)] = last(SearchStep(s, edges))
        BY <4>3
      <4> QED
        BY <3>2, <4>2, <4>4
    <3> QED
      BY <3>1, <3>2
  <2> HIDE DEF last
  <2>2. Computes(f, edges)
    BY <2>1 DEF Computes
  <2> QED
    BY <2>2

<1>StepOnTheWay.
    ASSUME NEW edges \in SUBSET Walk, NEW s, OnTheWay(s, edges)
    PROVE  OnTheWay(SearchStep(s, edges), edges)
  <2> USE <1>StepOnTheWay
  <2> DEFINE n == SearchStep(s, edges)
             found == s.found \cup s.latest
             ext == Extensions(s.latest, edges)
  <2>1. n.found = found /\ n.latest = ext \ found
    BY DEF SearchStep
  <2>2. n \in WalkSearch
    BY <1>SearchStepTyped DEF OnTheWay
  <2>3. edges \subseteq found /\ found \subseteq Paths(edges)
    BY DEF OnTheWay
  <2>4. \A x : x \in ext <=> \E w \in s.latest, e \in edges : e.src = w.dst /\ x = Extend(w, e)
    BY <1>ExtensionsAre, SMT
  <2>5. ext \subseteq Paths(edges)
    <3>1. \A w \in Paths(edges), e \in edges : e.src = w.dst => Extend(w, e) \in Paths(edges)
      BY PathsFollowing DEF Following
    <3>2. s.latest \subseteq Paths(edges)
      BY <2>3
    <3> HIDE DEF ext
    <3> QED
      BY <2>4, <3>1, <3>2, SMT
  <2>6. ASSUME NEW w \in found, NEW e \in edges, e.src = w.dst
        PROVE  Extend(w, e) \in found \cup ext
    BY <2>4, <2>6 DEF OnTheWay
  <2> HIDE DEF n, found, ext
  <2>7. n.found \cup n.latest = found \cup ext
    BY <2>1
  <2>8. n.found \cup n.latest \subseteq Paths(edges)
    BY <2>3, <2>5, <2>7
  <2>9. edges \subseteq n.found \cup n.latest
    BY <2>3, <2>7
  <2>10. n.found \cap n.latest = {}
    BY <2>1
  <2>11. \A w \in n.found, e \in edges : e.src = w.dst => Extend(w, e) \in n.found \cup n.latest
    BY <2>1, <2>6, <2>7
  <2> QED
    BY <2>2, <2>8, <2>9, <2>10, <2>11 DEF OnTheWay, n

<1> SUFFICES ASSUME NEW edges \in SUBSET Walk, Finite(Paths(edges))
             PROVE  Walks(edges) = Paths(edges)
  OBVIOUS
<1> DEFINE f == CHOOSE g : Computes(g, edges)
           start == [found |-> {}, latest |-> edges]
           Wrong == {A \in SUBSET Paths(edges) :
                       \E s : OnTheWay(s, edges) /\ f[s] # Paths(edges) /\ s.found = A}
<1>1. Computes(f, edges)
  BY <1>ClosureExists
<1> HIDE DEF f
<1>2. \A s \in WalkSearch : f[s] = IF s.latest = {} THEN s.found ELSE f[SearchStep(s, edges)]
  BY <1>1 DEF Computes
<1>3. \A s : OnTheWay(s, edges) => s.found \in SUBSET Paths(edges)
  BY DEF OnTheWay
<1>4. ASSUME NEW s, OnTheWay(s, edges), f[s] # Paths(edges)
      PROVE  \E t : /\ OnTheWay(t, edges) /\ f[t] # Paths(edges)
                    /\ s.found \subseteq t.found /\ s.found # t.found
  <2>1. s \in WalkSearch
    BY <1>4 DEF OnTheWay
  <2>2. s.latest # {}
    <3>1. SUFFICES ASSUME s.latest = {} PROVE f[s] = Paths(edges)
      BY <1>4
    <3>2. s.found \in SUBSET Walk
      BY <2>1 DEF WalkSearch
    <3>3. s.found \cup s.latest = s.found
      BY <3>1
    <3>4. Following(s.found, edges)
      BY <3>3, <1>4 DEF Following, OnTheWay
    <3>5. Paths(edges) \subseteq s.found
      BY <3>2, <3>4, PathsLeast
    <3>6. s.found \subseteq Paths(edges)
      BY <3>3, <1>4 DEF OnTheWay
    <3>7. f[s] = s.found
      BY <1>2, <2>1, <3>1
    <3> QED
      BY <3>5, <3>6, <3>7
  <2> DEFINE t == SearchStep(s, edges)
  <2>3. OnTheWay(t, edges)
    BY <1>4, <1>StepOnTheWay
  <2>4. f[t] = f[s]
    BY <1>2, <2>1, <2>2
  <2>5. t.found = s.found \cup s.latest
    BY DEF SearchStep
  <2>6. s.latest \subseteq Paths(edges) /\ s.found \cap s.latest = {}
    BY <1>4 DEF OnTheWay
  <2> HIDE DEF t
  <2>7. s.found \subseteq t.found /\ s.found # t.found
    BY <2>2, <2>5, <2>6
  <2> QED
    BY <1>4, <2>3, <2>4, <2>7
<1>5. Wrong = {}
  <2>1. SUFFICES ASSUME Wrong # {} PROVE FALSE
    OBVIOUS
  <2>2. PICK A \in Wrong : \A B \in Wrong : A \subseteq B => B = A
    <3>1. Wrong \in SUBSET (SUBSET Paths(edges))
      OBVIOUS
    <3> HIDE DEF Wrong
    <3> QED
      BY <2>1, <3>1, <1>FiniteMaximal, SMT
  <2>3. PICK s : OnTheWay(s, edges) /\ f[s] # Paths(edges) /\ s.found = A
    OBVIOUS
  <2>4. PICK t : /\ OnTheWay(t, edges) /\ f[t] # Paths(edges)
                 /\ s.found \subseteq t.found /\ s.found # t.found
    BY <1>4, <2>3
  <2>5. t.found \in Wrong
    BY <1>3, <2>4
  <2> QED
    BY <2>2, <2>3, <2>4, <2>5
<1>6. OnTheWay(start, edges)
  <2>1. start \in WalkSearch /\ start.found = {} /\ start.latest = edges
    BY DEF WalkSearch
  <2>2. edges \subseteq Paths(edges)
    BY PathsFollowing DEF Following
  <2> HIDE DEF start
  <2> QED
    BY <2>1, <2>2 DEF OnTheWay
<1>7. f[start] = Paths(edges)
  BY <1>3, <1>5, <1>6
<1> QED
  BY <1>7, <1>WalksByClosure DEF f

-----------------------------------------------------------------------------
(* Finite graphs have finitely many paths. *)

\* The labels over the tags T, and the walks among the nodes N with such labels.
LabelsOver(T) == [tv : SUBSET (T \X T), tp : SUBSET (T \X T)]

WalksOver(N, T) == [src : N, dst : N, label : LabelsOver(T)]

-----------------------------------------------------------------------------
(* The trace condition on paths *)

\* Graphs as check_proof gets them: finite, with finite sets of tags, and with
\* the pairs of each edge among the tags of its ends.
Graph(g) ==
  /\ DOMAIN g \in SUBSET Int /\ Finite(DOMAIN g)
  /\ \A n \in DOMAIN g : g[n].tags \in SUBSET Int /\ Finite(g[n].tags)
  /\ \A n \in DOMAIN g : \A i \in children(g, n) :
       /\ i \in DOMAIN g
       /\ g[n].subg[i] \in Label
       /\ g[n].subg[i].tv \subseteq g[n].tags \X g[i].tags
       /\ g[n].subg[i].tp \subseteq g[n].tags \X g[i].tags

Edge(g, n, i) == [src |-> n, dst |-> i, label |-> g[n].subg[i]]

LEMMA EdgesAre ==
  ASSUME NEW g
  PROVE  \A x : x \in Edges(g) <=> \E n \in DOMAIN g : \E i \in children(g, n) : x = Edge(g, n, i)
<1> DEFINE from(n) == {Edge(g, n, i) : i \in children(g, n)}
<1>1. Edges(g) = UNION {from(n) : n \in DOMAIN g}
  BY DEF Edges, Edge
<1>2. \A n, x : x \in from(n) <=> \E i \in children(g, n) : x = Edge(g, n, i)
  OBVIOUS
<1> HIDE DEF from
<1>3. \A x : x \in UNION {from(n) : n \in DOMAIN g} <=> \E n \in DOMAIN g : x \in from(n)
  OBVIOUS
<1>4. \A x : x \in Edges(g) <=> \E n \in DOMAIN g : x \in from(n)
  BY <1>1, <1>3
<1> QED
  BY <1>2, <1>4, SMT

AllTags(g) == UNION {g[n].tags : n \in DOMAIN g}

\* The recursion that TLC evaluates finds all paths of a graph.
LEMMA GraphWalks ==
  \A g : Graph(g) => Edges(g) \in SUBSET Walk /\ Walks(Edges(g)) = Paths(Edges(g))
<1>FiniteUnions.
    ASSUME NEW S, Finite(S), NEW f, \A x \in S : Finite(f[x])
    PROVE  Finite(UNION {f[x] : x \in S})
  <2> USE <1>FiniteUnions
  <2> DEFINE all(A) == UNION {f[x] : x \in A}
             F == {A \in SUBSET S : Finite(all(A))}
  <2>1. all({}) = {} /\ \A A, x : all(A \cup {x}) = all(A) \cup f[x]
    OBVIOUS
  <2> HIDE DEF all
  <2>2. Grows(F, S)
    <3>1. {} \in F
      BY <2>1, FiniteSmall
    <3>2. ASSUME NEW A \in F, NEW x \in S PROVE A \cup {x} \in F
      <4>1. Finite(all(A) \cup f[x])
        BY FiniteUnion
      <4> QED
        BY <2>1, <4>1
    <3> QED
      BY <3>1, <3>2 DEF Grows
  <2>3. Finite(all(S))
    BY <2>2 DEF Finite
  <2> QED
    BY <2>3 DEF all

<1>FiniteProduct.
    ASSUME NEW S, Finite(S), NEW T, Finite(T)
    PROVE  Finite(S \X T)
  <2> USE <1>FiniteProduct
  <2> DEFINE row(x) == {<<x, y>> : y \in T}
             rows == [x \in S |-> row(x)]
  <2>1. ASSUME NEW x \in S PROVE Finite(rows[x])
    <3> DEFINE f == [y \in T |-> <<x, y>>]
    <3>1. Finite({f[y] : y \in T})
      BY FiniteImage
    <3>2. {f[y] : y \in T} = row(x)
      OBVIOUS
    <3> QED
      BY <3>1, <3>2
  <2>2. Finite(UNION {rows[x] : x \in S})
    <3> HIDE DEF rows
    <3> QED
      BY <2>1, <1>FiniteUnions
  <2>3. UNION {rows[x] : x \in S} = S \X T
    BY SMT
  <2> QED
    BY <2>2, <2>3

<1>FinitePowerset.
    ASSUME NEW S, Finite(S)
    PROVE  Finite(SUBSET S)
  <2> USE <1>FinitePowerset
  <2> DEFINE F == {A \in SUBSET S : Finite(SUBSET A)}
  <2>1. {} \in F
    <3>1. SUBSET {} = {{}}
      OBVIOUS
    <3> QED
      BY <3>1, FiniteSmall
  <2>2. ASSUME NEW A \in F, NEW x \in S PROVE A \cup {x} \in F
    <3> DEFINE f == [B \in SUBSET A |-> B \cup {x}]
               more == {f[B] : B \in SUBSET A}
    <3>1. Finite(more)
      BY FiniteImage
    <3>2. SUBSET (A \cup {x}) \subseteq (SUBSET A) \cup more
      <4> SUFFICES ASSUME NEW C, C \subseteq A \cup {x} PROVE C \in (SUBSET A) \cup more
        OBVIOUS
      <4>1. CASE x \in C
        <5>1. C \ {x} \in SUBSET A /\ (C \ {x}) \cup {x} = C
          BY <4>1
        <5>2. f[C \ {x}] = C
          BY <5>1
        <5> QED
          BY <5>1, <5>2
      <4>2. CASE x \notin C
        BY <4>2
      <4> QED
        BY <4>1, <4>2
    <3> HIDE DEF more
    <3>3. Finite((SUBSET A) \cup more)
      BY <3>1, FiniteUnion
    <3>4. Finite(SUBSET (A \cup {x}))
      BY <3>2, <3>3, FiniteSubset
    <3> QED
      BY <3>4
  <2>3. Grows(F, S) /\ F \in SUBSET (SUBSET S)
    BY <2>1, <2>2 DEF Grows
  <2>4. S \in F
    <3> HIDE DEF F
    <3> QED
      BY <2>3 DEF Finite
  <2> QED
    BY <2>4

<1>FuseOver.
    ASSUME NEW T \in SUBSET Int, NEW a \in LabelsOver(T), NEW b \in LabelsOver(T)
    PROVE  FuseLabels(a, b) \in LabelsOver(T)
  <2> USE <1>FuseOver
  <2>1. \A t1, t2 \in SUBSET (T \X T) : compose(t1, t2) \in SUBSET (T \X T)
    BY SMT DEF compose
  <2>2. /\ a.tv \in SUBSET (T \X T) /\ a.tp \in SUBSET (T \X T)
        /\ b.tv \in SUBSET (T \X T) /\ b.tp \in SUBSET (T \X T)
    BY DEF LabelsOver
  <2>3. /\ compose(a.tv, b.tv) \in SUBSET (T \X T)
        /\ compose(a.tp, b.tp) \in SUBSET (T \X T)
        /\ compose(a.tv, b.tp) \in SUBSET (T \X T)
        /\ compose(a.tp, b.tv) \in SUBSET (T \X T)
    BY <2>1, <2>2
  <2> QED
    BY <2>3 DEF FuseLabels, LabelsOver

<1>WalksOverFinite.
    ASSUME NEW N, NEW T, Finite(N), Finite(T)
    PROVE  Finite(WalksOver(N, T))
  <2> USE <1>WalksOverFinite
  <2> DEFINE P == SUBSET (T \X T)
             D == (N \X N) \X (P \X P)
             f == [x \in D |-> [src |-> x[1][1], dst |-> x[1][2],
                                label |-> [tv |-> x[2][1], tp |-> x[2][2]]]]
  <2>1. Finite(P)
    BY <1>FiniteProduct, <1>FinitePowerset
  <2>2. Finite(N \X N) /\ Finite(P \X P)
    BY <2>1, <1>FiniteProduct
  <2>3. Finite(D)
    BY <2>2, <1>FiniteProduct
  <2>4. Finite({f[x] : x \in D})
    <3> HIDE DEF f, D
    <3> QED
      BY <2>3, FiniteImage
  <2>5. ASSUME NEW w \in WalksOver(N, T) PROVE \E x \in D : f[x] = w
    <3>1. /\ w.src \in N /\ w.dst \in N /\ w.label.tv \in P /\ w.label.tp \in P
          /\ w.label = [tv |-> w.label.tv, tp |-> w.label.tp]
          /\ w = [src |-> w.src, dst |-> w.dst, label |-> w.label]
      BY DEF WalksOver, LabelsOver
    <3> DEFINE x == <<<<w.src, w.dst>>, <<w.label.tv, w.label.tp>>>>
    <3> HIDE DEF P
    <3>2. x \in D
      BY <3>1
    <3>3. f[x] = [src |-> w.src, dst |-> w.dst, label |-> [tv |-> w.label.tv, tp |-> w.label.tp]]
      BY <3>2
    <3> QED
      BY <3>1, <3>2, <3>3
  <2> HIDE DEF f, D
  <2>6. WalksOver(N, T) \subseteq {f[x] : x \in D}
    BY <2>5
  <2> QED
    BY <2>4, <2>6, FiniteSubset

<1>PathsOver.
    ASSUME NEW N \in SUBSET Int, NEW T \in SUBSET Int, Finite(N), Finite(T),
           NEW edges \in SUBSET WalksOver(N, T)
    PROVE  /\ edges \in SUBSET Walk
           /\ Paths(edges) \subseteq WalksOver(N, T)
           /\ Finite(Paths(edges))
  <2> USE <1>PathsOver
  <2>1. WalksOver(N, T) \in SUBSET Walk
    <3>1. T \X T \subseteq Int \X Int
      BY Zenon
    <3>2. ASSUME NEW l \in LabelsOver(T) PROVE l \in Label
      <4>1. /\ l = [tv |-> l.tv, tp |-> l.tp]
            /\ l.tv \in SUBSET (T \X T) /\ l.tp \in SUBSET (T \X T)
        BY DEF LabelsOver
      <4> QED
        BY <3>1, <4>1 DEF Label, TagPair
    <3>3. ASSUME NEW w \in WalksOver(N, T) PROVE w \in Walk
      <4>1. /\ w = [src |-> w.src, dst |-> w.dst, label |-> w.label]
            /\ w.src \in N /\ w.dst \in N /\ w.label \in LabelsOver(T)
        BY DEF WalksOver
      <4> QED
        BY <3>2, <4>1 DEF Walk
    <3> QED
      BY <3>3
  <2>2. ASSUME NEW w \in WalksOver(N, T), NEW e \in WalksOver(N, T)
        PROVE  Extend(w, e) \in WalksOver(N, T)
    <3>1. /\ w.src \in N /\ e.dst \in N
          /\ w.label \in LabelsOver(T) /\ e.label \in LabelsOver(T)
      BY DEF WalksOver
    <3>2. FuseLabels(w.label, e.label) \in LabelsOver(T)
      BY <3>1, <1>FuseOver
    <3> QED
      BY <3>1, <3>2 DEF Extend, WalksOver
  <2>3. Following(WalksOver(N, T), edges)
    BY <2>2 DEF Following
  <2>4. Paths(edges) \subseteq WalksOver(N, T)
    BY <2>1, <2>3, PathsLeast
  <2>5. Finite(WalksOver(N, T))
    BY <1>WalksOverFinite
  <2> QED
    BY <2>1, <2>4, <2>5, FiniteSubset

<1>EdgesOver.
    ASSUME NEW g, Graph(g)
    PROVE  /\ Edges(g) \in SUBSET WalksOver(DOMAIN g, AllTags(g))
           /\ AllTags(g) \in SUBSET Int /\ Finite(AllTags(g))
  <2> USE <1>EdgesOver
  <2>1. AllTags(g) \in SUBSET Int
    BY DEF AllTags, Graph
  <2>2. Finite(AllTags(g))
    <3> DEFINE f == [n \in DOMAIN g |-> g[n].tags]
    <3>1. /\ Finite(DOMAIN g)
          /\ \A n \in DOMAIN g : Finite(f[n])
      BY DEF Graph
    <3>2. Finite(UNION {f[n] : n \in DOMAIN g})
      <4> HIDE DEF f
      <4> QED
        BY <3>1, <1>FiniteUnions
    <3>3. UNION {f[n] : n \in DOMAIN g} = AllTags(g)
      BY DEF AllTags
    <3> QED
      BY <3>2, <3>3
  <2>3. ASSUME NEW n \in DOMAIN g, NEW i \in children(g, n)
        PROVE  Edge(g, n, i) \in WalksOver(DOMAIN g, AllTags(g))
    <3>1. /\ i \in DOMAIN g
          /\ g[n].subg[i] \in Label
          /\ g[n].subg[i].tv \subseteq g[n].tags \X g[i].tags
          /\ g[n].subg[i].tp \subseteq g[n].tags \X g[i].tags
      BY DEF Graph
    <3>2. g[n].tags \subseteq AllTags(g) /\ g[i].tags \subseteq AllTags(g)
      BY <3>1 DEF AllTags
    <3> DEFINE T == AllTags(g)
               l == g[n].subg[i]
    <3> HIDE DEF T
    <3>3. l.tv \in SUBSET (T \X T) /\ l.tp \in SUBSET (T \X T)
      BY <3>1, <3>2 DEF T
    <3>4. l = [tv |-> l.tv, tp |-> l.tp]
      BY <3>1, LabelFields
    <3>5. l \in LabelsOver(T)
      BY <3>3, <3>4 DEF LabelsOver
    <3> QED
      BY <3>1, <3>5 DEF Edge, WalksOver, T
  <2> QED
    BY <2>1, <2>2, <2>3, EdgesAre, SMT

<1> SUFFICES ASSUME NEW g, Graph(g)
             PROVE  Edges(g) \in SUBSET Walk /\ Walks(Edges(g)) = Paths(Edges(g))
  OBVIOUS
<1>1. DOMAIN g \in SUBSET Int /\ Finite(DOMAIN g)
  BY DEF Graph
<1>2. Edges(g) \in SUBSET Walk /\ Finite(Paths(Edges(g)))
  BY <1>1, <1>EdgesOver, <1>PathsOver, ZenonT(60)
<1> QED
  BY <1>2, WalksArePaths

Progresses(l) == \E t \in Int : <<t, t>> \in l.tp

Idempotent(l) == FuseLabels(l, l) = l

Reached(edges, init, n) == n = init \/ \E u \in Paths(edges) : u.src = init /\ u.dst = n

\* The global trace condition, on the paths along a set of edges.
SoundPaths(edges, init) ==
  \A w \in Paths(edges) :
    (w.src = w.dst /\ Reached(edges, init, w.src) /\ Idempotent(w.label)) => Progresses(w.label)

\* GloballySound is the condition on paths.
LEMMA SoundByPaths ==
  \A g, init : Graph(g) => /\ Edges(g) \in SUBSET Walk
                           /\ GloballySound(g, init) <=> SoundPaths(Edges(g), init)
<1> SUFFICES ASSUME NEW g, NEW init, Graph(g)
             PROVE  /\ Edges(g) \in SUBSET Walk
                    /\ GloballySound(g, init) <=> SoundPaths(Edges(g), init)
  OBVIOUS
<1>2. Edges(g) \in SUBSET Walk
  BY GraphWalks
<1>3. Walks(Edges(g)) = Paths(Edges(g))
  BY GraphWalks
<1> DEFINE P == Paths(Edges(g))
<1>4. \A n : n \in ReachableFrom(P, init) <=> Reached(Edges(g), init, n)
  BY DEF ReachableFrom, Reached
<1>5. ASSUME NEW w \in P PROVE (\E p \in w.label.tp : p[1] = p[2]) <=> Progresses(w.label)
  <2>1. w.label.tp \in SUBSET (Int \X Int)
    BY <1>2, PathsFollowing, WalkFields, LabelFields DEF TagPair
  <2>2. ASSUME NEW p \in w.label.tp, p[1] = p[2] PROVE Progresses(w.label)
    <3>1. p[1] \in Int /\ p = <<p[1], p[1]>>
      BY <2>1, <2>2, SMT
    <3> QED
      BY <3>1 DEF Progresses
  <2>3. ASSUME NEW t \in Int, <<t, t>> \in w.label.tp PROVE \E p \in w.label.tp : p[1] = p[2]
    BY <2>3
  <2> QED
    BY <2>2, <2>3 DEF Progresses
<1>6. GloballySound(g, init) <=>
        \A w \in P : (/\ w.src = w.dst
                      /\ w.src \in ReachableFrom(P, init)
                      /\ FuseLabels(w.label, w.label) = w.label)
                       => \E p \in w.label.tp : p[1] = p[2]
  BY <1>3 DEF GloballySound
<1> HIDE DEF P
<1>7. GloballySound(g, init) <=>
        \A w \in P : (w.src = w.dst /\ Reached(Edges(g), init, w.src) /\ Idempotent(w.label))
                       => Progresses(w.label)
  BY <1>4, <1>5, <1>6 DEF Idempotent
<1> QED
  BY <1>2, <1>7 DEF SoundPaths, P

-----------------------------------------------------------------------------
(* Paths, and changes of the edges that leave the condition as it is. *)

LEMMA PathsTyped ==
  ASSUME NEW edges \in SUBSET Walk, NEW w \in Paths(edges)
  PROVE  w \in Walk
BY PathsFollowing

\* Two paths that meet make a path.
LEMMA PathsJoin ==
  ASSUME NEW edges \in SUBSET Walk, NEW u \in Paths(edges), NEW v \in Paths(edges),
         u.dst = v.src
  PROVE  Extend(u, v) \in Paths(edges)
<1> DEFINE S == {x \in Walk : u.dst = x.src => Extend(u, x) \in Paths(edges)}
<1>1. u \in Walk
  BY PathsTyped
<1>2. edges \subseteq S
  BY PathsFollowing DEF Following
<1>3. ASSUME NEW x \in S, NEW e \in edges, e.src = x.dst PROVE Extend(x, e) \in S
  <2>1. x \in Walk /\ e \in Walk
    OBVIOUS
  <2>2. /\ Extend(x, e) \in Walk /\ Extend(x, e).src = x.src
        /\ Extend(u, x).dst = x.dst
    BY <1>1, <2>1, ExtendFields
  <2>3. ASSUME u.dst = x.src PROVE Extend(u, Extend(x, e)) \in Paths(edges)
    <3>1. Extend(u, x) \in Paths(edges)
      BY <2>3
    <3>2. Extend(Extend(u, x), e) \in Paths(edges)
      BY <1>3, <2>2, <3>1, PathsFollowing DEF Following
    <3> QED
      BY <1>1, <2>1, <3>2, ExtendAssociative
  <2> QED
    BY <2>2, <2>3
<1>4. Following(S, edges)
  BY <1>2, <1>3 DEF Following
<1>5. v \in S
  BY <1>4, PathsLeast
<1> QED
  BY <1>5

-----------------------------------------------------------------------------
(* Graphs in which every node can be reached, and parts copied from others. *)

\* The condition without the demand that the loop can be reached.
LoopsSound(edges) ==
  \A w \in Paths(edges) : w.src = w.dst /\ Idempotent(w.label) => Progresses(w.label)

LEMMA PathsWithinEnds ==
  ASSUME NEW edges \in SUBSET Walk, NEW w \in Paths(edges)
  PROVE  (\E e \in edges : e.src = w.src) /\ (\E e \in edges : e.dst = w.dst)
<1> DEFINE S == {x \in Walk : (\E e \in edges : e.src = x.src) /\ (\E e \in edges : e.dst = x.dst)}
<1>1. edges \subseteq S
  OBVIOUS
<1>2. ASSUME NEW x \in S, NEW e \in edges, e.src = x.dst PROVE Extend(x, e) \in S
  BY ExtendFields
<1>3. Following(S, edges)
  BY <1>1, <1>2 DEF Following
<1> QED
  BY <1>3, PathsLeast

LEMMA NoEdgesNoPaths == Paths({}) = {}
<1>1. {} \in SUBSET Walk /\ Following({}, {})
  BY DEF Following
<1> QED
  BY <1>1, PathsLeast

\* R is a part of the graph that no edge leaves.  Loops outside R are those of
\* the graph before R was added.
LEMMA ClosedPartAdded ==
  ASSUME NEW edges \in SUBSET Walk, NEW more \in SUBSET Walk, NEW R,
         \A e \in more : e.src \in R => e.dst \in R,
         \A e \in more : e.dst \notin R => e \in edges,
         LoopsSound(edges),
         LoopsSound({e \in more : e.src \in R})
  PROVE  LoopsSound(more)
<1> DEFINE inside == {e \in more : e.src \in R}
           S == {w \in Walk : /\ w.src \in R => w.dst \in R /\ w \in Paths(inside)
                              /\ w.dst \notin R => w \in Paths(edges)}
<1>1. inside \in SUBSET Walk
  OBVIOUS
<1>2. more \subseteq S
  BY <1>1, PathsFollowing DEF Following
<1>3. ASSUME NEW w \in S, NEW e \in more, e.src = w.dst PROVE Extend(w, e) \in S
  <2>1. w \in Walk /\ e \in Walk
    OBVIOUS
  <2>2. Extend(w, e) \in Walk /\ Extend(w, e).src = w.src /\ Extend(w, e).dst = e.dst
    BY <2>1, ExtendFields
  <2>3. w.src \in R => e.dst \in R /\ Extend(w, e) \in Paths(inside)
    BY <1>1, <1>3, PathsFollowing DEF Following
  <2>4. e.dst \notin R => Extend(w, e) \in Paths(edges)
    BY <1>3, PathsFollowing DEF Following
  <2> QED
    BY <2>2, <2>3, <2>4
<1>4. Following(S, more)
  BY <1>2, <1>3 DEF Following
<1>5. Paths(more) \subseteq S
  BY <1>4, PathsLeast
<1> QED
  BY <1>5 DEF LoopsSound

\* h relates paths to paths of another graph with the same ends and labels.
Mirrored(w, edges, h) ==
  \E v \in edges : v.src = h[w.src] /\ v.dst = h[w.dst] /\ v.label = w.label

\* A graph whose edges are copies has only loops that are copies.
LEMMA CopiedLoops ==
  ASSUME NEW edges \in SUBSET Walk, NEW copies \in SUBSET Walk, NEW h,
         \A e \in copies : Mirrored(e, edges, h),
         LoopsSound(edges)
  PROVE  LoopsSound(copies)
<1> DEFINE S == {w \in Walk : Mirrored(w, Paths(edges), h)}
<1>1. copies \subseteq S
  BY PathsFollowing DEF Mirrored, Following
<1>2. ASSUME NEW w \in S, NEW e \in copies, e.src = w.dst PROVE Extend(w, e) \in S
  <2>1. PICK v \in Paths(edges) : v.src = h[w.src] /\ v.dst = h[w.dst] /\ v.label = w.label
    BY DEF Mirrored
  <2>2. PICK d \in edges : d.src = h[e.src] /\ d.dst = h[e.dst] /\ d.label = e.label
    BY DEF Mirrored
  <2>3. Extend(v, d) \in Paths(edges)
    BY <1>2, <2>1, <2>2, PathsFollowing DEF Following
  <2>4. v \in Walk /\ d \in Walk /\ w \in Walk /\ e \in Walk
    BY PathsTyped
  <2>5. /\ Extend(v, d).src = v.src /\ Extend(v, d).dst = d.dst
        /\ Extend(w, e).src = w.src /\ Extend(w, e).dst = e.dst /\ Extend(w, e) \in Walk
    BY <2>4, ExtendFields
  <2>6. Extend(v, d).label = Extend(w, e).label
    BY <2>1, <2>2 DEF Extend
  <2> QED
    BY <2>1, <2>2, <2>3, <2>5, <2>6 DEF Mirrored
<1>3. Following(S, copies)
  BY <1>1, <1>2 DEF Following
<1>4. Paths(copies) \subseteq S
  BY <1>3, PathsLeast
<1>5. \A w \in Paths(copies) : \E v \in Paths(edges) :
        v.src = h[w.src] /\ v.dst = h[w.dst] /\ v.label = w.label
  BY <1>4 DEF Mirrored
<1> QED
  BY <1>5, SMT DEF LoopsSound

-----------------------------------------------------------------------------
(* Copies with shortcuts.  Some edges of a copy stand for no edge of the    *)
(* original: they join two copies of one node and let every tag trace       *)
(* itself.                                                                  *)

\* The label with which every tag traces itself, without progress.
Still(T) == [tv |-> IdentityPairs(T), tp |-> {}]

LEMMA StillPairs ==
  ASSUME NEW T \in SUBSET Int
  PROVE  /\ Still(T) \in Label
         /\ Still(T).tp = {}
         /\ \A x, y : <<x, y>> \in Still(T).tv <=> x \in T /\ x = y
<1>1. IdentityPairs(T) \in SUBSET TagPair
  BY SMT DEF IdentityPairs, TagPair
<1>2. Still(T).tv = IdentityPairs(T) /\ Still(T).tp = {}
  BY DEF Still
<1>3. Still(T) \in Label
  BY <1>1 DEF Still, Label
<1>4. \A x, y : <<x, y>> \in IdentityPairs(T) <=> x \in T /\ x = y
  BY DEF IdentityPairs
<1> QED
  BY <1>2, <1>3, <1>4, SMT

\* own gives the tags of the nodes; the label of w relates tags of its ends.
Within(w, own) ==
  /\ \A x, y : <<x, y>> \in w.label.tv => x \in own[w.src] /\ y \in own[w.dst]
  /\ \A x, y : <<x, y>> \in w.label.tp => x \in own[w.src] /\ y \in own[w.dst]

\* Standing still before or after a walk changes nothing.
LEMMA StillNeutral ==
  ASSUME NEW a \in Label, NEW T \in SUBSET Int
  PROVE  /\ (\A x, y : <<x, y>> \in a.tv \/ <<x, y>> \in a.tp => y \in T)
              => FuseLabels(a, Still(T)) = a
         /\ (\A x, y : <<x, y>> \in a.tv \/ <<x, y>> \in a.tp => x \in T)
              => FuseLabels(Still(T), a) = a
<1> DEFINE s == Still(T)
<1>1. s \in Label /\ s.tp = {} /\ \A x, y : <<x, y>> \in s.tv <=> x \in T /\ x = y
  BY StillPairs
<1>2. /\ FuseLabels(a, s) \in Label
      /\ \A x, z : <<x, z>> \in FuseLabels(a, s).tv
                     <=> \E y \in Int : <<x, y>> \in a.tv /\ <<y, z>> \in s.tv
      /\ \A x, z : <<x, z>> \in FuseLabels(a, s).tp
                     <=> \E y \in Int :
                           \/ <<x, y>> \in a.tp /\ <<y, z>> \in s.tp
                           \/ <<x, y>> \in a.tv /\ <<y, z>> \in s.tp
                           \/ <<x, y>> \in a.tp /\ <<y, z>> \in s.tv
  BY <1>1, FusePairs
<1>3. /\ FuseLabels(s, a) \in Label
      /\ \A x, z : <<x, z>> \in FuseLabels(s, a).tv
                     <=> \E y \in Int : <<x, y>> \in s.tv /\ <<y, z>> \in a.tv
      /\ \A x, z : <<x, z>> \in FuseLabels(s, a).tp
                     <=> \E y \in Int :
                           \/ <<x, y>> \in s.tp /\ <<y, z>> \in a.tp
                           \/ <<x, y>> \in s.tv /\ <<y, z>> \in a.tp
                           \/ <<x, y>> \in s.tp /\ <<y, z>> \in a.tv
  BY <1>1, FusePairs
<1> HIDE DEF s
<1>4. \A x, y : <<x, y>> \notin s.tp
  BY <1>1
<1>5. ASSUME \A x, y : <<x, y>> \in a.tv \/ <<x, y>> \in a.tp => y \in T
      PROVE  FuseLabels(a, s) = a
  <2>1. \A x, z \in Int : <<x, z>> \in FuseLabels(a, s).tv <=> <<x, z>> \in a.tv
    <3> TAKE x, z \in Int
    <3>1. ASSUME <<x, z>> \in a.tv PROVE <<x, z>> \in FuseLabels(a, s).tv
      BY <1>1, <1>2, <1>5, <3>1
    <3>2. ASSUME <<x, z>> \in FuseLabels(a, s).tv PROVE <<x, z>> \in a.tv
      <4>1. PICK y \in Int : <<x, y>> \in a.tv /\ <<y, z>> \in s.tv
        BY <1>2, <1>4, <3>2
      <4>2. y = z
        BY <1>1, <4>1
      <4> QED
        BY <4>1, <4>2
    <3> QED
      BY <3>1, <3>2
  <2>2. \A x, z \in Int : <<x, z>> \in FuseLabels(a, s).tp <=> <<x, z>> \in a.tp
    <3> TAKE x, z \in Int
    <3>1. ASSUME <<x, z>> \in a.tp PROVE <<x, z>> \in FuseLabels(a, s).tp
      BY <1>1, <1>2, <1>5, <3>1
    <3>2. ASSUME <<x, z>> \in FuseLabels(a, s).tp PROVE <<x, z>> \in a.tp
      <4>1. PICK y \in Int : <<x, y>> \in a.tp /\ <<y, z>> \in s.tv
        BY <1>2, <1>4, <3>2
      <4>2. y = z
        BY <1>1, <4>1
      <4> QED
        BY <4>1, <4>2
    <3> QED
      BY <3>1, <3>2
  <2> QED
    BY <1>2, <2>1, <2>2, LabelsEqual
<1>6. ASSUME \A x, y : <<x, y>> \in a.tv \/ <<x, y>> \in a.tp => x \in T
      PROVE  FuseLabels(s, a) = a
  <2>1. \A x, z \in Int : <<x, z>> \in FuseLabels(s, a).tv <=> <<x, z>> \in a.tv
    <3> TAKE x, z \in Int
    <3>1. ASSUME <<x, z>> \in a.tv PROVE <<x, z>> \in FuseLabels(s, a).tv
      BY <1>1, <1>3, <1>6, <3>1
    <3>2. ASSUME <<x, z>> \in FuseLabels(s, a).tv PROVE <<x, z>> \in a.tv
      <4>1. PICK y \in Int : <<x, y>> \in s.tv /\ <<y, z>> \in a.tv
        BY <1>3, <1>4, <3>2
      <4>2. x = y
        BY <1>1, <4>1
      <4> QED
        BY <4>1, <4>2
    <3> QED
      BY <3>1, <3>2
  <2>2. \A x, z \in Int : <<x, z>> \in FuseLabels(s, a).tp <=> <<x, z>> \in a.tp
    <3> TAKE x, z \in Int
    <3>1. ASSUME <<x, z>> \in a.tp PROVE <<x, z>> \in FuseLabels(s, a).tp
      BY <1>1, <1>3, <1>6, <3>1
    <3>2. ASSUME <<x, z>> \in FuseLabels(s, a).tp PROVE <<x, z>> \in a.tp
      <4>1. PICK y \in Int : <<x, y>> \in s.tv /\ <<y, z>> \in a.tp
        BY <1>3, <1>4, <3>2
      <4>2. x = y
        BY <1>1, <4>1
      <4> QED
        BY <4>1, <4>2
    <3> QED
      BY <3>1, <3>2
  <2> QED
    BY <1>3, <2>1, <2>2, LabelsEqual
<1> QED
  BY <1>5, <1>6 DEF s

LEMMA ExtendWithin ==
  ASSUME NEW w \in Walk, NEW e \in Walk, NEW own, Within(w, own), Within(e, own), e.src = w.dst
  PROVE  Within(Extend(w, e), own)
<1> DEFINE a == w.label
           b == e.label
           f == Extend(w, e)
<1>1. a \in Label /\ b \in Label
  BY WalkFields
<1>2. f.src = w.src /\ f.dst = e.dst /\ f.label = FuseLabels(a, b)
  BY ExtendFields
<1>3. /\ \A x, z : <<x, z>> \in FuseLabels(a, b).tv
                     <=> \E y \in Int : <<x, y>> \in a.tv /\ <<y, z>> \in b.tv
      /\ \A x, z : <<x, z>> \in FuseLabels(a, b).tp
                     <=> \E y \in Int :
                           \/ <<x, y>> \in a.tp /\ <<y, z>> \in b.tp
                           \/ <<x, y>> \in a.tv /\ <<y, z>> \in b.tp
                           \/ <<x, y>> \in a.tp /\ <<y, z>> \in b.tv
  BY <1>1, FusePairs
<1> HIDE DEF f
<1>4. \A x, z : <<x, z>> \in f.label.tv => x \in own[f.src] /\ z \in own[f.dst]
  BY <1>2, <1>3 DEF Within
<1>5. \A x, z : <<x, z>> \in f.label.tp => x \in own[f.src] /\ z \in own[f.dst]
  BY <1>2, <1>3 DEF Within
<1> QED
  BY <1>4, <1>5 DEF Within, f

\* A walk of the copy is that of a walk of the original, or a shortcut from K to
\* the outside of K.
Shortcut(w, own, h, K) ==
  /\ w.src \in K /\ w.dst \notin K
  /\ h[w.src] = h[w.dst]
  /\ own[w.src] = own[w.dst]
  /\ w.label = Still(own[w.src])

Simulated(w, paths, own, h, K) == Mirrored(w, paths, h) \/ Shortcut(w, own, h, K)

\* Shortcuts neither close a loop by themselves nor change the label of one.
LEMMA ShortcutLoops ==
  ASSUME NEW edges \in SUBSET Walk, NEW copies \in SUBSET Walk, NEW own, NEW h, NEW K,
         \A e \in copies : Within(e, own) /\ Simulated(e, Paths(edges), own, h, K),
         \A e \in copies : own[e.src] \in SUBSET Int,
         LoopsSound(edges)
  PROVE  LoopsSound(copies)
<1> DEFINE P == Paths(edges)
           S == {w \in Walk : /\ Within(w, own)
                              /\ own[w.src] \in SUBSET Int
                              /\ Simulated(w, P, own, h, K)}
<1>1. copies \subseteq S
  OBVIOUS
<1>2. ASSUME NEW w \in S, NEW e \in copies, e.src = w.dst PROVE Extend(w, e) \in S
  <2> DEFINE f == Extend(w, e)
  <2>1. /\ w \in Walk /\ e \in Walk /\ Within(w, own) /\ Within(e, own)
        /\ own[w.src] \in SUBSET Int /\ own[e.src] \in SUBSET Int
        /\ Simulated(w, P, own, h, K) /\ Simulated(e, P, own, h, K)
    OBVIOUS
  <2>2. /\ f \in Walk /\ f.src = w.src /\ f.dst = e.dst
        /\ f.label = FuseLabels(w.label, e.label)
    BY <2>1, ExtendFields
  <2>3. Within(f, own)
    BY <1>2, <2>1, ExtendWithin
  <2>4. w.label \in Label /\ e.label \in Label
    BY <2>1, WalkFields
  <2> HIDE DEF f, P, S
  <2>5. ASSUME Mirrored(w, P, h) /\ Mirrored(e, P, h)
        PROVE  Simulated(f, P, own, h, K)
    <3>1. PICK v \in P : v.src = h[w.src] /\ v.dst = h[w.dst] /\ v.label = w.label
      BY <2>5 DEF Mirrored
    <3>2. PICK d \in P : d.src = h[e.src] /\ d.dst = h[e.dst] /\ d.label = e.label
      BY <2>5 DEF Mirrored
    <3>3. v \in Walk /\ d \in Walk
      BY PathsTyped DEF P
    <3>4. Extend(v, d) \in P
      BY <1>2, <3>1, <3>2, PathsJoin DEF P
    <3>5. /\ Extend(v, d).src = v.src /\ Extend(v, d).dst = d.dst
          /\ Extend(v, d).label = FuseLabels(v.label, d.label)
      BY <3>3, ExtendFields
    <3>6. Extend(v, d).src = h[f.src] /\ Extend(v, d).dst = h[f.dst] /\ Extend(v, d).label = f.label
      BY <2>2, <3>1, <3>2, <3>5
    <3> QED
      BY <3>4, <3>6 DEF Mirrored, Simulated
  <2>6. ASSUME Mirrored(w, P, h) /\ Shortcut(e, own, h, K)
        PROVE  Simulated(f, P, own, h, K)
    <3>1. h[e.dst] = h[w.dst] /\ own[e.src] = own[w.dst] /\ e.label = Still(own[w.dst])
      BY <1>2, <2>6 DEF Shortcut
    <3>2. \A x, y : <<x, y>> \in w.label.tv \/ <<x, y>> \in w.label.tp => y \in own[w.dst]
      BY <2>1 DEF Within
    <3>3. own[w.dst] \in SUBSET Int
      BY <2>1, <3>1
    <3>4. FuseLabels(w.label, Still(own[w.dst])) = w.label
      BY <2>4, <3>2, <3>3, StillNeutral
    <3>5. f.label = w.label /\ h[f.src] = h[w.src] /\ h[f.dst] = h[w.dst]
      BY <2>2, <3>1, <3>4
    <3> QED
      BY <2>6, <3>5 DEF Mirrored, Simulated
  <2>7. ASSUME Shortcut(w, own, h, K) /\ Mirrored(e, P, h)
        PROVE  Simulated(f, P, own, h, K)
    <3>1. h[w.src] = h[e.src] /\ own[w.src] = own[e.src] /\ w.label = Still(own[e.src])
      BY <1>2, <2>7 DEF Shortcut
    <3>2. \A x, y : <<x, y>> \in e.label.tv \/ <<x, y>> \in e.label.tp => x \in own[e.src]
      BY <2>1 DEF Within
    <3>3. FuseLabels(Still(own[e.src]), e.label) = e.label
      BY <2>1, <2>4, <3>2, StillNeutral
    <3>4. f.label = e.label /\ h[f.src] = h[e.src] /\ h[f.dst] = h[e.dst]
      BY <2>2, <3>1, <3>3
    <3> QED
      BY <2>7, <3>4 DEF Mirrored, Simulated
  <2>8. ~(Shortcut(w, own, h, K) /\ Shortcut(e, own, h, K))
    BY <1>2 DEF Shortcut
  <2>9. Simulated(f, P, own, h, K)
    BY <2>1, <2>5, <2>6, <2>7, <2>8 DEF Simulated
  <2>10. own[f.src] \in SUBSET Int
    BY <2>1, <2>2
  <2> QED
    BY <2>2, <2>3, <2>9, <2>10 DEF f, S
<1>3. Following(S, copies)
  BY <1>1, <1>2 DEF Following
<1>4. Paths(copies) \subseteq S
  BY <1>3, PathsLeast
<1>5. ASSUME NEW w \in Paths(copies), w.src = w.dst, Idempotent(w.label)
      PROVE  Progresses(w.label)
  <2>1. Mirrored(w, P, h)
    BY <1>4, <1>5 DEF Simulated, Shortcut
  <2>2. PICK v \in P : v.src = h[w.src] /\ v.dst = h[w.dst] /\ v.label = w.label
    BY <2>1 DEF Mirrored
  <2> QED
    BY <1>5, <2>2 DEF LoopsSound
<1> QED
  BY <1>5 DEF LoopsSound

-----------------------------------------------------------------------------
(* Lists. *)

IsSeq(s) == \E S : s \in Seq(S)

LEMMA SeqFacts ==
  ASSUME NEW s, IsSeq(s)
  PROVE  /\ Len(s) \in Nat
         /\ DOMAIN s = 1 .. Len(s)
         /\ s # << >> => 1 \in DOMAIN s /\ Head(s) = s[1]
         /\ s = << >> => DOMAIN s = {}
<1>1. PICK S : s \in Seq(S)
  BY DEF IsSeq
<1> QED
  BY <1>1, SMT

LEMMA TailFacts ==
  ASSUME NEW s, IsSeq(s), s # << >>
  PROVE  /\ IsSeq(Tail(s))
         /\ DOMAIN Tail(s) = 1 .. Len(s) - 1
         /\ \A k \in DOMAIN Tail(s) : k + 1 \in DOMAIN s /\ Tail(s)[k] = s[k + 1]
         /\ \A k \in DOMAIN s : k # 1 => k - 1 \in DOMAIN Tail(s)
<1>1. PICK S : s \in Seq(S)
  BY DEF IsSeq
<1>2. Tail(s) \in Seq(S)
  BY <1>1, SMT
<1> QED
  BY <1>1, <1>2, SMT DEF IsSeq

Pushed(t, x, s) == t = <<x>> \o s

LEMMA ConsFacts ==
  ASSUME NEW s, IsSeq(s), NEW x, NEW t, Pushed(t, x, s)
  PROVE  /\ IsSeq(t)
         /\ DOMAIN t = 1 .. Len(s) + 1
         /\ t[1] = x
         /\ \A k \in DOMAIN s : t[k + 1] = s[k]
<1>1. PICK S : s \in Seq(S)
  BY DEF IsSeq
<1> DEFINE T == S \cup {x}
<1>2. s \in Seq(T) /\ <<x>> \in Seq(T)
  BY <1>1, SMT
<1>3. t \in Seq(T)
  BY <1>2, SMT DEF Pushed
<1> HIDE DEF T
<1> QED
  BY <1>2, <1>3, SMT DEF IsSeq, Pushed

\* Changing the first element of a list.
LEMMA UpdateFacts ==
  ASSUME NEW s, IsSeq(s), s # << >>, NEW t, DOMAIN t = DOMAIN s,
         t = [k \in DOMAIN s |-> t[k]]
  PROVE  /\ IsSeq(t)
         /\ t # << >>
         /\ Len(t) = Len(s)
<1>1. PICK S : s \in Seq(S)
  BY DEF IsSeq
<1> DEFINE T == {t[k] : k \in DOMAIN s}
<1>2. t \in [1 .. Len(s) -> T]
  BY <1>1, SMT
<1>3. t \in Seq(T)
  BY <1>1, <1>2, SMT
<1>4. 1 \in DOMAIN t
  BY <1>1, SMT
<1> QED
  BY <1>1, <1>3, <1>4, SMTT(30) DEF IsSeq

Joined(u, s, t) == u = s \o t

-----------------------------------------------------------------------------
(* Open nodes. *)

\* A sound proof of the goal that is open at some nodes exactly.
Works(prf, goal, nodes) ==
  /\ 0 \in DOMAIN prf
  /\ prf[0].seq = goal
  /\ check(prf)
  /\ OpenNodes(prf) = nodes

\* The search starts from a sound proof that is open at its root.
LEMMA MkWorks ==
  ASSUME NEW goal
  PROVE  Works(mk(goal), goal, {0})
<1>1. /\ DOMAIN mk(goal) = {0}
      /\ mk(goal)[0].seq = goal
      /\ mk(goal)[0].kind = "open"
      /\ mk(goal)[0].succs = << >>
  BY DEF mk, mk_open, Node
<1>2. OpenNodes(mk(goal)) = {0}
  BY <1>1 DEF OpenNodes, is_open
<1>3. DOMAIN Abstract(mk(goal)) = {0} /\ DOMAIN Abstract(mk(goal))[0].subg = {}
  BY <1>1, SMTT(30) DEF Abstract, to_abstract_node, Range
<1>4. Edges(Abstract(mk(goal))) = {}
  BY <1>3, SMT DEF Edges, children
<1>5. Walks({}) = {}
  <2>1. {} \in SUBSET Walk /\ Finite(Paths({}))
    BY NoEdgesNoPaths, FiniteSmall
  <2> QED
    BY <2>1, WalksArePaths, NoEdgesNoPaths
<1>6. check(mk(goal))
  BY <1>4, <1>5 DEF check, GloballySound
<1> QED
  BY <1>1, <1>2, <1>6 DEF Works

=============================================================================
