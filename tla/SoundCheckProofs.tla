---------------------------- MODULE SoundCheckProofs ----------------------------
(***************************************************************************)
(* Proofs about Soundcheck.check_proof for every set of requests that the  *)
(* provers can make, of any size: the two assertions of check_proof hold,  *)
(* the fusion loop leaves no dead node behind, minimisation never changes  *)
(* the answer, and every answer, cached or not, is right.                  *)
(***************************************************************************)
EXTENDS SoundCheck, CyclicProofTheorems

USE Zenon

-----------------------------------------------------------------------------
(* The trace condition when dead ends or a node with one successor go. *)

LEMMA PathsMonotone ==
  ASSUME NEW edges \in SUBSET Walk, NEW more \in SUBSET Walk, edges \subseteq Paths(more)
  PROVE  Paths(edges) \subseteq Paths(more)
<1>1. ASSUME NEW w \in Paths(more), NEW e \in edges, e.src = w.dst
      PROVE  Extend(w, e) \in Paths(more)
  BY <1>1, PathsJoin
<1>2. Following(Paths(more), edges)
  BY <1>1 DEF Following
<1> QED
  BY <1>2, PathsFollowing, PathsLeast

\* Edges into nodes that no edge leaves are on no cycle.
LEMMA DeadEndsIrrelevant ==
  ASSUME NEW edges \in SUBSET Walk, NEW more \in SUBSET Walk, NEW D, NEW init,
         edges \subseteq more,
         \A e \in more : e.src \notin D,
         \A e \in more : e.dst \notin D => e \in edges
  PROVE  SoundPaths(edges, init) <=> SoundPaths(more, init)
<1> DEFINE S == {w \in Walk : w.src \notin D /\ (w.dst \in D \/ w \in Paths(edges))}
<1>1. Paths(edges) \subseteq Paths(more)
  BY PathsFollowing, PathsMonotone DEF Following
<1>2. more \subseteq S
  BY PathsFollowing DEF Following
<1>3. ASSUME NEW w \in S, NEW e \in more, e.src = w.dst PROVE Extend(w, e) \in S
  <2>1. w \in Walk /\ e \in Walk /\ w.src \notin D /\ w \in Paths(edges)
    BY <1>3
  <2>2. Extend(w, e) \in Walk /\ Extend(w, e).src = w.src /\ Extend(w, e).dst = e.dst
    BY <2>1, ExtendFields
  <2>3. e.dst \notin D => Extend(w, e) \in Paths(edges)
    BY <1>3, <2>1, PathsFollowing DEF Following
  <2> QED
    BY <2>1, <2>2, <2>3
<1>4. Following(S, more)
  BY <1>2, <1>3 DEF Following
<1>5. Paths(more) \subseteq S
  BY <1>4, PathsLeast
<1>6. \A n : Reached(edges, init, n) => Reached(more, init, n)
  BY <1>1 DEF Reached
<1>7. \A n : Reached(more, init, n) /\ n \notin D => Reached(edges, init, n)
  BY <1>5 DEF Reached
<1>8. ASSUME SoundPaths(more, init) PROVE SoundPaths(edges, init)
  BY <1>1, <1>6, <1>8 DEF SoundPaths
<1>9. ASSUME SoundPaths(edges, init) PROVE SoundPaths(more, init)
  <2>1. ASSUME NEW w \in Paths(more), w.src = w.dst, Reached(more, init, w.src),
               Idempotent(w.label)
        PROVE  Progresses(w.label)
    <3>1. w.src \notin D /\ w \in Paths(edges)
      BY <1>5, <2>1
    <3> QED
      BY <1>7, <1>9, <2>1, <3>1 DEF SoundPaths
  <2> QED
    BY <2>1 DEF SoundPaths
<1> QED
  BY <1>8, <1>9

\* A loop through an edge d, turned so that it starts after d: if the loop d v is
\* idempotent, so is (v d) (v d), and if that one progresses so does the first.
LEMMA TurnedLoop ==
  ASSUME NEW d \in Label, NEW v \in Label, Idempotent(FuseLabels(d, v))
  PROVE  LET u == FuseLabels(v, d)
             uu == FuseLabels(u, u)
         IN  /\ uu \in Label
             /\ Idempotent(uu)
             /\ Progresses(uu) => Progresses(FuseLabels(d, v))
<1> DEFINE u == FuseLabels(v, d)
           uu == FuseLabels(u, u)
           w == FuseLabels(d, v)
<1>1. u \in Label /\ w \in Label
  BY FusePairs
<1>2. uu \in Label
  BY <1>1, FusePairs
<1>3. FuseLabels(w, w) = w
  BY DEF Idempotent
<1>4. uu = FuseLabels(v, FuseLabels(w, d))
  <2>1. uu = FuseLabels(v, FuseLabels(d, u))
    BY <1>1, FuseAssociative
  <2>2. FuseLabels(d, u) = FuseLabels(w, d)
    BY FuseAssociative
  <2> QED
    BY <2>1, <2>2
<1> DEFINE wd == FuseLabels(w, d)
<1>5. wd \in Label
  BY <1>1, FusePairs
<1>6. FuseLabels(w, wd) = wd
  <2>1. FuseLabels(w, wd) = FuseLabels(FuseLabels(w, w), d)
    BY <1>1, FuseAssociative, ZenonT(60)
  <2> QED
    BY <1>3, <2>1
<1>7. FuseLabels(wd, v) = w
  <2>1. FuseLabels(wd, v) = FuseLabels(w, w)
    BY <1>1, FuseAssociative, ZenonT(60)
  <2> QED
    BY <1>3, <2>1
<1>8. Idempotent(uu)
  <2>1. uu = FuseLabels(v, wd)
    BY <1>4
  <2> HIDE DEF u, uu, w, wd
  <2>2. FuseLabels(FuseLabels(v, wd), uu) = FuseLabels(v, FuseLabels(wd, uu))
    BY <1>2, <1>5, FuseAssociative, ZenonT(60)
  <2>3. FuseLabels(FuseLabels(wd, v), wd) = FuseLabels(wd, FuseLabels(v, wd))
    BY <1>5, FuseAssociative
  <2>4. FuseLabels(wd, uu) = wd
    BY <1>6, <1>7, <2>1, <2>3
  <2> QED
    BY <2>1, <2>2, <2>4 DEF Idempotent
<1>9. ASSUME Progresses(uu) PROVE Progresses(w)
  <2> HIDE DEF u, uu, w, wd
  <2>1. PICK t \in Int : <<t, t>> \in uu.tp
    BY <1>9 DEF Progresses
  <2>2. PICK a \in Int : \/ <<t, a>> \in v.tp /\ <<a, t>> \in wd.tp
                         \/ <<t, a>> \in v.tv /\ <<a, t>> \in wd.tp
                         \/ <<t, a>> \in v.tp /\ <<a, t>> \in wd.tv
    BY <1>4, <1>5, <2>1, FusePairs DEF wd
  <2>3. /\ \A y \in Int : <<y, t>> \in d.tv /\ <<t, a>> \in v.tv => <<y, a>> \in w.tv
        /\ \A y \in Int : (\/ <<y, t>> \in d.tp /\ <<t, a>> \in v.tp
                           \/ <<y, t>> \in d.tv /\ <<t, a>> \in v.tp
                           \/ <<y, t>> \in d.tp /\ <<t, a>> \in v.tv) => <<y, a>> \in w.tp
    BY FusePairs DEF w
  <2>4. /\ <<a, t>> \in wd.tv => \E y \in Int : <<a, y>> \in w.tv /\ <<y, t>> \in d.tv
        /\ <<a, t>> \in wd.tp => \E y \in Int : \/ <<a, y>> \in w.tp /\ <<y, t>> \in d.tp
                                                \/ <<a, y>> \in w.tv /\ <<y, t>> \in d.tp
                                                \/ <<a, y>> \in w.tp /\ <<y, t>> \in d.tv
    BY <1>1, FusePairs DEF wd
  <2>5. \E y \in Int : \/ <<a, y>> \in w.tp /\ <<y, a>> \in w.tp
                       \/ <<a, y>> \in w.tv /\ <<y, a>> \in w.tp
                       \/ <<a, y>> \in w.tp /\ <<y, a>> \in w.tv
    BY <2>2, <2>3, <2>4
  <2>6. <<a, a>> \in FuseLabels(w, w).tp
    BY <1>1, <2>5, FusePairs
  <2> QED
    BY <1>3, <2>6 DEF Progresses
<1> QED
  BY <1>2, <1>8, <1>9

\* What bypassing the node idx makes of the edges, where d is the only edge from
\* idx: the edges into idx are followed by d, and d goes.
Bypassed(edges, d, idx) ==
  {e \in edges : e.src # idx /\ e.dst # idx}
    \cup {Extend(e, d) : e \in {x \in edges : x.dst = idx}}

LEMMA BypassEdges ==
  ASSUME NEW edges \in SUBSET Walk, NEW idx, NEW d \in edges, d.src = idx, d.dst # idx,
         \A e \in edges : e.src = idx => e = d
  PROVE  /\ Bypassed(edges, d, idx) \in SUBSET Walk
         /\ \A e \in Bypassed(edges, d, idx) : e.src # idx /\ e.dst # idx
         /\ \A e \in edges : e.src # idx /\ e.dst # idx => e \in Bypassed(edges, d, idx)
         /\ \A e \in edges : e.dst = idx => Extend(e, d) \in Bypassed(edges, d, idx)
         /\ Bypassed(edges, d, idx) \subseteq Paths(edges)
<1>1. \A e \in edges : /\ Extend(e, d) \in Walk
                       /\ Extend(e, d).src = e.src /\ Extend(e, d).dst = d.dst
  BY ExtendFields
<1>2. \A e \in edges : e.dst = idx => e.src # idx
  OBVIOUS
<1>3. \A e \in edges : e.dst = idx => Extend(e, d) \in Paths(edges)
  BY PathsFollowing DEF Following
<1>4. edges \subseteq Paths(edges)
  BY PathsFollowing DEF Following
<1>5. \A x : x \in Bypassed(edges, d, idx)
               <=> \/ x \in edges /\ x.src # idx /\ x.dst # idx
                   \/ \E e \in edges : e.dst = idx /\ x = Extend(e, d)
  BY DEF Bypassed
<1>6. Bypassed(edges, d, idx) \in SUBSET Walk
  BY <1>1, <1>5, SMT
<1>7. \A e \in Bypassed(edges, d, idx) : e.src # idx /\ e.dst # idx
  BY <1>1, <1>2, <1>5, SMT
<1>8. Bypassed(edges, d, idx) \subseteq Paths(edges)
  BY <1>3, <1>4, <1>5
<1> QED
  BY <1>5, <1>6, <1>7, <1>8

\* The paths between other nodes than idx are those from before, and a path from
\* elsewhere to idx continues along d.
LEMMA BypassPaths ==
  ASSUME NEW edges \in SUBSET Walk, NEW idx, NEW d \in edges, d.src = idx, d.dst # idx,
         \A e \in edges : e.src = idx => e = d
  PROVE  /\ Paths(Bypassed(edges, d, idx)) \subseteq Paths(edges)
         /\ \A w \in Paths(Bypassed(edges, d, idx)) : w.src # idx /\ w.dst # idx
         /\ \A w \in Paths(edges) :
              w.src # idx /\ w.dst # idx => w \in Paths(Bypassed(edges, d, idx))
<1> DEFINE B == Bypassed(edges, d, idx)
           S == {w \in Walk : w.src # idx =>
                   IF w.dst # idx THEN w \in Paths(B) ELSE Extend(w, d) \in Paths(B)}
           T == {w \in Walk : w.src # idx /\ w.dst # idx}
<1>1. /\ B \in SUBSET Walk
      /\ \A e \in B : e.src # idx /\ e.dst # idx
      /\ \A e \in edges : e.src # idx /\ e.dst # idx => e \in B
      /\ \A e \in edges : e.dst = idx => Extend(e, d) \in B
      /\ B \subseteq Paths(edges)
  BY BypassEdges
<1> HIDE DEF B
<1>2. Paths(B) \subseteq Paths(edges)
  BY <1>1, PathsMonotone
<1>3. Following(T, B)
  <2>1. ASSUME NEW w \in T, NEW e \in B PROVE Extend(w, e) \in T
    <3>1. Extend(w, e) \in Walk /\ Extend(w, e).src = w.src /\ Extend(w, e).dst = e.dst
      BY <1>1, ExtendFields
    <3> QED
      BY <1>1, <3>1
  <2> QED
    BY <1>1, <2>1 DEF Following
<1>4. Paths(B) \subseteq T
  BY <1>3, PathsLeast
<1>5. Following(Paths(B), B)
  BY <1>1, PathsFollowing
<1>6. edges \subseteq S
  BY <1>1, <1>5 DEF Following
<1>7. ASSUME NEW w \in S, NEW e \in edges, e.src = w.dst PROVE Extend(w, e) \in S
  <2>1. w \in Walk /\ e \in Walk /\ d \in Walk
    OBVIOUS
  <2>2. Extend(w, e) \in Walk /\ Extend(w, e).src = w.src /\ Extend(w, e).dst = e.dst
    BY <2>1, ExtendFields
  <2>3. CASE w.src # idx /\ w.dst # idx /\ e.dst # idx
    <3>1. w \in Paths(B) /\ e \in B
      BY <1>1, <1>7, <2>3
    <3>2. Extend(w, e) \in Paths(B)
      BY <1>5, <1>7, <3>1 DEF Following
    <3> QED
      BY <2>2, <2>3, <3>2
  <2>4. CASE w.src # idx /\ w.dst # idx /\ e.dst = idx
    <3>1. w \in Paths(B) /\ Extend(e, d) \in B /\ Extend(e, d).src = e.src
      BY <1>1, <2>1, <2>4, ExtendFields
    <3>2. Extend(w, Extend(e, d)) \in Paths(B)
      BY <1>5, <1>7, <3>1 DEF Following
    <3>3. Extend(Extend(w, e), d) \in Paths(B)
      BY <2>1, <3>2, ExtendAssociative
    <3> QED
      BY <2>2, <2>4, <3>3
  <2>5. CASE w.src # idx /\ w.dst = idx
    <3>1. e = d /\ Extend(w, d) \in Paths(B)
      BY <1>7, <2>5
    <3> QED
      BY <2>2, <2>5, <3>1
  <2>6. CASE w.src = idx
    BY <2>2, <2>6
  <2> QED
    BY <2>3, <2>4, <2>5, <2>6
<1>8. Following(S, edges)
  BY <1>6, <1>7 DEF Following
<1>9. Paths(edges) \subseteq S
  BY <1>8, PathsLeast
<1> QED
  BY <1>2, <1>4, <1>9 DEF B

\* A path from idx starts with the edge d.
LEMMA PathsFromBypassed ==
  ASSUME NEW edges \in SUBSET Walk, NEW idx, NEW d \in edges, d.src = idx, d.dst # idx,
         \A e \in edges : e.src = idx => e = d,
         NEW w \in Paths(edges), w.src = idx, w # d
  PROVE  \E v \in Paths(edges) : v.src = d.dst /\ w = Extend(d, v)
<1> DEFINE S == {x \in Walk : x.src = idx =>
                   x = d \/ \E v \in Paths(edges) : v.src = d.dst /\ x = Extend(d, v)}
<1>1. Following(Paths(edges), edges)
  BY PathsFollowing
<1>2. edges \subseteq S
  OBVIOUS
<1>3. ASSUME NEW x \in S, NEW e \in edges, e.src = x.dst PROVE Extend(x, e) \in S
  <2>1. x \in Walk /\ e \in Walk /\ d \in Walk
    OBVIOUS
  <2>2. Extend(x, e) \in Walk /\ Extend(x, e).src = x.src
    BY <2>1, ExtendFields
  <2>3. ASSUME x.src = idx
        PROVE  \E v \in Paths(edges) : v.src = d.dst /\ Extend(x, e) = Extend(d, v)
    <3>1. CASE x = d
      BY <1>1, <1>3, <3>1 DEF Following
    <3>2. ASSUME NEW v \in Paths(edges), v.src = d.dst, x = Extend(d, v)
          PROVE  \E y \in Paths(edges) : y.src = d.dst /\ Extend(x, e) = Extend(d, y)
      <4>1. v \in Walk
        BY PathsTyped
      <4>2. x.dst = v.dst /\ Extend(v, e).src = v.src
        BY <2>1, <3>2, <4>1, ExtendFields
      <4>3. Extend(v, e) \in Paths(edges)
        BY <1>1, <1>3, <4>2 DEF Following
      <4>4. Extend(x, e) = Extend(d, Extend(v, e))
        BY <2>1, <3>2, <4>1, ExtendAssociative, ZenonT(60)
      <4> QED
        BY <3>2, <4>2, <4>3, <4>4
    <3> QED
      BY <2>3, <3>1, <3>2
  <2> QED
    BY <2>2, <2>3
<1>4. Following(S, edges)
  BY <1>2, <1>3 DEF Following
<1>5. w \in S
  BY <1>4, PathsLeast
<1> QED
  BY <1>5

\* Bypassing a node other than the initial one keeps the trace condition: every
\* loop through the node is one that is turned to start after it.
LEMMA BypassSound ==
  ASSUME NEW edges \in SUBSET Walk, NEW idx, NEW d \in edges, d.src = idx, d.dst # idx,
         \A e \in edges : e.src = idx => e = d,
         NEW init, init # idx
  PROVE  SoundPaths(edges, init) <=> SoundPaths(Bypassed(edges, d, idx), init)
<1> DEFINE B == Bypassed(edges, d, idx)
<1>1. /\ Paths(B) \subseteq Paths(edges)
      /\ \A w \in Paths(B) : w.src # idx /\ w.dst # idx
      /\ \A w \in Paths(edges) : w.src # idx /\ w.dst # idx => w \in Paths(B)
  BY BypassPaths, SMT
<1>2. d \in Paths(edges)
  BY PathsFollowing DEF Following
<1> HIDE DEF B
<1>3. \A n : Reached(B, init, n) => Reached(edges, init, n)
  BY <1>1 DEF Reached
<1>4. \A n : n # idx /\ Reached(edges, init, n) => Reached(B, init, n)
  BY <1>1 DEF Reached
<1>5. ASSUME SoundPaths(edges, init) PROVE SoundPaths(B, init)
  BY <1>1, <1>3, <1>5 DEF SoundPaths
<1>6. ASSUME SoundPaths(B, init),
             NEW w \in Paths(edges), w.src = w.dst, Reached(edges, init, w.src),
             Idempotent(w.label)
      PROVE  Progresses(w.label)
  <2>1. CASE w.src # idx
    BY <1>1, <1>4, <1>6, <2>1 DEF SoundPaths
  <2>2. CASE w.src = idx
    <3>1. PICK v \in Paths(edges) : v.src = d.dst /\ w = Extend(d, v)
      <4>1. w # d
        BY <1>6
      <4> QED
        BY <2>2, <4>1, PathsFromBypassed, SMT
    <3>2. d \in Walk /\ v \in Walk /\ d.label \in Label /\ v.label \in Label
      BY PathsTyped, WalkFields
    <3>3. w.dst = v.dst /\ w.label = FuseLabels(d.label, v.label)
      BY <3>1, <3>2, ExtendFields
    <3> DEFINE u == Extend(v, d)
               uu == Extend(u, u)
    <3>4. u \in Paths(edges)
      BY <1>2, <1>6, <2>2, <3>3, PathsJoin
    <3>5. /\ u \in Walk /\ u.src = d.dst /\ u.dst = d.dst
          /\ u.label = FuseLabels(v.label, d.label)
      BY <3>1, <3>2, ExtendFields
    <3> HIDE DEF u
    <3>6. uu \in Paths(edges)
      BY <3>4, <3>5, PathsJoin
    <3>7. /\ uu.src = d.dst /\ uu.dst = d.dst
          /\ uu.label = FuseLabels(u.label, u.label)
      BY <3>5, ExtendFields
    <3> HIDE DEF uu
    <3>8. Idempotent(FuseLabels(d.label, v.label))
      BY <1>6, <3>3
    <3>9. Idempotent(uu.label) /\ (Progresses(uu.label) => Progresses(w.label))
      <4>1. LET a == FuseLabels(v.label, d.label)
                aa == FuseLabels(a, a)
            IN  Idempotent(aa) /\ (Progresses(aa) => Progresses(FuseLabels(d.label, v.label)))
        BY <3>2, <3>8, TurnedLoop
      <4> QED
        BY <4>1, <3>3, <3>5, <3>7
    <3>10. uu \in Paths(B)
      BY <1>1, <3>6, <3>7
    <3>11. Reached(B, init, d.dst)
      <4>1. PICK x \in Paths(edges) : x.src = init /\ x.dst = idx
        BY <1>6, <2>2 DEF Reached
      <4>2. Extend(x, d) \in Paths(edges)
        BY <1>2, <4>1, PathsJoin
      <4>3. x \in Walk
        BY PathsTyped
      <4>4. Extend(x, d).src = init /\ Extend(x, d).dst = d.dst
        BY <3>2, <4>1, <4>3, ExtendFields
      <4> QED
        BY <1>4, <4>2, <4>4 DEF Reached
    <3>12. Progresses(uu.label)
      BY <1>6, <3>7, <3>9, <3>10, <3>11 DEF SoundPaths
    <3> QED
      BY <3>9, <3>12
  <2> QED
    BY <2>1, <2>2
<1> QED
  BY <1>5, <1>6 DEF SoundPaths, B

-----------------------------------------------------------------------------
(* The minimiser. *)

\* The loops of the minimiser take the least index of a set of candidates
\* (Map.find_map), and there is one.
LEMMA MinIsMember ==
  ASSUME NEW S, S \subseteq Nat, S # {}
  PROVE  Min(S) \in S
<1>1. \E x \in S : \A y \in S : x =< y
  BY LeastNatural
<1> QED
  BY <1>1 DEF Min

\* The pairs of a composition start where its first operand starts and end where
\* its second operand ends.
LEMMA ComposeProjections ==
  ASSUME NEW t1, NEW t2, NEW p \in compose(t1, t2)
  PROVE  /\ \E a \in t1 : p[1] = a[1]
         /\ \E b \in t2 : p[2] = b[2]
BY SMT DEF compose

LEMMA ComposeMonotone ==
  ASSUME NEW s1, NEW s2, NEW t1, NEW t2, s1 \subseteq t1, s2 \subseteq t2
  PROVE  compose(s1, s2) \subseteq compose(t1, t2)
BY DEF compose

\* What valid asks of the premises.
PremisesValid(p) ==
  \A n \in DOMAIN p : \A i \in children(p, n) : valid_premise(p, n, i)

LEMMA ValidIs ==
  ASSUME NEW p, NEW init
  PROVE  valid(p, init) <=> init \in DOMAIN p /\ PremisesValid(p)
BY DEF valid, PremisesValid

\* remove_dead_nodes: removing a node and the edges to it keeps the premises valid.
LEMMA RemoveDeadNodeValid ==
  ASSUME NEW p, PremisesValid(p), NEW idx \in DOMAIN p
  PROVE  PremisesValid(remove_dead_node(p, idx))
<1> DEFINE q == remove_dead_node(p, idx)
<1>1. DOMAIN q = DOMAIN p \ {idx}
  BY DEF remove_dead_node
<1>3. ASSUME NEW n \in DOMAIN q, NEW i \in children(q, n)
      PROVE  valid_premise(q, n, i)
  <2>1. /\ q[n].tags = p[n].tags
        /\ children(q, n) = children(p, n) \ {idx}
        /\ q[n].subg[i] = p[n].subg[i]
    BY <1>1, <1>3 DEF remove_dead_node, children, Restrict
  <2>2. valid_premise(p, n, i)
    BY <1>1, <1>3, <2>1 DEF PremisesValid
  <2>3. i \in DOMAIN q /\ q[i].tags = p[i].tags
    BY <1>1, <2>1, <2>2, <1>3 DEF valid_premise, remove_dead_node
  <2> QED
    BY <2>1, <2>2, <2>3 DEF valid_premise
<1> QED
  BY <1>3 DEF PremisesValid

\* The label of two adjacent valid edges is valid for the edge that replaces them.
LEMMA FuseLabelsValid ==
  ASSUME NEW a, NEW b, a.tp \subseteq a.tv, b.tp \subseteq b.tv
  PROVE  LET l == FuseLabels(a, b) IN
         /\ l.tp \subseteq l.tv
         /\ {p[1] : p \in l.tv} \subseteq {p[1] : p \in a.tv}
         /\ {p[2] : p \in l.tv} \subseteq {p[2] : p \in b.tv}
<1> DEFINE l == FuseLabels(a, b)
<1>1. /\ l.tv = compose(a.tv, b.tv)
      /\ l.tp = compose(a.tp, b.tp) \cup compose(a.tv, b.tp) \cup compose(a.tp, b.tv)
  BY DEF FuseLabels
<1>2. /\ compose(a.tp, b.tp) \subseteq compose(a.tv, b.tv)
      /\ compose(a.tv, b.tp) \subseteq compose(a.tv, b.tv)
      /\ compose(a.tp, b.tv) \subseteq compose(a.tv, b.tv)
  BY ComposeMonotone
<1>3. \A p \in compose(a.tv, b.tv) : (\E x \in a.tv : p[1] = x[1]) /\ (\E y \in b.tv : p[2] = y[2])
  BY ComposeProjections, SMT
<1> HIDE DEF l
<1> QED
  BY <1>1, <1>2, <1>3, SMT DEF l

\* A single node has one child, and that is another node.
LEMMA SingleChild ==
  ASSUME NEW p, NEW idx, is_single_node(p, idx)
  PROVE  only_child(p, idx) \in children(p, idx) \ {idx}
BY DEF is_single_node, only_child

\* What fuse_node does to a node n that stays: in the graph q, the edges from n
\* to idx have become an edge to g.
Redirected(p, q, idx, g, n) ==
  /\ q[n].tags = p[n].tags
  /\ idx \notin children(p, n) => q[n].subg = p[n].subg
  /\ idx \in children(p, n) =>
       /\ children(q, n) = (children(p, n) \ {idx}) \cup {g}
       /\ q[n].subg[g] = FuseLabels(p[n].subg[idx], p[idx].subg[g])
       /\ \A c \in children(p, n) \ {idx, g} : q[n].subg[c] = p[n].subg[c]

\* fuse_node redirects the edges of every node that stays.
LEMMA FuseNodeRedirects ==
  ASSUME NEW p, NEW idx, NEW n \in DOMAIN p \ {idx}
  PROVE  Redirected(p, fuse_node(p, idx), idx, only_child(p, idx), n)
<1> DEFINE q == fuse_node(p, idx)
           g == only_child(p, idx)
<1>1. q[n].tags = p[n].tags
  BY DEF fuse_node
<1>2. ASSUME idx \in children(p, n)
      PROVE  q[n].subg
               = [c \in (children(p, n) \ {idx}) \cup {g} |->
                    IF c = g THEN FuseLabels(p[n].subg[idx], p[idx].subg[g])
                             ELSE p[n].subg[c]]
  BY <1>2 DEF fuse_node, in_children
<1>3. idx \notin children(p, n) => q[n].subg = p[n].subg
  BY DEF fuse_node, in_children
<1> HIDE DEF q, g
<1>4. Redirected(p, q, idx, g, n)
  BY <1>1, <1>2, <1>3 DEF children, Redirected
<1> QED
  BY <1>4 DEF q, g

\* fuse_single_nodes: bypassing a single node keeps the premises valid.
LEMMA FuseNodeValid ==
  ASSUME NEW p, PremisesValid(p), NEW idx \in DOMAIN p, is_single_node(p, idx)
  PROVE  PremisesValid(fuse_node(p, idx))
<1> DEFINE q == fuse_node(p, idx)
           g == only_child(p, idx)
<1>1. DOMAIN q = DOMAIN p \ {idx}
  BY DEF fuse_node
<1>2. g \in children(p, idx) /\ g # idx
  BY SingleChild
<1>3. valid_premise(p, idx, g)
  BY <1>2 DEF PremisesValid
<1>4. ASSUME NEW n \in DOMAIN q, NEW i \in children(q, n)
      PROVE  valid_premise(q, n, i)
  <2>1. n \in DOMAIN p \ {idx}
    BY <1>1
  <2>2. \A j \in DOMAIN p \ {idx} : Redirected(p, q, idx, g, j)
    BY FuseNodeRedirects
  <2>3. \A j \in DOMAIN p \ {idx} : q[j].tags = p[j].tags
    BY <2>2 DEF Redirected
  <2> HIDE DEF q, g
  <2>4. CASE idx \in children(p, n) /\ i = g
    <3>1. valid_premise(p, n, idx)
      BY <2>1, <2>4 DEF PremisesValid
    <3>2. q[n].subg[i] = FuseLabels(p[n].subg[idx], p[idx].subg[g])
      BY <2>1, <2>2, <2>4 DEF Redirected
    <3>3. /\ FuseLabels(p[n].subg[idx], p[idx].subg[g]).tp
               \subseteq FuseLabels(p[n].subg[idx], p[idx].subg[g]).tv
          /\ {x[1] : x \in FuseLabels(p[n].subg[idx], p[idx].subg[g]).tv} \subseteq p[n].tags
          /\ {x[2] : x \in FuseLabels(p[n].subg[idx], p[idx].subg[g]).tv} \subseteq p[g].tags
      BY <1>3, <3>1, FuseLabelsValid DEF valid_premise
    <3>4. g \in DOMAIN q
      BY <1>1, <1>2, <1>3 DEF valid_premise
    <3> QED
      BY <1>1, <2>1, <2>3, <2>4, <3>2, <3>3, <3>4, SMTT(20) DEF valid_premise
  <2>5. CASE ~(idx \in children(p, n) /\ i = g)
    <3>1. i \in children(p, n) /\ i # idx /\ q[n].subg[i] = p[n].subg[i]
      BY <1>2, <2>1, <2>2, <2>5, <1>4, SMT DEF children, Redirected
    <3>2. valid_premise(p, n, i)
      BY <2>1, <3>1 DEF PremisesValid
    <3> QED
      BY <1>1, <2>1, <2>3, <3>1, <3>2 DEF valid_premise
  <2> QED
    BY <2>4, <2>5
<1> QED
  BY <1>4 DEF PremisesValid

\* fuse_single_nodes makes no leaf out of a node that has premises.
LEMMA FuseNodeNoLeaf ==
  ASSUME NEW p, NEW idx, NEW n \in DOMAIN p \ {idx}, ~is_leaf(p, n)
  PROVE  ~is_leaf(fuse_node(p, idx), n)
<1> DEFINE q == fuse_node(p, idx)
           g == only_child(p, idx)
<1>1. Redirected(p, q, idx, g, n)
  BY FuseNodeRedirects
<1> HIDE DEF q, g
<1>2. ~is_leaf(q, n)
  BY <1>1 DEF is_leaf, children, Redirected
<1> QED
  BY <1>2 DEF q
-----------------------------------------------------------------------------
(* Minimisation and the trace condition *)

\* remove_dead_nodes: a leaf is on no path that goes on forever.
LEMMA RemoveDeadNodeSound ==
  ASSUME NEW g, Graph(g), NEW idx \in DOMAIN g, is_leaf(g, idx), NEW init
  PROVE  LET q == remove_dead_node(g, idx)
         IN  Graph(q) /\ (GloballySound(q, init) <=> GloballySound(g, init))
<1> DEFINE q == remove_dead_node(g, idx)
<1>1. DOMAIN q = DOMAIN g \ {idx}
  BY DEF remove_dead_node
<1>2. ASSUME NEW n \in DOMAIN q
      PROVE  /\ q[n].tags = g[n].tags
             /\ children(q, n) = children(g, n) \ {idx}
             /\ \A i \in children(q, n) : q[n].subg[i] = g[n].subg[i]
  BY <1>1, <1>2 DEF remove_dead_node, children, Restrict
<1> HIDE DEF q
<1>3. Graph(q)
  <2>1. Finite(DOMAIN q) /\ DOMAIN q \in SUBSET Int
    <3>1. Finite(DOMAIN g) /\ DOMAIN g \in SUBSET Int
      BY DEF Graph
    <3>2. Finite(DOMAIN g \ {idx})
      BY <3>1, FiniteSubset
    <3> QED
      BY <1>1, <3>1, <3>2
  <2>2. \A n \in DOMAIN q : q[n].tags \in SUBSET Int /\ Finite(q[n].tags)
    BY <1>1, <1>2 DEF Graph
  <2>3. ASSUME NEW n \in DOMAIN q, NEW i \in children(q, n)
        PROVE  /\ i \in DOMAIN q
               /\ q[n].subg[i] \in Label
               /\ q[n].subg[i].tv \subseteq q[n].tags \X q[i].tags
               /\ q[n].subg[i].tp \subseteq q[n].tags \X q[i].tags
    <3>1. n \in DOMAIN g /\ i \in children(g, n) \ {idx}
      BY <1>1, <1>2
    <3>2. /\ i \in DOMAIN g
          /\ g[n].subg[i] \in Label
          /\ g[n].subg[i].tv \subseteq g[n].tags \X g[i].tags
          /\ g[n].subg[i].tp \subseteq g[n].tags \X g[i].tags
      BY <3>1 DEF Graph
    <3>3. i \in DOMAIN q
      BY <1>1, <3>1, <3>2
    <3> QED
      BY <1>2, <3>2, <3>3
  <2> QED
    BY <2>1, <2>2, <2>3 DEF Graph
<1>4. ASSUME NEW n \in DOMAIN q, NEW i \in children(q, n)
      PROVE  Edge(q, n, i) = Edge(g, n, i)
  BY <1>2 DEF Edge
<1>5. /\ \A e \in Edges(q) : e \in Edges(g)
      /\ \A e \in Edges(g) : e.src # idx
      /\ \A e \in Edges(g) : e.dst # idx => e \in Edges(q)
  <2>1. ASSUME NEW e \in Edges(q) PROVE e \in Edges(g)
    <3>1. PICK n \in DOMAIN q : \E i \in children(q, n) : e = Edge(q, n, i)
      BY EdgesAre
    <3> QED
      BY <1>1, <1>2, <1>4, <3>1, EdgesAre, SMT
  <2>2. ASSUME NEW e \in Edges(g) PROVE e.src # idx /\ (e.dst # idx => e \in Edges(q))
    <3>1. PICK n \in DOMAIN g : \E i \in children(g, n) : e = Edge(g, n, i)
      BY EdgesAre
    <3>2. PICK i \in children(g, n) : e = Edge(g, n, i)
      BY <3>1
    <3>3. n # idx
      BY DEF is_leaf
    <3>4. e.src = n /\ e.dst = i
      BY <3>2 DEF Edge
    <3>5. n \in DOMAIN q /\ (i # idx => i \in children(q, n))
      BY <1>1, <1>2, <3>3
    <3> QED
      BY <1>4, <3>2, <3>3, <3>4, <3>5, EdgesAre
  <2> QED
    BY <2>1, <2>2
<1>6. SoundPaths(Edges(q), init) <=> SoundPaths(Edges(g), init)
  <2>1. Edges(q) \in SUBSET Walk /\ Edges(g) \in SUBSET Walk
    BY <1>3, SoundByPaths
  <2>2. Edges(q) \subseteq Edges(g)
    BY <1>5
  <2>3. \A e \in Edges(g) : e.src \notin {idx} /\ (e.dst \notin {idx} => e \in Edges(q))
    BY <1>5
  <2> QED
    BY <2>1, <2>2, <2>3, DeadEndsIrrelevant
<1> QED
  BY <1>3, <1>6, SoundByPaths DEF q

\* fuse_single_nodes: the graph that bypasses a single node.
LEMMA FuseNodeEdges ==
  ASSUME NEW g, Graph(g), NEW init, NEW idx \in SingleNodes(g, init)
  PROVE  LET q == fuse_node(g, idx)
             c == only_child(g, idx)
         IN  /\ DOMAIN q = DOMAIN g \ {idx}
             /\ children(g, idx) = {c} /\ c # idx /\ c \in DOMAIN g
             /\ \A n \in DOMAIN q :
                  /\ Redirected(g, q, idx, c, n)
                  /\ idx \in children(g, n) => c \notin children(g, n)
<1> DEFINE q == fuse_node(g, idx)
           c == only_child(g, idx)
<1>1. DOMAIN q = DOMAIN g \ {idx}
  BY DEF fuse_node
<1>2. idx \in DOMAIN g /\ is_single_node(g, idx) /\ ~fathers_grandchild(g, idx)
  BY DEF SingleNodes
<1>3. c \in children(g, idx) /\ c # idx
  BY <1>2, SingleChild
<1>4. children(g, idx) = {c}
  BY <1>2, <1>3 DEF is_single_node
<1>5. c \in DOMAIN g
  BY <1>2, <1>3 DEF Graph
<1>6. \A n \in DOMAIN q : Redirected(g, q, idx, c, n)
  BY <1>1, FuseNodeRedirects
<1>7. \A n \in DOMAIN q : idx \in children(g, n) => c \notin children(g, n)
  BY <1>1, <1>2, <1>3 DEF fathers_grandchild, in_children
<1> HIDE DEF q, c
<1> QED
  BY <1>1, <1>3, <1>4, <1>5, <1>6, <1>7, SMT DEF q, c

\* Fusing a single node into the edges that lead to it keeps a graph, and its
\* paths that go on forever: the edge out of the node is turned into one of its
\* predecessors.
LEMMA FuseNodeSound ==
  ASSUME NEW g, Graph(g), NEW init, NEW idx \in SingleNodes(g, init)
  PROVE  LET q == fuse_node(g, idx)
         IN  Graph(q) /\ (GloballySound(q, init) <=> GloballySound(g, init))
<1> DEFINE q == fuse_node(g, idx)
           c == only_child(g, idx)
           d == Edge(g, idx, c)
           Into(n) == idx \in children(g, n)
<1>1. /\ DOMAIN q = DOMAIN g \ {idx}
      /\ children(g, idx) = {c} /\ c # idx /\ c \in DOMAIN g
  BY FuseNodeEdges
<1>2. \A n \in DOMAIN q :
        /\ q[n].tags = g[n].tags
        /\ ~Into(n) => q[n].subg = g[n].subg
        /\ Into(n) =>
             /\ c \notin children(g, n)
             /\ children(q, n) = (children(g, n) \ {idx}) \cup {c}
             /\ q[n].subg[c] = FuseLabels(g[n].subg[idx], g[idx].subg[c])
             /\ \A i \in children(g, n) \ {idx} : q[n].subg[i] = g[n].subg[i]
  <2>1. \A n \in DOMAIN q :
          /\ Redirected(g, q, idx, c, n)
          /\ idx \in children(g, n) => c \notin children(g, n)
    BY FuseNodeEdges
  <2> HIDE DEF q, c, d
  <2> QED
    BY <2>1 DEF Redirected
<1>3. idx \in DOMAIN g /\ idx # init
  BY DEF SingleNodes
<1> HIDE DEF q, c, d
<1>4. \A n \in DOMAIN q : ~Into(n) => children(q, n) = children(g, n)
  BY <1>2 DEF children
<1>5. ASSUME NEW n \in DOMAIN g, NEW i \in children(g, n)
      PROVE  /\ i \in DOMAIN g
             /\ g[n].subg[i] \in Label
             /\ g[n].subg[i].tv \subseteq g[n].tags \X g[i].tags
             /\ g[n].subg[i].tp \subseteq g[n].tags \X g[i].tags
  BY <1>5 DEF Graph
\* An edge of q is an edge of g that does not lead to idx, or a fused one.
<1>6. ASSUME NEW n \in DOMAIN q, NEW i \in children(q, n)
      PROVE  \/ /\ i \in children(g, n) \ {idx}
                /\ q[n].subg[i] = g[n].subg[i]
             \/ /\ Into(n) /\ i = c
                /\ q[n].subg[i] = FuseLabels(g[n].subg[idx], g[idx].subg[c])
  <2>1. CASE Into(n)
    BY <1>2, <2>1
  <2>2. CASE ~Into(n)
    BY <1>2, <1>4, <2>2, SMT
  <2> QED
    BY <2>1, <2>2
<1>7. ASSUME NEW n \in DOMAIN q, Into(n)
      PROVE  LET l == FuseLabels(g[n].subg[idx], g[idx].subg[c])
             IN  /\ l \in Label
                 /\ l.tv \subseteq g[n].tags \X g[c].tags
                 /\ l.tp \subseteq g[n].tags \X g[c].tags
  <2> DEFINE l == FuseLabels(g[n].subg[idx], g[idx].subg[c])
  <2>1. n \in DOMAIN g /\ idx \in children(g, n) /\ c \in children(g, idx)
    BY <1>1, <1>7
  <2>2. /\ g[n].subg[idx] \in Label /\ g[idx].subg[c] \in Label
        /\ g[n].subg[idx].tv \subseteq g[n].tags \X g[idx].tags
        /\ g[n].subg[idx].tp \subseteq g[n].tags \X g[idx].tags
        /\ g[idx].subg[c].tv \subseteq g[idx].tags \X g[c].tags
        /\ g[idx].subg[c].tp \subseteq g[idx].tags \X g[c].tags
    BY <1>3, <1>5, <2>1
  <2>3. l \in Label
    BY <2>2, FusePairs
  <2>4. ASSUME NEW x, NEW z, <<x, z>> \in l.tv \/ <<x, z>> \in l.tp
        PROVE  <<x, z>> \in g[n].tags \X g[c].tags
    <3>1. \E y \in Int : /\ <<x, y>> \in g[n].subg[idx].tv \/ <<x, y>> \in g[n].subg[idx].tp
                         /\ <<y, z>> \in g[idx].subg[c].tv \/ <<y, z>> \in g[idx].subg[c].tp
      BY <2>2, <2>4, FusePairs
    <3> QED
      BY <2>2, <3>1
  <2> HIDE DEF l
  <2>5. l.tv \subseteq g[n].tags \X g[c].tags /\ l.tp \subseteq g[n].tags \X g[c].tags
    BY <2>3, <2>4, SMT DEF Label, TagPair
  <2> QED
    BY <2>3, <2>5 DEF l
<1>8. Graph(q)
  <2>1. Finite(DOMAIN q) /\ DOMAIN q \in SUBSET Int
    <3>1. Finite(DOMAIN g) /\ DOMAIN g \in SUBSET Int
      BY DEF Graph
    <3>2. Finite(DOMAIN g \ {idx})
      BY <3>1, FiniteSubset
    <3> QED
      BY <1>1, <3>1, <3>2
  <2>2. \A n \in DOMAIN q : q[n].tags \in SUBSET Int /\ Finite(q[n].tags)
    BY <1>1, <1>2, SMTT(30) DEF Graph
  <2>3. ASSUME NEW n \in DOMAIN q, NEW i \in children(q, n)
        PROVE  /\ i \in DOMAIN q
               /\ q[n].subg[i] \in Label
               /\ q[n].subg[i].tv \subseteq q[n].tags \X q[i].tags
               /\ q[n].subg[i].tp \subseteq q[n].tags \X q[i].tags
    <3>1. n \in DOMAIN g
      BY <1>1
    <3>2. CASE i \in children(g, n) \ {idx} /\ q[n].subg[i] = g[n].subg[i]
      <4>1. i \in DOMAIN q
        BY <1>1, <1>5, <3>1, <3>2, SMTT(30)
      <4> QED
        BY <1>2, <1>5, <3>1, <3>2, <4>1, SMTT(30)
    <3>3. CASE /\ Into(n) /\ i = c
               /\ q[n].subg[i] = FuseLabels(g[n].subg[idx], g[idx].subg[c])
      <4>1. i \in DOMAIN q
        BY <1>1, <3>3
      <4> QED
        BY <1>2, <1>7, <3>3, <4>1, SMTT(30)
    <3> QED
      BY <1>6, <3>2, <3>3, SMT
  <2> QED
    BY <2>1, <2>2, <2>3 DEF Graph
<1>9. d \in Edges(g) /\ d.src = idx /\ d.dst = c
  BY <1>1, <1>3, EdgesAre DEF d, Edge
<1>10. \A e \in Edges(g) : e.src = idx => e = d
  <2>1. SUFFICES ASSUME NEW e \in Edges(g), e.src = idx PROVE e = d
    OBVIOUS
  <2>2. PICK n \in DOMAIN g : \E i \in children(g, n) : e = Edge(g, n, i)
    BY EdgesAre
  <2> QED
    BY <1>1, <2>1, <2>2, SMT DEF Edge, d
<1>11. Edges(q) = Bypassed(Edges(g), d, idx)
  <2>1. ASSUME NEW n \in DOMAIN q, Into(n)
        PROVE  Edge(q, n, c) = Extend(Edge(g, n, idx), d)
    BY <1>2, <2>1 DEF Edge, Extend, d
  <2>2. ASSUME NEW e \in Edges(q) PROVE e \in Bypassed(Edges(g), d, idx)
    <3>1. PICK n \in DOMAIN q : \E i \in children(q, n) : e = Edge(q, n, i)
      BY EdgesAre
    <3>2. PICK i \in children(q, n) : e = Edge(q, n, i)
      BY <3>1
    <3>3. n \in DOMAIN g /\ n # idx
      BY <1>1
    <3>4. CASE i \in children(g, n) \ {idx} /\ q[n].subg[i] = g[n].subg[i]
      <4>1. e = Edge(g, n, i) /\ e.src = n /\ e.dst = i
        BY <3>2, <3>4 DEF Edge
      <4>2. e \in Edges(g)
        BY <3>3, <3>4, <4>1, EdgesAre, SMT
      <4> QED
        BY <3>3, <3>4, <4>1, <4>2, SMTT(30) DEF Bypassed
    <3>5. CASE Into(n) /\ i = c
      <4>1. e = Extend(Edge(g, n, idx), d)
        BY <2>1, <3>2, <3>5, SMT
      <4>2. /\ Edge(g, n, idx) \in Edges(g)
            /\ Edge(g, n, idx).src = n /\ Edge(g, n, idx).dst = idx
        BY <3>3, <3>5, EdgesAre, SMT DEF Edge
      <4> QED
        BY <3>3, <4>1, <4>2 DEF Bypassed
    <3> QED
      BY <1>6, <3>4, <3>5
  <2>3. ASSUME NEW e \in Edges(g), e.src # idx
        PROVE  /\ e.dst # idx => e \in Edges(q)
               /\ e.dst = idx => Extend(e, d) \in Edges(q)
    <3>1. PICK n \in DOMAIN g : \E i \in children(g, n) : e = Edge(g, n, i)
      BY EdgesAre
    <3>2. PICK i \in children(g, n) : e = Edge(g, n, i)
      BY <3>1
    <3>3. e.src = n /\ e.dst = i /\ n \in DOMAIN q
      BY <1>1, <2>3, <3>2 DEF Edge
    <3>4. CASE i # idx
      <4>1. i \in children(q, n) /\ q[n].subg[i] = g[n].subg[i]
        BY <1>2, <1>4, <3>3, <3>4, SMT
      <4>2. e = Edge(q, n, i)
        BY <3>2, <4>1 DEF Edge
      <4> QED
        BY <3>3, <3>4, <4>1, <4>2, EdgesAre, SMTT(30)
    <3>5. CASE i = idx
      <4>1. Into(n) /\ c \in children(q, n)
        BY <1>2, <3>3, <3>5, SMT
      <4>2. Extend(e, d) = Edge(q, n, c)
        BY <2>1, <3>2, <3>3, <3>5, <4>1
      <4> QED
        BY <3>3, <3>5, <4>1, <4>2, EdgesAre
    <3> QED
      BY <3>4, <3>5
  <2> QED
    BY <1>1, <1>9, <1>10, <2>2, <2>3 DEF Bypassed
<1>12. SoundPaths(Edges(g), init) <=> SoundPaths(Bypassed(Edges(g), d, idx), init)
  <2>1. Edges(g) \in SUBSET Walk
    BY SoundByPaths
  <2> QED
    BY <1>1, <1>3, <1>9, <1>10, <2>1, BypassSound
<1> QED
  BY <1>8, <1>11, <1>12, SoundByPaths DEF q

-----------------------------------------------------------------------------
(* The inductive invariant.  AssertionsHold is not inductive: that the      *)
(* second validation succeeds follows from the graph being valid for the    *)
(* root 0 throughout minimisation.  That 0 is the initial node of every     *)
(* request matters twice: remove_dead_nodes spares index 0, and entries of  *)
(* the cache do not record their initial node.                              *)

Minimising == pc \in {"dead", "fuse", "lookup"}

\* Entries of the cache do not record their initial node; all are answers for 0.
CacheRootedAtZero ==
  \A entry \in ccache : entry.answer = GloballySound(entry.prf, 0)

SInv ==
  /\ TypeOK
  /\ AssertionsHold
  /\ req \in Requests
  /\ Minimising => DOMAIN work \subseteq Nat /\ valid(work, 0)
  /\ NoDeadNodesAfterFusion
  /\ CacheRootedAtZero

\* The invariant holds before the first call.
LEMMA InitSInv ==
  ASSUME RootedClient, Init
  PROVE  SInv
<1>1. req \in Requests
  BY RequestsAssumption DEF Init
<1>2. TypeOK
  BY <1>1, MaxCallsAssumption, SMT DEF RootedClient, Init, TypeOK
<1> QED
  BY <1>1, <1>2
     DEF Init, SInv, AssertionsHold, Minimising, NoDeadNodesAfterFusion, CacheRootedAtZero

\* The iterations of the two loops keep the graph valid.
LEMMA MinimiserSteps ==
  ASSUME RootedClient, SInv, RemoveDeadNode \/ FuseSingleNode
  PROVE  /\ DOMAIN work' \subseteq DOMAIN work
         /\ valid(work', 0)
         /\ FuseSingleNode => DeadNodes(work') = {}
<1>1. CASE RemoveDeadNode
  <2>1. DeadNodes(work) \subseteq Nat /\ valid(work, 0)
    BY <1>1 DEF RemoveDeadNode, SInv, Minimising, DeadNodes
  <2>2. Min(DeadNodes(work)) \in DOMAIN work \ {0}
    BY <1>1, <2>1, MinIsMember, SMT DEF RemoveDeadNode, DeadNodes
  <2>3. valid(work', 0)
    <3>1. 0 \in DOMAIN work /\ PremisesValid(work)
      BY <2>1, ValidIs
    <3>2. work' = remove_dead_node(work, Min(DeadNodes(work)))
      BY <1>1 DEF RemoveDeadNode
    <3>3. 0 \in DOMAIN work'
      BY <2>2, <3>1, <3>2 DEF remove_dead_node
    <3> QED
      BY <2>2, <3>1, <3>2, <3>3, RemoveDeadNodeValid, ValidIs
  <2>4. DOMAIN work' \subseteq DOMAIN work
    BY <1>1 DEF RemoveDeadNode, remove_dead_node
  <2>5. ~FuseSingleNode
    BY <1>1 DEF RemoveDeadNode, FuseSingleNode
  <2> QED
    BY <2>3, <2>4, <2>5
<1>2. CASE FuseSingleNode
  <2> DEFINE idx == Min(SingleNodes(work, req.init))
  <2>1. req.init = 0 /\ DOMAIN work \subseteq Nat /\ valid(work, 0) /\ DeadNodes(work) = {}
    BY <1>2 DEF FuseSingleNode, SInv, Minimising, NoDeadNodesAfterFusion, RootedClient
  <2>2. idx \in SingleNodes(work, req.init)
    <3>1. SingleNodes(work, req.init) \subseteq Nat /\ SingleNodes(work, req.init) # {}
      BY <1>2, <2>1 DEF SingleNodes, FuseSingleNode
    <3> QED
      BY <3>1, MinIsMember
  <2>3. idx \in DOMAIN work \ {0} /\ is_single_node(work, idx)
    BY <2>1, <2>2 DEF SingleNodes
  <2>4. work' = fuse_node(work, idx)
    BY <1>2 DEF FuseSingleNode
  <2> HIDE DEF idx
  <2>6. DOMAIN work' = DOMAIN work \ {idx}
    BY <2>4 DEF fuse_node
  <2>5. valid(work', 0)
    <3>1. 0 \in DOMAIN work /\ PremisesValid(work)
      BY <2>1, ValidIs
    <3> QED
      BY <2>3, <2>4, <2>6, <3>1, FuseNodeValid, ValidIs
  <2>7. \A n \in DOMAIN work' \ {0} : ~is_leaf(work', n)
    <3>1. \A n \in DOMAIN work \ {0} : ~is_leaf(work, n)
      BY <2>1 DEF DeadNodes
    <3> QED
      BY <2>4, <2>6, <3>1, FuseNodeNoLeaf
  <2> QED
    BY <2>5, <2>6, <2>7, SMT DEF DeadNodes
<1> QED
  BY <1>1, <1>2

\* Every step of check_proof, and every call, preserves the invariant.
LEMMA NextSInv ==
  ASSUME RootedClient, SInv, [Next]_vars
  PROVE  SInv'
<1> USE DEF SInv, AssertionsHold, Minimising, NoDeadNodesAfterFusion, CacheRootedAtZero
<1>1. ASSUME NEW r \in Requests, Call(r)
      PROVE  SInv'
  <2>1. r.init = 0 /\ DOMAIN r.prf \subseteq Nat /\ (DOMAIN r.prf = {} \/ valid(r.prf, 0))
    BY DEF RootedClient
  <2>2. TypeOK'
    <3>1. verdict' \in BOOLEAN
      BY <1>1 DEF Call, TypeOK
    <3>2. calls' \in 0 .. MaxCalls
      BY <1>1, MaxCallsAssumption, SMT DEF Call, TypeOK
    <3>3. pc' \in {"dead", "return", "assert_failed"} /\ req' = r /\ work' = r.prf
      BY <1>1 DEF Call
    <3> QED
      BY <2>1, <3>1, <3>2, <3>3, SMT DEF TypeOK
  <2> QED
    BY <1>1, <2>1, <2>2 DEF Call, IsEmpty
<1>2. CASE RemoveDeadNode
  BY <1>2, MinimiserSteps DEF RemoveDeadNode, TypeOK
<1>3. CASE RemoveDeadNodesEnds
  BY <1>3 DEF RemoveDeadNodesEnds, TypeOK
<1>4. CASE FuseSingleNode
  BY <1>4, MinimiserSteps DEF FuseSingleNode, TypeOK
<1>5. CASE FuseSingleNodesEnds
  <2>1. req.init = 0
    BY DEF RootedClient
  <2> QED
    BY <1>5, <2>1 DEF FuseSingleNodesEnds, TypeOK
<1>6. CASE CacheHit
  <2>1. \A entry \in ccache : entry.answer \in BOOLEAN
    BY DEF GloballySound
  <2> QED
    BY <1>6, <2>1 DEF CacheHit, TypeOK
<1>7. CASE CacheMiss
  <2>1. req.init = 0
    BY DEF RootedClient
  <2>2. GloballySound(work, 0) \in BOOLEAN
    BY DEF GloballySound
  <2> QED
    BY <1>7, <2>1, <2>2, SMT DEF CacheMiss, TypeOK
<1>8. CASE Return
  BY <1>8 DEF Return, TypeOK
<1>9. CASE UNCHANGED vars
  BY <1>9 DEF vars, TypeOK
<1> QED
  BY <1>1, <1>2, <1>3, <1>4, <1>5, <1>6, <1>7, <1>8, <1>9, SMTT(30) DEF Next, CheckProof

\* The invariant holds in every state that check_proof reaches when the provers
\* call it.
THEOREM Invariance ==
  ASSUME RootedClient
  PROVE  Spec => []SInv
<1>1. Init => SInv
  BY InitSInv
<1>2. SInv /\ [Next]_vars => SInv'
  BY NextSInv
<1> QED
  BY <1>1, <1>2, PTL DEF Spec

\* The control state, the answer and the number of calls stay within their types,
\* and minimisation only ever removes nodes.
THEOREM TypeCorrect ==
  ASSUME RootedClient
  PROVE  Spec => []TypeOK
<1>1. SInv => TypeOK
  BY DEF SInv
<1> QED
  BY <1>1, Invariance, PTL

\* Neither "assert false" of check_proof (soundcheck.ml, lines 277 and 286) is
\* reached, for proofs of every size and any number of calls.
THEOREM AssertionsAlwaysHold ==
  ASSUME RootedClient
  PROVE  Spec => []AssertionsHold
<1>1. SInv => AssertionsHold
  BY DEF SInv
<1> QED
  BY <1>1, Invariance, PTL

\* fuse_single_nodes never makes a dead node, so remove_dead_nodes need not run
\* again after it.
THEOREM FusionLeavesNoDeadNode ==
  ASSUME RootedClient
  PROVE  Spec => []NoDeadNodesAfterFusion
<1>1. SInv => NoDeadNodesAfterFusion
  BY DEF SInv
<1> QED
  BY <1>1, Invariance, PTL

-----------------------------------------------------------------------------
(* The answer.  On top of SInv: the graph under minimisation stays an       *)
(* abstract proof, it meets the trace condition iff the argument does, and  *)
(* so the answer that is computed for it, now or in an earlier call, is the *)
(* answer for the argument.                                                 *)

AnswerInv ==
  /\ Minimising => Graph(work)
  /\ MinimisePreservesSoundness
  /\ VerdictCorrect

\* A request that passes the first validation is an abstract proof.
LEMMA ArgumentGraph ==
  ASSUME NumberedClient, TypedClient, NEW r \in Requests, PremisesValid(r.prf)
  PROVE  Graph(r.prf)
<1> DEFINE g == r.prf
<1>1. DOMAIN g \in SUBSET Int /\ Finite(DOMAIN g)
  <2>1. DOMAIN g \in SUBSET Int /\ IsFiniteSet(DOMAIN g)
    BY SMT DEF NumberedClient, TypedClient
  <2> QED
    BY <2>1, FiniteByCount
<1>2. \A n \in DOMAIN g : g[n].tags \in SUBSET Int /\ Finite(g[n].tags)
  <2>1. \A n \in DOMAIN g : g[n].tags \in SUBSET Int /\ IsFiniteSet(g[n].tags)
    BY DEF TypedClient
  <2> QED
    BY <2>1, FiniteByCount
<1>3. ASSUME NEW n \in DOMAIN g, NEW i \in children(g, n)
      PROVE  /\ i \in DOMAIN g
             /\ g[n].subg[i] \in Label
             /\ g[n].subg[i].tv \subseteq g[n].tags \X g[i].tags
             /\ g[n].subg[i].tp \subseteq g[n].tags \X g[i].tags
  <2>1. g[n].subg[i] \in Label
    BY <1>3 DEF TypedClient
  <2>2. valid_premise(g, n, i)
    BY <1>3 DEF PremisesValid
  <2> HIDE DEF g
  <2>3. \A x \in g[n].subg[i].tv : x \in Int \X Int
    BY <2>1 DEF Label, TagPair
  <2> QED
    BY <2>1, <2>2, <2>3 DEF valid_premise
<1> HIDE DEF g
<1>4. Graph(g)
  BY <1>1, <1>2, <1>3 DEF Graph
<1> QED
  BY <1>4 DEF g

\* A request of the provers is an abstract proof.
LEMMA RequestGraph ==
  ASSUME RootedClient, TypedClient, NEW r \in Requests
  PROVE  Graph(r.prf)
<1>1. NumberedClient
  BY DEF RootedClient, NumberedClient
<1>2. DOMAIN r.prf = {} \/ valid(r.prf, 0)
  BY DEF RootedClient
<1>3. PremisesValid(r.prf)
  BY <1>2, ValidIs DEF PremisesValid
<1> QED
  BY <1>1, <1>3, ArgumentGraph

\* A proof without nodes meets the trace condition.
LEMMA EmptySound ==
  ASSUME NEW g, Graph(g), DOMAIN g = {}, NEW init
  PROVE  GloballySound(g, init)
<1>1. Edges(g) = {}
  BY EdgesAre
<1>2. Paths({}) = {}
  <2>1. {} \in SUBSET Walk /\ Following({}, {})
    BY DEF Following
  <2> QED
    BY <2>1, PathsLeast
<1> QED
  BY <1>1, <1>2, SoundByPaths DEF SoundPaths

\* The iterations of the two loops keep the answer.
LEMMA MinimiserKeepsAnswer ==
  ASSUME RootedClient, SInv, Graph(work), RemoveDeadNode \/ FuseSingleNode
  PROVE  /\ Graph(work')
         /\ GloballySound(work', req.init) <=> GloballySound(work, req.init)
<1>1. CASE RemoveDeadNode
  <2>1. DeadNodes(work) \subseteq Nat
    BY <1>1 DEF RemoveDeadNode, SInv, Minimising, DeadNodes
  <2>2. Min(DeadNodes(work)) \in DeadNodes(work)
    BY <1>1, <2>1, MinIsMember DEF RemoveDeadNode
  <2>3. Min(DeadNodes(work)) \in DOMAIN work /\ is_leaf(work, Min(DeadNodes(work)))
    BY <2>2 DEF DeadNodes
  <2>4. work' = remove_dead_node(work, Min(DeadNodes(work)))
    BY <1>1 DEF RemoveDeadNode
  <2> QED
    BY <2>3, <2>4, RemoveDeadNodeSound
<1>2. CASE FuseSingleNode
  <2>1. SingleNodes(work, req.init) \subseteq Nat /\ SingleNodes(work, req.init) # {}
    BY <1>2 DEF FuseSingleNode, SInv, Minimising, SingleNodes
  <2>2. Min(SingleNodes(work, req.init)) \in SingleNodes(work, req.init)
    BY <2>1, MinIsMember
  <2>3. work' = fuse_node(work, Min(SingleNodes(work, req.init)))
    BY <1>2 DEF FuseSingleNode
  <2> QED
    BY <2>2, <2>3, FuseNodeSound, SMT
<1> QED
  BY <1>1, <1>2

\* Every step keeps the answer the one for the argument.
LEMMA NextAnswerInv ==
  ASSUME RootedClient, TypedClient, SInv, AnswerInv, [Next]_vars
  PROVE  AnswerInv'
<1>1. \A r \in Requests : Graph(r.prf) /\ r.init = 0
  BY RequestGraph DEF RootedClient
<1>2. req \in Requests
  BY DEF SInv
<1>0. \A r \in Requests : DOMAIN r.prf = {} => GloballySound(r.prf, r.init)
  BY <1>1, EmptySound
<1> USE DEF AnswerInv, MinimisePreservesSoundness, VerdictCorrect, Minimising
<1>3. ASSUME NEW r \in Requests, Call(r)
      PROVE  AnswerInv'
  <2>1. IsEmpty(r.prf) => GloballySound(r.prf, r.init)
    BY <1>0 DEF IsEmpty
  <2> QED
    BY <1>1, <1>3, <2>1 DEF Call
<1>4. CASE RemoveDeadNode
  <2>1. pc = "dead" /\ pc' = "dead" /\ req' = req
    BY <1>4 DEF RemoveDeadNode
  <2> QED
    BY <1>4, <2>1, MinimiserKeepsAnswer
<1>5. CASE RemoveDeadNodesEnds
  BY <1>5 DEF RemoveDeadNodesEnds
<1>6. CASE FuseSingleNode
  <2>1. pc = "fuse" /\ pc' = "fuse" /\ req' = req
    BY <1>6 DEF FuseSingleNode
  <2> QED
    BY <1>6, <2>1, MinimiserKeepsAnswer
<1>7. CASE FuseSingleNodesEnds
  <2>1. ~IsEmpty(work)
    BY <1>7 DEF FuseSingleNodesEnds, SInv, valid, IsEmpty
  <2> QED
    BY <1>7, <2>1 DEF FuseSingleNodesEnds
<1>8. CASE CacheHit
  <2>1. PICK entry \in ccache : entry.prf = work /\ verdict' = entry.answer
    BY <1>8 DEF CacheHit
  <2>2. verdict' = GloballySound(work, req.init)
    BY <1>1, <1>2, <2>1, SMT DEF SInv, CacheRootedAtZero
  <2> QED
    BY <1>8, <2>2 DEF CacheHit
<1>9. CASE CacheMiss
  BY <1>9 DEF CacheMiss
<1>10. CASE Return
  BY <1>10 DEF Return
<1>11. CASE UNCHANGED vars
  BY <1>11 DEF vars
<1> QED
  BY <1>3, <1>4, <1>5, <1>6, <1>7, <1>8, <1>9, <1>10, <1>11, SMTT(30) DEF Next, CheckProof

\* The answer stays that of the argument in every state that check_proof reaches.
THEOREM AnswerInvariance ==
  ASSUME RootedClient, TypedClient
  PROVE  Spec => []AnswerInv
<1>1. Init => AnswerInv
  BY DEF Init, AnswerInv, Minimising, MinimisePreservesSoundness, VerdictCorrect
<1>2. SInv /\ AnswerInv /\ [Next]_vars => AnswerInv'
  BY NextAnswerInv
<1> QED
  BY <1>1, <1>2, Invariance, PTL DEF Spec

\* minimize_abs_proof never changes the answer: after every iteration of
\* remove_dead_nodes and fuse_single_nodes the graph meets the global trace
\* condition iff the argument of check_proof does, for proofs of every size.
THEOREM MinimisationKeepsAnswer ==
  ASSUME RootedClient, TypedClient
  PROVE  Spec => []MinimisePreservesSoundness
<1>1. AnswerInv => MinimisePreservesSoundness
  BY DEF AnswerInv
<1> QED
  BY <1>1, AnswerInvariance, PTL

\* check_proof returns the global trace condition of its own argument, for proofs
\* of every size and whatever earlier calls left in the cache.
THEOREM VerdictAlwaysCorrect ==
  ASSUME RootedClient, TypedClient
  PROVE  Spec => []VerdictCorrect
<1>1. AnswerInv => VerdictCorrect
  BY DEF AnswerInv
<1> QED
  BY <1>1, AnswerInvariance, PTL

-----------------------------------------------------------------------------
(* Any initial node.  The stand-alone checker takes the first node it reads *)
(* for the initial one, which remove_dead_nodes may remove.  What it        *)
(* removes stays closed under paths and free of loops, in the graph that    *)
(* was passed in; that is the invariant from which follows what a failure   *)
(* of the second validation means.                                          *)

\* No path from init comes to a loop.
LoopFree(edges, init) ==
  \A w \in Paths(edges) : w.src = w.dst => ~Reached(edges, init, w.src)

\* What remove_dead_nodes has left of g: no path leads back from the nodes that
\* are gone, and none of them is on a loop.
Pruned(g, left) ==
  /\ DOMAIN left \subseteq DOMAIN g
  /\ \A n \in DOMAIN left : children(left, n) = children(g, n) \cap DOMAIN left
  /\ \A w \in Paths(Edges(g)) :
       w.src \notin DOMAIN left => w.dst \notin DOMAIN left /\ w.src # w.dst

LEMMA LoopFreeIs ==
  ASSUME NEW g, Graph(g), NEW init, LoopFree(Edges(g), init)
  PROVE  LoopsFrom(g, init) = {}
<1> DEFINE P == Paths(Edges(g))
<1>1. Walks(Edges(g)) = P
  BY GraphWalks
<1>2. \A n : n \in ReachableFrom(P, init) <=> Reached(Edges(g), init, n)
  BY DEF ReachableFrom, Reached
<1>3. LoopsFrom(g, init) = {w \in P : w.src = w.dst /\ w.src \in ReachableFrom(P, init)}
  BY <1>1 DEF LoopsFrom
<1>4. \A w \in P : w.src = w.dst => w.src \notin ReachableFrom(P, init)
  BY <1>2 DEF LoopFree
<1> HIDE DEF P
<1> QED
  BY <1>3, <1>4

\* Nothing is gone before the first iteration.
LEMMA PrunedAtFirst ==
  ASSUME NEW g, Graph(g)
  PROVE  Pruned(g, g)
<1>1. Edges(g) \in SUBSET Walk
  BY GraphWalks
<1>2. ASSUME NEW e \in Edges(g) PROVE e.src \in DOMAIN g
  <2>1. PICK n \in DOMAIN g : \E i \in children(g, n) : e = Edge(g, n, i)
    BY EdgesAre
  <2>2. PICK i \in children(g, n) : e = Edge(g, n, i)
    BY <2>1
  <2>3. e.src = n
    BY <2>2 DEF Edge
  <2> QED
    BY <2>3
<1>3. \A w \in Paths(Edges(g)) : w.src \in DOMAIN g
  BY <1>1, <1>2, PathsWithinEnds
<1>4. \A n \in DOMAIN g : children(g, n) = children(g, n) \cap DOMAIN g
  BY DEF Graph
<1> QED
  BY <1>3, <1>4 DEF Pruned

\* An iteration of remove_dead_nodes: all that follows the leaf is gone already.
LEMMA PrunedNext ==
  ASSUME NEW g, Graph(g), NEW left, Pruned(g, left),
         NEW idx \in DOMAIN left, is_leaf(left, idx)
  PROVE  Pruned(g, remove_dead_node(left, idx))
<1> DEFINE q == remove_dead_node(left, idx)
           S == {w \in Walk : w.src = idx => w.dst \notin DOMAIN left}
<1>1. DOMAIN q = DOMAIN left \ {idx}
  BY DEF remove_dead_node
<1>2. ASSUME NEW n \in DOMAIN q PROVE children(q, n) = children(left, n) \ {idx}
  BY <1>1, <1>2 DEF remove_dead_node, children, Restrict
<1> HIDE DEF q
<1>3. Edges(g) \in SUBSET Walk
  BY GraphWalks
<1>4. Following(Paths(Edges(g)), Edges(g))
  BY <1>3, PathsFollowing
<1>5. Edges(g) \subseteq Paths(Edges(g))
  BY <1>4 DEF Following
<1>6. ASSUME NEW e \in Edges(g), e.src = idx PROVE e.dst \notin DOMAIN left
  <2>1. PICK n \in DOMAIN g : \E i \in children(g, n) : e = Edge(g, n, i)
    BY EdgesAre
  <2>2. PICK i \in children(g, n) : e = Edge(g, n, i)
    BY <2>1
  <2>3. n = idx /\ e.dst = i
    BY <1>6, <2>2 DEF Edge
  <2>4. children(g, idx) \cap DOMAIN left = {}
    BY DEF Pruned, is_leaf
  <2> QED
    BY <2>2, <2>3, <2>4
<1>7. ASSUME NEW w \in S, NEW e \in Edges(g), e.src = w.dst PROVE Extend(w, e) \in S
  <2>1. Extend(w, e) \in Walk /\ Extend(w, e).src = w.src /\ Extend(w, e).dst = e.dst
    BY <1>3, ExtendFields
  <2>2. w.src = idx => e.dst \notin DOMAIN left
    BY <1>5, <1>7 DEF Pruned
  <2> QED
    BY <2>1, <2>2
<1>8. Following(S, Edges(g))
  BY <1>3, <1>6, <1>7 DEF Following
<1>9. \A w \in Paths(Edges(g)) : w.src = idx => w.dst \notin DOMAIN left
  BY <1>3, <1>8, PathsLeast
<1>10. \A w \in Paths(Edges(g)) : w.src \notin DOMAIN q => w.dst \notin DOMAIN q /\ w.src # w.dst
  BY <1>1, <1>9 DEF Pruned
<1>11. DOMAIN q \subseteq DOMAIN g
  BY <1>1 DEF Pruned
<1>12. \A n \in DOMAIN q : children(q, n) = children(g, n) \cap DOMAIN q
  BY <1>1, <1>2 DEF Pruned
<1> QED
  BY <1>10, <1>11, <1>12 DEF Pruned, q

\* Once the initial node is gone, it leads to no loop.
LEMMA PrunedInitial ==
  ASSUME NEW g, NEW left, Pruned(g, left), NEW init, init \notin DOMAIN left
  PROVE  LoopFree(Edges(g), init)
BY DEF Pruned, LoopFree, Reached

GInv ==
  /\ req \in Requests
  /\ Minimising =>
       /\ valid(req.prf, req.init)
       /\ PremisesValid(work)
       /\ DOMAIN work \subseteq DOMAIN req.prf
       /\ req.init \in DOMAIN work \/ LoopFree(Edges(req.prf), req.init)
  /\ pc = "dead" => Pruned(req.prf, work)
  /\ GivesUpWithoutLoop

\* Every step preserves the invariant.
LEMMA NextGInv ==
  ASSUME NumberedClient, TypedClient, GInv, [Next]_vars
  PROVE  GInv'
<1>1. \A r \in Requests : valid(r.prf, r.init) => Graph(r.prf)
  BY ArgumentGraph, ValidIs
<1>2. req \in Requests /\ DOMAIN req.prf \subseteq Nat
  BY DEF GInv, NumberedClient
<1>3. ASSUME NEW r \in Requests, Call(r)
      PROVE  GInv'
  <2>1. /\ req' = r /\ work' = r.prf
        /\ pc' \in {"dead", "return", "assert_failed"}
        /\ pc' = "dead" => valid(r.prf, r.init)
        /\ pc' = "assert_failed" => ~valid(r.prf, r.init)
    BY <1>3 DEF Call
  <2>2. ASSUME pc' = "dead"
        PROVE  /\ PremisesValid(r.prf) /\ r.init \in DOMAIN r.prf
               /\ Pruned(r.prf, r.prf)
    BY <1>1, <2>1, <2>2, ValidIs, PrunedAtFirst
  <2> QED
    BY <2>1, <2>2 DEF GInv, Minimising, GivesUpWithoutLoop
<1>4. CASE RemoveDeadNode
  <2> DEFINE idx == Min(DeadNodes(work))
  <2>1. /\ pc = "dead" /\ pc' = pc /\ req' = req /\ DeadNodes(work) # {}
        /\ work' = remove_dead_node(work, idx)
    BY <1>4 DEF RemoveDeadNode
  <2>2. /\ valid(req.prf, req.init) /\ PremisesValid(work)
        /\ DOMAIN work \subseteq DOMAIN req.prf /\ Pruned(req.prf, work)
    BY <2>1 DEF GInv, Minimising
  <2>3. DeadNodes(work) \subseteq Nat
    BY <1>2, <2>2 DEF DeadNodes
  <2>4. idx \in DeadNodes(work)
    BY <2>1, <2>3, MinIsMember
  <2> HIDE DEF idx
  <2>5. idx \in DOMAIN work /\ is_leaf(work, idx)
    BY <2>4 DEF DeadNodes
  <2>6. PremisesValid(work')
    BY <2>1, <2>2, <2>5, RemoveDeadNodeValid
  <2>7. Pruned(req.prf, work')
    BY <1>1, <1>2, <2>1, <2>2, <2>5, PrunedNext
  <2>8. req.init \in DOMAIN work' \/ LoopFree(Edges(req.prf), req.init)
    BY <2>7, PrunedInitial
  <2>9. DOMAIN work' \subseteq DOMAIN req.prf
    BY <2>7 DEF Pruned
  <2> QED
    BY <1>2, <2>1, <2>2, <2>6, <2>7, <2>8, <2>9 DEF GInv, Minimising, GivesUpWithoutLoop
<1>5. CASE RemoveDeadNodesEnds
  BY <1>5 DEF RemoveDeadNodesEnds, GInv, Minimising, GivesUpWithoutLoop
<1>6. CASE FuseSingleNode
  <2> DEFINE idx == Min(SingleNodes(work, req.init))
  <2>1. /\ pc = "fuse" /\ pc' = pc /\ req' = req /\ SingleNodes(work, req.init) # {}
        /\ work' = fuse_node(work, idx)
    BY <1>6 DEF FuseSingleNode
  <2>2. /\ valid(req.prf, req.init) /\ PremisesValid(work)
        /\ DOMAIN work \subseteq DOMAIN req.prf
        /\ req.init \in DOMAIN work \/ LoopFree(Edges(req.prf), req.init)
    BY <2>1 DEF GInv, Minimising
  <2>3. SingleNodes(work, req.init) \subseteq Nat
    BY <1>2, <2>2 DEF SingleNodes
  <2>4. idx \in SingleNodes(work, req.init)
    BY <2>1, <2>3, MinIsMember
  <2> HIDE DEF idx
  <2>5. idx \in DOMAIN work /\ idx # req.init /\ is_single_node(work, idx)
    BY <2>4 DEF SingleNodes
  <2>6. PremisesValid(work')
    BY <2>1, <2>2, <2>5, FuseNodeValid
  <2>7. DOMAIN work' = DOMAIN work \ {idx}
    BY <2>1 DEF fuse_node
  <2>8. /\ DOMAIN work' \subseteq DOMAIN req.prf
        /\ req.init \in DOMAIN work' \/ LoopFree(Edges(req.prf), req.init)
    BY <2>2, <2>5, <2>7
  <2> QED
    BY <1>2, <2>1, <2>2, <2>6, <2>8 DEF GInv, Minimising, GivesUpWithoutLoop
<1>7. CASE FuseSingleNodesEnds
  <2>1. /\ pc = "fuse" /\ req' = req /\ work' = work
        /\ pc' \in {"lookup", "return", "assert_failed"}
        /\ pc' = "assert_failed" => ~valid(work, req.init)
    BY <1>7 DEF FuseSingleNodesEnds
  <2>2. /\ valid(req.prf, req.init) /\ PremisesValid(work)
        /\ DOMAIN work \subseteq DOMAIN req.prf
        /\ req.init \in DOMAIN work \/ LoopFree(Edges(req.prf), req.init)
    BY <2>1 DEF GInv, Minimising
  <2>3. ASSUME pc' = "assert_failed" PROVE LoopsFrom(req.prf, req.init) = {}
    <3>1. LoopFree(Edges(req.prf), req.init)
      BY <2>1, <2>2, <2>3, ValidIs
    <3> QED
      BY <1>1, <1>2, <2>2, <3>1, LoopFreeIs
  <2> QED
    BY <1>2, <2>1, <2>2, <2>3 DEF GInv, Minimising, GivesUpWithoutLoop
<1>8. CASE CacheHit
  BY <1>8 DEF CacheHit, GInv, Minimising, GivesUpWithoutLoop
<1>9. CASE CacheMiss
  BY <1>9 DEF CacheMiss, GInv, Minimising, GivesUpWithoutLoop
<1>10. CASE Return
  BY <1>10 DEF Return, GInv, Minimising, GivesUpWithoutLoop
<1>11. CASE UNCHANGED vars
  BY <1>11 DEF vars, GInv, Minimising, GivesUpWithoutLoop
<1> QED
  BY <1>3, <1>4, <1>5, <1>6, <1>7, <1>8, <1>9, <1>10, <1>11, SMTT(30) DEF Next, CheckProof

\* Whatever the initial node is, check_proof fails its second validation
\* (soundcheck.ml, line 286) only on proofs in which no path from the initial
\* node leads to a loop: remove_dead_nodes takes the initial node from no other.
THEOREM GivesUpOnlyWithoutLoop ==
  ASSUME NumberedClient, TypedClient
  PROVE  Spec => []GivesUpWithoutLoop
<1>1. Init => GInv
  BY RequestsAssumption DEF Init, GInv, Minimising, GivesUpWithoutLoop
<1>2. GInv /\ [Next]_vars => GInv'
  BY NextGInv
<1>3. GInv => GivesUpWithoutLoop
  BY DEF GInv
<1> QED
  BY <1>1, <1>2, <1>3, PTL DEF Spec
=============================================================================
