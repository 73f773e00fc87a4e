---------------------------- MODULE SoundnessProofs ----------------------------
(***************************************************************************)
(* Proofs that a proof object always meets the global trace condition,     *)
(* although only the formation of back-links is checked, during a search   *)
(* and during extraction, where nothing is; that the two tests for open    *)
(* nodes agree; and that the constructors make applications that the       *)
(* searches can rely on.  For all rules and sequents and proofs of every   *)
(* size.                                                                   *)
(***************************************************************************)
EXTENDS ProofObjectProofs, CyclicProofTheorems

USE Zenon

-----------------------------------------------------------------------------
(* What the soundness checker sees of a good proof.  Its edges are the      *)
(* links from nodes to their premises and from buds to their targets.       *)

Link(p, i, k) == [src |-> i, dst |-> p[i].succs[k], label |-> p[i].tps[k]]

\* No node lists a premise twice.
LEMMA SuccsDistinct ==
  ASSUME NEW p, GoodProof(p), NEW i \in DOMAIN p,
         NEW k \in DOMAIN p[i].succs, NEW l \in DOMAIN p[i].succs,
         p[i].succs[k] = p[i].succs[l]
  PROVE  k = l
<1>1. /\ p[i].kind \in {"open", "axiom", "inf", "back"}
      /\ p[i].succs \in Seq(Nat)
      /\ p[i].kind \in {"open", "axiom"} => p[i].succs = << >>
      /\ p[i].kind = "back" => Len(p[i].succs) = 1
  BY DEF GoodProof, NodesOK, NodeType
<1>2. CASE p[i].kind = "inf"
  BY <1>2 DEF GoodProof, WellFormed, PremisesOK, is_inf
<1>3. CASE p[i].kind = "back"
  BY <1>1, <1>3, SMT
<1>4. p[i].kind \notin {"open", "axiom"}
  BY <1>1, SMT
<1> QED
  BY <1>1, <1>2, <1>3, <1>4

LEMMA AbstractFields ==
  ASSUME NEW p, GoodProof(p), NEW i \in DOMAIN p
  PROVE  /\ Abstract(p)[i].tags = p[i].seq.tags
         /\ children(Abstract(p), i) = Range(p[i].succs)
         /\ \A k \in DOMAIN p[i].succs : Edge(Abstract(p), i, p[i].succs[k]) = Link(p, i, k)
<1> DEFINE a == Abstract(p)[i]
<1>1. /\ a.tags = p[i].seq.tags
      /\ a.subg = [j \in Range(p[i].succs) |->
                     p[i].tps[CHOOSE k \in DOMAIN p[i].succs : p[i].succs[k] = j]]
  BY DEF Abstract, to_abstract_node
<1>2. ASSUME NEW k \in DOMAIN p[i].succs
      PROVE  a.subg[p[i].succs[k]] = p[i].tps[k]
  <2> DEFINE l == CHOOSE l \in DOMAIN p[i].succs : p[i].succs[l] = p[i].succs[k]
  <2>1. l \in DOMAIN p[i].succs /\ p[i].succs[l] = p[i].succs[k]
    BY <1>2
  <2>2. l = k
    <3> HIDE DEF l
    <3> QED
      BY <1>2, <2>1, SuccsDistinct
  <2>3. p[i].succs[k] \in Range(p[i].succs)
    BY <1>2 DEF Range
  <2>4. a.subg[p[i].succs[k]] = p[i].tps[l]
    BY <1>1, <2>3
  <2> QED
    BY <2>2, <2>4
<1>3. children(Abstract(p), i) = Range(p[i].succs)
  BY <1>1 DEF children
<1> QED
  BY <1>1, <1>2, <1>3 DEF Edge, Link

LEMMA LinksAre ==
  ASSUME NEW p, GoodProof(p), NEW e
  PROVE  e \in Edges(Abstract(p))
           <=> \E i \in DOMAIN p : \E k \in DOMAIN p[i].succs : e = Link(p, i, k)
<1>1. DOMAIN Abstract(p) = DOMAIN p
  BY DEF Abstract
<1>2. e \in Edges(Abstract(p))
        <=> \E i \in DOMAIN p : \E j \in children(Abstract(p), i) : e = Edge(Abstract(p), i, j)
  BY <1>1, EdgesAre, SMT
<1> HIDE DEF Abstract
<1>3. ASSUME NEW i \in DOMAIN p
      PROVE  (\E j \in children(Abstract(p), i) : e = Edge(Abstract(p), i, j))
               <=> \E k \in DOMAIN p[i].succs : e = Link(p, i, k)
  <2>1. /\ children(Abstract(p), i) = Range(p[i].succs)
        /\ \A k \in DOMAIN p[i].succs : Edge(Abstract(p), i, p[i].succs[k]) = Link(p, i, k)
    BY AbstractFields
  <2> QED
    BY <2>1 DEF Range
<1> QED
  BY <1>2, <1>3

\* The fields of a link.
LEMMA LinkOf ==
  ASSUME NEW p, GoodProof(p), NEW i \in DOMAIN p, NEW k \in DOMAIN p[i].succs
  PROVE  /\ Link(p, i, k).src = i /\ Link(p, i, k).dst = p[i].succs[k]
         /\ Link(p, i, k).label = p[i].tps[k]
         /\ Link(p, i, k) \in Edges(Abstract(p))
         /\ p[i].tps[k] \in Label
<1>1. p[i].tps \in Seq(Label) /\ p[i].succs \in Seq(Nat) /\ Len(p[i].tps) = Len(p[i].succs)
  BY DEF GoodProof, NodesOK, NodeType
<1>2. p[i].tps[k] \in Label
  BY <1>1, SMT
<1>3. Link(p, i, k) \in Edges(Abstract(p))
  BY LinksAre
<1> QED
  BY <1>2, <1>3 DEF Link

LEMMA GoodIsGraph ==
  ASSUME NEW p, GoodProof(p)
  PROVE  Graph(Abstract(p))
<1> DEFINE g == Abstract(p)
<1>1. DOMAIN g = DOMAIN p
  BY DEF Abstract
<1>2. DOMAIN p = 0 .. fresh_idx(p) - 1 /\ fresh_idx(p) \in Nat
  BY DEF GoodProof, WellFormed, Rooted
<1>3. Finite(DOMAIN g) /\ DOMAIN g \in SUBSET Int
  <2>1. 0 .. fresh_idx(p) - 1 \subseteq {0} \cup (1 .. fresh_idx(p))
    BY <1>2, SMT
  <2>2. Finite({0} \cup (1 .. fresh_idx(p)))
    BY <1>2, FiniteSmall, FiniteInterval, FiniteUnion
  <2>3. Finite(0 .. fresh_idx(p) - 1)
    BY <2>1, <2>2, FiniteSubset
  <2> QED
    BY <1>1, <1>2, <2>3, SMTT(30)
<1>4. ASSUME NEW n \in DOMAIN p
      PROVE  g[n].tags = p[n].seq.tags /\ g[n].tags \in SUBSET Int /\ Finite(g[n].tags)
  <2>1. p[n].seq \in Sequents
    BY DEF GoodProof, NodesOK, NodeType
  <2>2. g[n].tags = p[n].seq.tags
    BY AbstractFields
  <2>3. p[n].seq.tags \in SUBSET Int /\ IsFiniteSet(p[n].seq.tags)
    BY <2>1, TagsAssumption
  <2> QED
    BY <2>2, <2>3, FiniteByCount
<1>5. ASSUME NEW n \in DOMAIN p, NEW j \in children(g, n)
      PROVE  /\ j \in DOMAIN p
             /\ g[n].subg[j] \in Label
             /\ g[n].subg[j].tv \subseteq g[n].tags \X g[j].tags
             /\ g[n].subg[j].tp \subseteq g[n].tags \X g[j].tags
  <2>1. PICK k \in DOMAIN p[n].succs : j = p[n].succs[k]
    BY <1>5, AbstractFields, SMTT(30) DEF Range
  <2>2. j \in DOMAIN p
    BY <2>1, SuccsInDomain
  <2>3. Edge(g, n, j) = Link(p, n, k)
    BY <2>1, AbstractFields
  <2>4. g[n].subg[j] = p[n].tps[k]
    <3> HIDE DEF g
    <3> QED
      BY <2>3 DEF Edge, Link
  <2>5. PairsWithin(p[n].tps[k], p[n].seq, p[j].seq)
    BY <2>1 DEF GoodProof, TracesOK
  <2>6. p[n].tps[k] \in Label
    BY LinkOf
  <2> HIDE DEF g
  <2> QED
    BY <1>4, <2>2, <2>4, <2>5, <2>6 DEF PairsWithin
<1> HIDE DEF g
<1>6. Graph(g)
  BY <1>1, <1>3, <1>4, <1>5 DEF Graph
<1> QED
  BY <1>6 DEF g

\* Every node of a proof can be reached from the root.
LEMMA AllReached ==
  ASSUME NEW p, GoodProof(p), NEW i \in DOMAIN p
  PROVE  Reached(Edges(Abstract(p)), 0, i)
<1> DEFINE E == Edges(Abstract(p))
           Lost == {x \in DOMAIN p : ~Reached(E, 0, x)}
<1>1. E \in SUBSET Walk
  BY GoodIsGraph, SoundByPaths
<1>2. DOMAIN p \subseteq Nat
  BY SMT DEF GoodProof, WellFormed, Rooted
<1>3. SUFFICES ASSUME Lost # {} PROVE FALSE
  OBVIOUS
<1>4. PICK x \in Lost : \A y \in Lost : x =< y
  <2>1. Lost \in SUBSET Nat
    BY <1>2
  <2> QED
    BY <1>3, <2>1, LeastNatural
<1>5. x # 0
  BY <1>4 DEF Reached
<1>6. /\ p[x].par \in DOMAIN p /\ p[x].par < x
      /\ \E k \in DOMAIN p[p[x].par].succs : p[p[x].par].succs[k] = x
  BY <1>4, <1>5 DEF GoodProof, WellFormed, ParentsOK
<1>7. PICK e \in E : e.src = p[x].par /\ e.dst = x
  BY <1>6, LinkOf, SMTT(30)
<1>8. p[x].par \notin Lost
  BY <1>2, <1>4, <1>6, SMTT(30)
<1>9. Reached(E, 0, p[x].par)
  BY <1>6, <1>8
<1> HIDE DEF E
<1>10. Reached(E, 0, x)
  <2>1. CASE p[x].par = 0
    <3>1. e \in Paths(E)
      BY <1>1, PathsFollowing DEF Following
    <3> QED
      BY <1>7, <2>1, <3>1 DEF Reached
  <2>2. CASE p[x].par # 0
    <3>1. PICK u \in Paths(E) : u.src = 0 /\ u.dst = p[x].par
      BY <1>9, <2>2 DEF Reached
    <3>2. Extend(u, e) \in Paths(E)
      BY <1>1, <1>7, <3>1, PathsFollowing DEF Following
    <3>3. Extend(u, e).src = 0 /\ Extend(u, e).dst = x
      BY <1>7, <3>1 DEF Extend
    <3> QED
      BY <3>2, <3>3 DEF Reached
  <2> QED
    BY <2>1, <2>2
<1> QED
  BY <1>4, <1>10

\* Proof.check looks at all loops of a proof.
LEMMA CheckByLoops ==
  ASSUME NEW p, GoodProof(p)
  PROVE  check(p) <=> LoopsSound(Edges(Abstract(p)))
<1> DEFINE E == Edges(Abstract(p))
<1>1. E \in SUBSET Walk /\ (GloballySound(Abstract(p), 0) <=> SoundPaths(E, 0))
  BY GoodIsGraph, SoundByPaths
<1>2. check(p) <=> GloballySound(Abstract(p), 0)
  BY DEF check
<1>3. ASSUME NEW w \in Paths(E) PROVE Reached(E, 0, w.src)
  <2>1. PICK e \in E : e.src = w.src
    BY <1>1, PathsWithinEnds
  <2>2. PICK i \in DOMAIN p : \E k \in DOMAIN p[i].succs : e = Link(p, i, k)
    BY LinksAre
  <2>3. e.src = i
    BY <2>2, SMT DEF Link
  <2> QED
    BY <2>1, <2>3, AllReached
<1> HIDE DEF E
<1>4. SoundPaths(E, 0) <=> LoopsSound(E)
  BY <1>3 DEF SoundPaths, LoopsSound
<1> QED
  BY <1>1, <1>2, <1>4 DEF E

-----------------------------------------------------------------------------
(* The constructors and the soundness of a proof. *)

LEMMA NoLinksSound == LoopsSound({})
BY NoEdgesNoPaths DEF LoopsSound

\* An open root is sound.
LEMMA MkSound ==
  ASSUME NEW seq \in Sequents
  PROVE  check(mk(seq))
<1> DEFINE p == mk(seq)
<1>1. GoodProof(p)
  BY MkGood
<1>2. DOMAIN p = {0} /\ p[0].succs = << >>
  BY DEF mk, mk_open, Node
<1> HIDE DEF p
<1>3. \A e : e \notin Edges(Abstract(p))
  BY <1>1, <1>2, LinksAre, SMTT(30)
<1>4. Edges(Abstract(p)) = {}
  BY <1>3
<1> QED
  BY <1>1, <1>4, NoLinksSound, CheckByLoops DEF p

\* An open node has no premises.
LEMMA OpenNoSuccs ==
  ASSUME NEW p, GoodProof(p), NEW i \in DOMAIN p, is_open(p[i])
  PROVE  p[i].succs = << >>
BY DEF GoodProof, NodesOK, is_open

\* add_axiom adds no link.
LEMMA AddAxiomSound ==
  ASSUME NEW p, GoodProof(p), check(p), NEW idx, ensure_add(p, idx)
  PROVE  check(add_axiom(p, idx))
<1> DEFINE q == add_axiom(p, idx)
<1>1. /\ GoodProof(q) /\ Closed(p, q, idx)
      /\ q[idx] = Node(p[idx].par, "axiom", p[idx].seq, << >>, << >>)
  BY AddAxiomGood
<1> HIDE DEF q
<1>2. idx \in DOMAIN p /\ p[idx].succs = << >> /\ q[idx].succs = << >>
  BY <1>1, OpenNoSuccs, SMT DEF ensure_add, Node
<1>3. DOMAIN q = DOMAIN p /\ \A i \in DOMAIN p \ {idx} : q[i] = p[i]
  BY <1>1 DEF Closed
<1>4. \A e : (\E i \in DOMAIN p : \E k \in DOMAIN p[i].succs : e = Link(p, i, k))
               <=> (\E i \in DOMAIN q : \E k \in DOMAIN q[i].succs : e = Link(q, i, k))
  BY <1>2, <1>3, SMT DEF Link
<1>5. \A e : e \in Edges(Abstract(p)) <=> e \in Edges(Abstract(q))
  <2> TAKE e
  <2>1. e \in Edges(Abstract(p))
          <=> \E i \in DOMAIN p : \E k \in DOMAIN p[i].succs : e = Link(p, i, k)
    BY LinksAre
  <2>2. e \in Edges(Abstract(q))
          <=> \E i \in DOMAIN q : \E k \in DOMAIN q[i].succs : e = Link(q, i, k)
    BY <1>1, LinksAre
  <2> QED
    BY <1>4, <2>1, <2>2
<1>6. Edges(Abstract(p)) = Edges(Abstract(q))
  BY <1>5
<1> QED
  BY <1>1, <1>6, CheckByLoops DEF q

\* The new links of add_inf lead to nodes that no link leaves.
LEMMA AddInfSound ==
  ASSUME NEW p, GoodProof(p), check(p), NEW idx, ensure_add(p, idx),
         NEW subgoals \in Seq(Subgoal),
         \A k \in DOMAIN subgoals : PairsWithin(subgoals[k].label, p[idx].seq, subgoals[k].seq)
  PROVE  check(add_inf(p, idx, subgoals))
<1> DEFINE q == add_inf(p, idx, subgoals)
           R == DOMAIN q \ DOMAIN p
           next == fresh_idx(p)
<1>1. GoodProof(q)
  BY AddInfGood
<1>2. Extended(p, q, idx, subgoals)
  BY AddInfExtends DEF ensure_add
<1>3. /\ next \in Nat \ {0} /\ DOMAIN p = 0 .. next - 1
      /\ Len(subgoals) \in Nat /\ DOMAIN subgoals = 1 .. Len(subgoals)
  BY RootedFresh, SMT DEF GoodProof, WellFormed
<1> HIDE DEF q, next
<1>4. \A i \in R : q[i].succs = << >>
  <2> SUFFICES ASSUME NEW i \in R PROVE q[i].succs = << >>
    OBVIOUS
  <2>1. DOMAIN q = 0 .. next + Len(subgoals) - 1
    BY <1>2 DEF Extended, next
  <2>2. i - next + 1 \in DOMAIN subgoals /\ i = next + (i - next + 1) - 1
    BY <1>3, <2>1, SMT
  <2>3. \E k \in DOMAIN subgoals : q[i] = mk_open(idx, subgoals[k].seq)
    BY <1>2, <2>2 DEF Extended, next
  <2> QED
    BY <2>3, SMT DEF mk_open, Node
<1>5. \A k \in DOMAIN q[idx].succs : q[idx].succs[k] \in R
  <2> SUFFICES ASSUME NEW k \in DOMAIN q[idx].succs PROVE q[idx].succs[k] \in R
    OBVIOUS
  <2>1. q[idx].succs = fresh_idxs(p, subgoals)
    BY <1>2, SMT DEF Extended, Node
  <2>2. k \in 1 .. Len(subgoals) /\ q[idx].succs[k] = next + k - 1
    BY <1>3, <2>1 DEF fresh_idxs, next
  <2>3. DOMAIN q = 0 .. next + Len(subgoals) - 1
    BY <1>2 DEF Extended, next
  <2> QED
    BY <1>3, <2>2, <2>3, SMTT(30)
<1>6. \A i \in DOMAIN p \ {idx} : q[i] = p[i]
  BY <1>2 DEF Extended
<1> HIDE DEF R
<1>7. ASSUME NEW e \in Edges(Abstract(q))
      PROVE  e.src \notin R /\ (e.dst \notin R => e \in Edges(Abstract(p)))
  <2>1. PICK i \in DOMAIN q : \E k \in DOMAIN q[i].succs : e = Link(q, i, k)
    BY <1>1, LinksAre
  <2>2. PICK k \in DOMAIN q[i].succs : e = Link(q, i, k)
    BY <2>1
  <2>3. e.src = i /\ e.dst = q[i].succs[k]
    BY <2>2 DEF Link
  <2>4. i \notin R
    BY <1>4, SMT
  <2>5. i \in DOMAIN p
    BY <2>4 DEF R
  <2>6. ASSUME e.dst \notin R PROVE e \in Edges(Abstract(p))
    <3>1. i # idx
      BY <1>5, <2>3, <2>6
    <3>2. q[i] = p[i]
      BY <1>6, <2>5, <3>1
    <3>3. k \in DOMAIN p[i].succs /\ e = Link(p, i, k)
      BY <2>2, <3>2 DEF Link
    <3> QED
      BY <2>5, <3>3, LinkOf
  <2> QED
    BY <2>3, <2>4, <2>6
<1> DEFINE E == Edges(Abstract(p))
           F == Edges(Abstract(q))
<1>8. E \in SUBSET Walk /\ F \in SUBSET Walk
  BY <1>1, GoodIsGraph, SoundByPaths
<1>9. LoopsSound(E)
  BY CheckByLoops
<1>10. /\ \A e \in F : e.src \in R => e.dst \in R
       /\ \A e \in F : e.dst \notin R => e \in E
       /\ {e \in F : e.src \in R} = {}
  BY <1>7
<1> HIDE DEF E, F
<1>11. LoopsSound({e \in F : e.src \in R})
  BY <1>10, NoLinksSound
<1>12. LoopsSound(F)
  BY <1>8, <1>9, <1>10, <1>11, ClosedPartAdded
<1> QED
  BY <1>1, <1>12, CheckByLoops DEF q, F

-----------------------------------------------------------------------------
(* Soundness.  Only AddBacklink checks it.  During a splice the copied part *)
(* of prf is closed under links and mirrors a part of src, so that a loop   *)
(* is either outside the copy, and was in prf before, or a copy of a loop   *)
(* of src.  That makes AlwaysSound inductive relative to PInv.              *)

\* Every step keeps the proof under construction and the completed ones sound.
LEMMA NextSound == PInv /\ PInv' /\ AlwaysSound /\ [Next]_vars => AlwaysSound'
\* Every link that leaves the copy of a node is the copy of a link.
<1>CopiedLinks.
    ASSUME NEW p, GoodProof(p), NEW s, GoodProof(s), NEW map, NEW T, NEW B,
           SpliceOK(p, s, map, T, B),
           NEW i \in DOMAIN map, NEW k \in DOMAIN p[map[i]].succs
    PROVE  /\ i \in DOMAIN s
           /\ k \in DOMAIN s[i].succs
           /\ s[i].succs[k] \in DOMAIN map
           /\ p[map[i]].succs[k] = map[s[i].succs[k]]
           /\ p[map[i]].tps[k] = s[i].tps[k]
  <2> USE <1>CopiedLinks
  <2>1. map[i] \in DOMAIN p /\ i \in DOMAIN s
    BY DEF SpliceOK
  <2>2. i \notin T \cup B
    <3>1. SUFFICES ASSUME i \in T \cup B PROVE FALSE
      OBVIOUS
    <3>2. is_open(p[map[i]])
      BY <3>1 DEF SpliceOK
    <3> QED
      BY <2>1, <3>2, OpenNoSuccs, SMTT(30)
  <2>3. CopyOf(p, s, map, i)
    BY <2>2 DEF SpliceOK
  <2> QED
    BY <2>1, <2>3 DEF CopyOf

\* A step of add_subprf that only touches copies keeps a proof sound.
<1>SpliceSound.
    ASSUME NEW p, GoodProof(p), check(p), NEW s, GoodProof(s), check(s),
           NEW q, GoodProof(q), NEW map, NEW T, NEW B, SpliceOK(q, s, map, T, B),
           \A i \in DOMAIN q \ {map[j] : j \in DOMAIN map} :
             i \in DOMAIN p /\ q[i] = p[i]
    PROVE  check(q)
  <2> USE <1>SpliceSound
  <2> DEFINE R == {map[j] : j \in DOMAIN map}
             h == [x \in R |-> CHOOSE j \in DOMAIN map : map[j] = x]
             E == Edges(Abstract(p))
             F == Edges(Abstract(q))
             S == Edges(Abstract(s))
  <2>1. \A j \in DOMAIN map : map[j] \in R /\ h[map[j]] = j
    <3> TAKE j \in DOMAIN map
    <3>1. map[j] \in R
      OBVIOUS
    <3>2. h[map[j]] = CHOOSE l \in DOMAIN map : map[l] = map[j]
      BY <3>1
    <3>3. h[map[j]] \in DOMAIN map /\ map[h[map[j]]] = map[j]
      <4>1. \E l \in DOMAIN map : map[l] = map[j]
        OBVIOUS
      <4> QED
        BY <3>2, <4>1
    <3> HIDE DEF h
    <3> QED
      BY <3>1, <3>3 DEF SpliceOK
  <2>2. \A x \in R : \E j \in DOMAIN map : x = map[j]
    OBVIOUS
  <2>3. E \in SUBSET Walk /\ F \in SUBSET Walk /\ S \in SUBSET Walk
    BY GoodIsGraph, SoundByPaths
  <2>4. LoopsSound(E) /\ LoopsSound(S)
    BY CheckByLoops
  <2>5. \A i \in DOMAIN q \ R : i \in DOMAIN p /\ q[i] = p[i]
    OBVIOUS
  <2> HIDE DEF R, h
  <2>6. ASSUME NEW e \in F, e.src \in R
        PROVE  e.dst \in R /\ Mirrored(e, S, h)
    <3>1. PICK i \in DOMAIN q : \E k \in DOMAIN q[i].succs : e = Link(q, i, k)
      BY LinksAre
    <3>2. PICK k \in DOMAIN q[i].succs : e = Link(q, i, k)
      BY <3>1
    <3>3. e.src = i /\ e.dst = q[i].succs[k] /\ e.label = q[i].tps[k]
      BY <3>2 DEF Link
    <3>4. PICK j \in DOMAIN map : i = map[j]
      BY <2>2, <2>6, <3>3
    <3>5. /\ j \in DOMAIN s /\ k \in DOMAIN s[j].succs /\ s[j].succs[k] \in DOMAIN map
          /\ q[i].succs[k] = map[s[j].succs[k]] /\ q[i].tps[k] = s[j].tps[k]
      BY <3>4, <1>CopiedLinks, SMTT(30)
    <3>6. /\ Link(s, j, k) \in S /\ Link(s, j, k).src = j
          /\ Link(s, j, k).dst = s[j].succs[k] /\ Link(s, j, k).label = s[j].tps[k]
      BY <3>5, LinkOf, SMTT(30)
    <3>7. h[e.src] = j /\ h[e.dst] = s[j].succs[k] /\ e.dst \in R
      BY <2>1, <3>3, <3>4, <3>5, ZenonT(60)
    <3>8. Mirrored(e, S, h)
      BY <3>3, <3>5, <3>6, <3>7 DEF Mirrored
    <3> QED
      BY <3>7, <3>8
  <2>7. ASSUME NEW e \in F, e.dst \notin R
        PROVE  e \in E
    <3>1. e.src \notin R
      BY <2>6, <2>7
    <3>2. PICK i \in DOMAIN q : \E k \in DOMAIN q[i].succs : e = Link(q, i, k)
      BY LinksAre
    <3>3. PICK k \in DOMAIN q[i].succs : e = Link(q, i, k)
      BY <3>2
    <3>4. i \in DOMAIN q \ R
      BY <3>1, <3>3 DEF Link
    <3>5. i \in DOMAIN p /\ k \in DOMAIN p[i].succs /\ e = Link(p, i, k)
      BY <2>5, <3>3, <3>4 DEF Link
    <3> QED
      BY <3>5, LinkOf
  <2> HIDE DEF E, F, S
  <2> DEFINE inside == {e \in F : e.src \in R}
  <2>8. LoopsSound(inside)
    <3>1. inside \in SUBSET Walk /\ \A e \in inside : Mirrored(e, S, h)
      BY <2>3, <2>6
    <3> HIDE DEF inside
    <3> QED
      BY <2>3, <2>4, <3>1, CopiedLoops
  <2>9. LoopsSound(F)
    BY <2>3, <2>4, <2>6, <2>7, <2>8, ClosedPartAdded
  <2> QED
    BY <2>9, CheckByLoops DEF F

<1> SUFFICES ASSUME PInv, PInv', AlwaysSound, [Next]_vars
             PROVE  AlwaysSound'
  OBVIOUS
<1>1. GoodProof(prf) /\ check(prf) /\ \A p \in saved : GoodProof(p) /\ check(p)
  BY DEF PInv, AlwaysSound
<1>2. SUFFICES check(prf') /\ \A p \in saved' : check(p)
  BY DEF AlwaysSound
<1>3. ASSUME NEW idx \in DOMAIN prf, AddAxiom(idx)
      PROVE  check(prf') /\ saved' = saved
  BY <1>1, <1>3, AddAxiomSound DEF AddAxiom
<1>4. ASSUME NEW idx \in DOMAIN prf, AddInf(idx)
      PROVE  check(prf') /\ saved' = saved
  <2>1. PICK subgoals \in InfRules[prf[idx].seq] : prf' = add_inf(prf, idx, subgoals)
    BY <1>4 DEF AddInf
  <2>2. prf[idx].seq \in Sequents
    BY <1>1 DEF GoodProof, NodesOK, NodeType
  <2>3. /\ subgoals \in Seq(Subgoal)
        /\ \A k \in DOMAIN subgoals : PairsWithin(subgoals[k].label, prf[idx].seq, subgoals[k].seq)
    BY <2>2, RulesAssumption, RuleTagsAssumption
  <2>4. ensure_add(prf, idx) /\ saved' = saved
    BY <1>4 DEF AddInf
  <2> QED
    BY <1>1, <2>1, <2>3, <2>4, AddInfSound
<1>5. ASSUME NEW idx \in DOMAIN prf, NEW target \in DOMAIN prf, AddBacklink(idx, target)
      PROVE  check(prf') /\ saved' = saved
  BY <1>5 DEF AddBacklink
<1>6. CASE Complete
  BY <1>1, <1>6 DEF Complete
<1>7. ASSUME NEW seq \in Goals, NextSearch(seq)
      PROVE  check(prf') /\ saved' = saved
  BY <1>7, MkSound, SequentsAssumption DEF NextSearch
<1>8. ASSUME NEW idx \in DOMAIN prf, NEW p \in saved, AddSubprf(idx, p)
      PROVE  check(prf') /\ saved' = saved
  BY <1>1, <1>8 DEF AddSubprf
<1>9. ASSUME pc \in {"copy", "fix"}
      PROVE  /\ src \in saved /\ Stack(todo, node_map) /\ Stack(bls, node_map)
             /\ SpliceOK(prf, src, node_map, Firsts(todo), Firsts(bls))
  BY <1>9 DEF PInv, Splicing
<1>10. ASSUME CopyLeaf PROVE check(prf') /\ saved' = saved
  <2> DEFINE a == Head(todo)[1]
             to == Head(todo)[2]
  <2>1. /\ pc = "copy" /\ todo # << >> /\ saved' = saved
        /\ prf' = IF is_axiom(src[a]) THEN add_axiom(prf, to) ELSE prf
    BY <1>10 DEF CopyLeaf
  <2>2. a \in Firsts(todo) /\ to = node_map[a]
    BY <1>9, <2>1, StackTail
  <2>3. ensure_add(prf, to)
    BY <1>9, <2>1, <2>2 DEF SpliceOK, ensure_add
  <2> HIDE DEF a, to
  <2>4. check(add_axiom(prf, to))
    BY <1>1, <2>3, AddAxiomSound
  <2> QED
    BY <1>1, <2>1, <2>4
<1>11. ASSUME CopyInf PROVE check(prf') /\ saved' = saved
  <2> DEFINE a == Head(todo)[1]
             to == Head(todo)[2]
  <2>1. /\ pc = "copy" /\ todo # << >> /\ saved' = saved
        /\ prf' = add_inf(prf, to, Premises(src, a))
    BY <1>11, ZenonT(40) DEF CopyInf, Premises
  <2>2. a \in Firsts(todo) /\ to = node_map[a]
    BY <1>9, <2>1, StackTail
  <2>3. ensure_add(prf, to) /\ a \in DOMAIN src /\ prf[to].seq = src[a].seq
    BY <1>9, <2>1, <2>2 DEF SpliceOK, ensure_add
  <2> HIDE DEF a, to
  <2>4. GoodProof(src)
    BY <1>1, <1>9, <2>1
  <2>5. /\ Premises(src, a) \in Seq(Subgoal)
        /\ \A k \in DOMAIN Premises(src, a) :
             PairsWithin(Premises(src, a)[k].label, prf[to].seq, Premises(src, a)[k].seq)
    BY <2>3, <2>4, PremisesAreSubgoals, ZenonT(40)
  <2>6. check(add_inf(prf, to, Premises(src, a)))
    BY <1>1, <2>3, <2>5, AddInfSound
  <2> QED
    BY <2>1, <2>6
<1>12. ASSUME CopyEnds PROVE check(prf') /\ saved' = saved
  BY <1>1, <1>12 DEF CopyEnds
<1>13. ASSUME FixBacklink PROVE check(prf') /\ saved' = saved
  <2> DEFINE a == Head(bls)[1]
             B == Firsts(bls)
             target == src[a].succs[1]
             q == add_backlink(prf, node_map[a], node_map[target], src[a].tps[1].tv)
  <2>1. /\ pc = "fix" /\ bls # << >> /\ saved' = saved /\ todo = << >>
        /\ prf' = prf \/ prf' = add_backlink(prf, Head(bls)[2], node_map[target], src[a].tps[1].tv)
    BY <1>13, ZenonT(40) DEF FixBacklink, PInv
  <2>2. a \in B /\ Head(bls)[2] = node_map[a]
    BY <1>9, <2>1, StackTail
  <2>3. SpliceOK(prf, src, node_map, {}, B)
    <3>1. Firsts(<< >>) = {}
      BY SMT DEF Firsts
    <3> QED
      BY <1>9, <2>1, <3>1
  <2>4. GoodProof(src) /\ check(src)
    BY <1>1, <1>9, <2>1
  <2>5. GoodProof(q) /\ SpliceOK(q, src, node_map, {}, B \ {a})
    <3> HIDE DEF a, B
    <3> QED
      BY <1>1, <2>2, <2>3, <2>4, FixStep, ZenonT(40)
  <2>6. \A i \in DOMAIN q \ {node_map[j] : j \in DOMAIN node_map} :
          i \in DOMAIN prf /\ q[i] = prf[i]
    <3>1. DOMAIN q = DOMAIN prf /\ \A i \in DOMAIN prf \ {node_map[a]} : q[i] = prf[i]
      BY DEF add_backlink
    <3>2. a \in DOMAIN node_map
      BY <2>2, <2>3 DEF SpliceOK
    <3> HIDE DEF q, a
    <3> QED
      BY <3>1, <3>2
  <2> HIDE DEF a, B, target
  <2>7. check(q)
    <3> HIDE DEF q
    <3> QED
      BY <1>1, <2>4, <2>5, <2>6, <1>SpliceSound
  <2> QED
    BY <1>1, <2>1, <2>2, <2>7
<1>14. ASSUME AddSubprfReturns PROVE check(prf') /\ saved' = saved
  BY <1>1, <1>14 DEF AddSubprfReturns
<1>15. CASE UNCHANGED vars
  BY <1>1, <1>15 DEF vars
<1> QED
  BY <1>1, <1>3, <1>4, <1>5, <1>6, <1>7, <1>8, <1>10, <1>11, <1>12, <1>13, <1>14, <1>15,
     ZenonT(40) DEF Next

\* No inference, no axiom and no splice makes a proof unsound: the proof under
\* construction and every completed proof always meet the global trace condition,
\* although Proof.check is only called when a back-link is formed.
THEOREM ProofsAlwaysSound == Spec => []AlwaysSound
<1>1. Init => AlwaysSound
  <2> SUFFICES ASSUME Init PROVE AlwaysSound
    OBVIOUS
  <2>1. PICK seq \in Goals : prf = mk(seq)
    BY DEF Init
  <2>2. check(prf)
    BY <2>1, MkSound, SequentsAssumption
  <2>3. saved = {}
    BY DEF Init
  <2> QED
    BY <2>2, <2>3 DEF AlwaysSound
<1>2. PInv /\ PInv' /\ AlwaysSound /\ [Next]_vars => AlwaysSound'
  BY NextSound
<1> QED
  BY <1>1, <1>2, Invariance, PTL DEF Spec

-----------------------------------------------------------------------------
(* The two tests for open nodes.  The recursion of is_closed_at has a       *)
(* solution on every good proof: a node is closed iff no open node lies in  *)
(* the subtree below it.                                                    *)

ClosesBy(f, p) ==
  f = [i \in DOMAIN p |->
         \/ is_axiom(p[i])
         \/ is_backlink(p[i])
         \/ is_inf(p[i]) /\ \A k \in DOMAIN p[i].succs : f[p[i].succs[k]]]

\* A set of nodes that holds, with an inference, its premises.
Subtrees(S, p) ==
  \A i \in S : is_inf(p[i]) => \A k \in DOMAIN p[i].succs : p[i].succs[k] \in S

Below(p, i) ==
  {j \in DOMAIN p : \A S \in SUBSET DOMAIN p : i \in S /\ Subtrees(S, p) => j \in S}

\* Proof.is_closed_at the root, which visits the tree, and Proof.is_closed, which
\* scans all nodes, give one answer at all times, during a splice as well.
THEOREM ClosedTestsAgree == Spec => []ClosedAtRoot
<1>ClosedAtIs.
    ASSUME NEW p
    PROVE  is_closed_at(p) = CHOOSE f : ClosesBy(f, p)
  BY <1>ClosedAtIs DEF is_closed_at, ClosesBy

\* The subtree below a node is the node and the subtrees below its premises.
<1>BelowSplits.
    ASSUME NEW p, GoodProof(p), NEW i \in DOMAIN p
    PROVE  /\ i \in Below(p, i)
           /\ ~is_inf(p[i]) => Below(p, i) = {i}
           /\ is_inf(p[i]) => \A k \in DOMAIN p[i].succs : Below(p, p[i].succs[k]) \subseteq Below(p, i)
           /\ is_inf(p[i]) => \A j \in Below(p, i) :
                j = i \/ \E k \in DOMAIN p[i].succs : j \in Below(p, p[i].succs[k])
  <2> USE <1>BelowSplits
  <2>1. i \in Below(p, i)
    BY DEF Below
  <2>2. ASSUME ~is_inf(p[i]) PROVE Below(p, i) = {i}
    <3>1. {i} \in SUBSET DOMAIN p /\ Subtrees({i}, p)
      BY <2>2 DEF Subtrees
    <3>2. \A j \in Below(p, i) : j \in {i}
      BY <3>1 DEF Below
    <3> QED
      BY <2>1, <3>2
  <2>3. ASSUME is_inf(p[i]), NEW k \in DOMAIN p[i].succs, NEW j \in Below(p, p[i].succs[k])
        PROVE  j \in Below(p, i)
    BY <2>3 DEF Below, Subtrees
  <2>4. ASSUME is_inf(p[i]), NEW j \in Below(p, i), j # i
        PROVE  \E k \in DOMAIN p[i].succs : j \in Below(p, p[i].succs[k])
    <3> DEFINE S == {i} \cup {x \in DOMAIN p : \E k \in DOMAIN p[i].succs : x \in Below(p, p[i].succs[k])}
    <3>1. S \in SUBSET DOMAIN p /\ i \in S
      OBVIOUS
    <3>2. ASSUME NEW k \in DOMAIN p[i].succs
          PROVE  p[i].succs[k] \in S
      <4>1. p[i].succs[k] \in DOMAIN p
        BY <3>2, SuccsInDomain
      <4>2. p[i].succs[k] \in Below(p, p[i].succs[k])
        BY <4>1 DEF Below
      <4> QED
        BY <4>1, <4>2
    <3>3. ASSUME NEW k \in DOMAIN p[i].succs, NEW x \in Below(p, p[i].succs[k]), is_inf(p[x]),
                 NEW l \in DOMAIN p[x].succs
          PROVE  p[x].succs[l] \in S
      <4>1. x \in DOMAIN p
        BY DEF Below
      <4>2. p[x].succs[l] \in DOMAIN p
        BY <4>1, SuccsInDomain
      <4>3. p[x].succs[l] \in Below(p, p[i].succs[k])
        BY <3>3, <4>2 DEF Below, Subtrees
      <4> QED
        BY <4>2, <4>3
    <3>4. Subtrees(S, p)
      <4>1. \A x \in S : x = i \/ \E k \in DOMAIN p[i].succs : x \in Below(p, p[i].succs[k])
        OBVIOUS
      <4> HIDE DEF S
      <4> QED
        BY <3>2, <3>3, <4>1 DEF Subtrees
    <3>5. j \in S
      <4> HIDE DEF S
      <4> QED
        BY <3>1, <3>4 DEF Below
    <3> QED
      BY <2>4, <3>5
  <2> QED
    BY <2>1, <2>2, <2>3, <2>4

\* The recursion has a solution.
<1>ClosedAtSolves.
    ASSUME NEW p, GoodProof(p)
    PROVE  ClosesBy(is_closed_at(p), p)
  <2> USE <1>ClosedAtSolves
  <2> DEFINE g == [i \in DOMAIN p |-> \A j \in Below(p, i) : ~is_open(p[j])]
  <2>1. ASSUME NEW i \in DOMAIN p
        PROVE  g[i] = (\/ is_axiom(p[i])
                       \/ is_backlink(p[i])
                       \/ is_inf(p[i]) /\ \A k \in DOMAIN p[i].succs : g[p[i].succs[k]])
    <3>1. p[i].kind \in {"open", "axiom", "inf", "back"}
      BY DEF GoodProof, NodesOK, NodeType
    <3>2. g[i] = \A j \in Below(p, i) : ~is_open(p[j])
      OBVIOUS
    <3>3. CASE is_inf(p[i])
      <4>1. ~is_axiom(p[i]) /\ ~is_backlink(p[i]) /\ ~is_open(p[i])
        BY <3>3 DEF is_inf, is_axiom, is_backlink, is_open
      <4>2. \A k \in DOMAIN p[i].succs :
              g[p[i].succs[k]] = \A j \in Below(p, p[i].succs[k]) : ~is_open(p[j])
        BY SuccsInDomain
      <4> HIDE DEF g
      <4>3. (\A j \in Below(p, i) : ~is_open(p[j]))
              <=> \A k \in DOMAIN p[i].succs : \A j \in Below(p, p[i].succs[k]) : ~is_open(p[j])
        <5>1. \A k \in DOMAIN p[i].succs : \A j \in Below(p, p[i].succs[k]) : j \in Below(p, i)
          BY <3>3, <1>BelowSplits
        <5>2. \A j \in Below(p, i) :
                j = i \/ \E k \in DOMAIN p[i].succs : j \in Below(p, p[i].succs[k])
          BY <3>3, <1>BelowSplits
        <5> QED
          BY <4>1, <5>1, <5>2
      <4> QED
        BY <3>2, <3>3, <4>1, <4>2, <4>3
    <3>4. CASE ~is_inf(p[i])
      <4>1. Below(p, i) = {i}
        BY <3>4, <1>BelowSplits
      <4>2. g[i] = ~is_open(p[i])
        BY <3>2, <4>1
      <4> QED
        BY <3>1, <3>4, <4>2 DEF is_inf, is_axiom, is_backlink, is_open
    <3> QED
      BY <3>3, <3>4
  <2>2. g = [i \in DOMAIN p |-> g[i]]
    OBVIOUS
  <2>3. ClosesBy(g, p)
    <3> HIDE DEF g
    <3> QED
      BY <2>1, <2>2 DEF ClosesBy
  <2>4. \E f : ClosesBy(f, p)
    BY <2>3
  <2>5. ClosesBy((CHOOSE f : ClosesBy(f, p)), p)
    BY <2>4
  <2> QED
    BY <2>5, <1>ClosedAtIs

\* The recursive test at the root is the test of all nodes: closed nodes pass
\* their closure on to their premises, and a greatest node that is not closed
\* would be open.
<1>ClosedAtRootIsClosed.
    ASSUME NEW p, GoodProof(p)
    PROVE  is_closed_at(p)[0] <=> is_closed(p)
  <2> USE <1>ClosedAtRootIsClosed
  <2> DEFINE f == is_closed_at(p)
             top == fresh_idx(p) - 1
  <2>1. DOMAIN p = 0 .. top /\ top \in Nat
    BY RootedFresh, SMT DEF GoodProof, WellFormed
  <2>2. ClosesBy(f, p)
    BY <1>ClosedAtSolves
  <2> HIDE DEF f, top
  <2>3. \A i \in DOMAIN p :
          f[i] <=> \/ is_axiom(p[i])
                   \/ is_backlink(p[i])
                   \/ is_inf(p[i]) /\ \A k \in DOMAIN p[i].succs : f[p[i].succs[k]]
    BY <2>2 DEF ClosesBy
  <2>4. \A i \in DOMAIN p : p[i].kind \in {"open", "axiom", "inf", "back"}
    BY DEF GoodProof, NodesOK, NodeType
  <2>5. \A i \in DOMAIN p : is_inf(p[i]) => \A k \in DOMAIN p[i].succs :
          p[i].succs[k] \in DOMAIN p /\ p[i].succs[k] > i
    BY DEF GoodProof, WellFormed, PremisesOK
  <2>6. ASSUME f[0] PROVE is_closed(p)
    <3> DEFINE Bad == {i \in DOMAIN p : ~f[i]}
    <3>1. Bad = {}
      <4>1. SUFFICES ASSUME Bad # {} PROVE FALSE
        OBVIOUS
      <4>2. Bad \in SUBSET Nat
        BY <2>1, SMT
      <4>3. PICK x \in Bad : \A y \in Bad : x =< y
        BY <4>1, <4>2, LeastNatural
      <4>4. x \in DOMAIN p \ {0} /\ ~f[x]
        BY <2>6, <4>3
      <4>5. /\ p[x].par \in DOMAIN p /\ p[x].par < x /\ is_inf(p[p[x].par])
            /\ \E k \in DOMAIN p[p[x].par].succs : p[p[x].par].succs[k] = x
        BY <4>4 DEF GoodProof, WellFormed, ParentsOK
      <4>6. f[p[x].par]
        BY <2>1, <4>3, <4>5, SMTT(30)
      <4>7. \A k \in DOMAIN p[p[x].par].succs : f[p[p[x].par].succs[k]]
        BY <2>3, <4>5, <4>6 DEF is_inf, is_axiom, is_backlink
      <4> QED
        BY <4>4, <4>5, <4>7
    <3>2. \A i \in DOMAIN p : f[i]
      BY <3>1
    <3> QED
      BY <2>3, <3>2 DEF is_closed, is_open, is_axiom, is_backlink, is_inf
  <2>7. ASSUME is_closed(p) PROVE f[0]
    <3> DEFINE Bad == {i \in DOMAIN p : ~f[i]}
               Height == {n \in Nat : \E i \in Bad : n = top - i}
    <3>1. SUFFICES ASSUME Bad # {} PROVE FALSE
      BY <2>1, SMT
    <3>2. Height # {} /\ Height \in SUBSET Nat
      <4>1. PICK i \in Bad : TRUE
        BY <3>1
      <4>2. top - i \in Height
        BY <2>1, SMT
      <4> QED
        BY <4>2
    <3>3. PICK n \in Height : \A m \in Height : n =< m
      BY <3>2, LeastNatural
    <3>4. PICK i \in Bad : n = top - i
      BY <3>3
    <3>5. i \in DOMAIN p /\ ~f[i] /\ ~is_open(p[i])
      BY <2>7 DEF is_closed
    <3>6. is_inf(p[i]) /\ \E k \in DOMAIN p[i].succs : ~f[p[i].succs[k]]
      BY <2>3, <2>4, <3>5 DEF is_inf, is_axiom, is_backlink, is_open
    <3>7. PICK j \in DOMAIN p : j > i /\ ~f[j]
      BY <2>5, <3>5, <3>6
    <3>8. top - j \in Height
      BY <2>1, <3>7, SMTT(30)
    <3> QED
      BY <2>1, <3>3, <3>4, <3>5, <3>7, <3>8, SMTT(30)
  <2> QED
    BY <2>6, <2>7 DEF f

<1>1. PInv => ClosedAtRoot
  BY <1>ClosedAtRootIsClosed DEF PInv, ClosedAtRoot
<1> QED
  BY <1>1, Invariance, PTL

-----------------------------------------------------------------------------
(* Soundness.  Nothing is checked when extraction forms a back-link.  Its   *)
(* result simulates the source: h tells which node of s each node of p      *)
(* stands for.  A link of p stands for a path of s, along which a bud that  *)
(* was followed adds nothing to the label, or is a shortcut from a second   *)
(* copy of a node, in K, to the first.                                      *)

TagsOf(p) == [x \in DOMAIN p |-> p[x].seq.tags]

\* A path of s between equal sequents on which every tag traces itself.
StillPath(s, i, j) ==
  /\ s[i].seq = s[j].seq
  /\ \E w \in Paths(Edges(Abstract(s))) :
       w.src = i /\ w.dst = j /\ w.label = Still(s[i].seq.tags)

Leads(s, i, j) == i = j \/ StillPath(s, i, j)

\* A link w of p is accounted for.
Carried(w, p, s, h, K) ==
  \/ Mirrored(w, Paths(Edges(Abstract(s))), h)
  \/ Shortcut(w, TagsOf(p), h, K) /\ ~is_open(p[w.dst])

Sim(p, s, map, Q, h, K) ==
  /\ h \in [DOMAIN p -> DOMAIN s]
  /\ \A e \in Q : h[e[2]] = e[1]
  /\ \A i \in DOMAIN map : Leads(s, i, h[map[i]])
  /\ \A i \in DOMAIN map : map[i] \in K => h[map[i]] # i
  /\ \A x \in K : x \in DOMAIN p /\ ~is_open(p[x])
  /\ \A w \in Edges(Abstract(p)) : Carried(w, p, s, h, K)

\* The ends and the label of a link.
LEMMA LinkWithin ==
  ASSUME NEW p, GoodProof(p), NEW w \in Edges(Abstract(p))
  PROVE  /\ w \in Walk
         /\ w.src \in DOMAIN p /\ w.dst \in DOMAIN p
         /\ ~is_open(p[w.src])
         /\ TagsOf(p)[w.src] = p[w.src].seq.tags /\ TagsOf(p)[w.dst] = p[w.dst].seq.tags
         /\ TagsOf(p)[w.src] \in SUBSET Int
         /\ Within(w, TagsOf(p))
<1>1. w \in Walk
  BY GoodIsGraph, SoundByPaths
<1>2. PICK i \in DOMAIN p : \E k \in DOMAIN p[i].succs : w = Link(p, i, k)
  BY LinksAre
<1>3. PICK k \in DOMAIN p[i].succs : w = Link(p, i, k)
  BY <1>2
<1>4. w.src = i /\ w.dst = p[i].succs[k] /\ w.label = p[i].tps[k]
  BY <1>3 DEF Link
<1>5. w.dst \in DOMAIN p
  BY <1>4, SuccsInDomain
<1>6. ~is_open(p[i])
  BY OpenNoSuccs, SMT
<1>7. PairsWithin(w.label, p[w.src].seq, p[w.dst].seq)
  BY <1>4 DEF GoodProof, TracesOK
<1>8. p[i].seq \in Sequents
  BY DEF GoodProof, NodesOK, NodeType
<1>9. p[i].seq.tags \in SUBSET Int
  BY <1>8, TagsAssumption
<1>10. TagsOf(p)[w.src] = p[w.src].seq.tags /\ TagsOf(p)[w.dst] = p[w.dst].seq.tags
  BY <1>4, <1>5 DEF TagsOf
<1>11. w.label.tv \subseteq TagsOf(p)[w.src] \X TagsOf(p)[w.dst] /\ w.label.tp \subseteq w.label.tv
  BY <1>7, <1>10 DEF PairsWithin
<1>12. Within(w, TagsOf(p))
  BY <1>11 DEF Within
<1> QED
  BY <1>1, <1>4, <1>5, <1>6, <1>9, <1>10, <1>12, ZenonT(60)

\* A proof that simulates a sound one is sound.
LEMMA SimSound ==
  ASSUME NEW p, GoodProof(p), NEW s, GoodProof(s), check(s),
         NEW h, NEW K, \A w \in Edges(Abstract(p)) : Carried(w, p, s, h, K)
  PROVE  check(p)
<1> DEFINE E == Edges(Abstract(s))
           F == Edges(Abstract(p))
<1>1. E \in SUBSET Walk /\ F \in SUBSET Walk
  BY GoodIsGraph, SoundByPaths
<1>2. LoopsSound(E)
  BY CheckByLoops
<1>3. \A w \in F : Within(w, TagsOf(p)) /\ TagsOf(p)[w.src] \in SUBSET Int
  BY LinkWithin
<1>4. \A w \in F : Simulated(w, Paths(E), TagsOf(p), h, K)
  BY DEF Carried, Simulated
<1> HIDE DEF E, F
<1>5. LoopsSound(F)
  BY <1>1, <1>2, <1>3, <1>4, ShortcutLoops
<1> QED
  BY <1>5, CheckByLoops DEF F

LEMMA StillJoin ==
  ASSUME NEW s, GoodProof(s), NEW i \in DOMAIN s, NEW j, NEW k,
         StillPath(s, i, j), StillPath(s, j, k)
  PROVE  StillPath(s, i, k)
<1> DEFINE E == Edges(Abstract(s))
           T == s[i].seq.tags
<1>1. E \in SUBSET Walk
  BY GoodIsGraph, SoundByPaths
<1>2. s[i].seq = s[j].seq /\ s[j].seq = s[k].seq
  BY DEF StillPath
<1>3. PICK u \in Paths(E) : u.src = i /\ u.dst = j /\ u.label = Still(T)
  BY DEF StillPath
<1>4. PICK v \in Paths(E) : v.src = j /\ v.dst = k /\ v.label = Still(T)
  BY <1>2 DEF StillPath
<1>5. s[i].seq \in Sequents
  BY DEF GoodProof, NodesOK, NodeType
<1>6. T \in SUBSET Int
  BY <1>5, TagsAssumption
<1> HIDE DEF E, T
<1>7. Extend(u, v) \in Paths(E)
  BY <1>1, <1>3, <1>4, PathsJoin
<1>8. u \in Walk /\ v \in Walk
  BY <1>1, PathsTyped
<1>9. /\ Extend(u, v).src = i /\ Extend(u, v).dst = k
      /\ Extend(u, v).label = FuseLabels(Still(T), Still(T))
  BY <1>3, <1>4, <1>8, ExtendFields, SMTT(30)
<1>10. FuseLabels(Still(T), Still(T)) = Still(T)
  <2>1. /\ Still(T) \in Label /\ Still(T).tp = {}
        /\ \A x, y : <<x, y>> \in Still(T).tv <=> x \in T /\ x = y
    BY <1>6, StillPairs
  <2>2. \A x, y : <<x, y>> \in Still(T).tv \/ <<x, y>> \in Still(T).tp => y \in T
    BY <2>1, SMT
  <2> QED
    BY <1>6, <2>1, <2>2, StillNeutral
<1> QED
  BY <1>2, <1>7, <1>9, <1>10 DEF StillPath, E, T

\* The back-link of a bud.
LEMMA BudStill ==
  ASSUME NEW s, GoodProof(s), Strict(s), NEW b \in DOMAIN s, is_backlink(s[b])
  PROVE  s[b].succs[1] \in DOMAIN s /\ StillPath(s, b, s[b].succs[1])
<1>1. s[b].seq = s[s[b].succs[1]].seq /\ s[b].tps[1] = Still(s[b].seq.tags)
  BY DEF Strict, Still
<1>2. 1 \in DOMAIN s[b].succs
  BY SMT DEF GoodProof, NodesOK, NodeType, is_backlink
<1>3. s[b].succs[1] \in DOMAIN s
  BY <1>2, SuccsInDomain
<1> DEFINE w == Link(s, b, 1)
           E == Edges(Abstract(s))
<1>4. w \in E /\ w.src = b /\ w.dst = s[b].succs[1] /\ w.label = s[b].tps[1]
  BY <1>2, LinkOf, SMTT(30)
<1>5. E \in SUBSET Walk
  BY GoodIsGraph, SoundByPaths
<1>6. w \in Paths(E)
  BY <1>4, <1>5, PathsFollowing DEF Following
<1> HIDE DEF w
<1> QED
  BY <1>1, <1>3, <1>4, <1>6 DEF StillPath

\* What is accounted for stays so while nodes are added and closed.
LEMMA CarriedKept ==
  ASSUME NEW p, GoodProof(p), NEW s, NEW h, NEW K, NEW w \in Edges(Abstract(p)),
         Carried(w, p, s, h, K),
         NEW q, NEW h2, NEW K2, K \subseteq K2,
         \A x \in DOMAIN p : /\ x \in DOMAIN q /\ q[x].seq = p[x].seq
                             /\ ~is_open(p[x]) => ~is_open(q[x]),
         \A x \in DOMAIN p : x \in K2 /\ ~is_open(p[x]) => x \in K,
         h2[w.src] = h[w.src], h2[w.dst] = h[w.dst]
  PROVE  Carried(w, q, s, h2, K2)
<1>1. /\ w.src \in DOMAIN p /\ w.dst \in DOMAIN p
      /\ TagsOf(p)[w.src] = p[w.src].seq.tags /\ TagsOf(p)[w.dst] = p[w.dst].seq.tags
  BY LinkWithin
<1>2. TagsOf(q)[w.src] = q[w.src].seq.tags /\ TagsOf(q)[w.dst] = q[w.dst].seq.tags
  BY <1>1 DEF TagsOf
<1>3. TagsOf(q)[w.src] = TagsOf(p)[w.src] /\ TagsOf(q)[w.dst] = TagsOf(p)[w.dst]
  BY <1>1, <1>2
<1>4. CASE Mirrored(w, Paths(Edges(Abstract(s))), h)
  BY <1>4 DEF Mirrored, Carried
<1>5. CASE Shortcut(w, TagsOf(p), h, K) /\ ~is_open(p[w.dst])
  <2>1. /\ w.src \in K /\ w.dst \notin K /\ h[w.src] = h[w.dst]
        /\ TagsOf(p)[w.src] = TagsOf(p)[w.dst] /\ w.label = Still(TagsOf(p)[w.src])
    BY <1>5 DEF Shortcut
  <2>2. w.src \in K2 /\ w.dst \notin K2 /\ ~is_open(q[w.dst])
    BY <1>1, <1>5, <2>1
  <2>3. Shortcut(w, TagsOf(q), h2, K2)
    BY <1>3, <2>1, <2>2 DEF Shortcut
  <2> QED
    BY <2>2, <2>3 DEF Carried
<1> QED
  BY <1>4, <1>5 DEF Carried

\* A waiting node is closed with an axiom or a back-link.
LEMMA SimClose ==
  ASSUME NEW p, GoodProof(p), NEW s, NEW map, NEW Q, ExtractOK(p, s, map, Q),
         NEW h, NEW K, Sim(p, s, map, Q, h, K), NEW e \in Q,
         NEW q, GoodProof(q), Closed(p, q, e[2]), ~is_open(q[e[2]]),
         NEW map2, map2 = map \/ Adds(map, e[1], e[2], map2),
         NEW K2,
         \/ K2 = K
         \/ K2 = K \cup {e[2]} /\ map2 = map /\ \A i \in DOMAIN map : ~is_open(p[map[i]]),
         \A k \in DOMAIN q[e[2]].succs : Carried(Link(q, e[2], k), q, s, h, K2)
  PROVE  Sim(q, s, map2, Others(Q, e), h, K2)
<1> DEFINE to == e[2]
<1>1. /\ to \in DOMAIN p /\ is_open(p[to])
      /\ \A i \in DOMAIN map : map[i] \in DOMAIN p
  BY DEF ExtractOK
<1>2. /\ h \in [DOMAIN p -> DOMAIN s]
      /\ \A d \in Q : h[d[2]] = d[1]
      /\ \A i \in DOMAIN map : Leads(s, i, h[map[i]])
      /\ \A i \in DOMAIN map : map[i] \in K => h[map[i]] # i
      /\ \A x \in K : x \in DOMAIN p /\ ~is_open(p[x])
      /\ \A w \in Edges(Abstract(p)) : Carried(w, p, s, h, K)
  BY DEF Sim
<1>3. DOMAIN q = DOMAIN p /\ \A i \in DOMAIN p \ {to} : q[i] = p[i]
  BY DEF Closed
<1>4. q[to].seq = p[to].seq
  BY DEF Closed
<1>5. /\ \A i \in DOMAIN map : i \in DOMAIN map2 /\ map2[i] = map[i]
      /\ \A i \in DOMAIN map2 : i \in DOMAIN map \/ (i = e[1] /\ map2[i] = to)
  BY DEF Adds
<1>6. K \subseteq K2 /\ \A x \in K2 : x \in K \/ x = to
  OBVIOUS
<1> HIDE DEF to
<1>7. \A x \in DOMAIN p : /\ x \in DOMAIN q /\ q[x].seq = p[x].seq
                          /\ ~is_open(p[x]) => ~is_open(q[x])
  BY <1>1, <1>3, <1>4
<1>8. \A x \in DOMAIN p : x \in K2 /\ ~is_open(p[x]) => x \in K
  BY <1>1, <1>6
<1>9. h \in [DOMAIN q -> DOMAIN s]
  BY <1>2, <1>3
<1>10. \A d \in Others(Q, e) : h[d[2]] = d[1]
  BY <1>2 DEF Others
<1>11. \A i \in DOMAIN map2 : Leads(s, i, h[map2[i]])
  BY <1>2, <1>5, ZenonT(60) DEF to, Leads
<1>12. \A i \in DOMAIN map2 : map2[i] \in K2 => h[map2[i]] # i
  <2>1. CASE K2 = K
    <3>1. to \notin K
      BY <1>1, <1>2
    <3> QED
      BY <1>2, <1>5, <2>1, <3>1
  <2>2. CASE map2 = map /\ \A i \in DOMAIN map : ~is_open(p[map[i]])
    <3>1. \A i \in DOMAIN map : map[i] # to
      BY <1>1, <2>2
    <3> QED
      BY <1>2, <1>6, <2>2, <3>1
  <2> QED
    BY <2>1, <2>2
<1>13. \A x \in K2 : x \in DOMAIN q /\ ~is_open(q[x])
  BY <1>1, <1>2, <1>6, <1>7 DEF to
<1>14. ASSUME NEW w \in Edges(Abstract(q)) PROVE Carried(w, q, s, h, K2)
  <2>1. PICK i \in DOMAIN q : \E k \in DOMAIN q[i].succs : w = Link(q, i, k)
    BY LinksAre
  <2>2. PICK k \in DOMAIN q[i].succs : w = Link(q, i, k)
    BY <2>1
  <2>3. CASE i = to
    BY <2>2, <2>3 DEF to
  <2>4. CASE i # to
    <3>1. i \in DOMAIN p /\ q[i] = p[i]
      BY <1>3, <2>4
    <3>2. k \in DOMAIN p[i].succs /\ w = Link(p, i, k)
      BY <2>2, <3>1 DEF Link
    <3>3. w \in Edges(Abstract(p))
      BY <3>1, <3>2, LinksAre
    <3>4. Carried(w, p, s, h, K)
      BY <1>2, <3>3
    <3> QED
      BY <1>6, <1>7, <1>8, <3>3, <3>4, CarriedKept, ZenonT(60)
  <2> QED
    BY <2>3, <2>4
<1> QED
  BY <1>9, <1>10, <1>11, <1>12, <1>13, <1>14, ZenonT(60) DEF Sim

\* The target of a bud takes the place of the bud.
LEMMA SimFollow ==
  ASSUME NEW p, GoodProof(p), NEW s, GoodProof(s), NEW map, NEW Q, ExtractOK(p, s, map, Q),
         NEW h, NEW K, Sim(p, s, map, Q, h, K), NEW e \in Q,
         NEW t \in DOMAIN s, StillPath(s, e[1], t),
         NEW map2, Adds(map, e[1], e[2], map2)
  PROVE  Sim(p, s, map2, {<<t, e[2]>>} \cup Others(Q, e), [h EXCEPT ![e[2]] = t], K)
<1> DEFINE from == e[1]
           to == e[2]
           h2 == [h EXCEPT ![to] = t]
           d0 == <<t, to>>
           Q2 == {d0} \cup Others(Q, e)
           E == Edges(Abstract(s))
<1>1. /\ from \in DOMAIN s /\ to \in DOMAIN p /\ is_open(p[to]) /\ p[to].seq = s[from].seq
      /\ DOMAIN map \subseteq DOMAIN s
      /\ \A i \in DOMAIN map : map[i] \in DOMAIN p
  BY DEF ExtractOK
<1>2. /\ h \in [DOMAIN p -> DOMAIN s]
      /\ \A d \in Q : h[d[2]] = d[1]
      /\ \A i \in DOMAIN map : Leads(s, i, h[map[i]])
      /\ \A i \in DOMAIN map : map[i] \in K => h[map[i]] # i
      /\ \A x \in K : x \in DOMAIN p /\ ~is_open(p[x])
      /\ \A w \in Edges(Abstract(p)) : Carried(w, p, s, h, K)
  BY DEF Sim
<1>3. h2 \in [DOMAIN p -> DOMAIN s] /\ h2[to] = t /\ \A x \in DOMAIN p \ {to} : h2[x] = h[x]
  BY <1>1, <1>2
<1>4. /\ \A i \in DOMAIN map : i \in DOMAIN map2 /\ map2[i] = map[i]
      /\ \A i \in DOMAIN map2 : i \in DOMAIN map \/ (i = from /\ map2[i] = to)
  BY DEF Adds
<1>5. d0[1] = t /\ d0[2] = to
  OBVIOUS
<1>6. \A d \in Q2 : d = d0 \/ (d \in Q /\ d[2] # to)
  BY DEF Others
<1>7. h[to] = from /\ StillPath(s, from, t)
  BY <1>2
<1>8. \A d \in Q : d[2] \in DOMAIN p
  BY DEF ExtractOK
<1>9. E \in SUBSET Walk
  BY GoodIsGraph, SoundByPaths
<1> HIDE DEF from, to, h2, d0, Q2, E
<1>10. \A d \in Q2 : h2[d[2]] = d[1]
  <2> TAKE d \in Q2
  <2>1. CASE d = d0
    BY <1>3, <1>5, <2>1
  <2>2. CASE d \in Q /\ d[2] # to
    BY <1>2, <1>3, <1>8, <2>2
  <2> QED
    BY <1>6, <2>1, <2>2
<1>11. ASSUME NEW i \in DOMAIN map2 PROVE Leads(s, i, h2[map2[i]])
  <2>1. CASE i \in DOMAIN map /\ map[i] # to
    BY <1>1, <1>2, <1>3, <1>4, <2>1, SMTT(30)
  <2>2. CASE i \in DOMAIN map /\ map[i] = to
    <3>1. Leads(s, i, from) /\ i \in DOMAIN s
      BY <1>1, <1>2, <1>7, <2>2, ZenonT(60)
    <3>2. Leads(s, i, t)
      BY <1>7, <3>1, StillJoin DEF Leads
    <3> QED
      BY <1>3, <1>4, <2>2, <3>2
  <2>3. CASE i = from /\ map2[i] = to
    BY <1>3, <1>7, <2>3 DEF Leads
  <2> QED
    BY <1>4, <2>1, <2>2, <2>3, ZenonT(60)
<1>12. \A i \in DOMAIN map2 : map2[i] \in K => h2[map2[i]] # i
  <2> SUFFICES ASSUME NEW i \in DOMAIN map2, map2[i] \in K PROVE h2[map2[i]] # i
    OBVIOUS
  <2>1. map2[i] \in DOMAIN p /\ map2[i] # to
    BY <1>1, <1>2
  <2>2. i \in DOMAIN map /\ map2[i] = map[i]
    BY <1>4, <2>1
  <2> QED
    BY <1>2, <1>3, <2>1, <2>2
<1>13. ASSUME NEW w \in Edges(Abstract(p)) PROVE Carried(w, p, s, h2, K)
  <2>1. /\ w \in Walk
        /\ w.src \in DOMAIN p /\ w.dst \in DOMAIN p /\ ~is_open(p[w.src])
        /\ TagsOf(p)[w.dst] = p[w.dst].seq.tags
        /\ Within(w, TagsOf(p))
        /\ Carried(w, p, s, h, K)
    BY <1>2, LinkWithin
  <2>2. w.src # to
    BY <1>1, <2>1
  <2>3. h2[w.src] = h[w.src]
    BY <1>3, <2>1, <2>2
  <2>4. CASE w.dst # to
    <3>1. h2[w.dst] = h[w.dst]
      BY <1>3, <2>1, <2>4
    <3> QED
      BY <2>1, <2>3, <3>1, CarriedKept
  <2>5. CASE w.dst = to
    <3>1. Mirrored(w, Paths(E), h)
      BY <1>1, <2>1, <2>5 DEF Carried, E
    <3>2. PICK v \in Paths(E) : v.src = h[w.src] /\ v.dst = h[w.dst] /\ v.label = w.label
      BY <3>1 DEF Mirrored
    <3> DEFINE T == s[from].seq.tags
    <3>3. PICK u \in Paths(E) : u.src = from /\ u.dst = t /\ u.label = Still(T)
      BY <1>7 DEF StillPath, E
    <3>4. s[from].seq \in Sequents
      BY <1>1 DEF GoodProof, NodesOK, NodeType
    <3>5. T \in SUBSET Int
      BY <3>4, TagsAssumption
    <3>6. TagsOf(p)[w.dst] = T
      BY <1>1, <2>1, <2>5
    <3> HIDE DEF T
    <3>7. v \in Walk /\ u \in Walk /\ w.label \in Label
      BY <1>9, <2>1, PathsTyped, WalkFields
    <3>8. u.src = v.dst
      BY <1>7, <2>5, <3>2, <3>3
    <3>9. Extend(v, u) \in Paths(E)
      BY <1>9, <3>8, PathsJoin, ZenonT(60)
    <3>10. /\ Extend(v, u).src = v.src /\ Extend(v, u).dst = t
           /\ Extend(v, u).label = FuseLabels(w.label, Still(T))
      BY <3>2, <3>3, <3>7, ExtendFields, SMTT(30)
    <3>11. FuseLabels(w.label, Still(T)) = w.label
      <4>1. \A x, y : <<x, y>> \in w.label.tv \/ <<x, y>> \in w.label.tp => y \in T
        BY <2>1, <3>6 DEF Within
      <4> QED
        BY <3>5, <3>7, <4>1, StillNeutral
    <3>12. h2[w.dst] = t
      BY <1>3, <2>5
    <3>13. Mirrored(w, Paths(E), h2)
      BY <2>3, <3>2, <3>9, <3>10, <3>11, <3>12, ZenonT(60) DEF Mirrored
    <3> QED
      BY <3>13 DEF Carried, E
  <2> QED
    BY <2>4, <2>5
<1>14. Sim(p, s, map2, Q2, h2, K)
  BY <1>2, <1>3, <1>10, <1>11, <1>12, <1>13, ZenonT(60) DEF Sim
<1> QED
  BY <1>14 DEF Q2, h2, d0, to

\* An inference is copied.
LEMMA SimInference ==
  ASSUME NEW p, GoodProof(p), NEW s, GoodProof(s), NEW map, NEW Q, ExtractOK(p, s, map, Q),
         NEW h, NEW K, Sim(p, s, map, Q, h, K), NEW e \in Q,
         NEW map2, Adds(map, e[1], e[2], map2),
         NEW q, GoodProof(q), q = add_inf(p, e[2], Premises(s, e[1]))
  PROVE  \E h2 : Sim(q, s, map2,
                     Slots(Visit(s, e[1], fresh_idxs(p, Premises(s, e[1])))) \cup Others(Q, e),
                     h2, K)
<1> DEFINE a == e[1]
           to == e[2]
           subgoals == Premises(s, a)
           new == fresh_idxs(p, subgoals)
           visit == Visit(s, a, new)
           next == fresh_idx(p)
           len == Len(subgoals)
           V == Slots(visit)
           Q2 == V \cup Others(Q, e)
           h2 == [x \in DOMAIN q |-> IF x \in DOMAIN p THEN h[x] ELSE s[a].succs[x - next + 1]]
<1>1. /\ a \in DOMAIN s /\ to \in DOMAIN p /\ is_open(p[to])
      /\ \A i \in DOMAIN map : map[i] \in DOMAIN p
      /\ \A d \in Q : d[2] \in DOMAIN p
  BY DEF ExtractOK
<1>2. /\ h \in [DOMAIN p -> DOMAIN s]
      /\ \A d \in Q : h[d[2]] = d[1]
      /\ \A i \in DOMAIN map : Leads(s, i, h[map[i]])
      /\ \A i \in DOMAIN map : map[i] \in K => h[map[i]] # i
      /\ \A x \in K : x \in DOMAIN p /\ ~is_open(p[x])
      /\ \A w \in Edges(Abstract(p)) : Carried(w, p, s, h, K)
  BY DEF Sim
<1>3. /\ subgoals \in Seq(Subgoal)
      /\ DOMAIN subgoals = DOMAIN s[a].succs
      /\ \A k \in DOMAIN s[a].succs : subgoals[k].label = s[a].tps[k]
  BY <1>1, PremisesAreSubgoals, SMTT(30)
<1>4. Extended(p, q, to, subgoals)
  BY <1>1, <1>3, AddInfExtends, ZenonT(60)
<1>5. next \in Nat \ {0} /\ DOMAIN p = 0 .. next - 1 /\ len \in Nat /\ DOMAIN subgoals = 1 .. len
  BY <1>3, RootedFresh, SMTT(30) DEF GoodProof, WellFormed
<1>6. \A k \in DOMAIN subgoals : s[a].succs[k] \in DOMAIN s
  BY <1>1, <1>3, SuccsInDomain
<1>7. DOMAIN new = DOMAIN subgoals /\ \A k \in DOMAIN subgoals : new[k] = next + k - 1
  BY DEF fresh_idxs
<1>8. /\ DOMAIN visit = DOMAIN subgoals
      /\ \A k \in DOMAIN subgoals : visit[k][1] = s[a].succs[k] /\ visit[k][2] = new[k]
  BY <1>3 DEF Visit
<1>9. /\ DOMAIN q = 0 .. next + len - 1
      /\ \A i \in DOMAIN p \ {to} : q[i] = p[i]
      /\ q[to] = Node(p[to].par, "inf", p[to].seq, new,
                      [k \in DOMAIN subgoals |-> subgoals[k].label])
  BY <1>4 DEF Extended
<1>10. /\ \A d \in V : \E k \in DOMAIN subgoals : d = visit[k]
       /\ \A d \in Q2 : d \in V \/ (d \in Q /\ d[2] # to)
  BY <1>8 DEF Slots, Others
<1>11. \A x \in DOMAIN q : h2[x] = IF x \in DOMAIN p THEN h[x] ELSE s[a].succs[x - next + 1]
  OBVIOUS
<1>12. h[to] = a
  BY <1>2
<1>13. /\ \A i \in DOMAIN map : i \in DOMAIN map2 /\ map2[i] = map[i]
       /\ \A i \in DOMAIN map2 : i \in DOMAIN map \/ (i = a /\ map2[i] = to)
  BY DEF Adds
<1> HIDE DEF subgoals, new, visit, next, len, V
<1>14. \A x \in DOMAIN q : x \notin DOMAIN p => x - next + 1 \in DOMAIN subgoals
  BY <1>5, <1>9, SMTT(30)
<1>15. h2 \in [DOMAIN q -> DOMAIN s]
  <2>1. \A x \in DOMAIN q : h2[x] \in DOMAIN s
    BY <1>2, <1>6, <1>11, <1>14, ZenonT(60)
  <2> QED
    BY <2>1
<1> HIDE DEF a, to, Q2, h2
<1>16. \A x \in DOMAIN p : x \in DOMAIN q /\ h2[x] = h[x]
  BY <1>5, <1>9, <1>11, SMTT(30)
<1>17. ASSUME NEW k \in DOMAIN subgoals
       PROVE  new[k] \in DOMAIN q /\ h2[new[k]] = s[a].succs[k]
  <2>1. new[k] = next + k - 1 /\ k \in 1 .. len
    BY <1>5, <1>7
  <2>2. new[k] \in DOMAIN q /\ new[k] \notin DOMAIN p /\ new[k] - next + 1 = k
    BY <1>5, <1>9, <2>1, SMTT(30)
  <2> QED
    BY <1>11, <2>2
<1>18. /\ q[to].succs = new /\ q[to].seq = p[to].seq /\ ~is_open(q[to])
       /\ q[to].tps = [k \in DOMAIN subgoals |-> subgoals[k].label]
  BY <1>9, SMT DEF Node, is_open
<1>19. \A x \in DOMAIN p : /\ x \in DOMAIN q /\ q[x].seq = p[x].seq
                           /\ ~is_open(p[x]) => ~is_open(q[x])
  BY <1>1, <1>9, <1>16, <1>18
<1>20. \A d \in Q2 : h2[d[2]] = d[1]
  <2> TAKE d \in Q2
  <2>1. CASE d \in V
    <3>1. PICK k \in DOMAIN subgoals : d = visit[k]
      BY <1>10, <2>1
    <3> QED
      BY <1>8, <1>17, <3>1
  <2>2. CASE d \in Q /\ d[2] # to
    BY <1>1, <1>2, <1>16, <2>2, ZenonT(60)
  <2> QED
    BY <1>10, <2>1, <2>2
<1>21. \A i \in DOMAIN map2 : Leads(s, i, h2[map2[i]])
  BY <1>1, <1>2, <1>12, <1>13, <1>16, ZenonT(60) DEF Leads
<1>22. \A i \in DOMAIN map2 : map2[i] \in K => h2[map2[i]] # i
  <2>1. to \notin K
    BY <1>1, <1>2
  <2> QED
    BY <1>1, <1>2, <1>13, <1>16, <2>1, ZenonT(60)
<1>23. \A x \in K : x \in DOMAIN q /\ ~is_open(q[x])
  BY <1>2, <1>19
<1>24. ASSUME NEW w \in Edges(Abstract(q)) PROVE Carried(w, q, s, h2, K)
  <2>1. PICK i \in DOMAIN q : \E k \in DOMAIN q[i].succs : w = Link(q, i, k)
    BY LinksAre, SMTT(30)
  <2>2. PICK k \in DOMAIN q[i].succs : w = Link(q, i, k)
    BY <2>1
  <2>3. CASE i = to
    <3>1. k \in DOMAIN subgoals
      BY <1>7, <1>18, <2>2, <2>3
    <3>2. w.src = to /\ w.dst = new[k] /\ w.label = s[a].tps[k]
      BY <1>3, <1>18, <2>2, <2>3, <3>1 DEF Link
    <3> DEFINE v == Link(s, a, k)
               E == Edges(Abstract(s))
    <3>3. k \in DOMAIN s[a].succs
      BY <1>3, <3>1
    <3>4. v \in E /\ v.src = a /\ v.dst = s[a].succs[k] /\ v.label = s[a].tps[k]
      BY <1>1, <3>3, LinkOf, SMTT(30)
    <3>5. E \in SUBSET Walk
      BY GoodIsGraph, SoundByPaths
    <3>6. v \in Paths(E)
      BY <3>4, <3>5, PathsFollowing DEF Following
    <3> HIDE DEF v
    <3>7. h2[w.src] = a /\ h2[w.dst] = s[a].succs[k]
      BY <1>1, <1>12, <1>16, <1>17, <3>1, <3>2
    <3> QED
      BY <3>2, <3>4, <3>6, <3>7 DEF Carried, Mirrored
  <2>4. CASE i # to
    <3>1. i \in DOMAIN p
      <4> SUFFICES ASSUME i \notin DOMAIN p PROVE FALSE
        OBVIOUS
      <4>1. i - next + 1 \in DOMAIN subgoals
        BY <1>14
      <4>2. next + (i - next + 1) - 1 = i
        BY <1>5, <1>9, SMTT(30)
      <4>3. q[i] = mk_open(to, subgoals[i - next + 1].seq)
        BY <1>4, <4>1, <4>2 DEF Extended, next
      <4>4. q[i].succs = << >>
        BY <4>3, SMTT(30) DEF mk_open, Node
      <4> QED
        BY <2>2, <4>4, SMTT(30)
    <3>2. q[i] = p[i]
      BY <1>9, <2>4, <3>1
    <3>3. k \in DOMAIN p[i].succs /\ w = Link(p, i, k)
      BY <2>2, <3>2 DEF Link
    <3>4. w \in Edges(Abstract(p))
      BY <3>1, <3>3, LinksAre
    <3>5. Carried(w, p, s, h, K) /\ w.src \in DOMAIN p /\ w.dst \in DOMAIN p
      BY <1>2, <3>4, LinkWithin
    <3>6. h2[w.src] = h[w.src] /\ h2[w.dst] = h[w.dst]
      BY <1>16, <3>5
    <3> QED
      BY <1>19, <3>4, <3>5, <3>6, CarriedKept
  <2> QED
    BY <2>3, <2>4
<1>25. Sim(q, s, map2, Q2, h2, K)
  BY <1>15, <1>20, <1>21, <1>22, <1>23, <1>24, ZenonT(60) DEF Sim
<1> QED
  BY <1>25 DEF Q2, V, visit, new, subgoals, a

\* Only a bud that was just followed is mapped to an open node.
Settled ==
  \A i \in DOMAIN node_map : is_open(prf[node_map[i]]) =>
    /\ todo # << >>
    /\ node_map[i] = Head(todo)[2]
    /\ Head(todo)[1] \notin DOMAIN node_map

Simulating == \E h, K : Sim(prf, src, node_map, Slots(todo), h, K)

SInv ==
  /\ AlwaysSound
  /\ pc = "extract" => Settled /\ Simulating

\* What a step of extraction has to establish.
LEMMA SimReestablish ==
  ASSUME XInv, XInv', SInv, pc = "extract", pc' = pc, src' = src, saved' = saved,
         \/ \A i \in DOMAIN node_map' : ~is_open(prf'[node_map'[i]])
         \/ Settled',
         NEW h, NEW K, Sim(prf', src, node_map', Slots(todo'), h, K)
  PROVE  SInv'
<1>1. GoodProof(prf') /\ GoodProof(src) /\ src \in saved
  BY DEF XInv, Extracting
<1>2. check(src) /\ \A p \in saved : check(p)
  BY <1>1 DEF SInv, AlwaysSound
<1>3. \A w \in Edges(Abstract(prf')) : Carried(w, prf', src, h, K)
  BY DEF Sim
<1>4. check(prf')
  BY <1>1, <1>2, <1>3, SimSound
<1>5. AlwaysSound'
  BY <1>2, <1>4 DEF AlwaysSound
<1>6. Settled'
  BY DEF Settled
<1>7. Simulating'
  BY DEF Simulating
<1> QED
  BY <1>5, <1>6, <1>7 DEF SInv

\* A closed slot leaves no mapped node open.
LEMMA NoneOpen ==
  ASSUME XInv, pc = "extract", todo # << >>, Settled,
         NEW q, \A i \in DOMAIN prf \ {Head(todo)[2]} : q[i] = prf[i],
         ~is_open(q[Head(todo)[2]]),
         NEW map2, map2 = node_map \/ Adds(node_map, Head(todo)[1], Head(todo)[2], map2)
  PROVE  \A i \in DOMAIN map2 : ~is_open(q[map2[i]])
<1> DEFINE to == Head(todo)[2]
<1>1. \A i \in DOMAIN node_map : node_map[i] \in DOMAIN prf
  BY DEF XInv, Extracting, ExtractOK
<1>2. \A i \in DOMAIN map2 : \/ i \in DOMAIN node_map /\ map2[i] = node_map[i]
                             \/ map2[i] = to
  BY DEF Adds
<1>3. \A i \in DOMAIN node_map : node_map[i] # to => ~is_open(prf[node_map[i]])
  BY DEF Settled
<1> HIDE DEF to
<1>4. ASSUME NEW i \in DOMAIN map2, map2[i] # to PROVE ~is_open(q[map2[i]])
  <2>1. map2[i] \in DOMAIN prf \ {to} /\ ~is_open(prf[map2[i]])
    BY <1>1, <1>2, <1>3, <1>4
  <2> QED
    BY <2>1 DEF to
<1> QED
  BY <1>4 DEF to

-----------------------------------------------------------------------------
(* The steps of extraction keep its result a simulation. *)

LEMMA SlotsConcat ==
  ASSUME NEW s \in Seq(Nat \X Nat), NEW t \in Seq(Nat \X Nat)
  PROVE  Slots(s \o t) = Slots(s) \cup Slots(t)
<1> DEFINE u == s \o t
           m == Len(s)
           n == Len(t)
<1>1. /\ m \in Nat /\ n \in Nat /\ DOMAIN s = 1 .. m /\ DOMAIN t = 1 .. n /\ DOMAIN u = 1 .. m + n
      /\ \A k \in 1 .. m : u[k] = s[k]
      /\ \A k \in 1 .. n : u[m + k] = t[k]
  BY SMT
<1> HIDE DEF u, m, n
<1>2. ASSUME NEW k \in DOMAIN u PROVE u[k] \in Slots(s) \cup Slots(t)
  <2>1. CASE k \in 1 .. m
    BY <1>1, <2>1 DEF Slots
  <2>2. CASE k \notin 1 .. m
    <3>1. k - m \in 1 .. n /\ m + (k - m) = k
      BY <1>1, <2>2, SMTT(30)
    <3>2. u[k] = t[k - m]
      BY <1>1, <3>1
    <3> QED
      BY <1>1, <3>1, <3>2 DEF Slots
  <2> QED
    BY <2>1, <2>2
<1>3. ASSUME NEW k \in DOMAIN s PROVE s[k] \in Slots(u)
  <2>1. k \in DOMAIN u
    BY <1>1, SMT
  <2> QED
    BY <1>1, <2>1 DEF Slots
<1>4. ASSUME NEW k \in DOMAIN t PROVE t[k] \in Slots(u)
  <2>1. m + k \in DOMAIN u
    BY <1>1, SMTT(30)
  <2> QED
    BY <1>1, <2>1 DEF Slots
<1>5. Slots(u) = Slots(s) \cup Slots(t)
  BY <1>2, <1>3, <1>4 DEF Slots
<1> QED
  BY <1>5 DEF u

\* A back-link has one link.
LEMMA OneLink ==
  ASSUME NEW q, NEW to, NEW target, NEW T,
         q[to].succs = <<target>>, q[to].tps = <<[tv |-> IdentityPairs(T), tp |-> {}]>>,
         NEW k \in DOMAIN q[to].succs
  PROVE  /\ Link(q, to, k).src = to
         /\ Link(q, to, k).dst = target
         /\ Link(q, to, k).label = Still(T)
<1>1. k = 1
  BY SMT
<1>2. q[to].succs[k] = target /\ q[to].tps[k] = Still(T)
  BY <1>1, SMT DEF Still
<1> QED
  BY <1>2, SMTT(30) DEF Link

LEMMA MirroredLink ==
  ASSUME NEW s, NEW w, NEW h, StillPath(s, h[w.src], h[w.dst]),
         w.label = Still(s[h[w.src]].seq.tags), NEW q, NEW K
  PROVE  Carried(w, q, s, h, K)
BY DEF StillPath, Mirrored, Carried

\* The second copy of a node is a shortcut to the first, unless the first stands
\* for a target that was reached through the node.
LEMMA VisitedSound == ASSUME XInv, XInv', SInv, ExtractVisited PROVE SInv'
<1> DEFINE e == Head(todo)
           from == e[1]
           to == e[2]
           target == node_map[from]
           T == src[from].seq.tags
<1>1. /\ pc = "extract" /\ pc' = pc /\ todo # << >> /\ todo' = Tail(todo)
      /\ from \in DOMAIN node_map /\ LinkResult(to, target, IdentityPairs(T))
      /\ src' = src /\ saved' = saved /\ node_map' = node_map
  BY ZenonT(40) DEF ExtractVisited
<1>2. /\ GoodProof(prf) /\ Strict(prf) /\ GoodProof(src)
      /\ ExtractOK(prf, src, node_map, Slots(todo))
      /\ e \in Slots(todo)
      /\ Slots(Tail(todo)) = Others(Slots(todo), e)
      /\ ensure_add(prf, to)
      /\ prf[to].seq = src[from].seq
  BY <1>1, NextPair
<1>3. Settled /\ Simulating
  BY <1>1 DEF SInv
<1>4. PICK h, K : Sim(prf, src, node_map, Slots(todo), h, K)
  BY <1>3 DEF Simulating
<1> HIDE DEF e, from, to, target, T
<1>5. /\ target \in DOMAIN prf /\ prf[target].seq = src[from].seq
      /\ to \in DOMAIN prf /\ is_open(prf[to])
  BY <1>1, <1>2 DEF ExtractOK, ensure_add, target
<1>6. /\ prf'[to].succs = <<target>>
      /\ prf'[to].tps = <<[tv |-> IdentityPairs(T), tp |-> {}]>>
      /\ GoodProof(prf') /\ Closed(prf, prf', to) /\ ~is_open(prf'[to])
  <2>1. prf[to].seq = prf[target].seq /\ T = prf[to].seq.tags
    BY <1>2, <1>5 DEF T
  <2> QED
    BY <1>1, <1>2, <1>5, <2>1, LinkSucceeds, ZenonT(40)
<1>7. \A i \in DOMAIN node_map : ~is_open(prf[node_map[i]])
  BY <1>1, <1>3 DEF Settled, from, e
<1>8. h[to] = from /\ Leads(src, from, h[target]) /\ (target \in K => h[target] # from)
  BY <1>1, <1>2, <1>4 DEF Sim, from, to, target
<1>9. ASSUME NEW k \in DOMAIN prf'[to].succs
      PROVE  /\ Link(prf', to, k).src = to
             /\ Link(prf', to, k).dst = target
             /\ Link(prf', to, k).label = Still(T)
  BY <1>6, OneLink, SMTT(30)
<1>10. PICK K2 : /\ K2 = K \/ K2 = K \cup {to}
                 /\ \A k \in DOMAIN prf'[to].succs : Carried(Link(prf', to, k), prf', src, h, K2)
  <2>1. CASE h[target] = from
    <3>1. target # to /\ ~is_open(prf'[target]) /\ target \notin K \cup {to}
      BY <1>1, <1>5, <1>6, <1>7, <1>8, <2>1 DEF Closed, target
    <3>2. /\ prf'[to].seq = src[from].seq /\ prf'[target].seq = src[from].seq
          /\ to \in DOMAIN prf' /\ target \in DOMAIN prf'
      BY <1>2, <1>5, <1>6, <3>1 DEF Closed
    <3>3. TagsOf(prf')[to] = T /\ TagsOf(prf')[target] = T
      BY <3>2 DEF TagsOf, T
    <3>4. ASSUME NEW k \in DOMAIN prf'[to].succs
          PROVE  Carried(Link(prf', to, k), prf', src, h, K \cup {to})
      BY <1>8, <1>9, <2>1, <3>1, <3>3, ZenonT(60) DEF Carried, Shortcut
    <3> QED
      BY <3>4
  <2>2. CASE h[target] # from
    <3>1. StillPath(src, from, h[target])
      BY <1>8, <2>2 DEF Leads
    <3>2. ASSUME NEW k \in DOMAIN prf'[to].succs
          PROVE  Carried(Link(prf', to, k), prf', src, h, K)
      BY <1>8, <1>9, <3>1, MirroredLink DEF T
    <3> QED
      BY <3>2
  <2> QED
    BY <2>1, <2>2
<1>11. Sim(prf', src, node_map, Others(Slots(todo), e), h, K2)
  BY <1>2, <1>4, <1>6, <1>7, <1>10, SimClose, ZenonT(40) DEF to
<1>12. \A i \in DOMAIN node_map : ~is_open(prf'[node_map[i]])
  BY <1>1, <1>3, <1>6, NoneOpen DEF Closed, to, e
<1>13. /\ Sim(prf', src, node_map', Slots(todo'), h, K2)
       /\ \A i \in DOMAIN node_map' : ~is_open(prf'[node_map'[i]])
  BY <1>1, <1>2, <1>11, <1>12
<1> QED
  BY <1>1, <1>13, SimReestablish

\* An axiom has no links.
LEMMA LeafSound == ASSUME XInv, XInv', SInv, ExtractLeaf PROVE SInv'
<1> DEFINE e == Head(todo)
           from == e[1]
           to == e[2]
<1>1. /\ pc = "extract" /\ pc' = pc /\ todo # << >> /\ todo' = Tail(todo)
      /\ from \notin DOMAIN node_map
      /\ is_open(src[from]) \/ is_axiom(src[from])
      /\ prf' = IF is_axiom(src[from]) THEN add_axiom(prf, to) ELSE prf
      /\ node_map' = Mapped(from, to)
      /\ src' = src /\ saved' = saved
  BY ZenonT(40) DEF ExtractLeaf
<1>2. /\ GoodProof(prf) /\ GoodProof(src) /\ is_closed(src) /\ from \in DOMAIN src
      /\ ExtractOK(prf, src, node_map, Slots(todo))
      /\ e \in Slots(todo)
      /\ Slots(Tail(todo)) = Others(Slots(todo), e)
      /\ ensure_add(prf, to)
  BY <1>1, NextPair
<1>3. Settled /\ Simulating
  BY <1>1 DEF SInv
<1>4. PICK h, K : Sim(prf, src, node_map, Slots(todo), h, K)
  BY <1>3 DEF Simulating
<1> HIDE DEF e, from, to
<1>5. prf' = add_axiom(prf, to)
  BY <1>1, <1>2, ZenonT(40) DEF is_closed
<1>6. /\ GoodProof(prf') /\ Closed(prf, prf', to)
      /\ prf'[to] = Node(prf[to].par, "axiom", prf[to].seq, << >>, << >>)
  BY <1>2, <1>5, AddAxiomGood, SMTT(30)
<1>7. ~is_open(prf'[to]) /\ DOMAIN prf'[to].succs = {}
  BY <1>6, SMTT(30) DEF Node, is_open
<1>8. Adds(node_map, from, to, node_map')
  BY <1>1, MappedAdds
<1>9. Sim(prf', src, node_map', Others(Slots(todo), e), h, K)
  BY <1>2, <1>4, <1>6, <1>7, <1>8, SimClose, ZenonT(40) DEF from, to
<1>10. \A i \in DOMAIN node_map' : ~is_open(prf'[node_map'[i]])
  BY <1>1, <1>3, <1>6, <1>7, <1>8, NoneOpen, ZenonT(60) DEF Closed, from, to, e
<1>11. Sim(prf', src, node_map', Slots(todo'), h, K)
  BY <1>1, <1>2, <1>9
<1> QED
  BY <1>1, <1>10, <1>11, SimReestablish

\* A back-link that is kept stands for the bud's and the path that the mapping of
\* the target stands for; a target that takes the place of its bud is what the
\* slot now stands for.
LEMMA BudSound == ASSUME XInv, XInv', SInv, ExtractBacklink PROVE SInv'
<1> DEFINE e == Head(todo)
           from == e[1]
           to == e[2]
           target == src[from].succs[1]
           vtts == src[from].tps[1].tv
           T == src[from].seq.tags
<1>1. /\ pc = "extract" /\ pc' = pc /\ todo # << >>
      /\ from \notin DOMAIN node_map
      /\ is_backlink(src[from])
      /\ node_map' = Mapped(from, to)
      /\ IF target \in DOMAIN node_map'
         THEN LinkResult(to, node_map'[target], vtts) /\ todo' = Tail(todo)
         ELSE todo' = <<<<target, to>>>> \o Tail(todo) /\ prf' = prf
      /\ src' = src /\ saved' = saved
  BY ZenonT(40) DEF ExtractBacklink
<1>2. /\ GoodProof(prf) /\ Strict(prf) /\ GoodProof(src) /\ Strict(src)
      /\ ExtractOK(prf, src, node_map, Slots(todo))
      /\ e \in Slots(todo)
      /\ Queue(Tail(todo))
      /\ Slots(Tail(todo)) = Others(Slots(todo), e)
      /\ from \in DOMAIN src
      /\ to \in Nat
      /\ ensure_add(prf, to)
      /\ prf[to].seq = src[from].seq
  BY <1>1, NextPair, ZenonT(40)
<1>3. Settled /\ Simulating
  BY <1>1 DEF SInv
<1>4. PICK h, K : Sim(prf, src, node_map, Slots(todo), h, K)
  BY <1>3 DEF Simulating
<1> HIDE DEF e, from, to, target, vtts, T
<1>5. Adds(node_map, from, to, node_map')
  BY <1>1, MappedAdds
<1>6. target \in DOMAIN src /\ StillPath(src, from, target) /\ src[from].seq = src[target].seq
  <2>1. target \in DOMAIN src /\ StillPath(src, from, target)
    BY <1>1, <1>2, BudStill, ZenonT(40) DEF target
  <2> QED
    BY <2>1 DEF StillPath
<1>7. T = prf[to].seq.tags /\ vtts = IdentityPairs(T)
  <2>1. src[from].tps[1] = [tv |-> IdentityPairs(src[from].seq.tags), tp |-> {}]
    BY <1>1, <1>2 DEF Strict
  <2> QED
    BY <1>2, <2>1, SMTT(30) DEF vtts, T
<1>8. h[to] = from /\ \A i \in DOMAIN node_map : Leads(src, i, h[node_map[i]])
  BY <1>2, <1>4 DEF Sim, from, to
<1>9. CASE target \in DOMAIN node_map'
  <2> DEFINE copy == node_map'[target]
  <2>1. copy \in DOMAIN prf /\ prf[copy].seq = src[target].seq
    BY <1>2, <1>5, <1>6, <1>9, SMTT(30) DEF ExtractOK, Adds, ensure_add
  <2>2. LinkResult(to, copy, vtts) /\ todo' = Tail(todo)
    BY <1>1, <1>9, ZenonT(40)
  <2>3. Leads(src, target, h[copy])
    BY <1>5, <1>8, <1>9, SMTT(30) DEF Adds, Leads
  <2> HIDE DEF copy
  <2>4. prf[to].seq = prf[copy].seq
    BY <1>2, <1>6, <2>1
  <2>5. /\ prf'[to].succs = <<copy>>
        /\ prf'[to].tps = <<[tv |-> IdentityPairs(T), tp |-> {}]>>
        /\ GoodProof(prf') /\ Closed(prf, prf', to) /\ ~is_open(prf'[to])
    BY <1>2, <1>7, <2>1, <2>2, <2>4, LinkSucceeds, ZenonT(40)
  <2>6. StillPath(src, from, h[copy])
    BY <1>2, <1>6, <2>3, StillJoin DEF Leads
  <2>7. ASSUME NEW k \in DOMAIN prf'[to].succs
        PROVE  Carried(Link(prf', to, k), prf', src, h, K)
    <3>1. /\ Link(prf', to, k).src = to
          /\ Link(prf', to, k).dst = copy
          /\ Link(prf', to, k).label = Still(T)
      BY <2>5, OneLink, SMTT(30)
    <3> QED
      BY <1>8, <2>6, <3>1, MirroredLink, ZenonT(60) DEF T
  <2>8. Sim(prf', src, node_map', Others(Slots(todo), e), h, K)
    BY <1>2, <1>4, <1>5, <2>5, <2>7, SimClose, ZenonT(40) DEF from, to
  <2>9. \A i \in DOMAIN node_map' : ~is_open(prf'[node_map'[i]])
    BY <1>1, <1>3, <1>5, <2>5, NoneOpen, ZenonT(60) DEF Closed, from, to, e
  <2>10. Sim(prf', src, node_map', Slots(todo'), h, K)
    BY <1>2, <2>2, <2>8
  <2> QED
    BY <1>1, <2>9, <2>10, SimReestablish, ZenonT(60)
<1>10. CASE target \notin DOMAIN node_map'
  <2> DEFINE x == <<target, to>>
             g == [h EXCEPT ![to] = target]
  <2>1. todo' = <<x>> \o Tail(todo) /\ prf' = prf
    BY <1>1, <1>10, SMTT(30)
  <2>2. Sim(prf, src, node_map', {x} \cup Others(Slots(todo), e), g, K)
    BY <1>2, <1>4, <1>5, <1>6, SimFollow, ZenonT(40) DEF from, to
  <2>3. x \in Nat \X Nat /\ x[1] = target /\ x[2] = to
    <3>1. target \in Nat
      BY <1>2, <1>6, RootedFresh, SMTT(30) DEF GoodProof, WellFormed
    <3> QED
      BY <1>2, <3>1
  <2> HIDE DEF x, g
  <2>4. Slots(todo') = {x} \cup Slots(Tail(todo)) /\ todo' # << >> /\ Head(todo') = x
    <3> DEFINE one == <<x>>
               rest == Tail(todo)
    <3>1. one \in Seq(Nat \X Nat) /\ rest \in Seq(Nat \X Nat) /\ Slots(one) = {x}
      BY <1>2, <2>3, SMTT(30) DEF Queue, Slots
    <3>2. one \o rest # << >> /\ Head(one \o rest) = x
      BY <3>1, SMTT(30)
    <3> HIDE DEF one, rest
    <3>3. Slots(one \o rest) = {x} \cup Slots(rest)
      BY <3>1, SlotsConcat, ZenonT(60)
    <3> QED
      BY <2>1, <3>1, <3>2, <3>3, ZenonT(60) DEF one, rest
  <2>5. \A i \in DOMAIN node_map' : is_open(prf'[node_map'[i]]) => node_map'[i] = to
    BY <1>3, <1>5, <2>1, SMT DEF Settled, Adds, to, e
  <2>6. Settled'
    BY <1>10, <2>3, <2>4, <2>5 DEF Settled
  <2>7. Sim(prf', src, node_map', Slots(todo'), g, K)
    BY <1>2, <2>1, <2>2, <2>4
  <2> QED
    BY <1>1, <2>6, <2>7, SimReestablish, ZenonT(60)
<1> QED
  BY <1>9, <1>10

\* The premises of a copied inference stand for the premises of its original.
LEMMA InferenceSound == ASSUME XInv, XInv', SInv, ExtractInf PROVE SInv'
<1> DEFINE e == Head(todo)
           subgoals == Premises(src, e[1])
           visit == Visit(src, e[1], fresh_idxs(prf, subgoals))
<1>1. /\ pc = "extract" /\ pc' = pc /\ todo # << >>
      /\ e[1] \notin DOMAIN node_map
      /\ is_inf(src[e[1]])
      /\ prf' = add_inf(prf, e[2], subgoals)
      /\ node_map' = Mapped(e[1], e[2])
      /\ todo' = visit \o Tail(todo)
      /\ src' = src /\ saved' = saved
  BY ZenonT(40) DEF ExtractInf, Premises, Visit
<1>2. /\ GoodProof(prf) /\ GoodProof(src)
      /\ ExtractOK(prf, src, node_map, Slots(todo))
      /\ e \in Slots(todo)
      /\ Queue(Tail(todo))
      /\ Slots(Tail(todo)) = Others(Slots(todo), e)
      /\ ensure_add(prf, e[2])
  BY <1>1, NextPair, ZenonT(40)
<1>3. Settled /\ Simulating
  BY <1>1 DEF SInv
<1>4. PICK h, K : Sim(prf, src, node_map, Slots(todo), h, K)
  BY <1>3 DEF Simulating
<1> HIDE DEF e, subgoals, visit
<1>5. Adds(node_map, e[1], e[2], node_map')
  BY <1>1, MappedAdds
<1>6. subgoals \in Seq(Subgoal) /\ GoodProof(prf') /\ Queue(visit)
  BY <1>1, <1>2, <1>5, CopyInference, ZenonT(40) DEF subgoals, visit
<1>7. PICK g : Sim(prf', src, node_map', Slots(visit) \cup Others(Slots(todo), e), g, K)
  BY <1>1, <1>2, <1>4, <1>5, <1>6, SimInference, ZenonT(40) DEF subgoals, visit
<1>8. Slots(todo') = Slots(visit) \cup Others(Slots(todo), e)
  <2>1. visit \in Seq(Nat \X Nat) /\ Tail(todo) \in Seq(Nat \X Nat)
    BY <1>2, <1>6 DEF Queue
  <2>2. Slots(visit \o Tail(todo)) = Slots(visit) \cup Slots(Tail(todo))
    BY <2>1, SlotsConcat, ZenonT(40)
  <2> QED
    BY <1>1, <1>2, <2>2
<1>9. Extended(prf, prf', e[2], subgoals)
  BY <1>1, <1>2, <1>6, AddInfExtends, ZenonT(40) DEF ensure_add
<1>10. ~is_open(prf'[e[2]]) /\ \A i \in DOMAIN prf \ {e[2]} : prf'[i] = prf[i]
  BY <1>9, SMTT(30) DEF Extended, Node, is_open
<1>11. \A i \in DOMAIN node_map' : ~is_open(prf'[node_map'[i]])
  BY <1>1, <1>3, <1>5, <1>10, NoneOpen, ZenonT(60) DEF e
<1>12. Sim(prf', src, node_map', Slots(todo'), g, K)
  BY <1>7, <1>8
<1> QED
  BY <1>1, <1>11, <1>12, SimReestablish

\* At first the root of the result stands for the node that is extracted.
LEMMA StartSound ==
  ASSUME XInv, XInv', SInv, NEW p \in saved, NEW idx \in DOMAIN p, ExtractSubproof(p, idx)
  PROVE  SInv'
<1> DEFINE seq == p[idx].seq
           q == mk(seq)
           x == <<idx, 0>>
           h == [i \in {0} |-> idx]
<1>1. /\ pc' = "extract" /\ seq \in Goals /\ src' = p /\ prf' = q
      /\ todo' = <<x>> /\ node_map' = << >> /\ saved' = saved
  BY DEF ExtractSubproof
<1>2. AlwaysSound
  BY DEF SInv
<1>3. seq \in Sequents
  BY <1>1, SequentsAssumption
<1>4. GoodProof(q) /\ check(q) /\ is_open(q[0]) /\ DOMAIN q = {0}
  BY <1>3, MkGood, MkSound DEF mk
<1>5. h \in [{0} -> DOMAIN p] /\ h[0] = idx /\ x[1] = idx /\ x[2] = 0
  BY SMT
<1>6. DOMAIN node_map' = {}
  BY <1>1, SMT
<1> HIDE DEF q, x, h
<1>7. Slots(<<x>>) = {x}
  BY SMTT(30) DEF Slots
<1>8. q[0].succs = << >>
  BY <1>4, OpenNoSuccs
<1>9. \A w : w \notin Edges(Abstract(q))
  BY <1>4, <1>8, LinksAre, SMTT(30)
<1>10. Sim(q, p, node_map', {x}, h, {})
  BY <1>4, <1>5, <1>6, <1>9, ZenonT(60) DEF Sim
<1>11. Simulating'
  BY <1>1, <1>7, <1>10 DEF Simulating
<1>12. Settled'
  BY <1>6 DEF Settled
<1>13. AlwaysSound'
  BY <1>1, <1>2, <1>4 DEF AlwaysSound
<1> QED
  BY <1>11, <1>12, <1>13 DEF SInv

LEMMA NextSInv == XInv /\ XInv' /\ SInv /\ [PNext]_vars => SInv'
<1> SUFFICES ASSUME XInv, XInv', SInv, [PNext]_vars PROVE SInv'
  OBVIOUS
<1>1. CASE UNCHANGED vars
  BY <1>1, ZenonT(40) DEF vars, splice, SInv, AlwaysSound, Settled, Simulating
<1>2. CASE Next
  <2>1. pc # "extract" /\ pc' # "extract"
    BY <1>2, SearchPc
  <2>2. AlwaysSound'
    BY <1>2, <2>1, NextSound DEF XInv, SInv
  <2> QED
    BY <2>1, <2>2 DEF SInv
<1>3. CASE ExtractReturns
  <2>1. pc' = "between" /\ prf' = prf /\ saved' = saved \cup {prf}
    BY <1>3 DEF ExtractReturns
  <2>2. AlwaysSound'
    BY <2>1 DEF SInv, AlwaysSound
  <2> QED
    BY <2>1, <2>2 DEF SInv
<1>4. CASE \E p \in saved : \E idx \in DOMAIN p : ExtractSubproof(p, idx)
  BY <1>4, StartSound
<1>5. CASE Extract
  BY <1>3, <1>5, VisitedSound, LeafSound, BudSound, InferenceSound, ZenonT(60) DEF Extract
<1> QED
  BY <1>1, <1>2, <1>4, <1>5 DEF PNext

\* Extraction, which forms back-links in the order of another proof and checks none
\* of them, keeps everything that holds of the proofs of a search: no assertion of
\* the constructors fails, every proof is a tree with back-links to matching
\* sequents that the soundness checker accepts as input, the proofs that are kept
\* are closed, and every proof, also one that is only begun, satisfies the global
\* trace condition, as the proof it is taken from does.
THEOREM ExtractionStaysGood == PSpec => []ProofsStayGood
<1>1. Init => SInv
  <2> SUFFICES ASSUME Init PROVE SInv
    OBVIOUS
  <2>1. PICK seq \in Goals : prf = mk(seq)
    BY DEF Init
  <2>2. check(prf)
    BY <2>1, MkSound, SequentsAssumption
  <2>3. saved = {} /\ pc = "search"
    BY DEF Init
  <2>4. pc # "extract"
    BY <2>3, SMT
  <2> QED
    BY <2>2, <2>3, <2>4 DEF AlwaysSound, SInv
<1>2. SInv => AlwaysSound
  BY DEF SInv
<1>3. SpliceNeverFails /\ ProofWellFormed /\ ValidForChecker /\ SavedClosed /\ AlwaysSound
        => ProofsStayGood
  BY DEF ProofsStayGood
<1>4. PSpec => []SInv
  BY <1>1, PInvariance, NextSInv, PTL DEF PSpec
<1> QED
  BY <1>2, <1>3, <1>4, ExtractionNeverFails, ExtractionWellFormed,
     ExtractionValidForChecker, KeptProofsClosed, PTL

-----------------------------------------------------------------------------
(* The contract of the searches with the rules.  Applications made by the   *)
(* constructors keep it, and so does one application after another.         *)

\* Closing the node by an axiom: mk_axiom returns legal applications.
THEOREM AxiomLegal ==
  ASSUME NEW p, GoodProof(p), NEW idx, ensure_add(p, idx)
  PROVE  LegalApplication(idx, p, [subgoals |-> << >>, prf |-> add_axiom(p, idx)])
<1> DEFINE q == add_axiom(p, idx)
<1>1. /\ Closed(p, q, idx)
      /\ q[idx] = Node(p[idx].par, "axiom", p[idx].seq, << >>, << >>)
  BY AddAxiomGood
<1>2. check(p) => check(q)
  BY AddAxiomSound
<1> HIDE DEF q
<1>3. ~is_open(q[idx])
  BY <1>1, SMT DEF is_open, Node
<1>4. OpenNodes(q) = OpenNodes(p) \ {idx}
  BY <1>1, <1>3 DEF Closed, OpenNodes
<1>5. 0 \in DOMAIN q /\ q[0].seq = p[0].seq
  BY <1>1 DEF Closed, GoodProof, WellFormed, Rooted
<1>6. << >> \in Seq(Nat) /\ IsInjective(<< >>) /\ Range(<< >>) = {}
  BY SMT DEF IsInjective, Range
<1> QED
  BY <1>2, <1>4, <1>5, <1>6 DEF LegalApplication, q

\* A back-link that passes Proof.check: mk_backrule returns legal applications.
THEOREM BacklinkLegal ==
  ASSUME NEW p, GoodProof(p), NEW idx, ensure_add(p, idx),
         NEW target, ensure_target(p, idx, target),
         NEW vtts \in SUBSET TagPair, vtts \subseteq p[idx].seq.tags \X p[target].seq.tags,
         check(add_backlink(p, idx, target, vtts))
  PROVE  LegalApplication(idx, p,
           [subgoals |-> << >>, prf |-> add_backlink(p, idx, target, vtts)])
<1> DEFINE q == add_backlink(p, idx, target, vtts)
<1>1. /\ Closed(p, q, idx)
      /\ q[idx] = Node(p[idx].par, "back", p[idx].seq, <<target>>, <<[tv |-> vtts, tp |-> {}]>>)
  BY AddBacklinkGood
<1>2. check(q)
  OBVIOUS
<1> HIDE DEF q
<1>3. ~is_open(q[idx])
  BY <1>1, SMTT(30) DEF is_open, Node
<1>4. OpenNodes(q) = OpenNodes(p) \ {idx}
  BY <1>1, <1>3 DEF Closed, OpenNodes
<1>5. 0 \in DOMAIN q /\ q[0].seq = p[0].seq
  BY <1>1 DEF Closed, GoodProof, WellFormed, Rooted
<1>6. << >> \in Seq(Nat) /\ IsInjective(<< >>) /\ Range(<< >>) = {}
  BY SMT DEF IsInjective, Range
<1> QED
  BY <1>2, <1>4, <1>5, <1>6 DEF LegalApplication, q

\* An inference, whose subgoals are the nodes it creates: mk_infrule returns legal
\* applications, without any check.
THEOREM InferenceLegal ==
  ASSUME NEW p, GoodProof(p), NEW idx, ensure_add(p, idx),
         NEW subgoals \in Seq(Subgoal),
         \A k \in DOMAIN subgoals : PairsWithin(subgoals[k].label, p[idx].seq, subgoals[k].seq)
  PROVE  LegalApplication(idx, p,
           [subgoals |-> fresh_idxs(p, subgoals), prf |-> add_inf(p, idx, subgoals)])
<1> DEFINE q == add_inf(p, idx, subgoals)
           new == fresh_idxs(p, subgoals)
           next == fresh_idx(p)
<1>1. idx \in DOMAIN p
  BY DEF ensure_add
<1>2. Extended(p, q, idx, subgoals)
  BY <1>1, AddInfExtends
<1>3. check(p) => check(q)
  BY AddInfSound
<1>4. /\ next \in Nat \ {0} /\ DOMAIN p = 0 .. next - 1
      /\ Len(subgoals) \in Nat /\ DOMAIN subgoals = 1 .. Len(subgoals)
  BY RootedFresh, SMTT(30) DEF GoodProof, WellFormed
<1>5. DOMAIN new = DOMAIN subgoals /\ \A k \in DOMAIN subgoals : new[k] = next + k - 1
  BY DEF fresh_idxs
<1>6. new \in Seq(Nat)
  <2>1. new \in [1 .. Len(subgoals) -> Nat]
    BY <1>4, SMTT(30) DEF fresh_idxs
  <2> QED
    BY <1>4, <2>1, SMTT(30)
<1> HIDE DEF q, new, next
<1>7. IsInjective(new)
  BY <1>4, <1>5, SMTT(30) DEF IsInjective
<1>8. \A k \in DOMAIN subgoals : new[k] \in DOMAIN q \ DOMAIN p /\ is_open(q[new[k]])
  <2> TAKE k \in DOMAIN subgoals
  <2>1. q[new[k]] = mk_open(idx, subgoals[k].seq)
    BY <1>2, <1>5 DEF Extended, next
  <2>2. new[k] \in DOMAIN q \ DOMAIN p
    BY <1>2, <1>4, <1>5, SMTT(30) DEF Extended, next
  <2> QED
    BY <2>1, <2>2, SMTT(30) DEF is_open, mk_open, Node
<1>9. \A i \in DOMAIN q \ DOMAIN p : \E k \in DOMAIN subgoals : i = new[k]
  <2> TAKE i \in DOMAIN q \ DOMAIN p
  <2>1. i - next + 1 \in DOMAIN subgoals /\ next + (i - next + 1) - 1 = i
    BY <1>2, <1>4, SMTT(60) DEF Extended, next
  <2> QED
    BY <1>5, <2>1
<1>10. /\ DOMAIN p \subseteq DOMAIN q
       /\ \A i \in DOMAIN p \ {idx} : q[i] = p[i]
       /\ ~is_open(q[idx]) /\ q[idx].seq = p[idx].seq
  BY <1>1, <1>2, <1>4, SMTT(30) DEF Extended, is_open, Node, next
<1>11. OpenNodes(q) = (OpenNodes(p) \ {idx}) \cup Range(new)
  BY <1>1, <1>5, <1>8, <1>9, <1>10, SMTT(30) DEF OpenNodes, Range
<1>12. Range(new) \cap OpenNodes(p) = {}
  BY <1>5, <1>8 DEF OpenNodes, Range
<1>13. 0 \in DOMAIN q /\ q[0].seq = p[0].seq
  BY <1>4, <1>10, SMTT(30)
<1> QED
  BY <1>3, <1>6, <1>7, <1>11, <1>12, <1>13, ZenonT(60) DEF LegalApplication, q, new
=============================================================================
