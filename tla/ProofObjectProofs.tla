--------------------------- MODULE ProofObjectProofs ---------------------------
(***************************************************************************)
(* Proofs about the proof object, for all rules and sequents and proofs of *)
(* every size.  The constructors of generic/proof.ml keep a proof well-    *)
(* formed, and keep the tag pairs of each node among the tags of the       *)
(* sequents they join.  Over its life a proof is always well-formed and    *)
(* valid for the soundness checker, and add_subprf never trips an          *)
(* assertion, never looks up a node it has not copied, and makes an exact  *)
(* copy.  The same holds while extract_subproof rearranges a proof, which  *)
(* keeps proofs closed and back-links strict.                              *)
(***************************************************************************)
EXTENDS ProcedureProofs, WellFoundedInduction, TLAPS

USE Zenon

\* The tag pairs of every node relate its tags to those of its premises.
TracesOK(p) ==
  \A i \in DOMAIN p : \A k \in DOMAIN p[i].succs :
    PairsWithin(p[i].tps[k], p[i].seq, p[p[i].succs[k]].seq)

\* A back-link never progresses.
BudsOK(p) == \A i \in DOMAIN p : is_backlink(p[i]) => p[i].tps[1].tp = {}

GoodProof(p) == NodesOK(p) /\ WellFormed(p) /\ TracesOK(p) /\ BudsOK(p)

-----------------------------------------------------------------------------
(* Indices *)

LEMMA MaxInterval ==
  ASSUME NEW n \in Nat
  PROVE  Max(0 .. n) = n
<1>1. \E x \in 0 .. n : \A y \in 0 .. n : x >= y
  BY SMT
<1>2. \A x \in 0 .. n : (\A y \in 0 .. n : x >= y) => x = n
  BY SMT
<1> QED
  BY <1>1, <1>2 DEF Max

\* Rooted says that the indices are those from 0 to fresh_idx - 1.
LEMMA RootedIndices ==
  ASSUME NEW p, NEW n \in Nat, DOMAIN p = 0 .. n
  PROVE  fresh_idx(p) = n + 1 /\ Rooted(p)
<1>1. fresh_idx(p) = n + 1
  BY MaxInterval, SMT DEF fresh_idx
<1> QED
  BY <1>1, SMT DEF Rooted

LEMMA RootedFresh ==
  ASSUME NEW p, Rooted(p)
  PROVE  /\ fresh_idx(p) \in Nat \ {0}
         /\ DOMAIN p = 0 .. fresh_idx(p) - 1
         /\ fresh_idx(p) \notin DOMAIN p
BY SMT DEF Rooted

-----------------------------------------------------------------------------
(* The constructors *)

LEMMA NodeFields ==
  ASSUME NEW par, NEW kind, NEW seq, NEW succs, NEW tps
  PROVE  /\ Node(par, kind, seq, succs, tps).par = par
         /\ Node(par, kind, seq, succs, tps).kind = kind
         /\ Node(par, kind, seq, succs, tps).seq = seq
         /\ Node(par, kind, seq, succs, tps).succs = succs
         /\ Node(par, kind, seq, succs, tps).tps = tps
BY DEF Node

\* mk: an open root is a good proof.
LEMMA MkGood ==
  ASSUME NEW seq \in Sequents
  PROVE  GoodProof(mk(seq)) /\ mk(seq)[0].seq = seq /\ is_open(mk(seq)[0])
<1> DEFINE p == mk(seq)
<1>1. DOMAIN p = {0} /\ p[0] = mk_open(0, seq)
  BY DEF mk
<1>2. DOMAIN p = 0 .. 0
  BY <1>1, SMT
<1> HIDE DEF p
<1>3. Rooted(p)
  BY <1>2, RootedIndices, ZenonT(40)
<1>4. NodesOK(p)
  <2>1. mk_open(0, seq) \in NodeType
    <3>1. << >> \in Seq(Nat) /\ << >> \in Seq(Label)
      BY SMT
    <3> QED
      BY <3>1 DEF NodeType, mk_open, Node
  <2>2. mk_open(0, seq).kind = "open" /\ mk_open(0, seq).succs = << >> /\ mk_open(0, seq).tps = << >>
    BY DEF mk_open, Node
  <2> QED
    BY <1>1, <2>1, <2>2 DEF NodesOK
<1>5. ParentsOK(p) /\ PremisesOK(p) /\ BacklinksOK(p) /\ TracesOK(p) /\ BudsOK(p)
      /\ is_open(p[0])
  BY <1>1, SMT DEF ParentsOK, PremisesOK, BacklinksOK, TracesOK, BudsOK, mk_open, Node,
              is_inf, is_backlink, is_open
<1> QED
  BY <1>1, <1>3, <1>4, <1>5, SMT DEF GoodProof, WellFormed, mk_open, Node, p

\* Every index that a node of a good proof holds is the index of a node.
LEMMA SuccsInDomain ==
  ASSUME NEW p, GoodProof(p), NEW i \in DOMAIN p, NEW k \in DOMAIN p[i].succs
  PROVE  p[i].succs[k] \in DOMAIN p
<1>1. /\ p[i].kind \in {"open", "axiom", "inf", "back"}
      /\ p[i].succs \in Seq(Nat)
      /\ p[i].kind \in {"open", "axiom"} => p[i].succs = << >>
      /\ p[i].kind = "back" => Len(p[i].succs) = 1
  BY DEF GoodProof, NodesOK, NodeType
<1>2. p[i].kind \notin {"open", "axiom"}
  BY <1>1, SMT
<1>3. CASE p[i].kind = "inf"
  BY <1>3 DEF GoodProof, WellFormed, PremisesOK, is_inf
<1>4. CASE p[i].kind = "back"
  <2>1. k = 1
    BY <1>1, <1>4, SMT
  <2> QED
    BY <1>4, <2>1 DEF GoodProof, WellFormed, BacklinksOK, is_backlink
<1> QED
  BY <1>1, <1>2, <1>3, <1>4

\* A step of the proof that closes node idx of p and creates no node.
Closed(p, q, idx) ==
  /\ DOMAIN q = DOMAIN p
  /\ \A i \in DOMAIN p \ {idx} : q[i] = p[i]
  /\ q[idx].par = p[idx].par
  /\ q[idx].seq = p[idx].seq

\* Closing an open node with an axiom or a back-link leaves the rest of the
\* proof as well-formed as it was.
LEMMA ClosedGood ==
  ASSUME NEW p, GoodProof(p), NEW idx, ensure_add(p, idx),
         NEW q, Closed(p, q, idx),
         q[idx] \in NodeType,
         \/ q[idx].kind = "axiom" /\ q[idx].succs = << >> /\ q[idx].tps = << >>
         \/ /\ q[idx].kind = "back" /\ Len(q[idx].succs) = 1 /\ Len(q[idx].tps) = 1
            /\ ensure_target(p, idx, q[idx].succs[1])
            /\ PairsWithin(q[idx].tps[1], p[idx].seq, p[q[idx].succs[1]].seq)
            /\ q[idx].tps[1].tp = {}
  PROVE  GoodProof(q)
<1> USE DEF Closed
<1>1. idx \in DOMAIN p /\ is_open(p[idx])
  BY DEF ensure_add
<1>2. NodesOK(p) /\ Rooted(p) /\ ParentsOK(p) /\ PremisesOK(p) /\ BacklinksOK(p) /\ TracesOK(p) /\ BudsOK(p)
  BY DEF GoodProof, WellFormed
<1>3. \A i \in DOMAIN p : q[i].seq = p[i].seq /\ q[i].par = p[i].par
  BY <1>1
<1>4. \A i \in DOMAIN p : is_inf(q[i]) <=> is_inf(p[i])
  BY <1>1 DEF is_inf, is_open
<1>5. \A i \in DOMAIN p : is_inf(p[i]) => i # idx
  BY <1>1 DEF is_inf, is_open
<1>6. Rooted(q)
  BY <1>2 DEF Rooted, fresh_idx
<1>7. NodesOK(q)
  BY <1>1, <1>2, SMTT(30) DEF NodesOK
<1>8. ParentsOK(q)
  <2>1. q[0].par = 0
    BY <1>2, <1>3 DEF ParentsOK, Rooted
  <2>2. ASSUME NEW i \in DOMAIN q \ {0}
        PROVE  /\ q[i].par \in DOMAIN q
               /\ q[i].par < i
               /\ is_inf(q[q[i].par])
               /\ \E k \in DOMAIN q[q[i].par].succs : q[q[i].par].succs[k] = i
    <3>1. /\ p[i].par \in DOMAIN p
          /\ p[i].par < i
          /\ is_inf(p[p[i].par])
          /\ \E k \in DOMAIN p[p[i].par].succs : p[p[i].par].succs[k] = i
      BY <1>2 DEF ParentsOK
    <3>2. q[i].par = p[i].par /\ q[p[i].par] = p[p[i].par]
      BY <1>3, <1>5, <3>1
    <3> QED
      BY <3>1, <3>2
  <2> QED
    BY <2>1, <2>2 DEF ParentsOK
<1>9. PremisesOK(q)
  <2> SUFFICES ASSUME NEW i \in DOMAIN q, is_inf(q[i])
               PROVE  /\ \A k \in DOMAIN q[i].succs :
                           /\ q[i].succs[k] \in DOMAIN q
                           /\ q[i].succs[k] > i
                           /\ q[q[i].succs[k]].par = i
                      /\ \A k, l \in DOMAIN q[i].succs : q[i].succs[k] = q[i].succs[l] => k = l
    BY DEF PremisesOK
  <2>1. i \in DOMAIN p /\ is_inf(p[i]) /\ q[i] = p[i] /\ DOMAIN q = DOMAIN p
    BY <1>4, <1>5
  <2>2. /\ \A k \in DOMAIN p[i].succs :
             /\ p[i].succs[k] \in DOMAIN p
             /\ p[i].succs[k] > i
             /\ p[p[i].succs[k]].par = i
        /\ \A k, l \in DOMAIN p[i].succs : p[i].succs[k] = p[i].succs[l] => k = l
    BY <1>2, <2>1 DEF PremisesOK
  <2> QED
    BY <1>3, <2>1, <2>2, SMTT(30)
<1>10. BacklinksOK(q)
  <2> SUFFICES ASSUME NEW i \in DOMAIN q, is_backlink(q[i])
               PROVE  /\ q[i].succs[1] \in DOMAIN q
                      /\ equal_upto_tags(q[i].seq, q[q[i].succs[1]].seq)
    BY DEF BacklinksOK
  <2>1. \E j \in DOMAIN p : q[i].succs[1] = j /\ equal_upto_tags(p[i].seq, p[j].seq)
    <3>1. CASE i = idx
      <4>1. ensure_target(p, idx, q[idx].succs[1])
        BY <3>1 DEF is_backlink
      <4> QED
        BY <3>1, <4>1 DEF ensure_target
    <3>2. CASE i # idx
      <4>1. i \in DOMAIN p /\ q[i] = p[i] /\ is_backlink(p[i])
        BY <3>2
      <4> QED
        BY <1>2, <4>1 DEF BacklinksOK
    <3> QED
      BY <3>1, <3>2
  <2> QED
    BY <1>3, <2>1 DEF equal_upto_tags
<1>11. TracesOK(q)
  <2> SUFFICES ASSUME NEW i \in DOMAIN q, NEW k \in DOMAIN q[i].succs
               PROVE  PairsWithin(q[i].tps[k], q[i].seq, q[q[i].succs[k]].seq)
    BY DEF TracesOK
  <2>1. CASE i = idx
    <3>1. q[idx].kind = "back" /\ k = 1
      BY <2>1, SMT DEF NodeType
    <3> QED
      BY <1>3, <2>1, <3>1 DEF ensure_target
  <2>2. CASE i # idx
    <3>1. q[i] = p[i] /\ PairsWithin(p[i].tps[k], p[i].seq, p[p[i].succs[k]].seq)
      BY <1>2, <2>2 DEF TracesOK
    <3>2. p[i].succs[k] \in DOMAIN p
      BY <3>1, SuccsInDomain
    <3> QED
      BY <1>3, <3>1, <3>2
  <2> QED
    BY <2>1, <2>2
<1>12. BudsOK(q)
  BY <1>1, <1>2 DEF BudsOK, is_backlink
<1> QED
  BY <1>6, <1>7, <1>8, <1>9, <1>10, <1>11, <1>12 DEF GoodProof, WellFormed

\* add_axiom keeps a proof good.
LEMMA AddAxiomGood ==
  ASSUME NEW p, GoodProof(p), NEW idx, ensure_add(p, idx)
  PROVE  /\ GoodProof(add_axiom(p, idx))
         /\ Closed(p, add_axiom(p, idx), idx)
         /\ add_axiom(p, idx)[idx] = Node(p[idx].par, "axiom", p[idx].seq, << >>, << >>)
<1> DEFINE q == add_axiom(p, idx)
           n == Node(p[idx].par, "axiom", p[idx].seq, << >>, << >>)
<1>1. idx \in DOMAIN p
  BY DEF ensure_add
<1>2. q[idx] = n /\ DOMAIN q = DOMAIN p /\ \A i \in DOMAIN p \ {idx} : q[i] = p[i]
  BY <1>1 DEF add_axiom
<1>3. /\ n.par = p[idx].par /\ n.seq = p[idx].seq /\ n.kind = "axiom"
      /\ n.succs = << >> /\ n.tps = << >>
  BY DEF Node
<1>4. n \in NodeType
  <2>1. << >> \in Seq(Nat) /\ << >> \in Seq(Label)
    BY SMT
  <2>2. p[idx] \in NodeType
    BY <1>1 DEF GoodProof, NodesOK
  <2> QED
    BY <2>1, <2>2 DEF NodeType, Node
<1> HIDE DEF q, n
<1>5. Closed(p, q, idx)
  BY <1>2, <1>3 DEF Closed
<1>6. GoodProof(q)
  BY <1>2, <1>3, <1>4, <1>5, ClosedGood
<1> QED
  BY <1>2, <1>5, <1>6 DEF q, n

\* add_backlink keeps a proof good if its assertions hold.
LEMMA AddBacklinkGood ==
  ASSUME NEW p, GoodProof(p), NEW idx, ensure_add(p, idx),
         NEW target, ensure_target(p, idx, target),
         NEW vtts \in SUBSET TagPair, vtts \subseteq p[idx].seq.tags \X p[target].seq.tags
  PROVE  /\ GoodProof(add_backlink(p, idx, target, vtts))
         /\ Closed(p, add_backlink(p, idx, target, vtts), idx)
         /\ add_backlink(p, idx, target, vtts)[idx]
              = Node(p[idx].par, "back", p[idx].seq, <<target>>, <<[tv |-> vtts, tp |-> {}]>>)
<1> DEFINE q == add_backlink(p, idx, target, vtts)
           l == [tv |-> vtts, tp |-> {}]
           n == Node(p[idx].par, "back", p[idx].seq, <<target>>, <<l>>)
<1>1. idx \in DOMAIN p /\ target \in DOMAIN p
  BY DEF ensure_add, ensure_target
<1>2. q[idx] = n /\ DOMAIN q = DOMAIN p /\ \A i \in DOMAIN p \ {idx} : q[i] = p[i]
  BY <1>1 DEF add_backlink
<1>3. /\ n.par = p[idx].par /\ n.seq = p[idx].seq /\ n.kind = "back"
      /\ n.succs = <<target>> /\ n.tps = <<l>>
  BY ZenonT(40) DEF Node
<1>4. n \in NodeType
  <2>1. target \in Nat
    BY <1>1, SMT DEF GoodProof, WellFormed, Rooted
  <2>2. l \in Label
    BY DEF Label
  <2>3. p[idx] \in NodeType
    BY <1>1 DEF GoodProof, NodesOK
  <2> HIDE DEF l
  <2>4. <<target>> \in Seq(Nat) /\ <<l>> \in Seq(Label)
    BY <2>1, <2>2, SMT
  <2> QED
    BY <2>3, <2>4 DEF NodeType, Node
<1>5. PairsWithin(l, p[idx].seq, p[target].seq) /\ l.tp = {}
  BY DEF PairsWithin
<1> HIDE DEF q, n, l
<1>6. Closed(p, q, idx)
  BY <1>2, <1>3 DEF Closed
<1>7. GoodProof(q)
  <2>1. /\ q[idx].kind = "back" /\ Len(q[idx].succs) = 1 /\ Len(q[idx].tps) = 1
        /\ q[idx].succs[1] = target /\ q[idx].tps[1] = l
    BY <1>2, <1>3, SMT
  <2> QED
    BY <1>2, <1>4, <1>5, <1>6, <2>1, ClosedGood
<1> QED
  BY <1>2, <1>6, <1>7 DEF q, n, l

\* What add_inf does: node idx becomes an inference whose premises are fresh
\* open nodes.
Extended(p, q, idx, subgoals) ==
  /\ DOMAIN q = 0 .. fresh_idx(p) + Len(subgoals) - 1
  /\ \A i \in DOMAIN p \ {idx} : q[i] = p[i]
  /\ q[idx] = Node(p[idx].par, "inf", p[idx].seq, fresh_idxs(p, subgoals),
                   [k \in DOMAIN subgoals |-> subgoals[k].label])
  /\ \A k \in DOMAIN subgoals : q[fresh_idx(p) + k - 1] = mk_open(idx, subgoals[k].seq)

LEMMA AddInfExtends ==
  ASSUME NEW p, GoodProof(p), NEW idx \in DOMAIN p, NEW subgoals \in Seq(Subgoal)
  PROVE  Extended(p, add_inf(p, idx, subgoals), idx, subgoals)
<1> DEFINE next == fresh_idx(p)
           q == add_inf(p, idx, subgoals)
<1>1. next \in Nat \ {0} /\ DOMAIN p = 0 .. next - 1
  BY RootedFresh DEF GoodProof, WellFormed
<1>2. Len(subgoals) \in Nat /\ DOMAIN subgoals = 1 .. Len(subgoals)
  BY SMT
<1>3. DOMAIN q = DOMAIN p \cup (next .. next + Len(subgoals) - 1)
  BY DEF add_inf
<1>4. DOMAIN q = 0 .. next + Len(subgoals) - 1
  BY <1>1, <1>2, <1>3, SMT
<1>5. q[idx] = Node(p[idx].par, "inf", p[idx].seq, fresh_idxs(p, subgoals),
                    [k \in DOMAIN subgoals |-> subgoals[k].label])
  BY DEF add_inf
<1>6. \A i \in DOMAIN p \ {idx} : q[i] = p[i]
  BY <1>1, SMT DEF add_inf
<1>7. ASSUME NEW k \in DOMAIN subgoals
      PROVE  q[next + k - 1] = mk_open(idx, subgoals[k].seq)
  <2>1. /\ next + k - 1 \in DOMAIN p \cup (next .. next + Len(subgoals) - 1)
        /\ next + k - 1 # idx /\ ~(next + k - 1 < next) /\ (next + k - 1) - next + 1 = k
    BY <1>1, <1>2, SMT
  <2> QED
    BY <2>1 DEF add_inf
<1> QED
  BY <1>4, <1>5, <1>6, <1>7 DEF Extended

\* add_inf keeps a proof good.
LEMMA AddInfGood ==
  ASSUME NEW p, GoodProof(p), NEW idx, ensure_add(p, idx),
         NEW subgoals \in Seq(Subgoal),
         \A k \in DOMAIN subgoals : PairsWithin(subgoals[k].label, p[idx].seq, subgoals[k].seq)
  PROVE  GoodProof(add_inf(p, idx, subgoals))
<1> DEFINE next == fresh_idx(p)
           m == Len(subgoals)
           q == add_inf(p, idx, subgoals)
           labels == [k \in DOMAIN subgoals |-> subgoals[k].label]
<1>1. idx \in DOMAIN p /\ is_open(p[idx])
  BY DEF ensure_add
<1>2. next \in Nat \ {0} /\ DOMAIN p = 0 .. next - 1 /\ m \in Nat /\ DOMAIN subgoals = 1 .. m
  BY RootedFresh, SMT DEF GoodProof, WellFormed
<1>3. Extended(p, q, idx, subgoals)
  BY <1>1, AddInfExtends
<1>4. /\ fresh_idxs(p, subgoals) = [k \in 1 .. m |-> next + k - 1]
      /\ fresh_idxs(p, subgoals) \in Seq(Nat)
      /\ Len(fresh_idxs(p, subgoals)) = m
  BY <1>2, SMT DEF fresh_idxs
<1>5. labels \in Seq(Label) /\ Len(labels) = m /\ \A k \in 1 .. m : labels[k] = subgoals[k].label
  <2>1. \A k \in 1 .. m : subgoals[k] \in Subgoal
    BY <1>2, SMT
  <2>2. \A k \in 1 .. m : subgoals[k].label \in Label
    BY <2>1 DEF Subgoal
  <2> QED
    BY <1>2, <2>2, SMT
<1>6. p[idx] \in NodeType
  BY <1>1 DEF GoodProof, NodesOK
<1>7. /\ q[idx] \in NodeType /\ is_inf(q[idx]) /\ ~is_backlink(q[idx])
      /\ q[idx].par = p[idx].par /\ q[idx].seq = p[idx].seq
      /\ q[idx].succs = fresh_idxs(p, subgoals) /\ q[idx].tps = labels
  <2> HIDE DEF labels
  <2>1. q[idx] = Node(p[idx].par, "inf", p[idx].seq, fresh_idxs(p, subgoals), labels)
    BY <1>3 DEF Extended, labels
  <2> QED
    BY <1>4, <1>5, <1>6, <2>1, SMT DEF NodeType, Node, is_inf, is_backlink
<1>8. ASSUME NEW k \in 1 .. m
      PROVE  /\ next + k - 1 \in DOMAIN q /\ next + k - 1 \notin DOMAIN p
             /\ q[next + k - 1] = mk_open(idx, subgoals[k].seq)
  <2>1. DOMAIN q = 0 .. next + m - 1
    BY <1>3 DEF Extended
  <2>2. q[next + k - 1] = mk_open(idx, subgoals[k].seq)
    BY <1>2, <1>3 DEF Extended
  <2> HIDE DEF q, next, m
  <2> QED
    BY <1>2, <2>1, <2>2, SMT
<1>9. DOMAIN q = 0 .. next + m - 1 /\ \A i \in DOMAIN p \ {idx} : q[i] = p[i]
  BY <1>3 DEF Extended
<1>10. \A i \in DOMAIN q : i \in DOMAIN p \/ \E k \in 1 .. m : i = next + k - 1
  <2> SUFFICES ASSUME NEW i \in DOMAIN q, i \notin DOMAIN p
               PROVE  \E k \in 1 .. m : i = next + k - 1
    OBVIOUS
  <2>1. i - next + 1 \in 1 .. m /\ i = next + (i - next + 1) - 1
    BY <1>2, <1>9, SMT
  <2> QED
    BY <2>1
<1>11. \A i \in DOMAIN p : i \in DOMAIN q /\ q[i].seq = p[i].seq /\ q[i].par = p[i].par
  BY <1>2, <1>7, <1>9, SMT
<1>12. ASSUME NEW s \in Sequents
       PROVE  /\ mk_open(idx, s) \in NodeType
              /\ mk_open(idx, s).kind = "open" /\ mk_open(idx, s).succs = << >>
              /\ mk_open(idx, s).tps = << >> /\ mk_open(idx, s).par = idx
              /\ mk_open(idx, s).seq = s
  <2>1. << >> \in Seq(Nat) /\ << >> \in Seq(Label) /\ idx \in Nat
    BY <1>1, <1>2, SMT
  <2> QED
    BY <2>1 DEF NodeType, mk_open, Node
<1>13. \A k \in 1 .. m : subgoals[k].seq \in Sequents
  <2>1. \A k \in 1 .. m : subgoals[k] \in Subgoal
    BY <1>2, SMT
  <2> QED
    BY <2>1 DEF Subgoal
<1>14. NodesOK(p) /\ Rooted(p) /\ ParentsOK(p) /\ PremisesOK(p) /\ BacklinksOK(p) /\ TracesOK(p) /\ BudsOK(p)
  BY DEF GoodProof, WellFormed
<1> HIDE DEF next, m, q, labels
<1>15. Rooted(q)
  <2>1. next + m - 1 \in Nat
    BY <1>2, SMT
  <2> QED
    BY <1>9, <2>1, RootedIndices
<1>16. NodesOK(q)
  <2> SUFFICES ASSUME NEW i \in DOMAIN q
               PROVE  /\ q[i] \in NodeType
                      /\ Len(q[i].tps) = Len(q[i].succs)
                      /\ q[i].kind \in {"open", "axiom"} => q[i].succs = << >>
                      /\ q[i].kind = "back" => Len(q[i].succs) = 1
    BY DEF NodesOK
  <2>1. CASE i = idx
    BY <1>4, <1>5, <1>7, <2>1 DEF is_inf
  <2>2. CASE i \in DOMAIN p \ {idx}
    BY <1>9, <1>14, <2>2, SMT DEF NodesOK
  <2>3. CASE i \notin DOMAIN p
    BY <1>8, <1>10, <1>12, <1>13, <2>3, SMTT(30)
  <2> QED
    BY <2>1, <2>2, <2>3
<1>17. ParentsOK(q)
  <2>1. q[0].par = 0
    BY <1>2, <1>11, <1>14, SMT DEF ParentsOK
  <2> SUFFICES ASSUME NEW i \in DOMAIN q \ {0}
               PROVE  /\ q[i].par \in DOMAIN q
                      /\ q[i].par < i
                      /\ is_inf(q[q[i].par])
                      /\ \E k \in DOMAIN q[q[i].par].succs : q[q[i].par].succs[k] = i
    BY <2>1 DEF ParentsOK
  <2>2. CASE i \in DOMAIN p
    <3>1. /\ p[i].par \in DOMAIN p
          /\ p[i].par < i
          /\ is_inf(p[p[i].par])
          /\ \E k \in DOMAIN p[p[i].par].succs : p[p[i].par].succs[k] = i
      BY <1>14, <2>2 DEF ParentsOK
    <3>2. p[i].par # idx
      BY <1>1, <3>1 DEF is_inf, is_open
    <3> QED
      BY <1>9, <1>11, <2>2, <3>1, <3>2, SMTT(30)
  <2>3. CASE i \notin DOMAIN p
    <3>1. PICK k \in 1 .. m : i = next + k - 1
      BY <1>10, <2>3
    <3>2. q[i].par = idx
      BY <1>8, <1>12, <1>13, <3>1, SMT
    <3>3. idx < i
      BY <1>1, <1>2, <3>1, SMT
    <3>4. k \in DOMAIN q[idx].succs /\ q[idx].succs[k] = i
      BY <1>4, <1>7, <3>1
    <3> QED
      BY <1>1, <1>7, <1>11, <3>2, <3>3, <3>4
  <2> QED
    BY <2>2, <2>3
<1>18. PremisesOK(q)
  <2> SUFFICES ASSUME NEW i \in DOMAIN q, is_inf(q[i])
               PROVE  /\ \A k \in DOMAIN q[i].succs :
                           /\ q[i].succs[k] \in DOMAIN q
                           /\ q[i].succs[k] > i
                           /\ q[q[i].succs[k]].par = i
                      /\ \A k, l \in DOMAIN q[i].succs : q[i].succs[k] = q[i].succs[l] => k = l
    BY DEF PremisesOK
  <2>1. CASE i = idx
    <3>1. DOMAIN q[i].succs = 1 .. m /\ \A k \in 1 .. m : q[i].succs[k] = next + k - 1
      BY <1>4, <1>7, <2>1, ZenonT(40)
    <3>2. \A k \in 1 .. m : q[next + k - 1].par = idx /\ next + k - 1 \in DOMAIN q
      BY <1>8, <1>12, <1>13, SMT
    <3>3. \A k \in 1 .. m : next + k - 1 > idx
      BY <1>1, <1>2, SMT
    <3>4. \A k, l \in 1 .. m : next + k - 1 = next + l - 1 => k = l
      BY <1>2, SMT
    <3> QED
      BY <2>1, <3>1, <3>2, <3>3, <3>4, SMT
  <2>2. CASE i \in DOMAIN p \ {idx}
    BY <1>9, <1>11, <1>14, <2>2, SMTT(20) DEF PremisesOK
  <2>3. CASE i \notin DOMAIN p
    BY <1>8, <1>10, <1>12, <1>13, <2>3, SMTT(30) DEF is_inf
  <2> QED
    BY <2>1, <2>2, <2>3
<1>19. BacklinksOK(q)
  <2> SUFFICES ASSUME NEW i \in DOMAIN q, is_backlink(q[i])
               PROVE  /\ q[i].succs[1] \in DOMAIN q
                      /\ equal_upto_tags(q[i].seq, q[q[i].succs[1]].seq)
    BY DEF BacklinksOK
  <2>1. i \in DOMAIN p \ {idx}
    BY <1>7, <1>8, <1>10, <1>12, <1>13, SMTT(30) DEF is_backlink
  <2> QED
    BY <1>9, <1>11, <1>14, <2>1 DEF BacklinksOK
<1>20. TracesOK(q)
  <2> SUFFICES ASSUME NEW i \in DOMAIN q, NEW k \in DOMAIN q[i].succs
               PROVE  PairsWithin(q[i].tps[k], q[i].seq, q[q[i].succs[k]].seq)
    BY DEF TracesOK
  <2>1. CASE i = idx
    <3>1. k \in 1 .. m /\ q[i].succs[k] = next + k - 1 /\ q[i].tps[k] = subgoals[k].label
      BY <1>4, <1>5, <1>7, <2>1
    <3>2. q[next + k - 1].seq = subgoals[k].seq
      BY <1>8, <1>12, <1>13, <3>1
    <3> QED
      BY <1>2, <1>7, <2>1, <3>1, <3>2
  <2>2. CASE i \in DOMAIN p \ {idx}
    <3>1. q[i] = p[i] /\ p[i].succs[k] \in DOMAIN p
      BY <1>9, <2>2, SuccsInDomain
    <3> QED
      BY <1>11, <1>14, <2>2, <3>1, SMT DEF TracesOK
  <2>3. CASE i \notin DOMAIN p
    BY <1>8, <1>10, <1>12, <1>13, <2>3, SMTT(20)
  <2> QED
    BY <2>1, <2>2, <2>3
<1>21. BudsOK(q)
  <2> SUFFICES ASSUME NEW i \in DOMAIN q, is_backlink(q[i])
               PROVE  q[i].tps[1].tp = {}
    BY DEF BudsOK
  <2>1. i # idx
    BY <1>7
  <2>2. i \in DOMAIN p
    <3> SUFFICES ASSUME i \notin DOMAIN p PROVE FALSE
      OBVIOUS
    <3>1. PICK k \in 1 .. m : i = next + k - 1
      BY <1>10
    <3>2. q[i] = mk_open(idx, subgoals[k].seq) /\ subgoals[k].seq \in Sequents
      BY <1>8, <1>13, <3>1
    <3>3. q[i].kind = "open"
      BY <1>12, <3>2
    <3> QED
      BY <3>3 DEF is_backlink
  <2> QED
    BY <1>9, <1>14, <2>1, <2>2 DEF BudsOK
<1>22. GoodProof(q)
  BY <1>15, <1>16, <1>17, <1>18, <1>19, <1>20, <1>21 DEF GoodProof, WellFormed
<1> QED
  BY <1>22 DEF q

-----------------------------------------------------------------------------
(* The stacks of add_subprf, todo and bls, hold pairs of an index in src    *)
(* and an index in prf.  What matters of a stack is the set of its first    *)
(* components.                                                              *)

Firsts(s) == {s[k][1] : k \in DOMAIN s}

\* s is a stack of pairs <<i, map[i]>>, for different i.
Stack(s, map) ==
  /\ s \in Seq(Nat \X Nat)
  /\ \A k \in DOMAIN s : s[k][1] \in DOMAIN map /\ s[k][2] = map[s[k][1]]
  /\ \A k, l \in DOMAIN s : s[k][1] = s[l][1] => k = l

LEMMA StackTail ==
  ASSUME NEW s, NEW map, Stack(s, map), s # << >>
  PROVE  /\ Head(s)[1] \in Firsts(s)
         /\ Head(s)[1] \in DOMAIN map
         /\ Head(s)[2] = map[Head(s)[1]]
         /\ Stack(Tail(s), map)
         /\ Firsts(Tail(s)) = Firsts(s) \ {Head(s)[1]}
<1>1. /\ s \in Seq(Nat \X Nat)
      /\ \A k \in DOMAIN s : s[k][1] \in DOMAIN map /\ s[k][2] = map[s[k][1]]
      /\ \A k, l \in DOMAIN s : s[k][1] = s[l][1] => k = l
  BY DEF Stack
<1>2. Len(s) \in Nat \ {0} /\ DOMAIN s = 1 .. Len(s) /\ Head(s) = s[1]
  BY <1>1, SMT
<1>3. /\ Tail(s) \in Seq(Nat \X Nat)
      /\ DOMAIN Tail(s) = 1 .. Len(s) - 1
      /\ \A k \in 1 .. Len(s) - 1 : Tail(s)[k] = s[k + 1]
  BY <1>1, <1>2, SMT
<1>4. Stack(Tail(s), map)
  <2> DEFINE t == Tail(s)
  <2> HIDE DEF t
  <2>1. ASSUME NEW k \in DOMAIN t
        PROVE  k \in Nat /\ k + 1 \in DOMAIN s /\ t[k] = s[k + 1]
    <3>1. k \in 1 .. Len(s) - 1
      BY <1>3 DEF t
    <3>2. k \in Nat /\ k + 1 \in 1 .. Len(s)
      BY <1>2, <3>1, SMT
    <3> QED
      BY <1>2, <1>3, <3>1, <3>2 DEF t
  <2>2. ASSUME NEW k \in DOMAIN t, NEW l \in DOMAIN t, k + 1 = l + 1 PROVE k = l
    BY <2>1, <2>2, SMT
  <2>3. t \in Seq(Nat \X Nat)
    BY <1>3 DEF t
  <2>4. \A k \in DOMAIN t : t[k][1] \in DOMAIN map /\ t[k][2] = map[t[k][1]]
    BY <1>1, <2>1, SMT
  <2>5. ASSUME NEW k \in DOMAIN t, NEW l \in DOMAIN t, t[k][1] = t[l][1] PROVE k = l
    <3>1. s[k + 1][1] = s[l + 1][1] /\ k + 1 \in DOMAIN s /\ l + 1 \in DOMAIN s
      BY <2>1, <2>5
    <3>2. k + 1 = l + 1
      BY <1>1, <3>1
    <3> QED
      BY <2>2, <3>2
  <2>6. Stack(t, map)
    BY <2>3, <2>4, <2>5 DEF Stack
  <2> QED
    BY <2>6 DEF t
<1>5. Firsts(Tail(s)) = Firsts(s) \ {Head(s)[1]}
  <2>1. ASSUME NEW x \in Firsts(Tail(s))
        PROVE  x \in Firsts(s) /\ x # Head(s)[1]
    <3>1. PICK k \in 1 .. Len(s) - 1 : x = s[k + 1][1]
      <4>1. PICK k \in DOMAIN Tail(s) : x = Tail(s)[k][1]
        BY DEF Firsts
      <4> QED
        BY <1>3, <4>1, ZenonT(40)
    <3>2. k + 1 \in DOMAIN s /\ 1 \in DOMAIN s /\ k + 1 # 1
      BY <1>2, SMT
    <3> QED
      BY <1>1, <1>2, <3>1, <3>2, ZenonT(40) DEF Firsts
  <2>2. ASSUME NEW x \in Firsts(s), x # Head(s)[1]
        PROVE  x \in Firsts(Tail(s))
    <3>1. PICK k \in DOMAIN s : x = s[k][1]
      BY DEF Firsts
    <3>2. k # 1
      BY <1>2, <2>2, <3>1
    <3>3. k - 1 \in 1 .. Len(s) - 1 /\ (k - 1) + 1 = k
      BY <1>2, <3>2, SMT
    <3>4. Tail(s)[k - 1][1] = x /\ k - 1 \in DOMAIN Tail(s)
      BY <1>3, <3>1, <3>3
    <3> QED
      BY <3>4 DEF Firsts
  <2> QED
    BY <2>1, <2>2
<1>6. Head(s)[1] \in Firsts(s)
  BY <1>2, SMT DEF Firsts
<1> QED
  BY <1>1, <1>2, <1>4, <1>5, <1>6, SMT

-----------------------------------------------------------------------------
(* The copy that add_subprf makes.  While it copies s into p, map tells     *)
(* where the nodes of s went; T is the set of nodes that wait in todo, and  *)
(* B of those whose back-links wait in bls.                                 *)

\* Node i of s has been copied.
CopyOf(p, s, map, i) ==
  /\ p[map[i]].kind = s[i].kind
  /\ p[map[i]].tps = s[i].tps
  /\ DOMAIN p[map[i]].succs = DOMAIN s[i].succs
  /\ \A k \in DOMAIN s[i].succs :
       s[i].succs[k] \in DOMAIN map /\ p[map[i]].succs[k] = map[s[i].succs[k]]

SpliceOK(p, s, map, T, B) ==
  /\ 0 \in DOMAIN map /\ DOMAIN map \subseteq DOMAIN s
  /\ T \subseteq DOMAIN map /\ B \subseteq DOMAIN map /\ T \cap B = {}
  /\ \A i \in DOMAIN map : map[i] \in DOMAIN p /\ p[map[i]].seq = s[i].seq
  /\ \A i, j \in DOMAIN map : map[i] = map[j] => i = j
  /\ \A i \in DOMAIN s \ {0} : i \in DOMAIN map <=> s[i].par \in DOMAIN map \ T
  /\ \A i \in T \cup B : is_open(p[map[i]])
  /\ \A i \in B : is_backlink(s[i])
  /\ \A i \in DOMAIN map \ (T \cup B) : CopyOf(p, s, map, i)

\* When nothing is left to visit, every node has been visited: a least node
\* that has not would have a parent that has.
LEMMA AllCopied ==
  ASSUME NEW p, NEW s, GoodProof(s), NEW map, NEW B, SpliceOK(p, s, map, {}, B)
  PROVE  DOMAIN map = DOMAIN s
<1> DEFINE Less == {ss \in Nat \X Nat : ss[1] < ss[2]}
           Left == DOMAIN s \ DOMAIN map
<1>1. IsWellFoundedOn(Less, Nat)
  <2>1. OpToRel(<, Nat) = Less
    BY DEF OpToRel
  <2> QED
    BY <2>1, NatLessThanWellFounded
<1>2. Left \subseteq Nat
  BY RootedFresh, SMT DEF GoodProof, WellFormed
<1>3. SUFFICES ASSUME Left # {} PROVE FALSE
  BY ZenonT(40) DEF SpliceOK
<1>4. PICK x \in Left : \A y \in Left : ~(<<y, x>> \in Less)
  <2> HIDE DEF Less, Left
  <2> QED
    BY <1>1, <1>2, <1>3, WFMin
<1>5. x \in DOMAIN s \ {0}
  BY <1>4 DEF SpliceOK
<1>6. s[x].par \in DOMAIN s /\ s[x].par < x
  BY <1>5 DEF GoodProof, WellFormed, ParentsOK
<1>7. s[x].par \notin DOMAIN map
  BY <1>4, <1>5 DEF SpliceOK
<1>8. s[x].par \in Nat /\ x \in Nat
  BY <1>6, <1>5, RootedFresh, SMT DEF GoodProof, WellFormed
<1>9. <<s[x].par, x>> \in Less
  BY <1>6, <1>8
<1> QED
  BY <1>4, <1>6, <1>7, <1>9

\* fix_bl: the copy of the target is known, the assertions of add_backlink hold,
\* and the back-link becomes a copy.
LEMMA FixStep ==
  ASSUME NEW p, GoodProof(p), NEW s, GoodProof(s), NEW map, NEW B,
         SpliceOK(p, s, map, {}, B), NEW a \in B,
         NEW target, target = s[a].succs[1],
         NEW q, q = add_backlink(p, map[a], map[target], s[a].tps[1].tv)
  PROVE  /\ target \in DOMAIN map
         /\ ensure_add(p, map[a])
         /\ ensure_target(p, map[a], map[target])
         /\ GoodProof(q)
         /\ SpliceOK(q, s, map, {}, B \ {a})
<1>1. DOMAIN map = DOMAIN s
  BY AllCopied
<1>2. a \in DOMAIN s /\ is_backlink(s[a]) /\ map[a] \in DOMAIN p /\ is_open(p[map[a]])
  BY DEF SpliceOK
<1>3. target \in DOMAIN map /\ equal_upto_tags(s[a].seq, s[target].seq)
  BY <1>1, <1>2 DEF GoodProof, WellFormed, BacklinksOK
<1>4. ensure_add(p, map[a]) /\ ensure_target(p, map[a], map[target])
  BY <1>2, <1>3 DEF SpliceOK, ensure_add, ensure_target, equal_upto_tags
<1>5. /\ s[a].succs \in Seq(Nat) /\ Len(s[a].succs) = 1
      /\ s[a].tps \in Seq(Label) /\ Len(s[a].tps) = 1
  BY <1>2, SMT DEF GoodProof, NodesOK, NodeType, is_backlink
<1> DEFINE l == s[a].tps[1]
<1>6. /\ s[a].succs = <<target>> /\ s[a].tps = <<l>> /\ l \in Label
  BY <1>5, SMT
<1>7. PairsWithin(l, s[a].seq, s[target].seq) /\ l.tp = {}
  <2>1. 1 \in DOMAIN s[a].succs
    BY <1>5, SMT
  <2> QED
    BY <1>2, <2>1 DEF GoodProof, TracesOK, BudsOK
<1> HIDE DEF l
<1>8. l.tv \in SUBSET TagPair /\ l = [tv |-> l.tv, tp |-> {}]
  BY <1>6, <1>7 DEF Label
<1>9. l.tv \subseteq p[map[a]].seq.tags \X p[map[target]].seq.tags
  BY <1>2, <1>3, <1>7 DEF SpliceOK, PairsWithin
<1>10. /\ GoodProof(q) /\ Closed(p, q, map[a])
       /\ q[map[a]] = Node(p[map[a]].par, "back", p[map[a]].seq, <<map[target]>>, <<l>>)
  <2> DEFINE to == map[a]
             tt == map[target]
             v == l.tv
  <2>1. q = add_backlink(p, to, tt, v)
    BY DEF l
  <2>2. /\ ensure_add(p, to) /\ ensure_target(p, to, tt)
        /\ v \in SUBSET TagPair /\ v \subseteq p[to].seq.tags \X p[tt].seq.tags
    BY <1>4, <1>8, <1>9, ZenonT(40)
  <2>3. l = [tv |-> v, tp |-> {}]
    BY <1>8
  <2> HIDE DEF to, tt, v
  <2>4. /\ GoodProof(q) /\ Closed(p, q, to)
        /\ q[to] = Node(p[to].par, "back", p[to].seq, <<tt>>, <<[tv |-> v, tp |-> {}]>>)
    BY <2>1, <2>2, AddBacklinkGood, SMT
  <2>5. GoodProof(q) /\ Closed(p, q, to) /\ q[to] = Node(p[to].par, "back", p[to].seq, <<tt>>, <<l>>)
    BY <2>3, <2>4
  <2> QED
    BY <2>5 DEF to, tt
<1>11. /\ q[map[a]].kind = "back" /\ q[map[a]].succs = <<map[target]>> /\ q[map[a]].tps = <<l>>
       /\ q[map[a]].seq = p[map[a]].seq
  <2> DEFINE to == map[a]
             succs == <<map[target]>>
             tps == <<l>>
  <2>1. q[to] = Node(p[to].par, "back", p[to].seq, succs, tps)
    BY <1>10
  <2> HIDE DEF to, succs, tps
  <2>2. q[to].kind = "back" /\ q[to].succs = succs /\ q[to].tps = tps /\ q[to].seq = p[to].seq
    BY <2>1, NodeFields, SMT
  <2> QED
    BY <2>2, ZenonT(40) DEF to, succs, tps
<1>12. CopyOf(q, s, map, a)
  <2>1. DOMAIN s[a].succs = 1 .. 1
    BY <1>5, SMT
  <2>2. DOMAIN q[map[a]].succs = 1 .. 1 /\ q[map[a]].succs[1] = map[target]
    <3>1. DOMAIN <<map[target]>> = 1 .. 1 /\ <<map[target]>>[1] = map[target]
      BY SMTT(30)
    <3> QED
      BY <1>11, <3>1
  <2>3. q[map[a]].kind = s[a].kind /\ q[map[a]].tps = s[a].tps
    BY <1>2, <1>6, <1>11, ZenonT(40) DEF is_backlink
  <2>4. \A k \in DOMAIN s[a].succs :
          s[a].succs[k] \in DOMAIN map /\ q[map[a]].succs[k] = map[s[a].succs[k]]
    <3> TAKE k \in DOMAIN s[a].succs
    <3>1. k = 1
      BY <2>1, SMT
    <3> QED
      BY <1>3, <2>2, <3>1, ZenonT(40)
  <2> QED
    BY <2>1, <2>2, <2>3, <2>4 DEF CopyOf
<1>13. \A i \in DOMAIN map \ {a} : map[i] \in DOMAIN p \ {map[a]}
  BY <1>1, <1>2 DEF SpliceOK
<1>14. DOMAIN q = DOMAIN p /\ \A i \in DOMAIN p \ {map[a]} : q[i] = p[i]
  BY <1>10, ZenonT(40) DEF Closed
<1>15. \A i \in DOMAIN map : q[map[i]].seq = s[i].seq
  <2>1. \A i \in DOMAIN map : p[map[i]].seq = s[i].seq
    BY DEF SpliceOK
  <2> QED
    BY <1>11, <1>13, <1>14, <2>1, ZenonT(40)
<1>16. \A i \in DOMAIN map \ B : CopyOf(q, s, map, i)
  <2>1. \A i \in DOMAIN map \ B : CopyOf(p, s, map, i)
    BY DEF SpliceOK
  <2>2. \A i \in DOMAIN map \ B : q[map[i]] = p[map[i]]
    BY <1>13, <1>14
  <2> QED
    BY <2>1, <2>2, ZenonT(40) DEF CopyOf
<1>17. SpliceOK(q, s, map, {}, B \ {a})
  BY <1>2, <1>12, <1>13, <1>14, <1>15, <1>16, ZenonT(40) DEF SpliceOK
<1> QED
  BY <1>3, <1>4, <1>10, <1>17

\* The premises of node a of s, as add_subprf passes them to add_inf.
Premises(s, a) ==
  [k \in DOMAIN s[a].succs |-> [seq |-> s[s[a].succs[k]].seq, label |-> s[a].tps[k]]]

LEMMA PremisesAreSubgoals ==
  ASSUME NEW s, GoodProof(s), NEW a \in DOMAIN s
  PROVE  /\ Premises(s, a) \in Seq(Subgoal)
         /\ DOMAIN Premises(s, a) = DOMAIN s[a].succs
         /\ \A k \in DOMAIN s[a].succs :
              /\ Premises(s, a)[k].seq = s[s[a].succs[k]].seq
              /\ Premises(s, a)[k].label = s[a].tps[k]
              /\ PairsWithin(Premises(s, a)[k].label, s[a].seq, Premises(s, a)[k].seq)
<1>1. /\ s[a].succs \in Seq(Nat) /\ s[a].tps \in Seq(Label)
      /\ Len(s[a].tps) = Len(s[a].succs)
  BY DEF GoodProof, NodesOK, NodeType
<1>2. ASSUME NEW k \in DOMAIN s[a].succs
      PROVE  /\ s[s[a].succs[k]].seq \in Sequents
             /\ s[a].tps[k] \in Label
             /\ PairsWithin(s[a].tps[k], s[a].seq, s[s[a].succs[k]].seq)
  <2>1. s[a].succs[k] \in DOMAIN s
    BY SuccsInDomain
  <2>2. s[s[a].succs[k]].seq \in Sequents
    BY <2>1 DEF GoodProof, NodesOK, NodeType
  <2>3. s[a].tps[k] \in Label
    BY <1>1, SMT
  <2> QED
    BY <2>2, <2>3 DEF GoodProof, TracesOK
<1>3. \A k \in DOMAIN s[a].succs :
        [seq |-> s[s[a].succs[k]].seq, label |-> s[a].tps[k]] \in Subgoal
  BY <1>2 DEF Subgoal
<1>4. Premises(s, a) \in Seq(Subgoal)
  <2>1. DOMAIN s[a].succs = 1 .. Len(s[a].succs) /\ Len(s[a].succs) \in Nat
    BY <1>1, SMT
  <2> QED
    BY <1>3, <2>1, SMT DEF Premises
<1> QED
  BY <1>2, <1>4 DEF Premises

\* Where the nodes of s are once the premises of a have been copied.
Remapped(s, a, map, new) ==
  [i \in DOMAIN map \cup Range(s[a].succs) |->
     IF i \in Range(s[a].succs)
     THEN new[CHOOSE k \in DOMAIN s[a].succs : s[a].succs[k] = i]
     ELSE map[i]]

\* Each premise of a is mapped to its own entry of new.
Remaps(s, a, map, new, map2) ==
  /\ DOMAIN map2 = DOMAIN map \cup Range(s[a].succs)
  /\ \A k \in DOMAIN s[a].succs : map2[s[a].succs[k]] = new[k]
  /\ \A i \in DOMAIN map \ Range(s[a].succs) : map2[i] = map[i]

-----------------------------------------------------------------------------
(* The inductive invariant *)

Splicing ==
  /\ src \in saved
  /\ Stack(todo, node_map)
  /\ Stack(bls, node_map)
  /\ SpliceOK(prf, src, node_map, Firsts(todo), Firsts(bls))

PInv ==
  /\ GoodProof(prf)
  /\ \A p \in saved : GoodProof(p)
  /\ pc \in {"search", "between", "copy", "fix"}
  /\ failed = FALSE
  /\ pc \in {"copy", "fix"} => Splicing
  /\ pc = "fix" => todo = << >>

\* The invariant holds at the start of the first search.
LEMMA InitPInv == Init => PInv
<1> SUFFICES ASSUME Init PROVE PInv
  OBVIOUS
<1>1. PICK seq \in Goals : prf = mk(seq)
  BY DEF Init
<1>2. GoodProof(prf)
  BY <1>1, MkGood, SequentsAssumption
<1> QED
  BY <1>2 DEF Init, PInv

\* Every step preserves the invariant.
LEMMA NextPInv == PInv /\ [Next]_vars => PInv'
<1>StackConcat.
    ASSUME NEW s, NEW t, NEW map, Stack(s, map), Stack(t, map),
           Firsts(s) \cap Firsts(t) = {}
    PROVE  Stack(s \o t, map) /\ Firsts(s \o t) = Firsts(s) \cup Firsts(t)
  <2> USE <1>StackConcat
  <2>1. s \in Seq(Nat \X Nat) /\ t \in Seq(Nat \X Nat)
    BY DEF Stack
  <2>2. /\ Len(s) \in Nat /\ Len(t) \in Nat
        /\ DOMAIN s = 1 .. Len(s) /\ DOMAIN t = 1 .. Len(t)
        /\ s \o t \in Seq(Nat \X Nat)
        /\ DOMAIN (s \o t) = 1 .. Len(s) + Len(t)
        /\ \A k \in 1 .. Len(s) + Len(t) :
             (s \o t)[k] = IF k <= Len(s) THEN s[k] ELSE t[k - Len(s)]
    BY <2>1, SMT
  <2> DEFINE u == s \o t
  <2> HIDE DEF u
  <2>3. \A k \in 1 .. Len(s) + Len(t) :
          \/ k \in DOMAIN s /\ u[k] = s[k]
          \/ k > Len(s) /\ k - Len(s) \in DOMAIN t /\ u[k] = t[k - Len(s)]
    BY <2>2, SMT DEF u
  <2>4. \A k \in DOMAIN s : k \in 1 .. Len(s) + Len(t) /\ u[k] = s[k]
    BY <2>2, SMT DEF u
  <2>5. \A k \in DOMAIN t :
          k + Len(s) \in 1 .. Len(s) + Len(t) /\ u[k + Len(s)] = t[k]
    BY <2>2, SMTT(20) DEF u
  <2>6. u \in Seq(Nat \X Nat) /\ DOMAIN u = 1 .. Len(s) + Len(t)
    BY <2>2 DEF u
  <2>7. Firsts(u) = Firsts(s) \cup Firsts(t)
    <3>1. ASSUME NEW x \in Firsts(u) PROVE x \in Firsts(s) \cup Firsts(t)
      BY <2>3, <2>6, ZenonT(40) DEF Firsts
    <3>2. ASSUME NEW x \in Firsts(s) \cup Firsts(t) PROVE x \in Firsts(u)
      BY <2>4, <2>5, <2>6, SMTT(20) DEF Firsts
    <3> QED
      BY <3>1, <3>2
  <2>8. \A k \in DOMAIN u :
          u[k][1] \in DOMAIN map /\ u[k][2] = map[u[k][1]]
    <3> TAKE k \in DOMAIN u
    <3>1. CASE k \in DOMAIN s /\ u[k] = s[k]
      BY <3>1 DEF Stack
    <3>2. CASE k - Len(s) \in DOMAIN t /\ u[k] = t[k - Len(s)]
      BY <3>2 DEF Stack
    <3> QED
      BY <2>3, <2>6, <3>1, <3>2, ZenonT(40)
  <2>9. ASSUME NEW k \in DOMAIN u, NEW l \in DOMAIN u,
               u[k][1] = u[l][1]
        PROVE  k = l
    <3>1. \A i \in DOMAIN s, j \in DOMAIN t : s[i][1] # t[j][1]
      BY DEF Firsts
    <3>2. CASE k \in DOMAIN s /\ l \in DOMAIN s
      BY <2>4, <2>9, <3>2 DEF Stack
    <3>3. CASE k \in DOMAIN s /\ l \notin DOMAIN s
      <4>1. l - Len(s) \in DOMAIN t /\ u[l] = t[l - Len(s)] /\ u[k] = s[k]
        BY <2>3, <2>4, <2>6, <3>3, ZenonT(40)
      <4> QED
        BY <2>9, <3>1, <3>3, <4>1
    <3>4. CASE k \notin DOMAIN s /\ l \in DOMAIN s
      <4>1. k - Len(s) \in DOMAIN t /\ u[k] = t[k - Len(s)] /\ u[l] = s[l]
        BY <2>3, <2>4, <2>6, <3>4, ZenonT(40)
      <4> QED
        BY <2>9, <3>1, <3>4, <4>1
    <3>5. CASE k \notin DOMAIN s /\ l \notin DOMAIN s
      <4>1. /\ k - Len(s) \in DOMAIN t /\ u[k] = t[k - Len(s)]
            /\ l - Len(s) \in DOMAIN t /\ u[l] = t[l - Len(s)]
        BY <2>2, <2>3, <2>6, <3>5, ZenonT(40)
      <4>2. k - Len(s) = l - Len(s)
        BY <2>9, <4>1 DEF Stack
      <4> QED
        BY <2>2, <2>6, <4>2, SMT
    <3> QED
      BY <3>2, <3>3, <3>4, <3>5
  <2> QED
    <3>1. Stack(u, map)
      BY <2>6, <2>8, <2>9 DEF Stack
    <3> QED
      BY <2>7, <3>1 DEF u

\* _add on an axiom, or on an open node.
<1>LeafStep.
    ASSUME NEW p, GoodProof(p), NEW s, GoodProof(s), NEW map, NEW T, NEW B,
           SpliceOK(p, s, map, T, B), NEW a \in T,
           NEW q, \/ is_axiom(s[a]) /\ q = add_axiom(p, map[a])
                  \/ is_open(s[a]) /\ q = p
    PROVE  GoodProof(q) /\ SpliceOK(q, s, map, T \ {a}, B)
  <2> USE <1>LeafStep
  <2>1. /\ a \in DOMAIN map /\ a \in DOMAIN s /\ a \notin B
        /\ map[a] \in DOMAIN p /\ is_open(p[map[a]]) /\ ensure_add(p, map[a])
    BY DEF SpliceOK, ensure_add
  <2>2. \A i \in DOMAIN s \ {0} : s[i].par # a
    BY DEF GoodProof, WellFormed, ParentsOK, is_inf, is_axiom, is_open
  <2>3. s[a].succs = << >> /\ s[a].tps = << >>
    <3>1. s[a] \in NodeType /\ Len(s[a].tps) = Len(s[a].succs) /\ s[a].succs = << >>
      BY <2>1 DEF GoodProof, NodesOK, is_axiom, is_open
    <3>2. s[a].tps \in Seq(Label)
      BY <3>1 DEF NodeType
    <3> QED
      BY <3>1, <3>2, SMT
  <2>4. /\ GoodProof(q) /\ DOMAIN q = DOMAIN p
        /\ \A i \in DOMAIN p \ {map[a]} : q[i] = p[i]
        /\ q[map[a]].seq = p[map[a]].seq
        /\ q[map[a]].kind = s[a].kind /\ q[map[a]].succs = << >> /\ q[map[a]].tps = << >>
    <3>1. CASE is_axiom(s[a]) /\ q = add_axiom(p, map[a])
      <4>1. GoodProof(q) /\ Closed(p, q, map[a])
            /\ q[map[a]] = Node(p[map[a]].par, "axiom", p[map[a]].seq, << >>, << >>)
        BY <2>1, <3>1, AddAxiomGood
      <4> QED
        BY <3>1, <4>1, SMT DEF Closed, Node, is_axiom
    <3>2. CASE is_open(s[a]) /\ q = p
      <4>1. p[map[a]] \in NodeType /\ Len(p[map[a]].tps) = Len(p[map[a]].succs)
            /\ p[map[a]].succs = << >>
        BY <2>1 DEF GoodProof, NodesOK, is_open
      <4>2. p[map[a]].tps \in Seq(Label)
        BY <4>1 DEF NodeType
      <4>3. p[map[a]].tps = << >>
        BY <4>1, <4>2, SMT
      <4> QED
        BY <2>1, <3>2, <4>1, <4>3 DEF is_open
    <3> QED
      BY <3>1, <3>2
  <2>5. \A i \in DOMAIN map \ {a} : map[i] \in DOMAIN p \ {map[a]}
    BY <2>1 DEF SpliceOK
  <2>6. \A i \in DOMAIN map : q[map[i]].seq = s[i].seq
    BY <2>1, <2>4, <2>5 DEF SpliceOK
  <2>7. CopyOf(q, s, map, a)
    BY <2>3, <2>4, SMTT(30) DEF CopyOf
  <2>8. \A i \in DOMAIN map \ (T \cup B) : CopyOf(q, s, map, i)
    BY <2>4, <2>5, SMTT(30) DEF SpliceOK, CopyOf
  <2> QED
    BY <2>1, <2>2, <2>4, <2>5, <2>6, <2>7, <2>8, SMTT(30) DEF SpliceOK

\* _add on a back-link, which is only noted.
<1>BudStep.
    ASSUME NEW p, NEW s, GoodProof(s), NEW map, NEW T, NEW B,
           SpliceOK(p, s, map, T, B), NEW a \in T, is_backlink(s[a])
    PROVE  SpliceOK(p, s, map, T \ {a}, B \cup {a})
  <2> USE <1>BudStep
  <2>1. \A i \in DOMAIN s \ {0} : s[i].par # a
    BY DEF GoodProof, WellFormed, ParentsOK, is_inf, is_backlink
  <2> QED
    BY <2>1, SMT DEF SpliceOK

\* The call of add_subprf: the root of s is to be copied to the open node idx.
<1>StartStep.
    ASSUME NEW p, NEW s, GoodProof(s), NEW idx, ensure_add(p, idx), s[0].seq = p[idx].seq
    PROVE  SpliceOK(p, s, [i \in {0} |-> idx], {0}, {})
  <2> USE <1>StartStep
  <2>1. 0 \in DOMAIN s
    BY DEF GoodProof, WellFormed, Rooted
  <2> QED
    BY <2>1 DEF SpliceOK, ensure_add

<1>RemappedPremises.
    ASSUME NEW s, GoodProof(s), NEW a \in DOMAIN s, is_inf(s[a]), NEW map, NEW new
    PROVE  Remaps(s, a, map, new, Remapped(s, a, map, new))
  <2> USE <1>RemappedPremises
  <2>1. \A k, l \in DOMAIN s[a].succs : s[a].succs[k] = s[a].succs[l] => k = l
    BY DEF GoodProof, WellFormed, PremisesOK
  <2>2. ASSUME NEW k \in DOMAIN s[a].succs
        PROVE  Remapped(s, a, map, new)[s[a].succs[k]] = new[k]
    <3>1. s[a].succs[k] \in Range(s[a].succs)
      BY DEF Range
    <3>2. (CHOOSE l \in DOMAIN s[a].succs : s[a].succs[l] = s[a].succs[k]) = k
      BY <2>1
    <3> QED
      BY <3>1, <3>2 DEF Remapped
  <2> QED
    BY <2>2 DEF Remapped, Remaps

\* _add on an inference: its premises are copied to fresh open nodes, which are
\* to be visited next.
<1>InfStep.
    ASSUME NEW p, GoodProof(p), NEW s, GoodProof(s), NEW map, NEW T, NEW B,
           SpliceOK(p, s, map, T, B), NEW a \in T, is_inf(s[a])
    PROVE  LET subgoals == Premises(s, a)
               q == add_inf(p, map[a], subgoals)
               map2 == Remapped(s, a, map, fresh_idxs(p, subgoals))
           IN  /\ ensure_add(p, map[a])
               /\ GoodProof(q)
               /\ Range(s[a].succs) \cap DOMAIN map = {}
               /\ SpliceOK(q, s, map2, (T \ {a}) \cup Range(s[a].succs), B)
  <2> USE <1>InfStep
  <2> DEFINE subgoals == Premises(s, a)
             q == add_inf(p, map[a], subgoals)
             new == fresh_idxs(p, subgoals)
             map2 == Remapped(s, a, map, new)
             S == Range(s[a].succs)
             next == fresh_idx(p)
             to == map[a]
  <2>1. /\ a \in DOMAIN map /\ a \in DOMAIN s /\ a \notin B
        /\ to \in DOMAIN p /\ is_open(p[to]) /\ p[to].seq = s[a].seq /\ ensure_add(p, to)
    BY DEF SpliceOK, ensure_add
  <2>2. /\ subgoals \in Seq(Subgoal)
        /\ DOMAIN subgoals = DOMAIN s[a].succs
        /\ \A k \in DOMAIN s[a].succs :
             /\ subgoals[k].seq = s[s[a].succs[k]].seq
             /\ subgoals[k].label = s[a].tps[k]
             /\ PairsWithin(subgoals[k].label, s[a].seq, subgoals[k].seq)
    BY <2>1, PremisesAreSubgoals
  <2>3. /\ DOMAIN map2 = DOMAIN map \cup S
        /\ \A k \in DOMAIN s[a].succs : map2[s[a].succs[k]] = new[k]
        /\ \A i \in DOMAIN map \ S : map2[i] = map[i]
    <3>1. Remaps(s, a, map, new, map2)
      BY <2>1, <1>RemappedPremises
    <3> QED
      BY <3>1 DEF Remaps
  <2>4. \A k \in DOMAIN s[a].succs : new[k] = next + k - 1
    BY <2>2 DEF fresh_idxs
  <2>5. next \in Nat \ {0} /\ DOMAIN p = 0 .. next - 1
    BY RootedFresh DEF GoodProof, WellFormed
  <2>6. Extended(p, q, to, subgoals)
    BY <2>1, <2>2, AddInfExtends
  <2>7. GoodProof(q)
    BY <2>1, <2>2, AddInfGood
  <2>8. /\ s[a].succs \in Seq(Nat) /\ DOMAIN s[a].succs = 1 .. Len(s[a].succs)
        /\ s[a].tps \in Seq(Label) /\ Len(s[a].tps) = Len(s[a].succs)
    BY <2>1, SMT DEF GoodProof, NodesOK, NodeType
  <2>9. \A i \in S : \E k \in DOMAIN s[a].succs : i = s[a].succs[k]
    BY DEF Range
  <2>10. \A k \in DOMAIN s[a].succs :
           /\ s[a].succs[k] \in S /\ s[a].succs[k] \in DOMAIN s \ {0}
           /\ s[s[a].succs[k]].par = a
    <3>1. a \in Nat
      BY <2>1, RootedFresh, SMTT(30) DEF GoodProof, WellFormed
    <3>2. \A k \in DOMAIN s[a].succs :
            /\ s[a].succs[k] \in DOMAIN s /\ s[a].succs[k] > a
            /\ s[s[a].succs[k]].par = a
      BY <2>1 DEF GoodProof, WellFormed, PremisesOK
    <3> QED
      BY <3>1, <3>2, SMT DEF Range
  <2>11. \A i \in DOMAIN s \ {0} : i \in S <=> s[i].par = a
    <3>1. \A i \in DOMAIN s \ {0} : s[i].par = a => i \in S
      BY DEF GoodProof, WellFormed, ParentsOK, Range
    <3> QED
      BY <2>9, <2>10, <3>1, SMTT(30)
  <2>12. \A i \in DOMAIN s \ {0} : i \in DOMAIN map <=> s[i].par \in DOMAIN map \ T
    BY DEF SpliceOK
  <2>13. S \cap DOMAIN map = {} /\ S \subseteq DOMAIN s \ {0}
    BY <2>9, <2>10, <2>12, SMT
  <2> HIDE DEF subgoals, q, new, map2, S, next, to
  <2>14. \A i \in DOMAIN map \ {a} : map[i] \in DOMAIN p \ {to}
    BY <2>1 DEF SpliceOK, to
  <2>15. /\ \A i \in DOMAIN p \ {to} : q[i] = p[i]
         /\ q[to] = Node(p[to].par, "inf", p[to].seq, new,
                         [k \in DOMAIN subgoals |-> subgoals[k].label])
         /\ \A k \in DOMAIN subgoals : q[next + k - 1] = mk_open(to, subgoals[k].seq)
         /\ DOMAIN q = 0 .. next + Len(subgoals) - 1
    BY <2>6 DEF Extended, new, next
  <2>16. /\ q[to].kind = "inf" /\ q[to].seq = p[to].seq /\ q[to].succs = new
         /\ q[to].tps = [k \in DOMAIN subgoals |-> subgoals[k].label]
    BY <2>15, SMT DEF Node
  <2>17. \A k \in DOMAIN s[a].succs :
           /\ new[k] \in DOMAIN q /\ new[k] \notin DOMAIN p
           /\ is_open(q[new[k]]) /\ q[new[k]].seq = s[s[a].succs[k]].seq
    <3> TAKE k \in DOMAIN s[a].succs
    <3>1. q[new[k]] = mk_open(to, s[s[a].succs[k]].seq)
      BY <2>2, <2>4, <2>15, SMTT(60)
    <3>2. new[k] \in DOMAIN q /\ new[k] \notin DOMAIN p
      <4> DEFINE len == Len(subgoals)
      <4>1. len \in Nat /\ k \in 1 .. len
        BY <2>2, SMT
      <4>2. new[k] = next + k - 1 /\ DOMAIN q = 0 .. next + len - 1
        BY <2>4, <2>15
      <4> HIDE DEF len
      <4> QED
        BY <2>5, <4>1, <4>2, SMTT(30)
    <3> QED
      BY <3>1, <3>2, SMT DEF mk_open, Node, is_open
  <2>18. DOMAIN p \subseteq DOMAIN q
    BY <2>2, <2>5, <2>15, SMTT(20)
  <2>19. \A i \in DOMAIN map2 : map2[i] \in DOMAIN q /\ q[map2[i]].seq = s[i].seq
    <3> TAKE i \in DOMAIN map2
    <3>1. CASE i \in S
      BY <2>3, <2>9, <2>17, <3>1, SMTT(60)
    <3>2. CASE i = a
      BY <2>1, <2>3, <2>13, <2>16, <2>18, <3>2 DEF to
    <3>3. CASE i \in DOMAIN map \ {a}
      <4>1. p[map[i]].seq = s[i].seq
        BY <3>3 DEF SpliceOK
      <4>2. map2[i] = map[i]
        BY <2>3, <2>13, <3>3
      <4> QED
        BY <2>14, <2>15, <2>18, <3>3, <4>1, <4>2
    <3> QED
      BY <2>3, <3>1, <3>2, <3>3
  <2>20. \A i, j \in DOMAIN map2 : map2[i] = map2[j] => i = j
    <3>1. \A i \in DOMAIN map : map2[i] = map[i] /\ map[i] \in DOMAIN p
      BY <2>3, <2>13 DEF SpliceOK
    <3>2. \A i, j \in DOMAIN map : map[i] = map[j] => i = j
      BY DEF SpliceOK
    <3>3. \A k, l \in DOMAIN s[a].succs : new[k] = new[l] => k = l
      BY <2>4, <2>5, <2>8, SMTT(30)
    <3>4. \A i \in S : \E k \in DOMAIN s[a].succs : i = s[a].succs[k] /\ map2[i] = new[k]
      BY <2>3, <2>9, SMT
    <3>5. \A i \in S : map2[i] \notin DOMAIN p
      BY <2>17, <3>4
    <3>6. \A i, j \in S : map2[i] = map2[j] => i = j
      BY <3>3, <3>4, SMTT(30)
    <3> QED
      BY <2>3, <3>1, <3>2, <3>5, <3>6, SMTT(30)
  <2>21. \A i \in DOMAIN s \ {0} :
           i \in DOMAIN map2 <=> s[i].par \in DOMAIN map2 \ ((T \ {a}) \cup S)
    BY <2>1, <2>3, <2>11, <2>12, <2>13, SMTT(20)
  <2>22. \A i \in ((T \ {a}) \cup S) \cup B : is_open(q[map2[i]])
    <3> TAKE i \in ((T \ {a}) \cup S) \cup B
    <3>1. CASE i \in S
      <4>1. PICK k \in DOMAIN s[a].succs : i = s[a].succs[k]
        BY <2>9, <3>1
      <4>2. map2[i] = new[k]
        BY <2>3, <4>1
      <4>3. is_open(q[new[k]])
        BY <2>17
      <4> QED
        BY <4>2, <4>3
    <3>2. CASE i \in (T \ {a}) \cup B
      <4>1. i \in DOMAIN map \ {a} /\ is_open(p[map[i]])
        BY <2>1, <3>2 DEF SpliceOK
      <4> QED
        BY <2>3, <2>13, <2>14, <2>15, <4>1
    <3> QED
      BY <3>1, <3>2
  <2>23. CopyOf(q, s, map2, a)
    <3>1. map2[a] = to
      BY <2>1, <2>3, <2>13 DEF to
    <3>2. q[to].kind = s[a].kind
      BY <2>16 DEF is_inf
    <3>3. q[to].tps = s[a].tps
      <4>1. q[to].tps = [k \in DOMAIN s[a].succs |-> s[a].tps[k]]
        BY <2>2, <2>16
      <4>2. s[a].tps = [k \in DOMAIN s[a].tps |-> s[a].tps[k]] /\ DOMAIN s[a].tps = DOMAIN s[a].succs
        BY <2>8, SMTT(30)
      <4> QED
        BY <4>1, <4>2
    <3>4. DOMAIN q[to].succs = DOMAIN s[a].succs
      BY <2>2, <2>16 DEF new, fresh_idxs
    <3>5. \A k \in DOMAIN s[a].succs :
            s[a].succs[k] \in DOMAIN map2 /\ q[to].succs[k] = map2[s[a].succs[k]]
      BY <2>3, <2>10, <2>16
    <3> QED
      BY <3>1, <3>2, <3>3, <3>4, <3>5 DEF CopyOf
  <2>24. \A i \in DOMAIN map \ (T \cup B) : CopyOf(q, s, map2, i)
    <3> TAKE i \in DOMAIN map \ (T \cup B)
    <3>1. i # a /\ CopyOf(p, s, map, i)
      BY DEF SpliceOK
    <3>2. q[map2[i]] = p[map[i]]
      BY <2>3, <2>13, <2>14, <2>15, <3>1
    <3>3. \A j \in DOMAIN map : j \in DOMAIN map2 /\ map2[j] = map[j]
      BY <2>3, <2>13
    <3> QED
      BY <3>1, <3>2, <3>3 DEF CopyOf
  <2>25. SpliceOK(q, s, map2, (T \ {a}) \cup S, B)
    <3>1. 0 \in DOMAIN map2 /\ DOMAIN map2 \subseteq DOMAIN s
      BY <2>3, <2>13 DEF SpliceOK
    <3>2. /\ (T \ {a}) \cup S \subseteq DOMAIN map2 /\ B \subseteq DOMAIN map2
          /\ ((T \ {a}) \cup S) \cap B = {}
          /\ \A i \in B : is_backlink(s[i])
      BY <2>3, <2>13 DEF SpliceOK
    <3>3. \A i \in DOMAIN map2 \ (((T \ {a}) \cup S) \cup B) : CopyOf(q, s, map2, i)
      BY <2>3, <2>23, <2>24
    <3> QED
      BY <2>19, <2>20, <2>21, <2>22, <3>1, <3>2, <3>3 DEF SpliceOK
  <2> QED
    BY <2>1, <2>7, <2>13, <2>25 DEF subgoals, q, new, map2, S, to

\* Rule applications, and the beginning and end of searches.
<1>SearchSteps.
    ASSUME PInv,
           \/ \E idx \in DOMAIN prf :
                \/ AddAxiom(idx)
                \/ AddInf(idx)
                \/ \E target \in DOMAIN prf : AddBacklink(idx, target)
           \/ Complete
           \/ \E seq \in Goals : NextSearch(seq)
    PROVE  PInv'
  <2> USE <1>SearchSteps
  <2> USE DEF PInv
  <2>1. ASSUME NEW idx \in DOMAIN prf, AddAxiom(idx)
        PROVE  PInv'
    <3>1. GoodProof(prf')
      BY <2>1, AddAxiomGood DEF AddAxiom
    <3> QED
      BY <2>1, <3>1 DEF AddAxiom, splice
  <2>2. ASSUME NEW idx \in DOMAIN prf, AddInf(idx)
        PROVE  PInv'
    <3>1. PICK subgoals \in InfRules[prf[idx].seq] : prf' = add_inf(prf, idx, subgoals)
      BY <2>2 DEF AddInf
    <3>2. prf[idx].seq \in Sequents
      BY DEF GoodProof, NodesOK, NodeType
    <3>3. /\ subgoals \in Seq(Subgoal)
          /\ \A k \in DOMAIN subgoals : PairsWithin(subgoals[k].label, prf[idx].seq, subgoals[k].seq)
      BY <3>2, RulesAssumption, RuleTagsAssumption
    <3>4. GoodProof(prf')
      BY <2>2, <3>1, <3>3, AddInfGood DEF AddInf
    <3> QED
      BY <2>2, <3>4 DEF AddInf, splice
  <2>3. ASSUME NEW idx \in DOMAIN prf, NEW target \in DOMAIN prf, AddBacklink(idx, target)
        PROVE  PInv'
    <3>1. PICK vtts \in BackRules[<<prf[idx].seq, prf[target].seq>>] :
            prf' = add_backlink(prf, idx, target, vtts)
      BY <2>3 DEF AddBacklink
    <3>2. prf[idx].seq \in Sequents /\ prf[target].seq \in Sequents
      BY DEF GoodProof, NodesOK, NodeType
    <3>3. vtts \in SUBSET TagPair /\ vtts \subseteq prf[idx].seq.tags \X prf[target].seq.tags
      BY <3>2, RulesAssumption, RuleTagsAssumption, ZenonT(60)
    <3>4. GoodProof(prf')
      BY <2>3, <3>1, <3>3, AddBacklinkGood, ZenonT(40) DEF AddBacklink
    <3> QED
      BY <2>3, <3>4 DEF AddBacklink, splice
  <2>4. CASE Complete
    BY <2>4 DEF Complete
  <2>5. ASSUME NEW seq \in Goals, NextSearch(seq)
        PROVE  PInv'
    <3>1. GoodProof(prf')
      BY <2>5, MkGood, SequentsAssumption DEF NextSearch
    <3> QED
      BY <2>5, <3>1 DEF NextSearch
  <2> QED
    BY <2>1, <2>2, <2>3, <2>4, <2>5, ZenonT(40)

\* The call of add_subprf, and the steps of its two phases.
<1>SpliceSteps.
    ASSUME PInv,
           \/ \E idx \in DOMAIN prf : \E p \in saved : AddSubprf(idx, p)
           \/ CopyLeaf \/ CopyInf \/ CopyEnds \/ FixBacklink \/ AddSubprfReturns
    PROVE  PInv'
  <2> USE <1>SpliceSteps
  <2> USE DEF PInv
  <2>1. ASSUME NEW idx \in DOMAIN prf, NEW p \in saved, AddSubprf(idx, p)
        PROVE  PInv'
    <3>1. /\ ensure_add(prf, idx) /\ p[0].seq = prf[idx].seq
          /\ pc' = "copy" /\ src' = p /\ todo' = <<<<0, idx>>>> /\ bls' = << >>
          /\ node_map' = [i \in {0} |-> idx]
          /\ prf' = prf /\ saved' = saved /\ failed' = failed
      BY <2>1 DEF AddSubprf
    <3>2. SpliceOK(prf, p, [i \in {0} |-> idx], {0}, {})
      BY <3>1, <1>StartStep, ZenonT(40)
    <3>3. Firsts(todo') = {0} /\ Firsts(bls') = {}
      <4>1. Firsts(<<<<0, idx>>>>) = {0} /\ Firsts(<< >>) = {}
        BY SMT DEF Firsts
      <4> QED
        BY <3>1, <4>1
    <3>4. Stack(todo', node_map') /\ Stack(bls', node_map')
      <4>1. idx \in Nat
        BY RootedFresh, SMT DEF GoodProof, WellFormed
      <4>2. Stack(<<<<0, idx>>>>, [i \in {0} |-> idx]) /\ Stack(<< >>, [i \in {0} |-> idx])
        BY <4>1, SMT DEF Stack
      <4> QED
        BY <3>1, <4>2
    <3>5. Splicing'
      BY <3>1, <3>2, <3>3, <3>4, ZenonT(40) DEF Splicing
    <3> QED
      BY <3>1, <3>5
  <2>2. CASE CopyLeaf
    <3> DEFINE a == Head(todo)[1]
               T == Firsts(todo)
               B == Firsts(bls)
    <3>1. Splicing /\ GoodProof(src)
      BY <2>2 DEF CopyLeaf, Splicing
    <3>2. /\ a \in T /\ a \in DOMAIN node_map /\ Head(todo)[2] = node_map[a]
          /\ Stack(Tail(todo), node_map) /\ Firsts(Tail(todo)) = T \ {a}
      BY <2>2, <3>1, StackTail, ZenonT(40) DEF CopyLeaf, Splicing
    <3>3. /\ SpliceOK(prf, src, node_map, T, B)
          /\ a \in DOMAIN src /\ a \notin B /\ ensure_add(prf, node_map[a])
      BY <3>1, <3>2, ZenonT(40) DEF Splicing, SpliceOK, ensure_add
    <3>4. /\ pc = "copy" /\ ~is_inf(src[a]) /\ pc' = pc /\ src' = src /\ saved' = saved
          /\ node_map' = node_map /\ todo' = Tail(todo)
          /\ prf' = IF is_axiom(src[a]) THEN add_axiom(prf, node_map[a]) ELSE prf
          /\ bls' = IF is_backlink(src[a]) THEN <<Head(todo)>> \o bls ELSE bls
          /\ failed' = (failed \/ (is_axiom(src[a]) /\ ~ensure_add(prf, node_map[a])))
      BY <2>2, <3>2 DEF CopyLeaf
    <3>5. failed' = FALSE
      BY <3>3, <3>4, ZenonT(40)
    <3>6. src[a].kind \in {"open", "axiom", "back"}
      BY <3>1, <3>3, <3>4, ZenonT(40) DEF GoodProof, NodesOK, NodeType, is_inf
    <3> HIDE DEF a, T, B
    <3>7. CASE is_backlink(src[a])
      <4>1. prf' = prf /\ bls' = <<Head(todo)>> \o bls
        BY <3>4, <3>7 DEF is_axiom, is_backlink
      <4>2. SpliceOK(prf, src, node_map, T \ {a}, B \cup {a})
        BY <3>1, <3>2, <3>3, <3>7, <1>BudStep, ZenonT(40)
      <4>3. Stack(<<Head(todo)>>, node_map) /\ Firsts(<<Head(todo)>>) = {a}
        <5>1. todo \in Seq(Nat \X Nat) /\ todo # << >>
          BY <2>2, <3>1, ZenonT(40) DEF Splicing, Stack, CopyLeaf
        <5>2. Head(todo) \in Nat \X Nat
          BY <5>1, SMTT(30)
        <5> DEFINE h == Head(todo)
        <5>3. h \in Nat \X Nat /\ h[1] \in DOMAIN node_map /\ h[2] = node_map[h[1]] /\ h[1] = a
          BY <3>2, <5>2, ZenonT(40) DEF a
        <5> HIDE DEF h
        <5>4. Stack(<<h>>, node_map) /\ Firsts(<<h>>) = {a}
          BY <5>3, SMT DEF Stack, Firsts
        <5> QED
          BY <5>4 DEF h
      <4>4. Stack(bls', node_map) /\ Firsts(bls') = B \cup {a}
        <5> DEFINE h == <<Head(todo)>>
        <5>1. Stack(h, node_map) /\ Firsts(h) = {a} /\ bls' = h \o bls
          BY <4>1, <4>3
        <5> HIDE DEF h
        <5>2. Stack(bls, node_map) /\ Firsts(h) \cap Firsts(bls) = {}
          BY <3>1, <3>3, <5>1 DEF Splicing, B
        <5>3. Stack(h \o bls, node_map) /\ Firsts(h \o bls) = Firsts(h) \cup Firsts(bls)
          BY <5>1, <5>2, <1>StackConcat, ZenonT(40)
        <5> QED
          BY <5>1, <5>3 DEF B
      <4> QED
        BY <3>1, <3>2, <3>4, <3>5, <4>1, <4>2, <4>4, ZenonT(40) DEF Splicing
    <3>8. CASE ~is_backlink(src[a])
      <4>1. \/ is_axiom(src[a]) /\ prf' = add_axiom(prf, node_map[a])
            \/ is_open(src[a]) /\ prf' = prf
        BY <3>4, <3>6, <3>8, ZenonT(40) DEF is_axiom, is_open, is_backlink
      <4>2. GoodProof(prf') /\ SpliceOK(prf', src, node_map, T \ {a}, B)
        BY <3>1, <3>2, <3>3, <4>1, <1>LeafStep, ZenonT(40)
      <4> QED
        BY <3>1, <3>2, <3>4, <3>5, <3>8, <4>2, ZenonT(40) DEF Splicing, B
    <3> QED
      BY <3>7, <3>8, ZenonT(40)
  <2>3. CASE CopyInf
    <3> DEFINE a == Head(todo)[1]
               T == Firsts(todo)
               B == Firsts(bls)
               n == src[a]
               subgoals == Premises(src, a)
               new == fresh_idxs(prf, subgoals)
               visit == [k \in DOMAIN n.succs |-> <<n.succs[k], new[k]>>]
    <3>1. Splicing /\ GoodProof(src)
      BY <2>3, ZenonT(40) DEF CopyInf, Splicing
    <3>2. /\ a \in T /\ a \in DOMAIN node_map /\ Head(todo)[2] = node_map[a]
          /\ Stack(Tail(todo), node_map) /\ Firsts(Tail(todo)) = T \ {a}
      BY <2>3, <3>1, StackTail, ZenonT(40) DEF CopyInf, Splicing
    <3>3. /\ pc = "copy" /\ is_inf(src[a]) /\ pc' = pc /\ src' = src /\ saved' = saved /\ bls' = bls
          /\ failed' = (failed \/ ~ensure_add(prf, node_map[a]))
          /\ prf' = add_inf(prf, node_map[a], subgoals)
          /\ node_map' = Remapped(src, a, node_map, new)
          /\ todo' = visit \o Tail(todo)
      BY <2>3, <3>2, ZenonT(40) DEF CopyInf, Premises, Remapped
    <3>4. SpliceOK(prf, src, node_map, T, B) /\ a \in DOMAIN src
      BY <3>1, <3>2, ZenonT(40) DEF Splicing, SpliceOK
    <3> HIDE DEF a, T, B, n, subgoals, new, visit
    <3>5. /\ ensure_add(prf, node_map[a])
          /\ GoodProof(prf')
          /\ Range(src[a].succs) \cap DOMAIN node_map = {}
          /\ SpliceOK(prf', src, node_map', (T \ {a}) \cup Range(src[a].succs), B)
      BY <3>1, <3>2, <3>3, <3>4, <1>InfStep, ZenonT(40) DEF subgoals, new
    <3>6. Remaps(src, a, node_map, new, node_map')
      BY <3>1, <3>3, <3>4, <1>RemappedPremises, ZenonT(40)
    <3>7. /\ n.succs \in Seq(Nat) /\ DOMAIN n.succs = 1 .. Len(n.succs) /\ Len(n.succs) \in Nat
          /\ \A k, l \in DOMAIN n.succs : n.succs[k] = n.succs[l] => k = l
          /\ \A k \in DOMAIN n.succs : new[k] \in Nat
      <4>1. n.succs \in Seq(Nat)
        BY <3>1, <3>4 DEF GoodProof, NodesOK, NodeType, n
      <4>2. \A k, l \in DOMAIN n.succs : n.succs[k] = n.succs[l] => k = l
        BY <3>1, <3>3, <3>4, ZenonT(40) DEF GoodProof, WellFormed, PremisesOK, n
      <4>3. DOMAIN subgoals = DOMAIN n.succs /\ fresh_idx(prf) \in Nat \ {0}
        BY RootedFresh DEF subgoals, Premises, n, GoodProof, WellFormed
      <4>4. \A k \in DOMAIN n.succs : new[k] = fresh_idx(prf) + k - 1
        BY <4>3 DEF new, fresh_idxs
      <4>5. \A k \in DOMAIN n.succs : new[k] \in Nat
        BY <4>1, <4>3, <4>4, SMT
      <4> QED
        BY <4>1, <4>2, <4>5, SMTT(20)
    <3>8. Stack(visit, node_map') /\ Firsts(visit) = Range(n.succs)
      <4>1. /\ DOMAIN visit = DOMAIN n.succs
            /\ \A k \in DOMAIN n.succs : visit[k] = <<n.succs[k], new[k]>>
        BY DEF visit
      <4>2. visit \in Seq(Nat \X Nat)
        BY <3>7, SMT DEF visit
      <4>3. \A k \in DOMAIN n.succs : n.succs[k] \in DOMAIN node_map' /\ node_map'[n.succs[k]] = new[k]
        BY <3>6 DEF Remaps, Range, n
      <4>4. Firsts(visit) = Range(n.succs)
        BY <4>1, SMT DEF Firsts, Range
      <4>5. \A k \in DOMAIN visit : visit[k][1] = n.succs[k] /\ visit[k][2] = new[k]
        BY <4>1, SMT
      <4>6. \A k \in DOMAIN visit :
               visit[k][1] \in DOMAIN node_map' /\ visit[k][2] = node_map'[visit[k][1]]
        BY <4>1, <4>3, <4>5
      <4>7. \A k, l \in DOMAIN visit : visit[k][1] = visit[l][1] => k = l
        BY <3>7, <4>1, <4>5, SMTT(30)
      <4> QED
        BY <4>2, <4>4, <4>6, <4>7 DEF Stack
    <3>9. ASSUME NEW st, Stack(st, node_map)
          PROVE  Stack(st, node_map')
      <4>1. \A i \in DOMAIN node_map : i \in DOMAIN node_map' /\ node_map'[i] = node_map[i]
        BY <3>5, <3>6 DEF Remaps
      <4> QED
        BY <3>9, <4>1 DEF Stack
    <3>10. /\ Stack(todo', node_map')
           /\ Firsts(todo') = (T \ {a}) \cup Range(src[a].succs)
      <4>1. Stack(Tail(todo), node_map')
        BY <3>2, <3>9
      <4>2. Firsts(visit) \cap Firsts(Tail(todo)) = {}
        <5>1. Firsts(visit) = Range(src[a].succs)
          BY <3>8 DEF n
        <5>2. T \subseteq DOMAIN node_map
          BY <3>4 DEF SpliceOK
        <5> QED
          BY <3>2, <3>5, <5>1, <5>2, ZenonT(40)
      <4>3. Stack(visit \o Tail(todo), node_map')
            /\ Firsts(visit \o Tail(todo)) = Firsts(visit) \cup Firsts(Tail(todo))
        BY <3>8, <4>1, <4>2, <1>StackConcat, ZenonT(40)
      <4> QED
        BY <3>2, <3>3, <3>8, <4>3 DEF n
    <3>11. Stack(bls', node_map')
      BY <3>1, <3>3, <3>9 DEF Splicing
    <3>12. Splicing'
      BY <3>1, <3>3, <3>5, <3>10, <3>11, ZenonT(40) DEF Splicing, B
    <3>13. failed' = FALSE
      BY <3>3, <3>5, ZenonT(40)
    <3> QED
      BY <3>3, <3>5, <3>12, <3>13
  <2>4. CASE CopyEnds
    BY <2>4 DEF CopyEnds, Splicing, splice
  <2>5. CASE FixBacklink
    <3> DEFINE a == Head(bls)[1]
               B == Firsts(bls)
               target == src[a].succs[1]
               q == add_backlink(prf, node_map[a], node_map[target], src[a].tps[1].tv)
    <3>1. Splicing /\ GoodProof(src) /\ todo = << >> /\ Firsts(todo) = {}
      <4>1. Splicing /\ GoodProof(src) /\ todo = << >>
        BY <2>5, ZenonT(40) DEF FixBacklink, Splicing
      <4>2. Firsts(<< >>) = {}
        BY SMTT(30) DEF Firsts
      <4> QED
        BY <4>1, <4>2
    <3>2. /\ a \in B /\ a \in DOMAIN node_map /\ Head(bls)[2] = node_map[a]
          /\ Stack(Tail(bls), node_map) /\ Firsts(Tail(bls)) = B \ {a}
      BY <2>5, <3>1, StackTail, ZenonT(40) DEF FixBacklink, Splicing
    <3>3. SpliceOK(prf, src, node_map, {}, B)
      BY <3>1 DEF Splicing
    <3>4. /\ target \in DOMAIN node_map
          /\ ensure_add(prf, node_map[a])
          /\ ensure_target(prf, node_map[a], node_map[target])
          /\ GoodProof(q)
          /\ SpliceOK(q, src, node_map, {}, B \ {a})
      <4> HIDE DEF a, B
      <4> QED
        BY <3>1, <3>2, <3>3, FixStep, ZenonT(40)
    <3>5. /\ pc = "fix" /\ pc' = pc /\ src' = src /\ saved' = saved /\ node_map' = node_map
          /\ todo' = todo /\ bls' = Tail(bls) /\ prf' = q /\ failed' = failed
      BY <2>5, <3>2, <3>4, ZenonT(40) DEF FixBacklink
    <3> HIDE DEF a, B, q, target
    <3> QED
      BY <3>1, <3>2, <3>4, <3>5, ZenonT(40) DEF Splicing
  <2>6. CASE AddSubprfReturns
    BY <2>6 DEF AddSubprfReturns
  <2> QED
    BY <2>1, <2>2, <2>3, <2>4, <2>5, <2>6, ZenonT(40)

<1> SUFFICES ASSUME PInv, [Next]_vars PROVE PInv'
  OBVIOUS
<1>1. CASE \/ \E idx \in DOMAIN prf :
                \/ AddAxiom(idx)
                \/ AddInf(idx)
                \/ \E target \in DOMAIN prf : AddBacklink(idx, target)
           \/ Complete
           \/ \E seq \in Goals : NextSearch(seq)
  BY <1>1, <1>SearchSteps
<1>2. CASE \/ \E idx \in DOMAIN prf : \E p \in saved : AddSubprf(idx, p)
           \/ CopyLeaf \/ CopyInf \/ CopyEnds \/ FixBacklink \/ AddSubprfReturns
  BY <1>2, <1>SpliceSteps
<1>3. CASE UNCHANGED vars
  BY <1>3 DEF vars, splice, PInv, Splicing
<1> QED
  BY <1>1, <1>2, <1>3 DEF Next

\* Whatever rules a prover applies, and whatever proofs it splices, the
\* inductive invariant of the proof object holds.
THEOREM Invariance == Spec => []PInv
<1>1. Init => PInv
  BY InitPInv
<1>2. PInv /\ [Next]_vars => PInv'
  BY NextPInv
<1> QED
  BY <1>1, <1>2, PTL DEF Spec

-----------------------------------------------------------------------------
(* Theorems *)

\* Nodes always have the fields that the node types of proofnode.ml allow.
THEOREM TypeCorrect == Spec => []TypeOK
<1>1. PInv => TypeOK
  BY ZenonT(40) DEF PInv, TypeOK, GoodProof
<1> QED
  BY <1>1, Invariance, PTL

\* A proof is always a tree with back-links, with the indices that fresh_idx
\* expects, also while add_subprf is at work.
THEOREM AlwaysWellFormed == Spec => []ProofWellFormed
<1>1. PInv => ProofWellFormed
  BY DEF PInv, ProofWellFormed, GoodProof
<1> QED
  BY <1>1, Invariance, PTL

\* add_subprf never trips an assertion of a constructor, and the targets of all
\* back-links have been copied when it forms them.
THEOREM SpliceAlwaysSucceeds == Spec => []SpliceNeverFails
<1>1. PInv => SpliceNeverFails
  BY DEF PInv, SpliceNeverFails
<1> QED
  BY <1>1, Invariance, PTL

\* A well-formed proof whose tag pairs stay within the tags of its sequents is
\* what the soundness checker takes to be valid.
LEMMA GoodIsValid ==
  ASSUME NEW p, GoodProof(p)
  PROVE  valid(Abstract(p), 0)
<1> DEFINE ab == Abstract(p)
<1>1. DOMAIN ab = DOMAIN p /\ 0 \in DOMAIN p
  BY DEF Abstract, GoodProof, WellFormed, Rooted
<1>2. ASSUME NEW n \in DOMAIN p, NEW j \in children(ab, n)
      PROVE  valid_premise(ab, n, j)
  <2>1. /\ ab[n].tags = p[n].seq.tags
        /\ DOMAIN ab[n].subg = Range(p[n].succs)
        /\ ab[n].subg[j] = p[n].tps[CHOOSE k \in DOMAIN p[n].succs : p[n].succs[k] = j]
    BY <1>2 DEF Abstract, to_abstract_node, children
  <2>2. j \in Range(p[n].succs)
    BY <1>2, <2>1 DEF children
  <2>3. PICK k \in DOMAIN p[n].succs : p[n].succs[k] = j /\ ab[n].subg[j] = p[n].tps[k]
    BY <2>1, <2>2, ZenonT(40) DEF Range
  <2>4. j \in DOMAIN p
    BY <2>3, SuccsInDomain
  <2>5. PairsWithin(p[n].tps[k], p[n].seq, p[j].seq)
    BY <2>3 DEF GoodProof, TracesOK
  <2>6. ab[j].tags = p[j].seq.tags
    BY <2>4 DEF Abstract, to_abstract_node
  <2> DEFINE label == p[n].tps[k]
  <2>7. /\ label.tp \subseteq label.tv
        /\ label.tv \subseteq p[n].seq.tags \X p[j].seq.tags
    BY <2>5 DEF PairsWithin
  <2> HIDE DEF label, ab
  <2>8. /\ {x[1] : x \in label.tv} \subseteq p[n].seq.tags
        /\ {x[2] : x \in label.tv} \subseteq p[j].seq.tags
    BY <2>7
  <2> QED
    BY <1>1, <2>1, <2>3, <2>4, <2>6, <2>7, <2>8, SMTT(30) DEF valid_premise, label
<1> QED
  BY <1>1, <1>2 DEF valid

\* Soundcheck.check_proof never fails its validation of a proof that the
\* constructors built.
THEOREM AlwaysValidForChecker == Spec => []ValidForChecker
<1>1. PInv => ValidForChecker
  BY GoodIsValid DEF PInv, ValidForChecker
<1> QED
  BY <1>1, Invariance, PTL

\* add_subprf copies the spliced proof exactly, back-links included.
THEOREM SpliceAlwaysCopies == Spec => []SpliceIsCopy
<1>1. PInv => SpliceIsCopy
  <2> SUFFICES ASSUME PInv, pc = "fix", bls = << >>
               PROVE  /\ DOMAIN node_map = DOMAIN src
                      /\ \A i, j \in DOMAIN src : node_map[i] = node_map[j] => i = j
                      /\ \A i \in DOMAIN src :
                           /\ prf[node_map[i]].kind = src[i].kind
                           /\ prf[node_map[i]].seq = src[i].seq
                           /\ prf[node_map[i]].tps = src[i].tps
                           /\ prf[node_map[i]].succs
                                = [k \in DOMAIN src[i].succs |-> node_map[src[i].succs[k]]]
    BY DEF SpliceIsCopy
  <2>1. GoodProof(src) /\ SpliceOK(prf, src, node_map, Firsts(todo), Firsts(bls))
    BY DEF PInv, Splicing
  <2>2. Firsts(todo) = {} /\ Firsts(bls) = {}
    <3>1. todo = << >>
      BY DEF PInv
    <3>2. Firsts(<< >>) = {}
      BY SMT DEF Firsts
    <3> QED
      BY <3>1, <3>2
  <2>3. SpliceOK(prf, src, node_map, {}, {})
    BY <2>1, <2>2
  <2>4. DOMAIN node_map = DOMAIN src
    BY <2>1, <2>3, AllCopied
  <2>5. ASSUME NEW i \in DOMAIN src
        PROVE  /\ prf[node_map[i]].kind = src[i].kind
               /\ prf[node_map[i]].seq = src[i].seq
               /\ prf[node_map[i]].tps = src[i].tps
               /\ prf[node_map[i]].succs
                    = [k \in DOMAIN src[i].succs |-> node_map[src[i].succs[k]]]
    <3> DEFINE c == prf[node_map[i]]
    <3>1. CopyOf(prf, src, node_map, i) /\ c.seq = src[i].seq /\ node_map[i] \in DOMAIN prf
      BY <2>3, <2>4 DEF SpliceOK
    <3>2. c.succs \in Seq(Nat)
      BY <3>1 DEF PInv, GoodProof, NodesOK, NodeType
    <3>3. c.succs = [k \in DOMAIN c.succs |-> c.succs[k]]
      BY <3>2, SMTT(30)
    <3>4. /\ c.kind = src[i].kind /\ c.tps = src[i].tps
          /\ DOMAIN c.succs = DOMAIN src[i].succs
          /\ \A k \in DOMAIN src[i].succs : c.succs[k] = node_map[src[i].succs[k]]
      BY <3>1 DEF CopyOf
    <3>5. c.succs = [k \in DOMAIN src[i].succs |-> node_map[src[i].succs[k]]]
      BY <3>3, <3>4
    <3> QED
      BY <3>1, <3>4, <3>5
  <2>6. \A i, j \in DOMAIN src : node_map[i] = node_map[j] => i = j
    BY <2>3, <2>4 DEF SpliceOK
  <2> QED
    BY <2>4, <2>5, <2>6
<1> QED
  BY <1>1, Invariance, PTL

-----------------------------------------------------------------------------
(* What a step may do to the nodes that are there. *)

Persists(p, q) ==
  \A i \in DOMAIN p :
    /\ i \in DOMAIN q
    /\ q[i].seq = p[i].seq
    /\ q[i].par = p[i].par
    /\ ~is_open(p[i]) => q[i] = p[i]

\* The nodes on top of the stacks of add_subprf are open, so that the
\* constructors it calls change nothing that is closed.
LEMMA NextPersists ==
  ASSUME PInv, Next, pc # "between"
  PROVE  Persists(prf, prf')
\* A constructor changes the open node it is given, and adds nodes.
<1>ConstructorsPersist.
    ASSUME NEW p, Rooted(p), NEW idx, ensure_add(p, idx)
    PROVE  /\ Persists(p, p)
           /\ Persists(p, add_axiom(p, idx))
           /\ \A target, vtts : Persists(p, add_backlink(p, idx, target, vtts))
           /\ \A subgoals : Persists(p, add_inf(p, idx, subgoals))
  <2> USE <1>ConstructorsPersist
  <2>1. idx \in DOMAIN p /\ is_open(p[idx])
    BY DEF ensure_add
  <2>2. Persists(p, p)
    BY DEF Persists
  <2>3. Persists(p, add_axiom(p, idx))
    BY <2>1 DEF Persists, add_axiom, Node
  <2>4. ASSUME NEW target, NEW vtts
        PROVE  Persists(p, add_backlink(p, idx, target, vtts))
    BY <2>1 DEF Persists, add_backlink, Node
  <2>5. ASSUME NEW subgoals
        PROVE  Persists(p, add_inf(p, idx, subgoals))
    <3> DEFINE q == add_inf(p, idx, subgoals)
    <3>1. \A i \in DOMAIN p : i < fresh_idx(p)
      BY RootedFresh, SMTT(30)
    <3>2. /\ DOMAIN p \subseteq DOMAIN q
          /\ \A i \in DOMAIN p \ {idx} : q[i] = p[i]
          /\ q[idx] = Node(p[idx].par, "inf", p[idx].seq, fresh_idxs(p, subgoals),
                           [k \in DOMAIN subgoals |-> subgoals[k].label])
      BY <2>1, <3>1 DEF add_inf
    <3>3. q[idx].seq = p[idx].seq /\ q[idx].par = p[idx].par
      <4> DEFINE succs == fresh_idxs(p, subgoals)
                 tps == [k \in DOMAIN subgoals |-> subgoals[k].label]
      <4>1. q[idx] = Node(p[idx].par, "inf", p[idx].seq, succs, tps)
        BY <3>2
      <4> HIDE DEF q, succs, tps
      <4> QED
        BY <4>1, NodeFields, SMTT(30)
    <3> HIDE DEF q
    <3>4. Persists(p, q)
      BY <2>1, <3>2, <3>3 DEF Persists
    <3> QED
      BY <3>4 DEF q
  <2> QED
    BY <2>2, <2>3, <2>4, <2>5

<1>1. GoodProof(prf) /\ Rooted(prf)
  BY DEF PInv, GoodProof, WellFormed
<1>2. CASE prf' = prf
  BY <1>2 DEF Persists
<1>3. ASSUME NEW idx \in DOMAIN prf,
             \/ AddAxiom(idx)
             \/ AddInf(idx)
             \/ \E target \in DOMAIN prf : AddBacklink(idx, target)
      PROVE  Persists(prf, prf')
  <2>1. ensure_add(prf, idx)
    BY <1>3, ZenonT(40) DEF AddAxiom, AddInf, AddBacklink
  <2> QED
    BY <1>1, <1>3, <2>1, <1>ConstructorsPersist, ZenonT(40) DEF AddAxiom, AddInf, AddBacklink
<1>4. CASE CopyLeaf \/ CopyInf
  <2> DEFINE a == Head(todo)[1]
  <2>1. Splicing /\ todo # << >>
    BY <1>4, ZenonT(40) DEF PInv, CopyLeaf, CopyInf
  <2>2. ensure_add(prf, Head(todo)[2])
    <3>1. a \in Firsts(todo) /\ a \in DOMAIN node_map /\ Head(todo)[2] = node_map[a]
      BY <2>1, StackTail, ZenonT(40) DEF Splicing
    <3> QED
      BY <2>1, <3>1 DEF Splicing, SpliceOK, ensure_add
  <2> HIDE DEF a
  <2>3. \/ prf' = prf
        \/ prf' = add_axiom(prf, Head(todo)[2])
        \/ \E subgoals : prf' = add_inf(prf, Head(todo)[2], subgoals)
    BY <1>4, ZenonT(40) DEF CopyLeaf, CopyInf
  <2> QED
    BY <1>1, <2>2, <2>3, <1>ConstructorsPersist
<1>5. CASE FixBacklink
  <2>1. \/ prf' = prf
        \/ /\ ensure_add(prf, Head(bls)[2])
           /\ \E target, vtts : prf' = add_backlink(prf, Head(bls)[2], target, vtts)
    BY <1>5 DEF FixBacklink
  <2> QED
    BY <1>1, <1>2, <2>1, <1>ConstructorsPersist
<1>6. CASE \/ \E idx \in DOMAIN prf : \E p \in saved : AddSubprf(idx, p)
           \/ Complete \/ CopyEnds \/ AddSubprfReturns
  BY <1>2, <1>6 DEF AddSubprf, Complete, CopyEnds, AddSubprfReturns
<1>7. CASE \E seq \in Goals : NextSearch(seq)
  BY <1>7 DEF NextSearch
<1> QED
  BY <1>3, <1>4, <1>5, <1>6, <1>7 DEF Next

\* Within one search nodes keep their indices, sequents and parents, and nothing
\* reopens or changes a closed node.
THEOREM NodesAlwaysPersist == Spec => NodesPersist
<1>1. PInv /\ [Next]_vars
        => [pc # "between" =>
              \A i \in DOMAIN prf :
                /\ i \in DOMAIN prf'
                /\ prf'[i].seq = prf[i].seq
                /\ prf'[i].par = prf[i].par
                /\ ~is_open(prf[i]) => prf'[i] = prf[i]]_vars
  BY NextPersists DEF Persists
<1>2. Spec => [][Next]_vars
  BY PTL DEF Spec
<1> QED
  BY <1>1, <1>2, Invariance, PTL DEF NodesPersist

-----------------------------------------------------------------------------
(* The stack of extraction holds pairs of an index in src and the index of  *)
(* the open node of prf that is to be closed like it.  No two pairs wait    *)
(* for the same open node.                                                  *)

Slots(s) == {s[k] : k \in DOMAIN s}

Queue(s) ==
  /\ s \in Seq(Nat \X Nat)
  /\ \A k, l \in DOMAIN s : s[k][2] = s[l][2] => k = l

LEMMA QueueTail ==
  ASSUME NEW s, Queue(s), s # << >>
  PROVE  /\ Head(s) \in Slots(s)
         /\ Queue(Tail(s))
         /\ Slots(Tail(s)) = {e \in Slots(s) : e[2] # Head(s)[2]}
<1>1. /\ s \in Seq(Nat \X Nat)
      /\ \A k, l \in DOMAIN s : s[k][2] = s[l][2] => k = l
  BY DEF Queue
<1>2. Len(s) \in Nat \ {0} /\ DOMAIN s = 1 .. Len(s) /\ Head(s) = s[1]
  BY <1>1, SMT
<1>3. /\ Tail(s) \in Seq(Nat \X Nat)
      /\ DOMAIN Tail(s) = 1 .. Len(s) - 1
      /\ \A k \in 1 .. Len(s) - 1 : Tail(s)[k] = s[k + 1]
  BY <1>1, <1>2, SMT
<1>4. Queue(Tail(s))
  <2>1. \A k \in DOMAIN Tail(s) : k + 1 \in DOMAIN s /\ Tail(s)[k] = s[k + 1]
    BY <1>2, <1>3, SMTT(20)
  <2>2. \A k, l \in DOMAIN Tail(s) : k + 1 = l + 1 => k = l
    BY <1>2, <1>3, SMT
  <2> QED
    BY <1>1, <1>3, <2>1, <2>2, SMTT(20) DEF Queue
<1>5. ASSUME NEW e \in Slots(Tail(s)) PROVE e \in Slots(s) /\ e[2] # Head(s)[2]
  <2>1. PICK k \in DOMAIN Tail(s) : e = Tail(s)[k]
    BY DEF Slots
  <2>2. k \in 1 .. Len(s) - 1 /\ e = s[k + 1]
    BY <1>3, <2>1
  <2>3. k + 1 \in DOMAIN s /\ 1 \in DOMAIN s /\ k + 1 # 1
    BY <1>2, <2>2, SMT
  <2> QED
    BY <1>1, <1>2, <2>2, <2>3, ZenonT(40) DEF Slots
<1>6. ASSUME NEW e \in Slots(s), e[2] # Head(s)[2] PROVE e \in Slots(Tail(s))
  <2>1. PICK k \in DOMAIN s : e = s[k]
    BY DEF Slots
  <2>2. k # 1
    BY <1>2, <1>6, <2>1
  <2>3. k - 1 \in 1 .. Len(s) - 1 /\ (k - 1) + 1 = k
    BY <1>2, <2>2, SMT
  <2>4. Tail(s)[k - 1] = e /\ k - 1 \in DOMAIN Tail(s)
    BY <1>3, <2>1, <2>3
  <2> QED
    BY <2>4 DEF Slots
<1> QED
  BY <1>2, <1>4, <1>5, <1>6, SMT DEF Slots

-----------------------------------------------------------------------------
(* Back-links between equal sequents, along which every tag traces itself. *)

Strict(p) ==
  \A i \in DOMAIN p : is_backlink(p[i]) =>
    /\ p[i].seq = p[p[i].succs[1]].seq
    /\ p[i].tps[1] = [tv |-> IdentityPairs(p[i].seq.tags), tp |-> {}]

\* q has the nodes of p with their sequents, and every bud of q is a bud of p or
\* is strict.
LEMMA StrictKept ==
  ASSUME NEW p, GoodProof(p), Strict(p), NEW q,
         \A i \in DOMAIN p : i \in DOMAIN q /\ q[i].seq = p[i].seq,
         \A i \in DOMAIN q : is_backlink(q[i]) =>
           \/ i \in DOMAIN p /\ q[i] = p[i]
           \/ /\ q[i].seq = q[q[i].succs[1]].seq
              /\ q[i].tps[1] = [tv |-> IdentityPairs(q[i].seq.tags), tp |-> {}]
  PROVE  Strict(q)
<1> SUFFICES ASSUME NEW i \in DOMAIN q, is_backlink(q[i]), i \in DOMAIN p, q[i] = p[i]
             PROVE  /\ q[i].seq = q[q[i].succs[1]].seq
                    /\ q[i].tps[1] = [tv |-> IdentityPairs(q[i].seq.tags), tp |-> {}]
  BY DEF Strict
<1>1. p[i].succs[1] \in DOMAIN p
  BY DEF GoodProof, WellFormed, BacklinksOK
<1> QED
  BY <1>1, SMT DEF Strict

LEMMA AddBacklinkStrict ==
  ASSUME NEW p, GoodProof(p), Strict(p), NEW idx, ensure_add(p, idx),
         NEW target \in DOMAIN p, p[idx].seq = p[target].seq,
         NEW vtts, vtts = IdentityPairs(p[idx].seq.tags)
  PROVE  Strict(add_backlink(p, idx, target, vtts))
<1> DEFINE q == add_backlink(p, idx, target, vtts)
           n == Node(p[idx].par, "back", p[idx].seq, <<target>>, <<[tv |-> vtts, tp |-> {}]>>)
<1>1. idx \in DOMAIN p
  BY DEF ensure_add
<1>2. q[idx] = n /\ DOMAIN q = DOMAIN p /\ \A i \in DOMAIN p \ {idx} : q[i] = p[i]
  BY <1>1 DEF add_backlink
<1>3. /\ n.seq = p[idx].seq /\ n.succs[1] = target
      /\ n.tps[1] = [tv |-> IdentityPairs(p[idx].seq.tags), tp |-> {}]
  BY DEF Node
<1> HIDE DEF q, n
<1>4. \A i \in DOMAIN p : i \in DOMAIN q /\ q[i].seq = p[i].seq
  BY <1>2, <1>3
<1>5. /\ q[idx].seq = q[q[idx].succs[1]].seq
      /\ q[idx].tps[1] = [tv |-> IdentityPairs(q[idx].seq.tags), tp |-> {}]
  BY <1>2, <1>3, <1>4
<1>6. ASSUME NEW i \in DOMAIN q
      PROVE  \/ i \in DOMAIN p /\ q[i] = p[i]
             \/ /\ q[i].seq = q[q[i].succs[1]].seq
                /\ q[i].tps[1] = [tv |-> IdentityPairs(q[i].seq.tags), tp |-> {}]
  <2>1. i = idx \/ i \in DOMAIN p \ {idx}
    BY <1>2
  <2> QED
    BY <1>2, <1>5, <2>1
<1>7. Strict(q)
  BY <1>4, <1>6, StrictKept
<1> QED
  BY <1>7 DEF q

-----------------------------------------------------------------------------
(* The rearrangement that extraction makes.  While it rearranges s into p,  *)
(* map tells where the nodes of s are, and Q is the set of pairs that wait. *)

ExtractOK(p, s, map, Q) ==
  /\ \A e \in Q :
       /\ e[1] \in DOMAIN s
       /\ e[2] \in DOMAIN p
       /\ is_open(p[e[2]])
       /\ p[e[2]].seq = s[e[1]].seq
  /\ \A i \in DOMAIN p : is_open(p[i]) => \E e \in Q : e[2] = i
  /\ DOMAIN map \subseteq DOMAIN s
  /\ \A i \in DOMAIN map : map[i] \in DOMAIN p /\ p[map[i]].seq = s[i].seq
  /\ \A i, j \in DOMAIN map :
       map[i] = map[j] => i = j \/ is_backlink(s[i]) \/ is_backlink(s[j])
  /\ \A e \in Q, i \in DOMAIN map : map[i] = e[2] => is_backlink(s[i])

\* The pairs of Q that do not wait for the node of e.
Others(Q, e) == {d \in Q : d[2] # e[2]}

\* map2 is map with one more node.
Adds(map, from, to, map2) ==
  /\ from \notin DOMAIN map
  /\ DOMAIN map2 = DOMAIN map \cup {from}
  /\ map2[from] = to
  /\ \A i \in DOMAIN map : map2[i] = map[i]

\* An inference is copied, and its premises wait for the fresh nodes.
Visit(s, a, new) == [k \in DOMAIN s[a].succs |-> <<s[a].succs[k], new[k]>>]

LEMMA CopyInference ==
  ASSUME NEW p, GoodProof(p), NEW s, GoodProof(s), NEW map, NEW Q,
         ExtractOK(p, s, map, Q), NEW e \in Q, is_inf(s[e[1]]),
         NEW map2, Adds(map, e[1], e[2], map2)
  PROVE  LET subgoals == Premises(s, e[1])
             q == add_inf(p, e[2], subgoals)
             visit == Visit(s, e[1], fresh_idxs(p, subgoals))
         IN  /\ ensure_add(p, e[2])
             /\ subgoals \in Seq(Subgoal)
             /\ GoodProof(q)
             /\ Queue(visit)
             /\ \A d \in Slots(visit) : d[2] \notin DOMAIN p
             /\ ExtractOK(q, s, map2, Slots(visit) \cup Others(Q, e))
<1> DEFINE a == e[1]
           to == e[2]
           subgoals == Premises(s, a)
           q == add_inf(p, to, subgoals)
           new == fresh_idxs(p, subgoals)
           visit == Visit(s, a, new)
           next == fresh_idx(p)
           len == Len(subgoals)
           V == Slots(visit)
           Q2 == V \cup Others(Q, e)
<1>1. /\ a \in DOMAIN s /\ to \in DOMAIN p /\ is_open(p[to]) /\ p[to].seq = s[a].seq
      /\ ensure_add(p, to)
  BY ZenonT(60) DEF ExtractOK, ensure_add
<1>2. /\ subgoals \in Seq(Subgoal)
      /\ DOMAIN subgoals = DOMAIN s[a].succs
      /\ \A k \in DOMAIN s[a].succs :
           /\ subgoals[k].seq = s[s[a].succs[k]].seq
           /\ PairsWithin(subgoals[k].label, s[a].seq, subgoals[k].seq)
  BY <1>1, PremisesAreSubgoals, SMTT(30)
<1>3. Extended(p, q, to, subgoals) /\ GoodProof(q)
  BY <1>1, <1>2, AddInfExtends, AddInfGood, ZenonT(60)
<1>4. next \in Nat \ {0} /\ DOMAIN p = 0 .. next - 1 /\ len \in Nat /\ DOMAIN subgoals = 1 .. len
  BY <1>2, RootedFresh, SMTT(30) DEF GoodProof, WellFormed
<1>5. \A k \in DOMAIN subgoals : s[a].succs[k] \in DOMAIN s /\ s[a].succs[k] \in Nat
  <2>1. \A k \in DOMAIN s[a].succs : s[a].succs[k] \in DOMAIN s
    BY <1>1, SuccsInDomain
  <2>2. \A i \in DOMAIN s : i \in Nat
    BY RootedFresh, SMT DEF GoodProof, WellFormed
  <2> QED
    BY <1>2, <2>1, <2>2
<1>6. \A k \in DOMAIN subgoals : new[k] = next + k - 1
  BY DEF fresh_idxs
<1>7. /\ DOMAIN visit = DOMAIN subgoals
      /\ \A k \in DOMAIN subgoals :
           visit[k] = <<s[a].succs[k], new[k]>> /\ visit[k][1] = s[a].succs[k] /\ visit[k][2] = new[k]
  BY <1>2 DEF Visit
<1> HIDE DEF a, to, subgoals, q, new, visit, next, len, V, Q2
<1>8. \A k \in 1 .. len : new[k] \in Nat /\ new[k] \notin DOMAIN p /\ next + k - 1 \in 0 .. next + len - 1
  BY <1>4, <1>6, SMTT(30)
<1>9. Queue(visit)
  <2>1. ASSUME NEW k \in 1 .. len PROVE visit[k] \in Nat \X Nat
    <3>1. s[a].succs[k] \in Nat /\ new[k] \in Nat /\ visit[k] = <<s[a].succs[k], new[k]>>
      BY <1>4, <1>5, <1>7, <1>8, ZenonT(40)
    <3> QED
      BY <3>1, SMT
  <2>2. visit = [k \in 1 .. len |-> visit[k]]
    BY <1>4, <1>7 DEF visit, Visit
  <2>3. visit \in Seq(Nat \X Nat)
    BY <1>4, <2>1, <2>2, SMTT(30)
  <2>4. \A k, l \in 1 .. len : new[k] = new[l] => k = l
    BY <1>4, <1>6, SMTT(30)
  <2> QED
    BY <1>4, <1>7, <2>3, <2>4, SMTT(30) DEF Queue
<1>10. /\ DOMAIN q = 0 .. next + len - 1
       /\ \A i \in DOMAIN p \ {to} : q[i] = p[i]
       /\ q[to] = Node(p[to].par, "inf", p[to].seq, new,
                       [k \in DOMAIN subgoals |-> subgoals[k].label])
       /\ \A k \in DOMAIN subgoals : q[next + k - 1] = mk_open(to, subgoals[k].seq)
  BY <1>3 DEF Extended, new, next, len
<1>11. q[to].seq = p[to].seq /\ ~is_open(q[to])
  BY <1>10, SMTT(30) DEF Node, is_open
<1>12. \A i \in DOMAIN p : i \in DOMAIN q /\ q[i].seq = p[i].seq
  BY <1>4, <1>10, <1>11, SMTT(30)
<1>13. \A k \in DOMAIN subgoals :
         new[k] \in DOMAIN q /\ is_open(q[new[k]]) /\ q[new[k]].seq = s[s[a].succs[k]].seq
  <2> TAKE k \in DOMAIN subgoals
  <2>1. q[new[k]] = mk_open(to, subgoals[k].seq)
    BY <1>6, <1>10
  <2>2. new[k] \in DOMAIN q
    <3>1. k \in 1 .. len
      BY <1>4
    <3> QED
      BY <1>6, <1>8, <1>10, <3>1
  <2> QED
    BY <1>2, <2>1, <2>2, SMTT(30) DEF mk_open, Node, is_open
<1>14. /\ \A d \in V : \E k \in DOMAIN subgoals : d = visit[k]
       /\ \A k \in DOMAIN subgoals : visit[k] \in V
  BY <1>7 DEF V, Slots
<1>15. \A d \in V : d[2] \notin DOMAIN p
  BY <1>4, <1>7, <1>8, <1>14, SMTT(30)
<1>16. /\ \A d \in Q2 : d \in V \/ (d \in Q /\ d[2] # to)
       /\ \A d \in Q : d[2] = to \/ d \in Q2
       /\ V \subseteq Q2
  BY DEF Q2, Others, to
<1>17. \A d \in Q2 :
         /\ d[1] \in DOMAIN s /\ d[2] \in DOMAIN q
         /\ is_open(q[d[2]]) /\ q[d[2]].seq = s[d[1]].seq
  <2> TAKE d \in Q2
  <2>1. CASE d \in V
    BY <1>5, <1>7, <1>13, <1>14, <2>1, SMTT(60)
  <2>2. CASE d \in Q /\ d[2] # to
    BY <1>10, <1>12, <2>2 DEF ExtractOK
  <2> QED
    BY <1>16, <2>1, <2>2
<1>18. ASSUME NEW i \in DOMAIN q, is_open(q[i]) PROVE \E d \in Q2 : d[2] = i
  <2>1. CASE i \in DOMAIN p
    BY <1>10, <1>11, <1>16, <1>18, <2>1 DEF ExtractOK
  <2>2. CASE i \notin DOMAIN p
    <3>1. i - next + 1 \in DOMAIN subgoals /\ next + (i - next + 1) - 1 = i
      BY <1>4, <1>10, <2>2, SMTT(30)
    <3>2. new[i - next + 1] = i
      BY <1>6, <3>1
    <3> QED
      BY <1>7, <1>14, <1>16, <3>1, <3>2, SMTT(30)
  <2> QED
    BY <2>1, <2>2
<1>19. \A i \in DOMAIN map2 : map2[i] \in DOMAIN p /\ p[map2[i]].seq = s[i].seq
  BY SMT DEF ExtractOK, Adds
<1>20. \A i \in DOMAIN map2 : map2[i] \in DOMAIN q /\ q[map2[i]].seq = s[i].seq
  BY <1>12, <1>19
<1>21. \A i, j \in DOMAIN map2 :
         map2[i] = map2[j] => i = j \/ is_backlink(s[i]) \/ is_backlink(s[j])
  BY SMTT(30) DEF ExtractOK, Adds
<1>22. \A d \in Q2, i \in DOMAIN map2 : map2[i] = d[2] => is_backlink(s[i])
  BY <1>15, <1>16, <1>19, SMT DEF ExtractOK, Adds, to
<1>23. DOMAIN map2 \subseteq DOMAIN s
  BY DEF ExtractOK, Adds
<1>24. ExtractOK(q, s, map2, Q2)
  BY <1>17, <1>18, <1>20, <1>21, <1>22, <1>23 DEF ExtractOK
<1> QED
  BY <1>1, <1>2, <1>3, <1>9, <1>15, <1>24 DEF a, to, subgoals, q, new, visit, V, Q2

-----------------------------------------------------------------------------
(* The inductive invariant *)

Extracting ==
  /\ GoodProof(prf)
  /\ \A p \in saved : GoodProof(p)
  /\ failed = FALSE
  /\ src \in saved
  /\ Queue(todo)
  /\ ExtractOK(prf, src, node_map, Slots(todo))

AllStrict == \A p \in saved \cup {prf} : Strict(p)

XInv ==
  /\ pc # "extract" => PInv
  /\ pc = "extract" => Extracting
  /\ SavedClosed
  /\ AllStrict

LEMMA AllStrictIs ==
  AllStrict <=> Strict(prf) /\ \A p \in saved : Strict(p)
BY DEF AllStrict

\* The invariant holds at the start of the first search.
LEMMA InitXInv == Init => XInv
<1> SUFFICES ASSUME Init PROVE XInv
  OBVIOUS
<1>1. PICK seq \in Goals : prf = mk(seq)
  BY DEF Init
<1>2. DOMAIN prf = {0} /\ is_open(prf[0])
  BY <1>1, MkGood, SequentsAssumption DEF mk
<1>3. Strict(prf)
  BY <1>2 DEF Strict, is_open, is_backlink
<1>4. saved = {} /\ pc = "search"
  BY DEF Init
<1>5. SavedClosed /\ AllStrict
  BY <1>3, <1>4, AllStrictIs DEF SavedClosed
<1> QED
  BY <1>4, <1>5, InitPInv DEF XInv

\* No search runs during extraction.
LEMMA SearchPc ==
  ASSUME Next
  PROVE  pc # "extract" /\ pc' # "extract"
BY ZenonT(40)
   DEF Next, AddAxiom, AddInf, AddBacklink, AddSubprf, Complete, NextSearch, CopyLeaf,
       CopyInf, CopyEnds, FixBacklink, AddSubprfReturns, splice

\* What is known of the pair that extraction visits next.
LEMMA NextPair ==
  ASSUME XInv, pc = "extract", todo # << >>
  PROVE  /\ GoodProof(prf) /\ Strict(prf) /\ failed = FALSE
         /\ GoodProof(src) /\ Strict(src) /\ is_closed(src)
         /\ ExtractOK(prf, src, node_map, Slots(todo))
         /\ Head(todo) \in Slots(todo)
         /\ Queue(Tail(todo))
         /\ Slots(Tail(todo)) = Others(Slots(todo), Head(todo))
         /\ Head(todo)[1] \in DOMAIN src
         /\ Head(todo)[2] \in Nat
         /\ ensure_add(prf, Head(todo)[2])
         /\ prf[Head(todo)[2]].seq = src[Head(todo)[1]].seq
<1>1. Extracting /\ SavedClosed /\ Strict(prf) /\ \A p \in saved : Strict(p)
  BY AllStrictIs DEF XInv
<1>2. GoodProof(src) /\ Strict(src) /\ is_closed(src)
  BY <1>1 DEF Extracting, SavedClosed
<1>3. /\ Head(todo) \in Slots(todo)
      /\ Queue(Tail(todo))
      /\ Slots(Tail(todo)) = Others(Slots(todo), Head(todo))
  BY <1>1, QueueTail DEF Extracting, Others
<1> DEFINE e == Head(todo)
<1>4. e \in Slots(todo) /\ ExtractOK(prf, src, node_map, Slots(todo))
  BY <1>1, <1>3 DEF Extracting
<1> HIDE DEF e
<1>5. /\ e[1] \in DOMAIN src /\ ensure_add(prf, e[2]) /\ e[2] \in DOMAIN prf
      /\ prf[e[2]].seq = src[e[1]].seq
  BY <1>4 DEF ExtractOK, ensure_add
<1>6. e[2] \in Nat
  BY <1>1, <1>5, RootedFresh, SMTT(30) DEF Extracting, GoodProof, WellFormed
<1> QED
  BY <1>1, <1>2, <1>3, <1>4, <1>5, <1>6 DEF e, Extracting

\* The back-links that extraction forms pass the assertions of add_backlink.
LEMMA LinkSucceeds ==
  ASSUME GoodProof(prf), Strict(prf), NEW to, ensure_add(prf, to),
         NEW target \in DOMAIN prf, prf[to].seq = prf[target].seq,
         NEW vtts, vtts = IdentityPairs(prf[to].seq.tags),
         LinkResult(to, target, vtts)
  PROVE  /\ failed' = failed
         /\ prf'[to].succs = <<target>>
         /\ prf'[to].tps = <<[tv |-> IdentityPairs(prf[to].seq.tags), tp |-> {}]>>
         /\ GoodProof(prf')
         /\ Strict(prf')
         /\ Closed(prf, prf', to)
         /\ ~is_open(prf'[to])
<1>1. ensure_target(prf, to, target)
  BY DEF ensure_target, equal_upto_tags
<1>2. prf' = add_backlink(prf, to, target, vtts) /\ failed' = failed
  BY <1>1 DEF LinkResult
<1>0. vtts \in SUBSET TagPair /\ vtts \subseteq prf[to].seq.tags \X prf[target].seq.tags
  <2>1. prf[to].seq \in Sequents
    BY DEF GoodProof, NodesOK, NodeType, ensure_add
  <2>2. prf[to].seq.tags \subseteq Int
    BY <2>1, TagsAssumption, ZenonT(60)
  <2> QED
    BY <2>2, SMTT(30) DEF IdentityPairs, TagPair
<1>3. /\ GoodProof(prf')
      /\ Closed(prf, prf', to)
      /\ prf'[to] = Node(prf[to].par, "back", prf[to].seq, <<target>>, <<[tv |-> vtts, tp |-> {}]>>)
  BY <1>0, <1>1, <1>2, AddBacklinkGood, SMTT(30)
<1>4. /\ ~is_open(prf'[to]) /\ prf'[to].succs = <<target>>
      /\ prf'[to].tps = <<[tv |-> IdentityPairs(prf[to].seq.tags), tp |-> {}]>>
  <2> DEFINE n == Node(prf[to].par, "back", prf[to].seq, <<target>>, <<[tv |-> vtts, tp |-> {}]>>)
  <2>1. n.kind = "back" /\ n.succs = <<target>> /\ n.tps = <<[tv |-> vtts, tp |-> {}]>>
    BY DEF Node
  <2> HIDE DEF n
  <2>2. prf'[to] = n
    BY <1>3 DEF n
  <2>3. ~is_open(n)
    BY <2>1 DEF is_open
  <2> QED
    BY <2>1, <2>2, <2>3
<1>5. Strict(prf')
  BY <1>2, AddBacklinkStrict
<1> QED
  BY <1>2, <1>3, <1>4, <1>5

\* Recording where a node went.
LEMMA MappedAdds ==
  ASSUME NEW from, NEW to, from \notin DOMAIN node_map
  PROVE  Adds(node_map, from, to, Mapped(from, to))
BY DEF Adds, Mapped

\* Every step preserves the invariant.
LEMMA NextXInv == XInv /\ [PNext]_vars => XInv'
<1>QueueConcat.
    ASSUME NEW s, NEW t, Queue(s), Queue(t),
           \A d \in Slots(s), e \in Slots(t) : d[2] # e[2]
    PROVE  Queue(s \o t) /\ Slots(s \o t) = Slots(s) \cup Slots(t)
  <2> USE <1>QueueConcat
  <2>1. s \in Seq(Nat \X Nat) /\ t \in Seq(Nat \X Nat)
    BY DEF Queue
  <2>2. /\ Len(s) \in Nat /\ Len(t) \in Nat
        /\ DOMAIN s = 1 .. Len(s) /\ DOMAIN t = 1 .. Len(t)
        /\ s \o t \in Seq(Nat \X Nat)
        /\ DOMAIN (s \o t) = 1 .. Len(s) + Len(t)
        /\ \A k \in 1 .. Len(s) + Len(t) :
             (s \o t)[k] = IF k <= Len(s) THEN s[k] ELSE t[k - Len(s)]
    BY <2>1, SMTT(30)
  <2> DEFINE u == s \o t
  <2> HIDE DEF u
  <2>3. \A k \in 1 .. Len(s) + Len(t) :
          \/ k \in DOMAIN s /\ u[k] = s[k]
          \/ k > Len(s) /\ k - Len(s) \in DOMAIN t /\ u[k] = t[k - Len(s)]
    BY <2>2, SMT DEF u
  <2>4. \A k \in DOMAIN s : k \in 1 .. Len(s) + Len(t) /\ u[k] = s[k]
    BY <2>2, SMT DEF u
  <2>5. \A k \in DOMAIN t : k + Len(s) \in 1 .. Len(s) + Len(t) /\ u[k + Len(s)] = t[k]
    BY <2>2, SMTT(60) DEF u
  <2>6. u \in Seq(Nat \X Nat) /\ DOMAIN u = 1 .. Len(s) + Len(t)
    BY <2>2 DEF u
  <2>7. Slots(u) = Slots(s) \cup Slots(t)
    <3>1. ASSUME NEW x \in Slots(u) PROVE x \in Slots(s) \cup Slots(t)
      <4>1. PICK k \in 1 .. Len(s) + Len(t) : x = u[k]
        BY <2>6 DEF Slots
      <4>2. CASE k \in DOMAIN s /\ u[k] = s[k]
        BY <4>1, <4>2 DEF Slots
      <4>3. CASE k - Len(s) \in DOMAIN t /\ u[k] = t[k - Len(s)]
        BY <4>1, <4>3 DEF Slots
      <4> QED
        BY <2>3, <4>2, <4>3
    <3>2. ASSUME NEW x \in Slots(s) \cup Slots(t) PROVE x \in Slots(u)
      BY <2>4, <2>5, <2>6, SMTT(20) DEF Slots
    <3> QED
      BY <3>1, <3>2
  <2>8. ASSUME NEW k \in DOMAIN u, NEW l \in DOMAIN u, u[k][2] = u[l][2]
        PROVE  k = l
    <3>1. \A i \in DOMAIN s, j \in DOMAIN t : s[i][2] # t[j][2]
      BY DEF Slots
    <3>2. CASE k \in DOMAIN s /\ l \in DOMAIN s
      BY <2>4, <2>8, <3>2 DEF Queue
    <3>3. CASE k \in DOMAIN s /\ l \notin DOMAIN s
      <4>1. l - Len(s) \in DOMAIN t /\ u[l] = t[l - Len(s)] /\ u[k] = s[k]
        BY <2>3, <2>4, <2>6, <3>3, ZenonT(40)
      <4> QED
        BY <2>8, <3>1, <3>3, <4>1
    <3>4. CASE k \notin DOMAIN s /\ l \in DOMAIN s
      <4>1. k - Len(s) \in DOMAIN t /\ u[k] = t[k - Len(s)] /\ u[l] = s[l]
        BY <2>3, <2>4, <2>6, <3>4, ZenonT(40)
      <4> QED
        BY <2>8, <3>1, <3>4, <4>1
    <3>5. CASE k \notin DOMAIN s /\ l \notin DOMAIN s
      <4>1. /\ k - Len(s) \in DOMAIN t /\ u[k] = t[k - Len(s)]
            /\ l - Len(s) \in DOMAIN t /\ u[l] = t[l - Len(s)]
        BY <2>2, <2>3, <2>6, <3>5, ZenonT(40)
      <4>2. k - Len(s) = l - Len(s)
        BY <2>8, <4>1 DEF Queue
      <4> QED
        BY <2>2, <2>6, <4>2, SMTT(30)
    <3> QED
      BY <3>2, <3>3, <3>4, <3>5
  <2> QED
    <3>1. Queue(u)
      BY <2>6, <2>8 DEF Queue
    <3> QED
      BY <2>7, <3>1 DEF u

\* add_axiom and add_inf form no back-link.
<1>AddAxiomStrict.
    ASSUME NEW p, GoodProof(p), Strict(p), NEW idx, ensure_add(p, idx)
    PROVE  Strict(add_axiom(p, idx))
  <2> USE <1>AddAxiomStrict
  <2> DEFINE q == add_axiom(p, idx)
  <2>1. Closed(p, q, idx) /\ q[idx] = Node(p[idx].par, "axiom", p[idx].seq, << >>, << >>)
    BY AddAxiomGood
  <2>2. ~is_backlink(q[idx]) /\ idx \in DOMAIN p
    BY <2>1, SMT DEF is_backlink, Node, ensure_add
  <2> HIDE DEF q
  <2>3. \A i \in DOMAIN p : i \in DOMAIN q /\ q[i].seq = p[i].seq
    BY <2>1 DEF Closed
  <2>4. \A i \in DOMAIN q : is_backlink(q[i]) => i \in DOMAIN p /\ q[i] = p[i]
    BY <2>1, <2>2 DEF Closed
  <2>5. Strict(q)
    BY <2>3, <2>4, StrictKept
  <2> QED
    BY <2>5 DEF q

<1>AddInfStrict.
    ASSUME NEW p, GoodProof(p), Strict(p), NEW idx, ensure_add(p, idx),
           NEW subgoals \in Seq(Subgoal)
    PROVE  Strict(add_inf(p, idx, subgoals))
  <2> USE <1>AddInfStrict
  <2> DEFINE q == add_inf(p, idx, subgoals)
             next == fresh_idx(p)
             len == Len(subgoals)
  <2>1. idx \in DOMAIN p
    BY DEF ensure_add
  <2>2. Extended(p, q, idx, subgoals)
    BY <2>1, AddInfExtends
  <2>3. next \in Nat \ {0} /\ DOMAIN p = 0 .. next - 1 /\ len \in Nat /\ DOMAIN subgoals = 1 .. len
    BY RootedFresh, SMT DEF GoodProof, WellFormed
  <2> HIDE DEF q, next, len
  <2>4. /\ DOMAIN q = 0 .. next + len - 1
        /\ \A i \in DOMAIN p \ {idx} : q[i] = p[i]
        /\ q[idx] = Node(p[idx].par, "inf", p[idx].seq, fresh_idxs(p, subgoals),
                         [k \in DOMAIN subgoals |-> subgoals[k].label])
        /\ \A k \in DOMAIN subgoals : q[next + k - 1] = mk_open(idx, subgoals[k].seq)
    BY <2>2 DEF Extended, next, len
  <2>5. q[idx].seq = p[idx].seq /\ ~is_backlink(q[idx])
    BY <2>4, SMTT(30) DEF Node, is_backlink
  <2>6. \A i \in DOMAIN p : i \in DOMAIN q /\ q[i].seq = p[i].seq
    BY <2>3, <2>4, <2>5, SMTT(30)
  <2>7. ASSUME NEW i \in DOMAIN q, i \notin DOMAIN p PROVE ~is_backlink(q[i])
    <3>1. i - next + 1 \in DOMAIN subgoals /\ next + (i - next + 1) - 1 = i
      BY <2>3, <2>4, <2>7, SMT
    <3>2. q[i] = mk_open(idx, subgoals[i - next + 1].seq)
      BY <2>4, <3>1
    <3> QED
      BY <3>2, SMTT(30) DEF mk_open, Node, is_backlink
  <2>8. \A i \in DOMAIN q : is_backlink(q[i]) => i \in DOMAIN p /\ q[i] = p[i]
    BY <2>4, <2>5, <2>7
  <2>9. Strict(q)
    BY <2>6, <2>8, StrictKept
  <2> QED
    BY <2>9 DEF q

\* A waiting node is closed with an axiom or a back-link.
<1>CloseSlot.
    ASSUME NEW p, NEW s, NEW map, NEW Q, ExtractOK(p, s, map, Q), NEW e \in Q,
           NEW q, Closed(p, q, e[2]), ~is_open(q[e[2]]),
           NEW map2, map2 = map \/ Adds(map, e[1], e[2], map2)
    PROVE  ExtractOK(q, s, map2, Others(Q, e))
  <2> USE <1>CloseSlot
  <2>1. /\ e[1] \in DOMAIN s /\ e[2] \in DOMAIN p /\ p[e[2]].seq = s[e[1]].seq
        /\ \A i \in DOMAIN p : i \in DOMAIN q /\ q[i].seq = p[i].seq
        /\ DOMAIN q = DOMAIN p /\ \A i \in DOMAIN p \ {e[2]} : q[i] = p[i]
    BY DEF ExtractOK, Closed
  <2>2. /\ DOMAIN map \subseteq DOMAIN map2 /\ DOMAIN map2 \subseteq DOMAIN map \cup {e[1]}
        /\ \A i \in DOMAIN map : map2[i] = map[i]
        /\ \A i \in DOMAIN map2 \ DOMAIN map : i = e[1] /\ map2[i] = e[2]
    BY DEF Adds
  <2>3. \A d \in Others(Q, e) :
          /\ d[1] \in DOMAIN s /\ d[2] \in DOMAIN q
          /\ is_open(q[d[2]]) /\ q[d[2]].seq = s[d[1]].seq
    BY <2>1, ZenonT(60) DEF ExtractOK, Others
  <2>4. \A i \in DOMAIN q : is_open(q[i]) => \E d \in Others(Q, e) : d[2] = i
    BY <2>1 DEF ExtractOK, Others
  <2>5. \A i \in DOMAIN map2 : map2[i] \in DOMAIN q /\ q[map2[i]].seq = s[i].seq
    BY <2>1, <2>2, SMTT(30) DEF ExtractOK
  <2>6. \A i, j \in DOMAIN map2 :
          map2[i] = map2[j] => i = j \/ is_backlink(s[i]) \/ is_backlink(s[j])
    BY <2>2, SMTT(30) DEF ExtractOK
  <2>7. \A d \in Others(Q, e), i \in DOMAIN map2 : map2[i] = d[2] => is_backlink(s[i])
    BY <2>2, SMT DEF ExtractOK, Others
  <2>8. DOMAIN map2 \subseteq DOMAIN s
    BY <2>1, <2>2 DEF ExtractOK
  <2> QED
    BY <2>3, <2>4, <2>5, <2>6, <2>7, <2>8 DEF ExtractOK

\* The target of a bud takes the place of the bud.
<1>FollowBud.
    ASSUME NEW p, NEW s, NEW map, NEW Q, ExtractOK(p, s, map, Q), NEW e \in Q,
           is_backlink(s[e[1]]), NEW t \in DOMAIN s, s[e[1]].seq = s[t].seq,
           NEW map2, Adds(map, e[1], e[2], map2)
    PROVE  ExtractOK(p, s, map2, {<<t, e[2]>>} \cup Others(Q, e))
  <2> USE <1>FollowBud
  <2> DEFINE d0 == <<t, e[2]>>
             Q2 == {d0} \cup Others(Q, e)
  <2>1. d0[1] = t /\ d0[2] = e[2]
    OBVIOUS
  <2>2. \A d \in Q2 : d = d0 \/ (d \in Q /\ d[2] # e[2])
    BY DEF Others
  <2>3. \A d \in Q : d[2] = e[2] \/ d \in Q2
    BY DEF Others
  <2>4. d0 \in Q2
    OBVIOUS
  <2> HIDE DEF d0, Q2
  <2>5. \A d \in Q2 :
          /\ d[1] \in DOMAIN s /\ d[2] \in DOMAIN p
          /\ is_open(p[d[2]]) /\ p[d[2]].seq = s[d[1]].seq
    BY <2>1, <2>2, SMT DEF ExtractOK
  <2>6. \A i \in DOMAIN p : is_open(p[i]) => \E d \in Q2 : d[2] = i
    BY <2>1, <2>3, <2>4 DEF ExtractOK
  <2>7. \A i \in DOMAIN map2 : map2[i] \in DOMAIN p /\ p[map2[i]].seq = s[i].seq
    BY SMT DEF ExtractOK, Adds
  <2>8. \A i, j \in DOMAIN map2 :
          map2[i] = map2[j] => i = j \/ is_backlink(s[i]) \/ is_backlink(s[j])
    BY DEF ExtractOK, Adds
  <2>9. \A d \in Q2, i \in DOMAIN map2 : map2[i] = d[2] => is_backlink(s[i])
    BY <2>1, <2>2, SMT DEF ExtractOK, Adds
  <2>10. DOMAIN map2 \subseteq DOMAIN s
    BY DEF ExtractOK, Adds
  <2> QED
    BY <2>5, <2>6, <2>7, <2>8, <2>9, <2>10 DEF ExtractOK, Q2, d0

\* Only closed proofs with strict back-links are kept by the steps of a search.
<1>SearchXInv.
    ASSUME XInv, Next
    PROVE  XInv'
  <2> USE <1>SearchXInv
  <2>1. pc # "extract" /\ pc' # "extract"
    BY SearchPc
  <2>2. PInv /\ PInv'
    BY <2>1, NextPInv DEF XInv
  <2>3. /\ GoodProof(prf) /\ Strict(prf)
        /\ \A p \in saved : GoodProof(p) /\ Strict(p) /\ is_closed(p)
    BY <2>2, AllStrictIs DEF XInv, PInv, SavedClosed
  <2>4. ASSUME NEW idx \in DOMAIN prf, AddAxiom(idx) PROVE Strict(prf') /\ saved' = saved
    BY <2>3, <2>4, <1>AddAxiomStrict DEF AddAxiom
  <2>5. ASSUME NEW idx \in DOMAIN prf, AddInf(idx) PROVE Strict(prf') /\ saved' = saved
    <3>1. PICK subgoals \in InfRules[prf[idx].seq] : prf' = add_inf(prf, idx, subgoals)
      BY <2>5 DEF AddInf
    <3>2. prf[idx].seq \in Sequents
      BY <2>3 DEF GoodProof, NodesOK, NodeType
    <3>3. subgoals \in Seq(Subgoal)
      BY <3>2, RulesAssumption
    <3> QED
      BY <2>3, <2>5, <3>1, <3>3, <1>AddInfStrict DEF AddInf
  <2>6. ASSUME NEW idx \in DOMAIN prf, NEW target \in DOMAIN prf, AddBacklink(idx, target)
        PROVE  Strict(prf') /\ saved' = saved
    <3>1. PICK vtts \in BackRules[<<prf[idx].seq, prf[target].seq>>] :
            prf' = add_backlink(prf, idx, target, vtts)
      BY <2>6 DEF AddBacklink
    <3>2. prf[idx].seq \in Sequents /\ prf[target].seq \in Sequents
      BY <2>3 DEF GoodProof, NodesOK, NodeType
    <3>3. prf[idx].seq = prf[target].seq /\ vtts = IdentityPairs(prf[idx].seq.tags)
      <4>1. prf[idx].seq = prf[target].seq /\ vtts = IdentityPairs(prf[target].seq.tags)
        BY <3>2, StrictBacklinksAssumption, ZenonT(60)
      <4> QED
        BY <4>1
    <3> QED
      BY <2>3, <2>6, <3>1, <3>3, AddBacklinkStrict DEF AddBacklink
  <2>7. ASSUME CopyLeaf PROVE Strict(prf') /\ saved' = saved
    <3> DEFINE a == Head(todo)[1]
    <3>1. Splicing
      <4>1. pc = "copy"
        BY <2>7 DEF CopyLeaf
      <4> QED
        BY <2>2, <4>1 DEF PInv
    <3>2. a \in Firsts(todo) /\ a \in DOMAIN node_map /\ Head(todo)[2] = node_map[a]
      BY <2>7, <3>1, StackTail, ZenonT(40) DEF CopyLeaf, Splicing
    <3>3. ensure_add(prf, node_map[a])
      <4> HIDE DEF a
      <4> QED
        BY <3>1, <3>2 DEF Splicing, SpliceOK, ensure_add
    <3>4. prf' = prf \/ prf' = add_axiom(prf, node_map[a])
      BY <2>7, <3>2 DEF CopyLeaf
    <3>5. saved' = saved
      BY <2>7 DEF CopyLeaf
    <3> HIDE DEF a
    <3>6. Strict(prf')
      BY <2>3, <3>3, <3>4, <1>AddAxiomStrict
    <3> QED
      BY <3>5, <3>6
  <2>8. ASSUME CopyInf PROVE Strict(prf') /\ saved' = saved
    <3> DEFINE a == Head(todo)[1]
    <3>1. Splicing /\ GoodProof(src)
      BY <2>2, <2>8, ZenonT(40) DEF PInv, CopyInf, Splicing
    <3>2. a \in Firsts(todo) /\ a \in DOMAIN node_map /\ Head(todo)[2] = node_map[a]
      BY <2>8, <3>1, StackTail, ZenonT(40) DEF CopyInf, Splicing
    <3>3. prf' = add_inf(prf, node_map[a], Premises(src, a)) /\ saved' = saved
      BY <2>8, <3>2, ZenonT(40) DEF CopyInf, Premises
    <3> HIDE DEF a
    <3>4. ensure_add(prf, node_map[a]) /\ a \in DOMAIN src
      BY <3>1, <3>2 DEF Splicing, SpliceOK, ensure_add
    <3>5. Premises(src, a) \in Seq(Subgoal)
      BY <3>1, <3>4, PremisesAreSubgoals
    <3> QED
      BY <2>3, <3>3, <3>4, <3>5, <1>AddInfStrict
  <2>9. ASSUME FixBacklink PROVE Strict(prf') /\ saved' = saved
    <3> DEFINE a == Head(bls)[1]
               target == src[a].succs[1]
    <3>1. Splicing /\ GoodProof(src) /\ Strict(src) /\ Firsts(todo) = {}
      <4>1. Splicing /\ GoodProof(src) /\ Strict(src) /\ todo = << >>
        BY <2>2, <2>3, <2>9, ZenonT(40) DEF PInv, FixBacklink, Splicing
      <4>2. Firsts(<< >>) = {}
        BY SMTT(30) DEF Firsts
      <4> QED
        BY <4>1, <4>2
    <3>2. a \in Firsts(bls) /\ a \in DOMAIN node_map /\ Head(bls)[2] = node_map[a]
      BY <2>9, <3>1, StackTail, ZenonT(40) DEF FixBacklink, Splicing
    <3>3. \/ prf' = prf
          \/ /\ target \in DOMAIN node_map
             /\ ensure_add(prf, node_map[a])
             /\ prf' = add_backlink(prf, node_map[a], node_map[target], src[a].tps[1].tv)
      BY <2>9, <3>2 DEF FixBacklink
    <3>4. saved' = saved
      BY <2>9 DEF FixBacklink
    <3> HIDE DEF a, target
    <3>5. SpliceOK(prf, src, node_map, {}, Firsts(bls))
      BY <3>1 DEF Splicing
    <3>6. a \in DOMAIN src /\ is_backlink(src[a])
      BY <3>2, <3>5 DEF SpliceOK
    <3>7. src[a].seq = src[target].seq /\ src[a].tps[1].tv = IdentityPairs(src[a].seq.tags)
      <4>1. /\ src[a].seq = src[target].seq
            /\ src[a].tps[1] = [tv |-> IdentityPairs(src[a].seq.tags), tp |-> {}]
        BY <3>1, <3>6 DEF Strict, target
      <4> QED
        BY <4>1, SMT
    <3>8. ASSUME target \in DOMAIN node_map
          PROVE  /\ node_map[target] \in DOMAIN prf /\ prf[node_map[a]].seq = prf[node_map[target]].seq
                 /\ src[a].tps[1].tv = IdentityPairs(prf[node_map[a]].seq.tags)
      BY <3>2, <3>5, <3>7, <3>8 DEF SpliceOK
    <3>9. Strict(prf')
      BY <2>3, <3>3, <3>8, AddBacklinkStrict
    <3> QED
      BY <3>4, <3>9
  <2>10. ASSUME NEW seq \in Goals, NextSearch(seq) PROVE Strict(prf') /\ saved' = saved
    <3>1. prf' = mk(seq) /\ saved' = saved
      BY <2>10 DEF NextSearch
    <3>2. DOMAIN mk(seq) = {0} /\ is_open(mk(seq)[0])
      BY MkGood, SequentsAssumption DEF mk
    <3> QED
      BY <3>1, <3>2 DEF Strict, is_open, is_backlink
  <2>11. ASSUME \/ CopyEnds \/ AddSubprfReturns
                \/ \E idx \in DOMAIN prf : \E p \in saved : AddSubprf(idx, p)
         PROVE  Strict(prf') /\ saved' = saved
    BY <2>3, <2>11 DEF CopyEnds, AddSubprfReturns, AddSubprf
  <2>12. Strict(prf') /\ \A p \in saved' : Strict(p) /\ is_closed(p)
    <3>1. CASE Complete
      <4>1. saved' = saved \cup {prf} /\ prf' = prf /\ is_closed(prf)
        BY <3>1 DEF Complete
      <4> QED
        BY <2>3, <4>1
    <3>2. CASE ~Complete
      <4>1. Strict(prf') /\ saved' = saved
        BY <2>4, <2>5, <2>6, <2>7, <2>8, <2>9, <2>10, <2>11, <3>2, SMTT(30) DEF Next
      <4> QED
        BY <2>3, <4>1
    <3> QED
      BY <3>1, <3>2
  <2>13. SavedClosed' /\ AllStrict'
    BY <2>12 DEF SavedClosed, AllStrict
  <2> QED
    BY <2>1, <2>2, <2>13 DEF XInv

\* What a step of extraction has to establish.
<1>Reestablish.
    ASSUME XInv, pc = "extract", pc' = pc, src' = src, saved' = saved, failed' = FALSE,
           GoodProof(prf'), Strict(prf'), Queue(todo'),
           ExtractOK(prf', src, node_map', Slots(todo'))
    PROVE  XInv'
  <2> USE <1>Reestablish
  <2>1. Extracting'
    BY DEF XInv, Extracting
  <2>2. Strict(prf') /\ \A p \in saved' : Strict(p)
    BY AllStrictIs DEF XInv
  <2>3. SavedClosed' /\ AllStrict'
    BY <2>2 DEF XInv, SavedClosed, AllStrict
  <2> QED
    BY <2>1, <2>3 DEF XInv

\* A node met for the second time.
<1>VisitedStep. ASSUME XInv, ExtractVisited PROVE XInv'
  <2> USE <1>VisitedStep
  <2> DEFINE from == Head(todo)[1]
             to == Head(todo)[2]
             target == node_map[from]
             vtts == IdentityPairs(src[from].seq.tags)
  <2>1. /\ pc = "extract" /\ pc' = pc /\ todo # << >> /\ todo' = Tail(todo)
        /\ from \in DOMAIN node_map /\ LinkResult(to, target, vtts)
        /\ src' = src /\ saved' = saved /\ node_map' = node_map
    BY ZenonT(40) DEF ExtractVisited
  <2>2. /\ GoodProof(prf) /\ Strict(prf) /\ failed = FALSE
        /\ GoodProof(src)
        /\ ExtractOK(prf, src, node_map, Slots(todo))
        /\ Head(todo) \in Slots(todo)
        /\ Queue(Tail(todo))
        /\ Slots(Tail(todo)) = Others(Slots(todo), Head(todo))
        /\ from \in DOMAIN src
        /\ ensure_add(prf, to)
        /\ prf[to].seq = src[from].seq
    BY <2>1, NextPair
  <2> HIDE DEF from, to, vtts, target
  <2>3. target \in DOMAIN prf /\ prf[target].seq = src[from].seq
    BY <2>1, <2>2 DEF ExtractOK, target
  <2>4. vtts = IdentityPairs(prf[to].seq.tags)
    BY <2>2 DEF vtts
  <2>5. /\ failed' = FALSE /\ GoodProof(prf') /\ Strict(prf')
        /\ Closed(prf, prf', to) /\ ~is_open(prf'[to])
    <3>1. prf[to].seq = prf[target].seq /\ LinkResult(to, target, vtts)
      BY <2>1, <2>2, <2>3
    <3> QED
      BY <2>2, <2>3, <2>4, <3>1, LinkSucceeds
  <2>6. ExtractOK(prf', src, node_map, Others(Slots(todo), Head(todo)))
    BY <2>2, <2>5, <1>CloseSlot, ZenonT(40) DEF to
  <2> QED
    BY <2>1, <2>2, <2>5, <2>6, <1>Reestablish, ZenonT(40)

\* An axiom; the source, a proof that was kept, has no open node.
<1>LeafCopied. ASSUME XInv, ExtractLeaf PROVE XInv'
  <2> USE <1>LeafCopied
  <2> DEFINE from == Head(todo)[1]
             to == Head(todo)[2]
  <2>1. /\ pc = "extract" /\ pc' = pc /\ todo # << >> /\ todo' = Tail(todo)
        /\ from \notin DOMAIN node_map
        /\ is_open(src[from]) \/ is_axiom(src[from])
        /\ prf' = IF is_axiom(src[from]) THEN add_axiom(prf, to) ELSE prf
        /\ failed' = (failed \/ (is_axiom(src[from]) /\ ~ensure_add(prf, to)))
        /\ node_map' = Mapped(from, to)
        /\ src' = src /\ saved' = saved
    BY ZenonT(40) DEF ExtractLeaf
  <2>2. /\ GoodProof(prf) /\ Strict(prf) /\ failed = FALSE
        /\ is_closed(src)
        /\ ExtractOK(prf, src, node_map, Slots(todo))
        /\ Head(todo) \in Slots(todo)
        /\ Queue(Tail(todo))
        /\ Slots(Tail(todo)) = Others(Slots(todo), Head(todo))
        /\ from \in DOMAIN src
        /\ ensure_add(prf, to)
    BY <2>1, NextPair
  <2> HIDE DEF from, to
  <2>3. is_axiom(src[from]) /\ prf' = add_axiom(prf, to) /\ failed' = FALSE
    BY <2>1, <2>2, ZenonT(40) DEF is_closed
  <2>4. /\ GoodProof(prf') /\ Closed(prf, prf', to)
        /\ prf'[to] = Node(prf[to].par, "axiom", prf[to].seq, << >>, << >>)
    BY <2>2, <2>3, AddAxiomGood, SMTT(30)
  <2>5. ~is_open(prf'[to]) /\ Strict(prf')
    <3>1. ~is_open(prf'[to])
      BY <2>4, SMT DEF Node, is_open
    <3> QED
      BY <2>2, <2>3, <3>1, <1>AddAxiomStrict
  <2>6. Adds(node_map, from, to, node_map')
    BY <2>1, MappedAdds
  <2>7. ExtractOK(prf', src, node_map', Others(Slots(todo), Head(todo)))
    BY <2>2, <2>4, <2>5, <2>6, <1>CloseSlot, ZenonT(40) DEF from, to
  <2> QED
    BY <2>1, <2>2, <2>3, <2>4, <2>5, <2>7, <1>Reestablish, ZenonT(40)

\* A bud: its back-link is kept, or its target takes its place.
<1>BudVisited. ASSUME XInv, ExtractBacklink PROVE XInv'
  <2> USE <1>BudVisited
  <2> DEFINE from == Head(todo)[1]
             to == Head(todo)[2]
             target == src[from].succs[1]
             vtts == src[from].tps[1].tv
  <2>1. /\ pc = "extract" /\ pc' = pc /\ todo # << >>
        /\ from \notin DOMAIN node_map
        /\ is_backlink(src[from])
        /\ node_map' = Mapped(from, to)
        /\ IF target \in DOMAIN node_map'
           THEN LinkResult(to, node_map'[target], vtts) /\ todo' = Tail(todo)
           ELSE todo' = <<<<target, to>>>> \o Tail(todo) /\ prf' = prf /\ failed' = failed
        /\ src' = src /\ saved' = saved
    BY ZenonT(40) DEF ExtractBacklink
  <2>2. /\ GoodProof(prf) /\ Strict(prf) /\ failed = FALSE
        /\ GoodProof(src) /\ Strict(src)
        /\ ExtractOK(prf, src, node_map, Slots(todo))
        /\ Head(todo) \in Slots(todo)
        /\ Queue(Tail(todo))
        /\ Slots(Tail(todo)) = Others(Slots(todo), Head(todo))
        /\ from \in DOMAIN src
        /\ to \in Nat
        /\ ensure_add(prf, to)
        /\ prf[to].seq = src[from].seq
    BY <2>1, NextPair, ZenonT(40)
  <2> HIDE DEF from, to, target, vtts
  <2>3. Adds(node_map, from, to, node_map')
    BY <2>1, MappedAdds
  <2>4. target \in DOMAIN src /\ src[from].seq = src[target].seq
    BY <2>1, <2>2, ZenonT(40) DEF GoodProof, WellFormed, BacklinksOK, Strict, target
  <2>5. vtts = IdentityPairs(prf[to].seq.tags)
    <3>1. src[from].tps[1] = [tv |-> IdentityPairs(src[from].seq.tags), tp |-> {}]
      BY <2>1, <2>2 DEF Strict
    <3> QED
      BY <2>2, <3>1, SMT DEF vtts
  <2>6. CASE target \in DOMAIN node_map'
    <3> DEFINE copy == node_map'[target]
    <3>1. copy \in DOMAIN prf /\ prf[copy].seq = src[target].seq
      BY <2>2, <2>3, <2>4, <2>6, SMTT(30) DEF ExtractOK, Adds, ensure_add
    <3>2. LinkResult(to, copy, vtts) /\ todo' = Tail(todo)
      BY <2>1, <2>6, ZenonT(40)
    <3> HIDE DEF copy
    <3>3. prf[to].seq = prf[copy].seq
      BY <2>2, <2>4, <3>1
    <3>4. /\ failed' = FALSE /\ GoodProof(prf') /\ Strict(prf')
          /\ Closed(prf, prf', to) /\ ~is_open(prf'[to])
      BY <2>2, <2>5, <3>1, <3>2, <3>3, LinkSucceeds, ZenonT(40)
    <3>5. ExtractOK(prf', src, node_map', Others(Slots(todo), Head(todo)))
      BY <2>2, <2>3, <3>4, <1>CloseSlot, ZenonT(40) DEF from, to
    <3> QED
      BY <2>1, <2>2, <3>2, <3>4, <3>5, <1>Reestablish, ZenonT(40)
  <2>7. CASE target \notin DOMAIN node_map'
    <3> DEFINE h == <<<<target, to>>>>
    <3>1. todo' = h \o Tail(todo) /\ prf' = prf /\ failed' = FALSE
      BY <2>1, <2>2, <2>7, SMTT(30)
    <3>2. ExtractOK(prf, src, node_map', {<<target, to>>} \cup Others(Slots(todo), Head(todo)))
      BY <2>1, <2>2, <2>3, <2>4, <1>FollowBud, ZenonT(40) DEF from, to
    <3>3. Queue(h) /\ Slots(h) = {<<target, to>>}
      <4>1. target \in Nat
        BY <2>2, <2>4, RootedFresh, SMT DEF GoodProof, WellFormed
      <4> DEFINE x == <<target, to>>
      <4>2. x \in Nat \X Nat
        BY <2>2, <4>1
      <4> HIDE DEF x
      <4>3. Queue(<<x>>) /\ Slots(<<x>>) = {x}
        BY <4>2, SMTT(30) DEF Queue, Slots
      <4> QED
        BY <4>3 DEF x
    <3> HIDE DEF h
    <3>4. \A c \in Slots(h), d \in Slots(Tail(todo)) : c[2] # d[2]
      <4>1. \A c \in Slots(h) : c[2] = to
        BY <3>3, SMT
      <4> QED
        BY <2>2, <4>1 DEF Others, to
    <3>5. Queue(todo') /\ Slots(todo') = Slots(h) \cup Slots(Tail(todo))
      BY <2>2, <3>1, <3>3, <3>4, <1>QueueConcat
    <3>6. ExtractOK(prf', src, node_map', Slots(todo'))
      BY <2>2, <3>1, <3>2, <3>3, <3>5, ZenonT(40)
    <3> QED
      BY <2>1, <2>2, <3>1, <3>5, <3>6, <1>Reestablish, ZenonT(40)
  <2> QED
    BY <2>6, <2>7

\* An inference.
<1>InferenceCopied. ASSUME XInv, ExtractInf PROVE XInv'
  <2> USE <1>InferenceCopied
  <2> DEFINE e == Head(todo)
             subgoals == Premises(src, e[1])
             visit == Visit(src, e[1], fresh_idxs(prf, subgoals))
  <2>1. /\ pc = "extract" /\ pc' = pc /\ todo # << >>
        /\ e[1] \notin DOMAIN node_map
        /\ is_inf(src[e[1]])
        /\ failed' = (failed \/ ~ensure_add(prf, e[2]))
        /\ prf' = add_inf(prf, e[2], subgoals)
        /\ node_map' = Mapped(e[1], e[2])
        /\ todo' = visit \o Tail(todo)
        /\ src' = src /\ saved' = saved
    BY ZenonT(40) DEF ExtractInf, Premises, Visit
  <2>2. /\ GoodProof(prf) /\ Strict(prf) /\ failed = FALSE
        /\ GoodProof(src)
        /\ ExtractOK(prf, src, node_map, Slots(todo))
        /\ e \in Slots(todo)
        /\ Queue(Tail(todo))
        /\ Slots(Tail(todo)) = Others(Slots(todo), e)
        /\ ensure_add(prf, e[2])
    BY <2>1, NextPair, ZenonT(40)
  <2> HIDE DEF e, subgoals, visit
  <2>3. Adds(node_map, e[1], e[2], node_map')
    BY <2>1, MappedAdds
  <2>4. /\ subgoals \in Seq(Subgoal)
        /\ GoodProof(prf')
        /\ Queue(visit)
        /\ \A d \in Slots(visit) : d[2] \notin DOMAIN prf
        /\ ExtractOK(prf', src, node_map', Slots(visit) \cup Others(Slots(todo), e))
    BY <2>1, <2>2, <2>3, CopyInference, ZenonT(40) DEF subgoals, visit
  <2>5. Strict(prf')
    BY <2>1, <2>2, <2>4, <1>AddInfStrict, ZenonT(40)
  <2>6. \A c \in Slots(visit), d \in Slots(Tail(todo)) : c[2] # d[2]
    BY <2>2, <2>4, ZenonT(40) DEF ExtractOK, Others
  <2>7. Queue(todo') /\ Slots(todo') = Slots(visit) \cup Slots(Tail(todo))
    BY <2>1, <2>2, <2>4, <2>6, <1>QueueConcat
  <2>8. failed' = FALSE
    BY <2>1, <2>2, ZenonT(40)
  <2>9. ExtractOK(prf', src, node_map', Slots(todo'))
    BY <2>2, <2>4, <2>7, ZenonT(40)
  <2> QED
    BY <2>1, <2>4, <2>5, <2>7, <2>8, <2>9, <1>Reestablish, ZenonT(40)

\* The call of extract_subproof.
<1>ExtractionStarts.
    ASSUME XInv, NEW p \in saved, NEW idx \in DOMAIN p, ExtractSubproof(p, idx)
    PROVE  XInv'
  <2> USE <1>ExtractionStarts
  <2> DEFINE seq == p[idx].seq
             q == mk(seq)
             x == <<idx, 0>>
  <2>1. /\ pc = "between" /\ pc' = "extract" /\ seq \in Goals /\ src' = p /\ prf' = q
        /\ todo' = <<x>> /\ node_map' = << >> /\ saved' = saved /\ failed' = failed
    BY DEF ExtractSubproof
  <2>2. PInv /\ failed = FALSE /\ GoodProof(p) /\ \A r \in saved : GoodProof(r) /\ Strict(r)
    BY <2>1, AllStrictIs DEF XInv, PInv
  <2>3. GoodProof(q) /\ DOMAIN q = {0} /\ q[0].seq = seq /\ is_open(q[0])
    BY <2>1, MkGood, SequentsAssumption DEF mk
  <2>4. x \in Nat \X Nat /\ x[1] = idx /\ x[2] = 0
    BY <2>2, RootedFresh, SMT DEF GoodProof, WellFormed
  <2>5. DOMAIN node_map' = {}
    BY <2>1, SMT
  <2> HIDE DEF q, x
  <2>6. Strict(q)
    BY <2>3 DEF Strict, is_open, is_backlink
  <2>7. Queue(<<x>>) /\ Slots(<<x>>) = {x}
    BY <2>4, SMTT(30) DEF Queue, Slots
  <2>8. ExtractOK(q, p, node_map', {x})
    BY <2>3, <2>4, <2>5 DEF ExtractOK
  <2>9. Extracting'
    BY <2>1, <2>2, <2>3, <2>7, <2>8 DEF Extracting
  <2>10. SavedClosed' /\ AllStrict'
    <3>1. Strict(prf') /\ \A r \in saved' : Strict(r)
      BY <2>1, <2>2, <2>6
    <3> QED
      BY <2>1, <3>1 DEF XInv, SavedClosed, AllStrict
  <2> QED
    BY <2>1, <2>9, <2>10 DEF XInv

\* When no pair waits, no node is open.
<1>ExtractionReturns. ASSUME XInv, ExtractReturns PROVE XInv'
  <2> USE <1>ExtractionReturns
  <2>1. /\ pc = "extract" /\ todo = << >> /\ saved' = saved \cup {prf} /\ pc' = "between"
        /\ prf' = prf /\ failed' = failed
    BY DEF ExtractReturns
  <2>2. Extracting /\ Strict(prf) /\ \A p \in saved : Strict(p)
    BY <2>1, AllStrictIs DEF XInv
  <2>3. Slots(<< >>) = {}
    BY SMTT(30) DEF Slots
  <2>4. is_closed(prf)
    BY <2>1, <2>2, <2>3 DEF Extracting, ExtractOK, is_closed
  <2>5. PInv'
    BY <2>1, <2>2 DEF PInv, Extracting
  <2>6. SavedClosed' /\ AllStrict'
    BY <2>1, <2>2, <2>4 DEF XInv, SavedClosed, AllStrict
  <2> QED
    BY <2>1, <2>5, <2>6 DEF XInv

<1> SUFFICES ASSUME XInv, [PNext]_vars PROVE XInv'
  OBVIOUS
<1>1. CASE UNCHANGED vars
  BY <1>1, ZenonT(40) DEF vars, splice, XInv, PInv, Splicing, Extracting, SavedClosed, AllStrict
<1>2. CASE PNext
  BY <1>2, <1>SearchXInv, <1>ExtractionStarts, <1>VisitedStep, <1>LeafCopied, <1>BudVisited,
     <1>InferenceCopied, <1>ExtractionReturns DEF PNext, Extract
<1> QED
  BY <1>1, <1>2

LEMMA PInvariance == PSpec => []XInv
BY InitXInv, NextXInv, PTL DEF PSpec

-----------------------------------------------------------------------------
(* Theorems *)

\* Whatever rules the procedure prover applies and whatever node it extracts,
\* every proof, also one that extraction has only begun, is a tree with
\* back-links in the sense of the comment on Proof.t.
THEOREM ExtractionWellFormed == PSpec => []ProofWellFormed
<1>1. XInv => ProofWellFormed
  BY DEF XInv, PInv, Extracting, ProofWellFormed, GoodProof
<1> QED
  BY <1>1, PInvariance, PTL

\* The graph of a proof that extraction builds passes the validation of
\* Soundcheck.check_proof.
THEOREM ExtractionValidForChecker == PSpec => []ValidForChecker
<1>1. XInv => ValidForChecker
  BY GoodIsValid DEF XInv, PInv, Extracting, ValidForChecker
<1> QED
  BY <1>1, PInvariance, PTL

\* Neither splicing nor extraction ever trips an assertion of the constructors.
THEOREM ExtractionNeverFails == PSpec => []SpliceNeverFails
<1>1. XInv => SpliceNeverFails
  BY DEF XInv, PInv, Extracting, SpliceNeverFails
<1> QED
  BY <1>1, PInvariance, PTL

\* Every proof that is kept, the results of extraction included, is closed.
THEOREM KeptProofsClosed == PSpec => []SavedClosed
<1>1. XInv => SavedClosed
  BY DEF XInv
<1> QED
  BY <1>1, PInvariance, PTL

\* Back-links between equal sequents stay so under splicing and extraction.
THEOREM BacklinksStayStrict == PSpec => []StrictBuds
<1>1. XInv => StrictBuds
  BY DEF XInv, AllStrict, Strict, StrictBuds
<1> QED
  BY <1>1, PInvariance, PTL

-----------------------------------------------------------------------------
(* No node is copied twice.  On top of XInv: every copy is on record.      *)

\* Node j of p is the copy that map holds of a node of s.
OnRecord(p, s, map, j) ==
  \E i \in DOMAIN map : map[i] = j /\ s[i].kind = p[j].kind /\ s[i].seq = p[j].seq

Recorded(p, s, map) ==
  \A j \in DOMAIN p : is_axiom(p[j]) \/ is_inf(p[j]) => OnRecord(p, s, map, j)

CopiesRecorded == pc = "extract" => Recorded(prf, src, node_map)

\* Closing or adding nodes keeps the copies on record if the new copies are.
LEMMA RecordedKept ==
  ASSUME NEW p, NEW s, NEW map, Recorded(p, s, map), NEW q, NEW map2,
         \A i \in DOMAIN map : i \in DOMAIN map2 /\ map2[i] = map[i],
         \A j \in DOMAIN q :
           \/ j \in DOMAIN p /\ q[j] = p[j]
           \/ ~is_axiom(q[j]) /\ ~is_inf(q[j])
           \/ OnRecord(q, s, map2, j)
  PROVE  Recorded(q, s, map2)
<1> SUFFICES ASSUME NEW j \in DOMAIN q, is_axiom(q[j]) \/ is_inf(q[j]), j \in DOMAIN p, q[j] = p[j]
             PROVE  OnRecord(q, s, map2, j)
  BY DEF Recorded
<1>1. PICK i \in DOMAIN map : map[i] = j /\ s[i].kind = p[j].kind /\ s[i].seq = p[j].seq
  BY DEF Recorded, OnRecord
<1> QED
  BY <1>1 DEF OnRecord

\* Forming a back-link makes no copy.
LEMMA LinkRecorded ==
  ASSUME NEW map, Recorded(prf, src, map), NEW map2,
         \A i \in DOMAIN map : i \in DOMAIN map2 /\ map2[i] = map[i],
         NEW to, NEW target, NEW vtts, LinkResult(to, target, vtts)
  PROVE  Recorded(prf', src, map2)
<1>1. CASE prf' = prf
  BY <1>1, RecordedKept
<1>2. CASE ensure_add(prf, to) /\ prf' = add_backlink(prf, to, target, vtts)
  <2>1. to \in DOMAIN prf
    BY <1>2 DEF ensure_add
  <2>2. DOMAIN prf' = DOMAIN prf /\ \A j \in DOMAIN prf \ {to} : prf'[j] = prf[j]
    BY <1>2 DEF add_backlink
  <2>3. prf'[to].kind = "back"
    BY <1>2, <2>1, SMT DEF add_backlink, Node
  <2>4. ~is_axiom(prf'[to]) /\ ~is_inf(prf'[to])
    BY <2>3 DEF is_axiom, is_inf
  <2>5. \A j \in DOMAIN prf' :
          \/ j \in DOMAIN prf /\ prf'[j] = prf[j]
          \/ ~is_axiom(prf'[j]) /\ ~is_inf(prf'[j])
    BY <2>2, <2>4
  <2> QED
    BY <2>5, RecordedKept
<1> QED
  BY <1>1, <1>2 DEF LinkResult

\* Every step keeps the copies on record.
LEMMA NextRecorded == XInv /\ CopiesRecorded /\ [PNext]_vars => CopiesRecorded'
<1> SUFFICES ASSUME XInv, CopiesRecorded, [PNext]_vars, pc' = "extract"
             PROVE  Recorded(prf', src', node_map')
  BY DEF CopiesRecorded
<1>1. CASE UNCHANGED vars
  BY <1>1 DEF vars, splice, CopiesRecorded, Recorded
<1>2. CASE Next
  BY <1>2, SearchPc
<1>3. ASSUME NEW p \in saved, NEW idx \in DOMAIN p, ExtractSubproof(p, idx)
      PROVE  Recorded(prf', src', node_map')
  <2>1. prf' = mk(p[idx].seq) /\ p[idx].seq \in Sequents
    BY <1>3, SequentsAssumption DEF ExtractSubproof
  <2>2. DOMAIN prf' = {0} /\ is_open(prf'[0])
    BY <2>1, MkGood DEF mk
  <2> QED
    BY <2>2 DEF Recorded, is_open, is_axiom, is_inf
<1>4. CASE ExtractVisited
  <2>1. Recorded(prf, src, node_map) /\ src' = src /\ node_map' = node_map
    BY <1>4 DEF ExtractVisited, CopiesRecorded
  <2>2. PICK to, target, vtts : LinkResult(to, target, vtts)
    BY <1>4 DEF ExtractVisited
  <2> QED
    BY <2>1, <2>2, LinkRecorded
<1>5. CASE ExtractLeaf
  <2> DEFINE from == Head(todo)[1]
             to == Head(todo)[2]
  <2>1. /\ pc = "extract" /\ todo # << >> /\ from \notin DOMAIN node_map
        /\ prf' = IF is_axiom(src[from]) THEN add_axiom(prf, to) ELSE prf
        /\ node_map' = Mapped(from, to) /\ src' = src
    BY <1>5 DEF ExtractLeaf
  <2>2. Recorded(prf, src, node_map)
    BY <2>1 DEF CopiesRecorded
  <2>3. GoodProof(prf) /\ ensure_add(prf, to) /\ prf[to].seq = src[from].seq
    BY <2>1, NextPair
  <2> HIDE DEF from, to
  <2>4. Adds(node_map, from, to, node_map')
    BY <2>1, MappedAdds
  <2>5. \A i \in DOMAIN node_map : i \in DOMAIN node_map' /\ node_map'[i] = node_map[i]
    BY <2>4 DEF Adds
  <2>6. CASE ~is_axiom(src[from])
    BY <2>1, <2>2, <2>5, <2>6, RecordedKept
  <2>7. CASE is_axiom(src[from])
    <3>1. prf' = add_axiom(prf, to)
      BY <2>1, <2>7
    <3>2. /\ Closed(prf, prf', to)
          /\ prf'[to] = Node(prf[to].par, "axiom", prf[to].seq, << >>, << >>)
      BY <2>3, <3>1, AddAxiomGood, SMTT(20)
    <3>3. prf'[to].kind = src[from].kind /\ prf'[to].seq = src[from].seq
      BY <2>3, <2>7, <3>2, SMT DEF Node, is_axiom
    <3>4. \A j \in DOMAIN prf' :
            \/ j \in DOMAIN prf /\ prf'[j] = prf[j]
            \/ ~is_axiom(prf'[j]) /\ ~is_inf(prf'[j])
            \/ OnRecord(prf', src, node_map', j)
      BY <2>4, <3>2, <3>3 DEF Closed, Adds, OnRecord
    <3>5. Recorded(prf', src, node_map')
      BY <2>2, <2>5, <3>4, RecordedKept, ZenonT(30)
    <3> QED
      BY <2>1, <3>5
  <2> QED
    BY <2>6, <2>7
<1>6. CASE ExtractBacklink
  <2> DEFINE from == Head(todo)[1]
             to == Head(todo)[2]
             target == src[from].succs[1]
  <2>1. /\ pc = "extract" /\ from \notin DOMAIN node_map /\ src' = src
        /\ node_map' = Mapped(from, to)
        /\ prf' = prf \/ LinkResult(to, node_map'[target], src[from].tps[1].tv)
    BY <1>6, ZenonT(40) DEF ExtractBacklink
  <2>2. Recorded(prf, src, node_map)
    BY <2>1 DEF CopiesRecorded
  <2> HIDE DEF from, to, target
  <2>3. \A i \in DOMAIN node_map : i \in DOMAIN node_map' /\ node_map'[i] = node_map[i]
    <3>1. Adds(node_map, from, to, node_map')
      BY <2>1, MappedAdds
    <3> QED
      BY <3>1 DEF Adds
  <2>4. CASE prf' = prf
    BY <2>1, <2>2, <2>3, <2>4, RecordedKept
  <2>5. CASE LinkResult(to, node_map'[target], src[from].tps[1].tv)
    BY <2>1, <2>2, <2>3, <2>5, LinkRecorded
  <2> QED
    BY <2>1, <2>4, <2>5
<1>7. CASE ExtractInf
  <2> DEFINE e == Head(todo)
             subgoals == Premises(src, e[1])
  <2>1. /\ pc = "extract" /\ todo # << >> /\ e[1] \notin DOMAIN node_map
        /\ is_inf(src[e[1]])
        /\ prf' = add_inf(prf, e[2], subgoals)
        /\ node_map' = Mapped(e[1], e[2]) /\ src' = src
    BY <1>7, ZenonT(40) DEF ExtractInf, Premises
  <2>2. Recorded(prf, src, node_map)
    BY <2>1 DEF CopiesRecorded
  <2>3. /\ GoodProof(prf) /\ GoodProof(src) /\ ensure_add(prf, e[2])
        /\ ExtractOK(prf, src, node_map, Slots(todo)) /\ e \in Slots(todo)
        /\ prf[e[2]].seq = src[e[1]].seq
    BY <2>1, NextPair
  <2> HIDE DEF e, subgoals
  <2>4. Adds(node_map, e[1], e[2], node_map')
    BY <2>1, MappedAdds
  <2>5. \A i \in DOMAIN node_map : i \in DOMAIN node_map' /\ node_map'[i] = node_map[i]
    BY <2>4 DEF Adds
  <2>6. subgoals \in Seq(Subgoal)
    BY <2>1, <2>3, <2>4, CopyInference DEF subgoals
  <2>7. e[2] \in DOMAIN prf /\ Extended(prf, prf', e[2], subgoals)
    BY <2>1, <2>3, <2>6, AddInfExtends, ZenonT(30) DEF ensure_add
  <2>8. prf'[e[2]].kind = src[e[1]].kind /\ prf'[e[2]].seq = src[e[1]].seq
    BY <2>1, <2>3, <2>7, SMT DEF Extended, Node, is_inf
  <2>9. ASSUME NEW j \in DOMAIN prf', j \notin DOMAIN prf
        PROVE  ~is_axiom(prf'[j]) /\ ~is_inf(prf'[j])
    <3>1. fresh_idx(prf) \in Nat \ {0} /\ DOMAIN prf = 0 .. fresh_idx(prf) - 1
      BY <2>3, RootedFresh DEF GoodProof, WellFormed
    <3>2. DOMAIN prf' = 0 .. fresh_idx(prf) + Len(subgoals) - 1
      BY <2>7 DEF Extended
    <3>3. Len(subgoals) \in Nat /\ DOMAIN subgoals = 1 .. Len(subgoals)
      BY <2>6, SMT
    <3>4. /\ j - fresh_idx(prf) + 1 \in DOMAIN subgoals
          /\ fresh_idx(prf) + (j - fresh_idx(prf) + 1) - 1 = j
      BY <2>9, <3>1, <3>2, <3>3, SMT
    <3>5. PICK k \in DOMAIN subgoals : prf'[j] = mk_open(e[2], subgoals[k].seq)
      BY <2>7, <3>4 DEF Extended
    <3>6. prf'[j].kind = "open"
      BY <3>5, SMT DEF mk_open, Node
    <3> QED
      BY <3>6 DEF is_axiom, is_inf
  <2>10. \A j \in DOMAIN prf \ {e[2]} : prf'[j] = prf[j]
    BY <2>7 DEF Extended
  <2>11. \A j \in DOMAIN prf' :
           \/ j \in DOMAIN prf /\ prf'[j] = prf[j]
           \/ ~is_axiom(prf'[j]) /\ ~is_inf(prf'[j])
           \/ OnRecord(prf', src, node_map', j)
    BY <2>4, <2>8, <2>9, <2>10, ZenonT(30) DEF Adds, OnRecord
  <2>12. Recorded(prf', src, node_map')
    BY <2>2, <2>5, <2>11, RecordedKept, ZenonT(30)
  <2> QED
    BY <2>1, <2>12
<1>8. CASE ExtractReturns
  BY <1>8 DEF ExtractReturns
<1> QED
  BY <1>1, <1>2, <1>3, <1>4, <1>5, <1>6, <1>7, <1>8 DEF PNext, Extract

\* Extraction copies no node of the source twice: every axiom and inference of the
\* result is the one copy of its own node of the source (_extract in
\* extract_subproof), so that what is shared by back-links stays shared.
THEOREM ExtractionShares == PSpec => []ExtractShares
<1>1. Init => CopiesRecorded
  BY DEF Init, CopiesRecorded
<1>2. ASSUME XInv, CopiesRecorded, pc = "extract",
             NEW j \in DOMAIN prf, is_axiom(prf[j]) \/ is_inf(prf[j])
      PROVE  \E i \in DOMAIN node_map :
               /\ node_map[i] = j
               /\ src[i].kind = prf[j].kind
               /\ src[i].seq = prf[j].seq
               /\ \A k \in DOMAIN node_map : node_map[k] = j => k = i \/ is_backlink(src[k])
  <2>1. PICK i \in DOMAIN node_map :
          node_map[i] = j /\ src[i].kind = prf[j].kind /\ src[i].seq = prf[j].seq
    BY <1>2 DEF CopiesRecorded, Recorded, OnRecord
  <2>2. ~is_backlink(src[i])
    BY <1>2, <2>1 DEF is_axiom, is_inf, is_backlink
  <2>3. \A k \in DOMAIN node_map : node_map[k] = j => k = i \/ is_backlink(src[k])
    BY <1>2, <2>1, <2>2 DEF XInv, Extracting, ExtractOK
  <2> QED
    BY <2>1, <2>3
<1>3. XInv /\ CopiesRecorded => ExtractShares
  BY <1>2 DEF ExtractShares
<1> QED
  BY <1>1, <1>3, NextRecorded, PInvariance, PTL DEF PSpec
=============================================================================
