------------------------------ MODULE CyclicProof ------------------------------
(***************************************************************************)
(* The cyclic proof object (generic/proof.ml, generic/proofnode.ml): a map *)
(* from indices to nodes, each paired with the index of its parent.        *)
(*                                                                         *)
(* A sequent is a record [form, tags]: form stands for everything that     *)
(* equal_upto_tags looks at, tags for the set that Seq.tags returns.       *)
(* Rule names carry no behaviour and are left out.  All four node types    *)
(* have the same fields here: succs is what get_succs returns, and tps is  *)
(* the list of (valid, progressing) tag pairs that to_abstract_node pairs  *)
(* with it.                                                                *)
(***************************************************************************)
EXTENDS AbstractProof, Sequences

Node(par, kind, seq, succs, tps) ==
  [par |-> par, kind |-> kind, seq |-> seq, succs |-> succs, tps |-> tps]

mk_open(par, seq) == Node(par, "open", seq, << >>, << >>)

is_open(n) == n.kind = "open"
is_axiom(n) == n.kind = "axiom"
is_inf(n) == n.kind = "inf"
is_backlink(n) == n.kind = "back"

equal_upto_tags(seq1, seq2) == seq1.form = seq2.form

\* Tagpairs.mk: every tag traces itself.
IdentityPairs(tags) == {<<t, t>> : t \in tags}

-----------------------------------------------------------------------------
(* Constructors.  idx is the index of an open node of prf. *)

mk(seq) == [i \in {0} |-> mk_open(0, seq)]

fresh_idx(prf) == 1 + Max(DOMAIN prf)

\* The assertion made by every constructor.
ensure_add(prf, idx) == idx \in DOMAIN prf /\ is_open(prf[idx])

add_axiom(prf, idx) ==
  [prf EXCEPT ![idx] = Node(prf[idx].par, "axiom", prf[idx].seq, << >>, << >>)]

\* A faulty variant: every tag of the bud is taken to be a tag of the target.
add_backlink_AllTags(prf, idx, target, vtts) ==
  [prf EXCEPT ![idx] =
     Node(prf[idx].par, "back", prf[idx].seq, <<target>>,
          <<[tv |-> IdentityPairs(prf[idx].seq.tags), tp |-> {}]>>)]

add_backlink(prf, idx, target, vtts) ==
  [prf EXCEPT ![idx] =
     Node(prf[idx].par, "back", prf[idx].seq, <<target>>, <<[tv |-> vtts, tp |-> {}]>>)]

\* The further assertion made by add_backlink.
ensure_target(prf, idx, target) ==
  target \in DOMAIN prf /\ equal_upto_tags(prf[idx].seq, prf[target].seq)

\* A faulty variant: off by one.
fresh_idxs_OffByOne(prf, subgoals) ==
  [k \in DOMAIN subgoals |-> fresh_idx(prf) + k]

\* Indices of the subgoals that add_inf creates, in order.
fresh_idxs(prf, subgoals) ==
  [k \in DOMAIN subgoals |-> fresh_idx(prf) + k - 1]

\* A faulty variant: only the first premise keeps its tag pairs.
add_inf_OneLabel(prf, idx, subgoals) ==
  LET next == fresh_idx(prf)
  IN  [i \in DOMAIN prf \cup (next .. next + Len(subgoals) - 1) |->
         IF i = idx
         THEN Node(prf[idx].par, "inf", prf[idx].seq, fresh_idxs(prf, subgoals),
                   <<subgoals[1].label>>)
         ELSE IF i < next THEN prf[i]
                          ELSE mk_open(idx, subgoals[i - next + 1].seq)]

\* subgoals is a sequence of records [seq, label].
add_inf(prf, idx, subgoals) ==
  LET next == fresh_idx(prf)
  IN  [i \in DOMAIN prf \cup (next .. next + Len(subgoals) - 1) |->
         IF i = idx
         THEN Node(prf[idx].par, "inf", prf[idx].seq, fresh_idxs(prf, subgoals),
                   [k \in DOMAIN subgoals |-> subgoals[k].label])
         ELSE IF i < next THEN prf[i]
                          ELSE mk_open(idx, subgoals[i - next + 1].seq)]

-----------------------------------------------------------------------------
(* Observers. *)

is_closed(prf) == \A i \in DOMAIN prf : ~is_open(prf[i])

\* A faulty variant: all leaves count as closed.
is_closed_at_AnyLeaf(prf) ==
  LET closed[i \in DOMAIN prf] ==
        is_inf(prf[i]) => \A k \in DOMAIN prf[i].succs : closed[prf[i].succs[k]]
  IN  closed

\* Does the subtree at each node hold no open node?
is_closed_at(prf) ==
  LET closed[i \in DOMAIN prf] ==
        \/ is_axiom(prf[i])
        \/ is_backlink(prf[i])
        \/ is_inf(prf[i]) /\ \A k \in DOMAIN prf[i].succs : closed[prf[i].succs[k]]
  IN  closed

\* The path from the root to a node.
get_ancestry(prf, idx) ==
  LET path[i \in DOMAIN prf] ==
        IF prf[i].par = i THEN <<i>> ELSE Append(path[prf[i].par], i)
  IN  path[idx]

to_abstract_node(n) ==
  [tags |-> n.seq.tags,
   subg |-> [j \in Range(n.succs) |->
               n.tps[CHOOSE k \in DOMAIN n.succs : n.succs[k] = j]]]

Abstract(prf) == [i \in DOMAIN prf |-> to_abstract_node(prf[i])]

\* Proof.check, by what Soundcheck.check_proof promises (see SoundCheck).
check(prf) == \A graph \in {Abstract(prf)} : GloballySound(graph, 0)

OpenNodes(prf) == {i \in DOMAIN prf : is_open(prf[i])}

\* What the searches rely on when a rule is applied to the open node idx of prf:
\* the new proof has the goal at its root, is open at the subgoals, which are
\* distinct and new, and where prf is besides idx, and is sound if prf is.
LegalApplication(idx, prf, app) ==
  /\ app.subgoals \in Seq(Nat)
  /\ IsInjective(app.subgoals)
  /\ Range(app.subgoals) \cap (OpenNodes(prf) \ {idx}) = {}
  /\ OpenNodes(app.prf) = (OpenNodes(prf) \ {idx}) \cup Range(app.subgoals)
  /\ 0 \in DOMAIN app.prf
  /\ app.prf[0].seq = prf[0].seq
  /\ check(app.prf) \/ ~check(prf)
=============================================================================
