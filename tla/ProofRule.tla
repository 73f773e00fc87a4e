------------------------------- MODULE ProofRule -------------------------------
(***************************************************************************)
(* Proof rules and their combinators (generic/proofrule.ml).  A rule takes *)
(* the index of an open node and a proof and returns the list of ways to   *)
(* go on, each the new open subgoals and the new proof.  Lists are         *)
(* sequences.  A rule is a record whose op says how it was made and whose  *)
(* other fields are the arguments it was made from; Apply runs it.  What   *)
(* axioms, inferences and back-links do on sequents is data: ax_f and cond *)
(* are sets of sequents, r_f maps a sequent to its lists of premises, br_f *)
(* a pair of sequents to the lists of tag pairs of a back-link.            *)
(***************************************************************************)
EXTENDS CyclicProof, SequencesExt

App(subgoals, prf) == [subgoals |-> subgoals, prf |-> prf]

\* The element of a singleton.  The({f(x) : x \in {e}}) is f(e); TLC then evaluates
\* e once however often f uses it.
The(S) == CHOOSE x \in S : TRUE

\* L.bind: the concatenation of f(x) for the x of a list.
Bind(f(_), list) ==
  The({LET upto[k \in 0 .. Len(xs)] == IF k = 0 THEN << >> ELSE upto[k - 1] \o f(xs[k])
       IN  upto[Len(xs)] : xs \in {list}})

Map(f(_), list) == Bind(LAMBDA x : <<f(x)>>, list)

InOrder(indices) ==
  [k \in 1 .. Cardinality(indices) |->
     CHOOSE i \in indices : Cardinality({j \in indices : j < i}) = k - 1]

-----------------------------------------------------------------------------
(* Selection of back-link targets, in the order of the indices. *)

all_nodes(srcidx, prf) == InOrder(DOMAIN prf \ {srcidx})

closed_nodes(srcidx, prf) ==
  InOrder({i \in DOMAIN prf \ {srcidx} : ~is_open(prf[i])})

\* The branch from the root, the source itself included.
ancestor_nodes(srcidx, prf) == get_ancestry(prf, srcidx)

syntactically_equal_nodes(srcidx, prf) ==
  InOrder({i \in DOMAIN prf \ {srcidx} : prf[i].seq = prf[srcidx].seq})

Targets(sel_f, srcidx, prf) ==
  CASE sel_f = "all_nodes" -> all_nodes(srcidx, prf)
    [] sel_f = "closed_nodes" -> closed_nodes(srcidx, prf)
    [] sel_f = "ancestor_nodes" -> ancestor_nodes(srcidx, prf)
    [] sel_f = "syntactically_equal_nodes" -> syntactically_equal_nodes(srcidx, prf)

-----------------------------------------------------------------------------
(* Rules made from functions on sequents. *)

mk_axiom(ax_f, idx, prf) ==
  IF prf[idx].seq \in ax_f THEN <<App(<< >>, add_axiom(prf, idx))>> ELSE << >>

mk_infrule(r_f, idx, prf) ==
  Map(LAMBDA l : App(fresh_idxs(prf, l), add_inf(prf, idx, l)), r_f[prf[idx].seq])

\* The ways to close a node by a back-link.
Backlinks(sel_f, br_f, srcidx, prf) ==
  LET apply(trgidx) ==
        Map(LAMBDA vtts : App(<< >>, add_backlink(prf, srcidx, trgidx, vtts)),
            br_f[prf[srcidx].seq, prf[trgidx].seq])
  IN  Bind(apply, Targets(sel_f, srcidx, prf))

\* All of a list of applications, or the first.
Greedily(greedy, list) ==
  The({IF greedy /\ apps # << >> THEN <<Head(apps)>> ELSE apps : apps \in {list}})

\* A faulty variant: the soundness check is left out.
mk_backrule_Unchecked(greedy, sel_f, br_f, srcidx, prf) ==
  Greedily(greedy, Backlinks(sel_f, br_f, srcidx, prf))

\* The applications that pass the soundness check: all of them, or the first.
mk_backrule(greedy, sel_f, br_f, srcidx, prf) ==
  Greedily(greedy, SelectSeq(Backlinks(sel_f, br_f, srcidx, prf), LAMBDA app : check(app.prf)))

-----------------------------------------------------------------------------
(* Combinators. *)

RECURSIVE Apply(_, _, _)

fail(idx, prf) == << >>

identity(idx, prf) == <<App(<<idx>>, prf)>>

\* A faulty variant: the subgoals opened for the earlier ones are dropped.
apply_to_subgoals_pairwise_Forgets(rules, app) ==
  LET apps[k \in 0 .. Len(rules)] ==
        IF k = 0 THEN <<App(<< >>, app.prf)>>
        ELSE Bind(LAMBDA opened : Apply(rules[k], app.subgoals[k], opened.prf), apps[k - 1])
  IN  IF Len(rules) = Len(app.subgoals) THEN apps[Len(rules)] ELSE << >>

\* Close each subgoal in turn with its rule, in every way there is.
apply_to_subgoals_pairwise(rules, app) ==
  LET extend(opened, k) ==
        Map(LAMBDA new : App(opened.subgoals \o new.subgoals, new.prf),
            Apply(rules[k], app.subgoals[k], opened.prf))
      apps[k \in 0 .. Len(rules)] ==
        IF k = 0 THEN <<App(<< >>, app.prf)>>
        ELSE Bind(LAMBDA opened : extend(opened, k), apps[k - 1])
  IN  IF Len(rules) = Len(app.subgoals) THEN apps[Len(rules)] ELSE << >>

compose_rules(r, r2, idx, prf) ==
  Bind(LAMBDA app : apply_to_subgoals_pairwise([k \in DOMAIN app.subgoals |-> r2], app),
       Apply(r, idx, prf))

compose_pairwise(r, rs, idx, prf) ==
  Bind(LAMBDA app : apply_to_subgoals_pairwise(rs, app), Apply(r, idx, prf))

choice(rl, idx, prf) == Bind(LAMBDA r : Apply(r, idx, prf), rl)

RECURSIVE first(_, _, _)
first(rl, idx, prf) ==
  IF rl = << >> THEN << >>
  ELSE The({IF apps # << >> THEN apps ELSE first(Tail(rl), idx, prf) :
              apps \in {Apply(Head(rl), idx, prf)}})

attempt(r, idx, prf) ==
  The({IF apps # << >> THEN apps ELSE identity(idx, prf) : apps \in {Apply(r, idx, prf)}})

conditional(cond, r, idx, prf) ==
  IF prf[idx].seq \in cond THEN Apply(r, idx, prf) ELSE << >>

Apply(r, idx, prf) ==
  CASE r.op = "axiom" -> mk_axiom(r.ax_f, idx, prf)
    [] r.op = "infrule" -> mk_infrule(r.r_f, idx, prf)
    [] r.op = "backrule" -> mk_backrule(r.greedy, r.sel_f, r.br_f, idx, prf)
    [] r.op = "fail" -> fail(idx, prf)
    [] r.op = "identity" -> identity(idx, prf)
    [] r.op = "compose" -> compose_rules(r.r, r.r2, idx, prf)
    [] r.op = "compose_pairwise" -> compose_pairwise(r.r, r.rs, idx, prf)
    [] r.op = "choice" -> choice(r.rl, idx, prf)
    [] r.op = "first" -> first(r.rl, idx, prf)
    [] r.op = "attempt" -> attempt(r.r, idx, prf)
    [] r.op = "conditional" -> conditional(r.cond, r.r, idx, prf)

Compose(r, r2) == [op |-> "compose", r |-> r, r2 |-> r2]

sequence(rl) == FoldRight(Compose, rl, [op |-> "identity"])

combine_axioms(ax, rl) ==
  [op |-> "first", rl |-> <<ax, Compose(rl, [op |-> "attempt", r |-> ax])>>]
=============================================================================
