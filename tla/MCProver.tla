-------------------------------- MODULE MCProver --------------------------------
(* Searches over six sequents with  axioms, branching and looping inferences  *)
(* and back-links, combined as procedure/rules.ml combines its rules, and a    *)
(* recursive transcription of idfs to compare with.                            *)
EXTENDS Prover, ProofRule, TLC

A == [form |-> "a", tags |-> {1, 2}]
A1 == [form |-> "a", tags |-> {1}]
B == [form |-> "b", tags |-> {1}]
C == [form |-> "c", tags |-> {1}]
D == [form |-> "d", tags |-> {}]
E == [form |-> "e", tags |-> {}]

Premise(seq, tv, tp) == [seq |-> seq, label |-> [tv |-> tv, tp |-> tp]]

Seqs == {A, A1, B, C, D, E}

\* A branches and swaps its tags around; B progresses back to A; D only unfolds,
\* and no rule applies to E.
Unfold(s) ==
  CASE s = A -> <<<<Premise(D, {}, {})>>,
                  <<Premise(C, {<<1, 1>>}, {}),
                    Premise(A, {<<1, 2>>, <<2, 1>>}, {<<1, 2>>}),
                    Premise(B, {<<1, 1>>}, {})>>,
                  <<Premise(B, {<<2, 1>>}, {})>>>>
    [] s = A1 -> <<<<Premise(B, {<<1, 1>>}, {})>>>>
    [] s = B -> <<<<Premise(A1, {<<1, 1>>}, {})>>,
                  <<Premise(A, {<<1, 1>>, <<1, 2>>}, {<<1, 2>>}), Premise(C, {}, {})>>>>
    [] s \in {C, E} -> << >>
    [] s = D -> <<<<Premise(D, {}, {})>>>>

Link(s, t) ==
  IF equal_upto_tags(s, t)
  THEN <<IdentityPairs(s.tags \cap t.tags)>>
  ELSE << >>

Axiom == [op |-> "axiom", ax_f |-> {C}]
Inf == [op |-> "infrule", r_f |-> [s \in Seqs |-> Unfold(s)]]
Backl(greedy, sel_f) ==
  [op |-> "backrule", greedy |-> greedy, sel_f |-> sel_f,
   br_f |-> [s, t \in Seqs |-> Link(s, t)]]
First(rl) == [op |-> "first", rl |-> rl]
Choice(rl) == [op |-> "choice", rl |-> rl]

\* The rules, per goal: combined as in seplog/rules.ml (A), as in while/rules.ml
\* (A1, B), as in procedure/rules.ml (C, E), and unfolding two steps at a time (D).
Rules ==
  [goal \in Seqs |->
     CASE goal = A ->
            combine_axioms(Axiom,
              Choice(<<Backl(FALSE, "all_nodes"),
                       [op |-> "conditional", cond |-> Seqs \ {D}, r |-> Inf]>>))
       [] goal = A1 ->
            Choice(<<Backl(FALSE, "closed_nodes"),
                     Compose(Inf, [op |-> "attempt", r |-> Backl(TRUE, "ancestor_nodes")]),
                     [op |-> "compose_pairwise", r |-> Inf, rs |-> <<Inf, Axiom>>]>>)
       [] goal = B -> First(<<Backl(TRUE, "ancestor_nodes"), Inf>>)
       [] goal \in {C, E} -> combine_axioms(Axiom, Inf)
       [] goal = D ->
            Choice(<<Backl(FALSE, "syntactically_equal_nodes"), sequence(<<Inf, Inf>>)>>)]

MCAx(idx, prf) == Apply(Axiom, idx, prf)
MCRl(idx, prf) == Apply(Rules[prf[0].seq], idx, prf)

MCSearches == [seq : Seqs, bound : 0 .. 3, maxbound : {1, 4}]

\* The model checker's search, which unfolds definitions and has no back-links.
ModelUnfold ==
  (A :> <<<<Premise(B, {}, {}), Premise(C, {}, {})>>, <<Premise(C, {}, {})>>>>)
    @@ (B :> << >>)

ModelRl(idx, prf) == Apply([op |-> "infrule", r_f |-> ModelUnfold], idx, prf)

ModelSearches ==
  [seq : {A, B}, bound : {max_int}, maxbound : {max_int}]

-----------------------------------------------------------------------------
(* The text of dfs, with None as the empty set and Some p as {p}. *)

RECURSIVE dfs(_, _, _), find_map(_, _), fold(_, _, _)
dfs(b, idx, prf) ==
  LET closing == SelectSeq(Ax(idx, prf), LAMBDA app : app.subgoals = << >>)
  IN  IF b < 0 THEN {}
      ELSE IF closing # << >> THEN {Head(closing).prf}
      ELSE find_map(b, Rl(idx, prf))

find_map(b, apps) ==
  IF apps = << >> THEN {}
  ELSE LET found == fold(b, {Head(apps).prf}, Head(apps).subgoals)
       IN  IF found # {} THEN found ELSE find_map(b, Tail(apps))

fold(b, optprf, subgoals) ==
  IF subgoals = << >> THEN optprf
  ELSE UNION {fold(b, dfs(b - 1, Head(subgoals), p), Tail(subgoals)) : p \in optprf}

\* The search stops at the least bound at which dfs finds a proof, with the first
\* proof that dfs finds there; it returns None only if no bound within the limits
\* has a proof.
FirstProof ==
  LET proof(b) == dfs(b, 0, mk(args.seq))
  IN  pc = "done" =>
        IF ret = None
        THEN \A b \in args.bound .. args.maxbound : proof(b) = {}
        ELSE /\ proof(last_search_depth) = {ret}
             /\ \A b \in args.bound .. last_search_depth - 1 : proof(b) = {}
=============================================================================
