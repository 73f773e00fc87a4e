------------------------------- MODULE MCAbducer -------------------------------
(* Searches of the abducer, with rules combined as in while/abdrules.ml: axioms, *)
(* back-links with and without abduction, inferences, and abduction of a         *)
(* definition that the next rule unfolds.                                        *)
EXTENDS Abducer

AR == INSTANCE Abdrule

Sq(form, tags) == [form |-> form, tags |-> tags]
R == Sq("r", {1})
P == Sq("p", {1})
Q == Sq("q", {1})
K == Sq("k", {})
Z == Sq("z", {})
L == Sq("l", {1, 2})
W == Sq("w", {1})

Seqs == {R, P, Q, K, Z, L, W}
Definitions == SUBSET {"back", "z", "unsat"}
MCAcceptable == {d \in Definitions : "unsat" \notin d}

Premise(seq, tv, tp) == [seq |-> seq, label |-> [tv |-> tv, tp |-> tp]]

\* R, Q and W branch; Q has a choice whose second premise needs abduction; L swaps
\* its tags and progresses on one.
Unfold(s) ==
  CASE s = R -> <<<<Premise(P, {<<1, 1>>}, {}), Premise(Q, {<<1, 1>>}, {})>>,
                  <<Premise(L, {<<1, 2>>}, {})>>>>
    [] s = P -> <<<<Premise(K, {}, {})>>>>
    [] s = Q -> <<<<Premise(K, {}, {}), Premise(Z, {}, {})>>, <<Premise(K, {}, {})>>>>
    [] s = L -> <<<<Premise(L, {<<1, 2>>, <<2, 1>>}, {<<1, 2>>}), Premise(K, {}, {})>>,
                  <<Premise(L, {<<1, 1>>}, {})>>>>
    [] s = W -> <<<<Premise(Z, {}, {}), Premise(R, {<<1, 1>>}, {}), Premise(Q, {}, {})>>,
                  <<Premise(W, {<<1, 1>>}, {<<1, 1>>}), Premise(P, {}, {})>>>>
    [] s \in {K, Z} -> << >>

Link(s, t) == IF s.form = t.form THEN <<IdentityPairs(s.tags)>> ELSE << >>

Lift(r) == [op |-> "lift", r |-> r]
Compose(r, r2) == [op |-> "compose", r |-> r, r2 |-> r2]

Axiom == Lift([op |-> "axiom", ax_f |-> {K}])
Inf == Lift([op |-> "infrule", r_f |-> [s \in Seqs |-> Unfold(s)]])
Matches ==
  Lift([op |-> "backrule", greedy |-> FALSE, sel_f |-> "all_nodes",
        br_f |-> [s, t \in Seqs |-> Link(s, t)]])
AbdBack ==
  [op |-> "abdbackrule", sel_f |-> "all_nodes",
   abr_f |-> [s, t \in Seqs, d \in Definitions |->
                IF s = L /\ t = L /\ "back" \notin d THEN <<d \cup {"back"}>> ELSE << >>]]
AbdZ ==
  [op |-> "abdinfrule",
   r |-> [s \in Seqs, d \in Definitions |->
            IF s = Z /\ "z" \notin d THEN <<d \cup {"z", "unsat"}, d \cup {"z"}>> ELSE << >>]]
GenZ ==
  [op |-> "abdgenrule",
   r |-> [s \in Seqs, d \in Definitions |->
            IF s = Z /\ "z" \in d
            THEN <<[subgoals |-> <<Premise(K, {}, {})>>, defs |-> d]>> ELSE << >>]]

Rules ==
  [op |-> "first",
   rl |-> <<Axiom,
            [op |-> "choice",
             rl |-> <<Matches,
                      Compose(AbdBack, Matches),
                      [op |-> "first",
                       rl |-> <<Inf, GenZ, Compose(AbdZ, [op |-> "attempt", r |-> GenZ])>>]>>]>>]

MCRule(idx, prf, defs) == AR!Apply(Rules, idx, prf, defs)

MCSearches == [seq : Seqs, maxbound : 1 .. 6]
=============================================================================
