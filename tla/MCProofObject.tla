----------------------------- MODULE MCProofObject -----------------------------
(* An instance of ProofObject: two forms, two tags, and rules that keep,       *)
(* progress, swap and lose traces.                                             *)
EXTENDS ProofObject

A == [form |-> "a", tags |-> {1, 2}]
A1 == [form |-> "a", tags |-> {1}]
B == [form |-> "b", tags |-> {1}]

MCSequents == {A, A1, B}
MCGoals == {A, B}
MCAxioms == {B}

Premise(seq, tv, tp) == [seq |-> seq, label |-> [tv |-> tv, tp |-> tp]]

MCInfRules ==
  [s \in MCSequents |->
     CASE s = A -> {<<Premise(B, {<<1, 1>>}, {}),
                      Premise(A, {<<1, 2>>, <<2, 1>>}, {<<1, 2>>})>>,
                    <<Premise(A1, {<<1, 1>>}, {<<1, 1>>})>>}
       [] s = A1 -> {<<Premise(B, {<<1, 1>>}, {})>>}
       [] s = B -> {<<Premise(A1, {<<1, 1>>}, {})>>,
                    <<Premise(A, {<<1, 2>>}, {<<1, 2>>})>>}]

\* A back-link identifies the tags that both ends have, or traces nothing.
MCBackRules ==
  [st \in MCSequents \X MCSequents |->
     {IdentityPairs(st[1].tags \cap st[2].tags), {}}]
=============================================================================
