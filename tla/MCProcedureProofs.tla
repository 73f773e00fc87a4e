--------------------------- MODULE MCProcedureProofs ---------------------------
(* An instance of ProcedureProofs: two specifications of a procedure, equal up  *)
(* to tags, that call each other and themselves; back-links join equal sequents. *)
EXTENDS ProcedureProofs

F == [form |-> "f", tags |-> {1, 2}]
G == [form |-> "f", tags |-> {1}]
S == [form |-> "skip", tags |-> {}]

MCSequents == {F, G, S}
MCGoals == {F, G}
MCAxioms == {S}

Premise(seq, tv, tp) == [seq |-> seq, label |-> [tv |-> tv, tp |-> tp]]

MCInfRules ==
  [s \in MCSequents |->
     CASE s = F -> {<<Premise(G, {<<1, 1>>}, {<<1, 1>>})>>,
                    <<Premise(F, {<<1, 2>>, <<2, 1>>}, {<<1, 2>>})>>}
       [] s = G -> {<<Premise(S, {}, {}), Premise(G, {<<1, 1>>}, {<<1, 1>>})>>,
                    <<Premise(F, {<<1, 1>>}, {}), Premise(F, {<<1, 2>>}, {<<1, 2>>})>>}
       [] s = S -> {}]

MCBackRules ==
  [st \in MCSequents \X MCSequents |->
     IF st[1] = st[2] THEN {IdentityPairs(st[2].tags)} ELSE {}]
=============================================================================
