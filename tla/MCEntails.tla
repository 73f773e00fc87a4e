-------------------------------- MODULE MCEntails -------------------------------
(* Direct calls of the search, and executions in which the rules of the       *)
(* procedure prover ask for entailments, over the sequents of MCProver.       *)
EXTENDS Entails, MCProver

\* E is invalid; A1 and D take deeper searches, and D has no proof.
MCInvalid == {E}

MCJobs ==
  [rule : {"symex_empty"}, goals : {<<C, A1>>, <<E, C>>, <<C, E, C>>, <<A1>>}]
    \cup [rule : {"assert"}, goals : {<<A1>>, <<C>>, <<D>>}]
    \cup [rule : {"cut"}, goals : {<<A1>>, <<D>>, <<E>>}]

NoEntailments ==
  /\ ed \in EntlDepths
  /\ entl_depth = ed
  /\ entailment_table = << >>
  /\ epc = "idle"
  /\ job = NoJob
  /\ default_depth = 0
  /\ jobs = MaxJobs

MCInit == EntailsInit \/ (Init /\ NoEntailments)

MCFairSpec == MCInit /\ [][EntailsNext]_<<vars, evars>> /\ WF_pc(Advance)

-----------------------------------------------------------------------------
(* Properties *)

\* A proof of s within depth d, for an entailment.
HasProof == [s \in Seqs, d \in 1 .. 3 |-> dfs(d, 0, mk(s)) # {}]

ProvableWithin(s, d) == \E b \in 1 .. d : HasProof[s, b]

\* A failure is right: the table holds one at a depth only for a sequent that is
\* invalid or has no proof within that depth, and one without a limit only for a
\* sequent that is invalid; a rule is told "no" only for a sequent that is invalid
\* or has no proof within the depth of the option -ed, if that is a limit, whatever
\* was stored before at whatever depth.
FailuresRight ==
  /\ \A s \in DOMAIN entailment_table :
       LET entry == entailment_table[s]
       IN  entry.prf = None =>
             s \in Invalid \/ (entry.depth > 0 /\ ~ProvableWithin(s, entry.depth))
  /\ (epc = "answered" /\ ret = None) =>
       Goal \in Invalid \/ (ed > 0 /\ ~ProvableWithin(Goal, ed))
=============================================================================
