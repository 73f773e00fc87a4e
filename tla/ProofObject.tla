------------------------------ MODULE ProofObject ------------------------------
(***************************************************************************)
(* The life of a proof object under the calls that the proof rules make    *)
(* (generic/proofrule.ml, procedure/rules.ml).  A search starts from an    *)
(* open root, applies axioms and inference rules to open nodes, forms      *)
(* back-links that pass the soundness check, and splices in proofs that    *)
(* earlier searches of the same process completed (the table proc_proofs). *)
(*                                                                         *)
(* add_subprf is a recursion over the spliced proof.  Its call stack is    *)
(* the sequence todo, and each call of its local function _add is a step;  *)
(* no other operation can run before it returns.                           *)
(***************************************************************************)
EXTENDS CyclicProof

CONSTANTS
  Sequents,    \* records [form, tags]
  Goals,       \* the sequents that searches start from
  Axioms,      \* the sequents an axiom closes
  InfRules,    \* sequent -> the rule applications, as sequences of [seq, label]
  BackRules,   \* <<source, target>> -> the valid tag pairs of possible back-links
  MaxNodes     \* bound: nodes in a proof

Subgoal == [seq : Sequents, label : Label]

ASSUME SequentsAssumption ==
  /\ Goals \subseteq Sequents
  /\ Goals # {}
  /\ Axioms \subseteq Sequents

\* Tags are variables (generic/tags.ml), which VarManager knows by integers.
ASSUME TagsAssumption ==
  \A s \in Sequents : s.tags \in SUBSET Int /\ IsFiniteSet(s.tags)

ASSUME RulesAssumption ==
  /\ \A s \in Sequents : InfRules[s] \subseteq Seq(Subgoal)
  /\ \A s, t \in Sequents : BackRules[<<s, t>>] \subseteq SUBSET TagPair

\* The tag pairs of a rule relate tags of its conclusion to tags of its premise.
PairsWithin(label, seq1, seq2) ==
  /\ label.tp \subseteq label.tv
  /\ label.tv \subseteq seq1.tags \X seq2.tags

ASSUME RuleTagsAssumption ==
  /\ \A s \in Sequents : \A app \in InfRules[s] : \A k \in DOMAIN app :
       PairsWithin(app[k].label, s, app[k].seq)
  /\ \A s, t \in Sequents : \A vtts \in BackRules[<<s, t>>] :
       vtts \subseteq s.tags \X t.tags

ASSUME MaxNodesAssumption == MaxNodes \in Nat

VARIABLES
  prf,        \* the proof under construction
  saved,      \* completed proofs
  pc,         \* "search", "between" two searches, or the phase of add_subprf:
              \* "copy", then "fix"
  src,        \* add_subprf: the proof being copied
  todo,       \* add_subprf: pairs <<index in src, index in prf>> still to visit
  node_map,   \* add_subprf: where the nodes of src went
  bls,        \* add_subprf: back-links of src, to be formed at the end
  failed      \* an assertion failed or Int.Map.find raised Not_found

splice == <<src, todo, node_map, bls>>
vars == <<prf, saved, pc, splice, failed>>

Init ==
  /\ \E seq \in Goals : prf = mk(seq)
  /\ saved = {}
  /\ pc = "search"
  /\ src = << >>
  /\ todo = << >>
  /\ node_map = << >>
  /\ bls = << >>
  /\ failed = FALSE

-----------------------------------------------------------------------------
(* Rule applications. *)

AddAxiom(idx) ==
  /\ pc = "search"
  /\ ensure_add(prf, idx)
  /\ prf[idx].seq \in Axioms
  /\ prf' = add_axiom(prf, idx)
  /\ UNCHANGED <<saved, pc, splice, failed>>

AddInf(idx) ==
  /\ pc = "search"
  /\ ensure_add(prf, idx)
  /\ \E subgoals \in InfRules[prf[idx].seq] :
       /\ Cardinality(DOMAIN prf) + Len(subgoals) <= MaxNodes
       /\ prf' = add_inf(prf, idx, subgoals)
  /\ UNCHANGED <<saved, pc, splice, failed>>

\* Faulty variants: the soundness check is left out; a bud or an axiom may be
\* turned into a back-link again.
AddBacklink_Unchecked(idx, target) ==
  /\ pc = "search"
  /\ ensure_add(prf, idx)
  /\ ensure_target(prf, idx, target)
  /\ \E vtts \in BackRules[<<prf[idx].seq, prf[target].seq>>] :
       prf' = add_backlink(prf, idx, target, vtts)
  /\ UNCHANGED <<saved, pc, splice, failed>>

AddBacklink_Again(idx, target) ==
  /\ pc = "search"
  /\ ~is_inf(prf[idx])
  /\ ensure_target(prf, idx, target)
  /\ \E vtts \in BackRules[<<prf[idx].seq, prf[target].seq>>] :
       prf' = add_backlink(prf, idx, target, vtts)
  /\ check(prf')
  /\ UNCHANGED <<saved, pc, splice, failed>>

\* mk_backrule keeps only the applications whose proof passes Proof.check.
AddBacklink(idx, target) ==
  /\ pc = "search"
  /\ ensure_add(prf, idx)
  /\ ensure_target(prf, idx, target)
  /\ \E vtts \in BackRules[<<prf[idx].seq, prf[target].seq>>] :
       prf' = add_backlink(prf, idx, target, vtts)
  /\ check(prf')
  /\ UNCHANGED <<saved, pc, splice, failed>>

\* A search succeeds, and its proof is kept.
Complete ==
  /\ pc = "search"
  /\ is_closed(prf)
  /\ saved' = saved \cup {prf}
  /\ pc' = "between"
  /\ UNCHANGED <<prf, splice, failed>>

Proved == {p[0].seq : p \in saved}

\* The next search is for a sequent that has no proof yet.
NextSearch(seq) ==
  /\ pc = "between"
  /\ seq \notin Proved
  /\ prf' = mk(seq)
  /\ pc' = "search"
  /\ UNCHANGED <<saved, splice, failed>>

-----------------------------------------------------------------------------
(* add_subprf p idx prf. *)

AddSubprf(idx, p) ==
  /\ pc = "search"
  /\ ensure_add(prf, idx)
  /\ p[0].seq = prf[idx].seq
  /\ Cardinality(DOMAIN prf) + Cardinality(DOMAIN p) - 1 <= MaxNodes
  /\ pc' = "copy"
  /\ src' = p
  /\ todo' = <<<<0, idx>>>>
  /\ node_map' = [i \in {0} |-> idx]
  /\ bls' = << >>
  /\ UNCHANGED <<prf, saved, failed>>

\* A faulty variant: a back-link is recorded under its old index.
CopyLeaf_OldIndex ==
  /\ pc = "copy"
  /\ todo # << >>
  /\ LET from == Head(todo)[1]
     IN  /\ ~is_inf(src[from])
         /\ prf' = IF is_axiom(src[from]) THEN add_axiom(prf, Head(todo)[2]) ELSE prf
         /\ bls' = IF is_backlink(src[from]) THEN <<<<from, from>>>> \o bls ELSE bls
  /\ todo' = Tail(todo)
  /\ UNCHANGED <<saved, pc, src, node_map, failed>>

\* _add on a node without premises of its own.
CopyLeaf ==
  /\ pc = "copy"
  /\ todo # << >>
  /\ LET from == Head(todo)[1]
         to == Head(todo)[2]
     IN  /\ ~is_inf(src[from])
         /\ prf' = IF is_axiom(src[from]) THEN add_axiom(prf, to) ELSE prf
         /\ bls' = IF is_backlink(src[from]) THEN <<Head(todo)>> \o bls ELSE bls
         /\ failed' = (failed \/ (is_axiom(src[from]) /\ ~ensure_add(prf, to)))
  /\ todo' = Tail(todo)
  /\ UNCHANGED <<saved, pc, src, node_map>>

\* A faulty variant: the copies of the premises are recorded in reverse order.
CopyInf_Reversed ==
  /\ pc = "copy"
  /\ todo # << >>
  /\ LET n == src[Head(todo)[1]]
         subgoals == [k \in DOMAIN n.succs |->
                        [seq |-> src[n.succs[k]].seq, label |-> n.tps[k]]]
         new == fresh_idxs(prf, subgoals)
     IN  /\ is_inf(n)
         /\ prf' = add_inf(prf, Head(todo)[2], subgoals)
         /\ node_map' = [i \in DOMAIN node_map \cup Range(n.succs) |->
                           IF i \in DOMAIN node_map THEN node_map[i]
                           ELSE new[Len(new) + 1 - (CHOOSE k \in DOMAIN new : n.succs[k] = i)]]
         /\ todo' = [k \in DOMAIN new |-> <<n.succs[k], new[k]>>] \o Tail(todo)
  /\ UNCHANGED <<saved, pc, src, bls, failed>>

\* _add on an inference: copy it, then visit its premises from left to right.
CopyInf ==
  /\ pc = "copy"
  /\ todo # << >>
  /\ LET from == Head(todo)[1]
         to == Head(todo)[2]
         n == src[from]
         subgoals == [k \in DOMAIN n.succs |->
                        [seq |-> src[n.succs[k]].seq, label |-> n.tps[k]]]
         new == fresh_idxs(prf, subgoals)
     IN  /\ is_inf(n)
         /\ failed' = (failed \/ ~ensure_add(prf, to))
         /\ prf' = add_inf(prf, to, subgoals)
         /\ node_map' = [i \in DOMAIN node_map \cup Range(n.succs) |->
                           IF i \in Range(n.succs)
                           THEN new[CHOOSE k \in DOMAIN n.succs : n.succs[k] = i]
                           ELSE node_map[i]]
         /\ todo' = [k \in DOMAIN n.succs |-> <<n.succs[k], new[k]>>] \o Tail(todo)
  /\ UNCHANGED <<saved, pc, src, bls>>

CopyEnds ==
  /\ pc = "copy"
  /\ todo = << >>
  /\ pc' = "fix"
  /\ UNCHANGED <<prf, saved, splice, failed>>

\* fix_bl: form the copy of a back-link once the copy of its target is known.
FixBacklink ==
  /\ pc = "fix"
  /\ bls # << >>
  /\ LET n == src[Head(bls)[1]]
         to == Head(bls)[2]
         target == n.succs[1]
     IN  IF /\ target \in DOMAIN node_map
            /\ ensure_add(prf, to)
            /\ ensure_target(prf, to, node_map[target])
         THEN /\ prf' = add_backlink(prf, to, node_map[target], n.tps[1].tv)
              /\ UNCHANGED failed
         ELSE /\ failed' = TRUE
              /\ UNCHANGED prf
  /\ bls' = Tail(bls)
  /\ UNCHANGED <<saved, pc, src, todo, node_map>>

AddSubprfReturns ==
  /\ pc = "fix"
  /\ bls = << >>
  /\ pc' = "search"
  /\ src' = << >>
  /\ node_map' = << >>
  /\ UNCHANGED <<prf, saved, todo, bls, failed>>

Next ==
  \/ \E idx \in DOMAIN prf :
       \/ AddAxiom(idx)
       \/ AddInf(idx)
       \/ \E target \in DOMAIN prf : AddBacklink(idx, target)
       \/ \E p \in saved : AddSubprf(idx, p)
  \/ Complete
  \/ \E seq \in Goals : NextSearch(seq)
  \/ CopyLeaf
  \/ CopyInf
  \/ CopyEnds
  \/ FixBacklink
  \/ AddSubprfReturns

Spec == Init /\ [][Next]_vars
-----------------------------------------------------------------------------
(* Properties *)

NodeType ==
  [par : Nat, kind : {"open", "axiom", "inf", "back"}, seq : Sequents,
   succs : Seq(Nat), tps : Seq(Label)]

\* Nodes, and the premises of the rule that closed each, are what the node
\* types of proofnode.ml allow.
NodesOK(p) ==
  \A i \in DOMAIN p :
    /\ p[i] \in NodeType
    /\ Len(p[i].tps) = Len(p[i].succs)
    /\ p[i].kind \in {"open", "axiom"} => p[i].succs = << >>
    /\ p[i].kind = "back" => Len(p[i].succs) = 1

TypeOK ==
  /\ NodesOK(prf)
  /\ \A p \in saved : NodesOK(p)
  /\ pc \in {"search", "between", "copy", "fix"}
  /\ failed \in BOOLEAN

\* The shape that the comment on Proof.t promises.  Indices are consecutive
\* from the root at 0 (fresh_idx relies on it), every index that a node holds
\* is the index of a node, every node but the root is a premise of its parent,
\* and its parent alone, and parents come before their premises; hence the
\* proof is connected and its tree part has no cycle.
Rooted(p) == fresh_idx(p) \in Nat /\ DOMAIN p = 0 .. fresh_idx(p) - 1 /\ 0 \in DOMAIN p

ParentsOK(p) ==
  /\ p[0].par = 0
  /\ \A i \in DOMAIN p \ {0} :
       /\ p[i].par \in DOMAIN p
       /\ p[i].par < i
       /\ is_inf(p[p[i].par])
       /\ \E k \in DOMAIN p[p[i].par].succs : p[p[i].par].succs[k] = i

PremisesOK(p) ==
  \A i \in DOMAIN p : is_inf(p[i]) =>
    /\ \A k \in DOMAIN p[i].succs :
         /\ p[i].succs[k] \in DOMAIN p
         /\ p[i].succs[k] > i
         /\ p[p[i].succs[k]].par = i
    /\ \A k, l \in DOMAIN p[i].succs : p[i].succs[k] = p[i].succs[l] => k = l

BacklinksOK(p) ==
  \A i \in DOMAIN p : is_backlink(p[i]) =>
    /\ p[i].succs[1] \in DOMAIN p
    /\ equal_upto_tags(p[i].seq, p[p[i].succs[1]].seq)

WellFormed(p) ==
  Rooted(p) /\ ParentsOK(p) /\ PremisesOK(p) /\ BacklinksOK(p)

\* Every proof, also one that add_subprf has copied only in part, is a tree
\* with back-links in the sense of the comment on Proof.t.
ProofWellFormed == WellFormed(prf) /\ \A p \in saved : WellFormed(p)

\* No call that add_subprf makes trips an assertion of the constructors or
\* looks up a back-link target that was not copied.
SpliceNeverFails == ~failed

\* What Proof.check hands to the soundness checker always passes the
\* validation of Soundcheck.check_proof (the assertion at its line 277).
ValidForChecker == valid(Abstract(prf), 0)

\* Only the formation of back-links is checked for soundness, and by then the
\* targets may still be open.  No later inference, and no splice of a sound
\* proof with its back-links, which are not checked, makes the proof unsound.
AlwaysSound == check(prf) /\ \A p \in saved : check(p)

\* The recursive test and the one that scans all nodes agree at the root.
ClosedAtRoot == is_closed_at(prf)[0] <=> is_closed(prf)

\* When add_subprf returns, node_map embeds the spliced proof: the copies have
\* the sequents, rules and tag pairs of their originals, and premises and
\* back-links lead to the copies of their originals.
SpliceIsCopy ==
  (pc = "fix" /\ bls = << >>) =>
    /\ DOMAIN node_map = DOMAIN src
    /\ \A i, j \in DOMAIN src : node_map[i] = node_map[j] => i = j
    /\ \A i \in DOMAIN src :
         LET n == src[i]
             c == prf[node_map[i]]
         IN  /\ c.kind = n.kind
             /\ c.seq = n.seq
             /\ c.tps = n.tps
             /\ c.succs = [k \in DOMAIN n.succs |-> node_map[n.succs[k]]]

\* Within one search a node keeps its index, its sequent and its parent, and
\* once it is closed nothing about it changes.
NodesPersist ==
  [][pc # "between" =>
       \A i \in DOMAIN prf :
         /\ i \in DOMAIN prf'
         /\ prf'[i].seq = prf[i].seq
         /\ prf'[i].par = prf[i].par
         /\ ~is_open(prf[i]) => prf'[i] = prf[i]]_vars
=============================================================================
