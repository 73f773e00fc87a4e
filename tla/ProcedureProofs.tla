---------------------------- MODULE ProcedureProofs ----------------------------
(***************************************************************************)
(* The procedure prover (procedure/prove.ml) on top of ProofObject: after  *)
(* a successful search it extracts, from the proof found, a proof of every *)
(* procedure-call sequent that the proof unfolds, and keeps these too for  *)
(* later searches to splice in.                                            *)
(*                                                                         *)
(* extract_subproof rearranges the proof so that an inner node becomes its *)
(* root.  As with add_subprf, each call of the recursive _extract is a     *)
(* step, todo is the call stack and src the proof being rearranged; prf is *)
(* the result under construction (no search runs meanwhile).               *)
(***************************************************************************)
EXTENDS ProofObject

\* The back-links that the procedure rules form: transform_seq first rewrites
\* the bud into the target, and every tag of the target then traces itself.
ASSUME StrictBacklinksAssumption ==
  \A s, t \in Sequents : \A vtts \in BackRules[<<s, t>>] :
    s = t /\ vtts = IdentityPairs(t.tags)

\* extract_proof, for an unfolded procedure call without a proof of its own.
\* It runs between searches.
ExtractSubproof(p, idx) ==
  /\ pc = "between"
  /\ is_inf(p[idx])
  /\ p[idx].seq \in Goals \ Proved
  /\ pc' = "extract"
  /\ src' = p
  /\ prf' = mk(p[idx].seq)
  /\ todo' = <<<<idx, 0>>>>
  /\ node_map' = << >>
  /\ UNCHANGED <<saved, bls, failed>>

Mapped(from, to) ==
  [i \in DOMAIN node_map \cup {from} |-> IF i = from THEN to ELSE node_map[i]]

\* Form a back-link of the result, if the assertions of add_backlink allow it.
LinkResult(to, target, vtts) ==
  IF ensure_add(prf, to) /\ ensure_target(prf, to, target)
  THEN prf' = add_backlink(prf, to, target, vtts) /\ UNCHANGED failed
  ELSE failed' = TRUE /\ UNCHANGED prf

\* Faulty variants: the link is made to the root of the result; its tag pairs
\* are those of the root.
ExtractVisited_ToRoot ==
  /\ pc = "extract"
  /\ todo # << >>
  /\ Head(todo)[1] \in DOMAIN node_map
  /\ LinkResult(Head(todo)[2], 0,
                IdentityPairs(src[Head(todo)[1]].seq.tags \cap prf[0].seq.tags))
  /\ todo' = Tail(todo)
  /\ UNCHANGED <<saved, pc, src, node_map, bls>>

ExtractVisited_RootTags ==
  /\ pc = "extract"
  /\ todo # << >>
  /\ LET from == Head(todo)[1]
     IN  /\ from \in DOMAIN node_map
         /\ LinkResult(Head(todo)[2], node_map[from], IdentityPairs(src[0].seq.tags))
  /\ todo' = Tail(todo)
  /\ UNCHANGED <<saved, pc, src, node_map, bls>>

\* A node met for the second time becomes a back-link to its first copy.
ExtractVisited ==
  /\ pc = "extract"
  /\ todo # << >>
  /\ LET from == Head(todo)[1]
         to == Head(todo)[2]
     IN  /\ from \in DOMAIN node_map
         /\ LinkResult(to, node_map[from], IdentityPairs(src[from].seq.tags))
  /\ todo' = Tail(todo)
  /\ UNCHANGED <<saved, pc, src, node_map, bls>>

\* An axiom is copied; an open node is left open.
ExtractLeaf ==
  /\ pc = "extract"
  /\ todo # << >>
  /\ LET from == Head(todo)[1]
         to == Head(todo)[2]
         n == src[from]
     IN  /\ from \notin DOMAIN node_map
         /\ is_open(n) \/ is_axiom(n)
         /\ prf' = IF is_axiom(n) THEN add_axiom(prf, to) ELSE prf
         /\ failed' = (failed \/ (is_axiom(n) /\ ~ensure_add(prf, to)))
         /\ node_map' = Mapped(from, to)
  /\ todo' = Tail(todo)
  /\ UNCHANGED <<saved, pc, src, bls>>

\* A faulty variant: the bud is visited again in place of its target.
ExtractBacklink_BudAgain ==
  /\ pc = "extract"
  /\ todo # << >>
  /\ LET from == Head(todo)[1]
         target == src[from].succs[1]
     IN  /\ from \notin DOMAIN node_map
         /\ is_backlink(src[from])
         /\ IF target \in DOMAIN node_map
            THEN /\ LinkResult(Head(todo)[2], node_map[target], src[from].tps[1].tv)
                 /\ todo' = Tail(todo)
            ELSE UNCHANGED <<prf, failed, todo>>
  /\ UNCHANGED <<saved, pc, src, node_map, bls>>

\* A back-link is kept if its target is in the result; otherwise the target
\* takes its place.
ExtractBacklink ==
  /\ pc = "extract"
  /\ todo # << >>
  /\ LET from == Head(todo)[1]
         to == Head(todo)[2]
         target == src[from].succs[1]
     IN  /\ from \notin DOMAIN node_map
         /\ is_backlink(src[from])
         /\ node_map' = Mapped(from, to)
         /\ IF target \in DOMAIN node_map'
            THEN /\ LinkResult(to, node_map'[target], src[from].tps[1].tv)
                 /\ todo' = Tail(todo)
            ELSE /\ todo' = <<<<target, to>>>> \o Tail(todo)
                 /\ UNCHANGED <<prf, failed>>
  /\ UNCHANGED <<saved, pc, src, bls>>

\* A faulty variant: it is not asked whether the node has been copied before.
ExtractInf_Again ==
  /\ pc = "extract"
  /\ todo # << >>
  /\ LET from == Head(todo)[1]
         to == Head(todo)[2]
         n == src[from]
         subgoals == [k \in DOMAIN n.succs |->
                        [seq |-> src[n.succs[k]].seq, label |-> n.tps[k]]]
     IN  /\ is_inf(n)
         /\ prf' = add_inf(prf, to, subgoals)
         /\ node_map' = Mapped(from, to)
         /\ todo' = [k \in DOMAIN n.succs |-> <<n.succs[k], fresh_idx(prf) + k - 1>>] \o Tail(todo)
  /\ UNCHANGED <<saved, pc, src, bls, failed>>

ExtractInf ==
  /\ pc = "extract"
  /\ todo # << >>
  /\ LET from == Head(todo)[1]
         to == Head(todo)[2]
         n == src[from]
         subgoals == [k \in DOMAIN n.succs |->
                        [seq |-> src[n.succs[k]].seq, label |-> n.tps[k]]]
         new == fresh_idxs(prf, subgoals)
     IN  /\ from \notin DOMAIN node_map
         /\ is_inf(n)
         /\ failed' = (failed \/ ~ensure_add(prf, to))
         /\ prf' = add_inf(prf, to, subgoals)
         /\ node_map' = Mapped(from, to)
         /\ todo' = [k \in DOMAIN n.succs |-> <<n.succs[k], new[k]>>] \o Tail(todo)
  /\ UNCHANGED <<saved, pc, src, bls>>

\* The result is kept.
ExtractReturns ==
  /\ pc = "extract"
  /\ todo = << >>
  /\ saved' = saved \cup {prf}
  /\ pc' = "between"
  /\ src' = << >>
  /\ node_map' = << >>
  /\ UNCHANGED <<prf, todo, bls, failed>>

Extract ==
  \/ ExtractVisited
  \/ ExtractLeaf
  \/ ExtractBacklink
  \/ ExtractInf
  \/ ExtractReturns

PNext ==
  \/ Next
  \/ \E p \in saved : \E idx \in DOMAIN p : ExtractSubproof(p, idx)
  \/ Extract

PSpec == Init /\ [][PNext]_vars

\* Extraction is a sequential recursion that waits for nothing.
FairPSpec == PSpec /\ WF_vars(Extract)

-----------------------------------------------------------------------------
(* Properties *)

\* The result of extraction, like every proof that is kept, is closed: a later
\* splice leaves no open node behind.
SavedClosed == \A p \in saved : is_closed(p)

\* Extraction, which builds its proof with the same constructors as a search but
\* in the order of another proof, keeps what holds of every proof: no assertion of
\* the constructors fails, nodes form a tree with back-links to matching sequents,
\* the soundness checker accepts the graph, the proofs that are kept are closed, and
\* the global trace condition holds although nothing checks it again.
ProofsStayGood ==
  SpliceNeverFails /\ ProofWellFormed /\ ValidForChecker /\ SavedClosed /\ AlwaysSound

\* Back-links of the result, and of every proof that is kept, join equal
\* sequents, so that extraction may put a target in place of its bud.
StrictBuds ==
  \A p \in saved \cup {prf} : \A i \in DOMAIN p :
    is_backlink(p[i]) => p[i].seq = p[p[i].succs[1]].seq

\* Extraction copies no node of the source twice: every axiom and inference of the
\* result is the copy that node_map holds of a node of the source with the same
\* sequent and rule, and of no other node that is not a bud.  A second copy would
\* take the place of the first one in node_map; what is met again becomes a
\* back-link.
ExtractShares ==
  pc = "extract" =>
    \A j \in DOMAIN prf : is_axiom(prf[j]) \/ is_inf(prf[j]) =>
      \E i \in DOMAIN node_map :
        /\ node_map[i] = j
        /\ src[i].kind = prf[j].kind
        /\ src[i].seq = prf[j].seq
        /\ \A k \in DOMAIN node_map : node_map[k] = j => k = i \/ is_backlink(src[k])

\* Extraction ends, although it follows back-links around the cycles of the
\* source.
ExtractionEnds == (pc = "extract") ~> (todo = << >>)
=============================================================================
