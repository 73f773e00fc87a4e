------------------------------- MODULE SoundCheck -------------------------------
(***************************************************************************)
(* Soundcheck.check_proof: validate, minimise, look up in the cache, and   *)
(* otherwise run the automata-theoretic check and remember its answer.     *)
(* One process of the prover (or of checkproof) makes many calls, one      *)
(* after the other, that share the cache.  Every iteration of the two      *)
(* minimisation loops is a step.                                           *)
(***************************************************************************)
EXTENDS AbstractProof

CONSTANTS
  Requests,    \* the calls a client makes: records [prf, init]
  MaxCalls     \* bound: calls made by one process

ASSUME RequestsAssumption == Requests # {}

ASSUME MaxCallsAssumption == MaxCalls \in Nat \ {0}

\* How the provers call check_proof, through Proof.check: an abstract proof has
\* natural numbers as indices, is valid, and has its root at 0.
RootedClient ==
  \A r \in Requests :
    /\ r.init = 0
    /\ DOMAIN r.prf \subseteq Nat
    /\ DOMAIN r.prf = {} \/ valid(r.prf, 0)

\* How any process calls it: the indices are natural numbers (checkproof numbers
\* the nodes from 1 on).
NumberedClient == \A r \in Requests : DOMAIN r.prf \subseteq Nat

\* What the types of soundcheck.ml say of an abstract proof: a finite map whose
\* nodes have finite sets of integers as tags and pairs of tags on their edges.
TypedClient ==
  \A r \in Requests :
    /\ IsFiniteSet(DOMAIN r.prf)
    /\ \A n \in DOMAIN r.prf :
         /\ r.prf[n].tags \in SUBSET Int
         /\ IsFiniteSet(r.prf[n].tags)
         /\ \A i \in children(r.prf, n) : r.prf[n].subg[i] \in Label

VARIABLES
  pc,        \* control state of check_proof
  req,       \* the arguments of the current call
  work,      \* !prf of the minimiser: the graph being minimised
  ccache,    \* Hashtbl from minimised proofs to answers
  verdict,   \* the answer of the last call
  calls      \* number of calls made so far

vars == <<pc, req, work, ccache, verdict, calls>>

Init ==
  /\ pc = "idle"
  /\ req = CHOOSE r \in Requests : TRUE
  /\ work = << >>
  /\ ccache = {}
  /\ verdict = TRUE
  /\ calls = 0

-----------------------------------------------------------------------------

IsEmpty(prf) == DOMAIN prf = {}

\* A faulty variant: the arguments of the previous call stay in place.
Call_StaleArguments(r) ==
  /\ pc = "idle"
  /\ calls < MaxCalls
  /\ calls' = calls + 1
  /\ work' = r.prf
  /\ pc' = "dead"
  /\ UNCHANGED <<req, ccache, verdict>>

\* The entry of check_proof, up to the call of minimize_abs_proof.
Call(r) ==
  /\ pc = "idle"
  /\ calls < MaxCalls
  /\ calls' = calls + 1
  /\ req' = r
  /\ work' = r.prf
  /\ IF IsEmpty(r.prf)
     THEN pc' = "return" /\ verdict' = TRUE
     ELSE /\ pc' = IF valid(r.prf, r.init) THEN "dead" ELSE "assert_failed"
          /\ UNCHANGED verdict
  /\ UNCHANGED ccache

\* An iteration of remove_dead_nodes; Map.find_map meets the least index first.
RemoveDeadNode ==
  /\ pc = "dead"
  /\ DeadNodes(work) # {}
  /\ work' = remove_dead_node(work, Min(DeadNodes(work)))
  /\ UNCHANGED <<pc, req, ccache, verdict, calls>>

\* A faulty variant: the loop may stop early.
RemoveDeadNodesEnds_Early ==
  /\ pc = "dead"
  /\ pc' = "fuse"
  /\ UNCHANGED <<req, work, ccache, verdict, calls>>

RemoveDeadNodesEnds ==
  /\ pc = "dead"
  /\ DeadNodes(work) = {}
  /\ pc' = "fuse"
  /\ UNCHANGED <<req, work, ccache, verdict, calls>>

\* An iteration of fuse_single_nodes.
FuseSingleNode ==
  /\ pc = "fuse"
  /\ SingleNodes(work, req.init) # {}
  /\ work' = fuse_node(work, Min(SingleNodes(work, req.init)))
  /\ UNCHANGED <<pc, req, ccache, verdict, calls>>

\* The end of minimisation and the second validation.
FuseSingleNodesEnds ==
  /\ pc = "fuse"
  /\ SingleNodes(work, req.init) = {}
  /\ IF IsEmpty(work)
     THEN pc' = "return" /\ verdict' = TRUE
     ELSE /\ pc' = IF valid(work, req.init) THEN "lookup" ELSE "assert_failed"
          /\ UNCHANGED verdict
  /\ UNCHANGED <<req, work, ccache, calls>>

\* A faulty variant: the key of the entry is not compared.
CacheHit_AnyKey ==
  /\ pc = "lookup"
  /\ \E entry \in ccache : verdict' = entry.answer
  /\ pc' = "return"
  /\ UNCHANGED <<req, work, ccache, calls>>

CacheHit ==
  /\ pc = "lookup"
  /\ \E entry \in ccache : entry.prf = work /\ verdict' = entry.answer
  /\ pc' = "return"
  /\ UNCHANGED <<req, work, ccache, calls>>

\* A faulty variant: the root is taken to be at 0.
CacheMiss_RootAtZero ==
  /\ pc = "lookup"
  /\ verdict' = GloballySound(work, 0)
  /\ ccache' = ccache \cup {[prf |-> work, answer |-> verdict']}
  /\ pc' = "return"
  /\ UNCHANGED <<req, work, calls>>

\* The table compares balanced trees and premise lists structurally, so it may
\* also miss a proof that is in it under another shape.
CacheMiss ==
  LET answer == GloballySound(work, req.init) IN
  /\ pc = "lookup"
  /\ verdict' = answer
  /\ ccache' = ccache \cup {[prf |-> work, answer |-> answer]}
  /\ pc' = "return"
  /\ UNCHANGED <<req, work, calls>>

Return ==
  /\ pc = "return"
  /\ pc' = "idle"
  /\ UNCHANGED <<req, work, ccache, verdict, calls>>

CheckProof ==
  \/ RemoveDeadNode
  \/ RemoveDeadNodesEnds
  \/ FuseSingleNode
  \/ FuseSingleNodesEnds
  \/ CacheHit
  \/ CacheMiss
  \/ Return

Next ==
  \/ \E r \in Requests : Call(r)
  \/ CheckProof

Spec == Init /\ [][Next]_vars

\* The code of check_proof is sequential and never waits.
FairSpec == Spec /\ WF_vars(CheckProof)

-----------------------------------------------------------------------------
(* Properties *)

\* The control states are those of check_proof, and a call never has more
\* nodes in the graph under minimisation than its argument has.
TypeOK ==
  /\ pc \in {"idle", "dead", "fuse", "lookup", "return", "assert_failed"}
  /\ req.init \in Int
  /\ verdict \in BOOLEAN
  /\ calls \in 0 .. MaxCalls
  /\ pc \in {"dead", "fuse", "lookup"} => DOMAIN work \subseteq DOMAIN req.prf

\* The two "assert false" of check_proof (lines 277 and 286) are never reached:
\* minimisation keeps the initial node, the edges and the tag pairs valid.
AssertionsHold == pc # "assert_failed"

\* No iteration of the minimiser changes the answer: the graph being minimised
\* meets the global trace condition iff the graph that was passed in does.
MinimisePreservesSoundness ==
  pc \in {"dead", "fuse", "lookup"} =>
    (GloballySound(work, req.init) <=> GloballySound(req.prf, req.init))

\* check_proof answers as the global trace condition of its own argument says,
\* whatever earlier calls left in the cache.
VerdictCorrect ==
  pc = "return" => (verdict <=> GloballySound(req.prf, req.init))

\* The loops that the paths from the initial node of a proof lead to.
LoopsFrom(prf, init) ==
  LET walks == Walks(Edges(prf))
  IN  {w \in walks : w.src = w.dst /\ w.src \in ReachableFrom(walks, init)}

\* remove_dead_nodes spares index 0, which need not be the initial node, and what
\* is left without the initial node fails the second validation (line 286).  That
\* happens to no proof in which a loop is to be judged: check_proof gives up on a
\* valid argument only if no path from its initial node leads to a loop.
GivesUpWithoutLoop ==
  (pc = "assert_failed" /\ valid(req.prf, req.init)) => LoopsFrom(req.prf, req.init) = {}

\* What minimisation promises: once the first loop has ended, every node but the
\* one at index 0 has a premise, and the fusion loop takes no node its last one.
NoDeadNodesAfterFusion ==
  pc \in {"fuse", "lookup"} => DeadNodes(work) = {}

\* Both loops end: every call that is made returns.
EveryCallReturns == (pc = "dead") ~> (pc = "return")
=============================================================================
