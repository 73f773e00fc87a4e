-------------------------- MODULE SoundnessAutomaton --------------------------
(***************************************************************************)
(* The C++ side of the soundness check (generic/soundness.c, proof.c) and  *)
(* the OCaml function that drives it, the inner check_proof of             *)
(* soundcheck.ml.  The automaton under construction is a global variable   *)
(* of the process: create_aut makes it, one foreign call after the other   *)
(* fills it in, check_soundness decides containment, destroy_aut drops it. *)
(* Every foreign call asserts what it needs; a failed assertion aborts.    *)
(***************************************************************************)
EXTENDS ProofAutomata

CONSTANT
  Checks    \* the calls [prf, init] of the inner check_proof

\* Indices are natural numbers, tags integers, and the outer check_proof validates
\* every graph before it passes it on.
ASSUME ChecksAssumption ==
  \A g \in Checks :
    /\ IsFiniteSet(DOMAIN g.prf)
    /\ DOMAIN g.prf \subseteq Nat
    /\ \A i \in DOMAIN g.prf :
         /\ g.prf[i].tags \subseteq Int
         /\ \A j \in children(g.prf, i) : g.prf[i].subg[j].tv \subseteq TagPair
    /\ valid(g.prf, g.init)

VARIABLES
  proof,      \* the static variable proof; NoProof when it is null
  bdd_map,    \* the static variable bdd_map, from indices to vertices
  graph,      \* the arguments of the inner check_proof
  phase,      \* how far the inner check_proof has come
  items,      \* what the current iteration over the graph has still to visit
  retval,     \* the answer of check_soundness
  aborted     \* a C assertion failed

statics == <<proof, bdd_map>>
autvars == <<statics, graph, phase, items, retval, aborted>>

NoProof == Proof(-1)
NoMap == << >>

AutInit ==
  /\ proof = NoProof
  /\ bdd_map = NoMap
  /\ graph \in Checks
  /\ phase = "none"
  /\ items = {}
  /\ retval = FALSE
  /\ aborted = FALSE

-----------------------------------------------------------------------------
(* What the iterations over the graph visit. *)

edges == UNION {{<<i, j>> : j \in children(graph.prf, i)} : i \in DOMAIN graph.prf}

tagged == UNION {{<<i, t>> : t \in graph.prf[i].tags} : i \in DOMAIN graph.prf}

\* The quadruples passed to set_trace_pair and set_progress_pair.
pairs ==
  UNION {LET label == graph.prf[e[1]].subg[e[2]]
         IN  ({"trace"} \X {e} \X label.tv) \cup ({"progress"} \X {e} \X label.tp) :
           e \in edges}

\* A faulty variant: without a bit to spare, the vertex numbers do not fit.
log2size_Tight(size) == Min({c \in 0 .. size : pow2[c] >= size})

\* 1 + ceil(log2 size)
log2size(size) == 1 + Min({c \in 0 .. size : pow2[c] >= size})

-----------------------------------------------------------------------------
(* The foreign calls.  Each one either meets its assertions and changes the *)
(* static variables, or aborts.                                             *)

Foreign(assertion, new_proof, new_map) ==
  IF assertion
  THEN proof' = new_proof /\ bdd_map' = new_map /\ UNCHANGED aborted
  ELSE aborted' = TRUE /\ UNCHANGED statics

Known(v) == proof # NoProof /\ v \in DOMAIN bdd_map

\* A faulty variant: no assertion, and the progress pairs of a check that was cut
\* short stay.
create_aut_KeepsPairs(log2) ==
  Foreign(TRUE, [Proof(log2) EXCEPT !.progress_pairs = proof.progress_pairs], NoMap)

create_aut(log2) == Foreign(proof = NoProof, Proof(log2), bdd_map)

\* Vertices are numbered from 1.
create_vertex(v) ==
  Foreign(proof # NoProof /\ VertexFits(proof) /\ v \notin DOMAIN bdd_map,
          with_vertex(proof),
          [x \in DOMAIN bdd_map \cup {v} |-> IF x = v THEN new_vertex(proof) ELSE bdd_map[x]])

tag_vertex(v, t) ==
  Foreign(Known(v), with_tag(proof, bdd_map[v], t), bdd_map)

set_successor(v1, v2) ==
  Foreign(Known(v1) /\ Known(v2), with_successor(proof, bdd_map[v1], bdd_map[v2]), bdd_map)

set_initial_vertex(v) ==
  Foreign(Known(v), with_initial_vertex(proof, bdd_map[v]), bdd_map)

PairAssertion(e, p) ==
  /\ Known(e[1]) /\ Known(e[2])
  /\ PairTagged(proof, bdd_map[e[1]], bdd_map[e[2]], p[1], p[2])

set_trace_pair(e, p) ==
  Foreign(PairAssertion(e, p),
          with_trace_pair(proof, bdd_map[e[1]], bdd_map[e[2]], p[1], p[2]), bdd_map)

set_progress_pair(e, p) ==
  Foreign(PairAssertion(e, p),
          with_progress_pair(proof, bdd_map[e[1]], bdd_map[e[2]], p[1], p[2]), bdd_map)

destroy_aut == Foreign(proof # NoProof, NoProof, NoMap)

\* Spot copies the two automata and decides containment.  Module AutomatonCopy
\* takes this step apart.
check_soundness == TracesCoverPaths(proof)

-----------------------------------------------------------------------------
(* The inner check_proof, one foreign call at a time. *)

\* Leave an iteration for the next one.
Enter(next, visits) ==
  /\ items = {}
  /\ phase' = next
  /\ items' = visits
  /\ UNCHANGED <<statics, graph, retval, aborted>>

Visit(x) ==
  /\ items' = items \ {x}
  /\ UNCHANGED <<graph, phase, retval>>

BeginCheck(g) ==
  /\ phase = "none"
  /\ graph' = g
  /\ create_aut(log2size(Cardinality(DOMAIN g.prf)))
  /\ phase' = "vertices"
  /\ items' = DOMAIN g.prf
  /\ UNCHANGED retval

CreateVertices ==
  /\ phase = "vertices"
  /\ items # {}
  /\ create_vertex(Min(items))
  /\ Visit(Min(items))

CreateTags ==
  /\ phase = "tags"
  /\ \E x \in items : tag_vertex(x[1], x[2]) /\ Visit(x)

CreateSuccs ==
  /\ phase = "succs"
  /\ \E x \in items : set_successor(x[1], x[2]) /\ Visit(x)

SetInitial ==
  /\ phase = "succs"
  /\ items = {}
  /\ set_initial_vertex(graph.init)
  /\ phase' = "pairs"
  /\ items' = pairs
  /\ UNCHANGED <<graph, retval>>

CreateTracePairs ==
  /\ phase = "pairs"
  /\ \E x \in items :
       /\ \/ x[1] = "trace" /\ set_trace_pair(x[2], x[3])
          \/ x[1] = "progress" /\ set_progress_pair(x[2], x[3])
       /\ Visit(x)

CheckSoundness ==
  /\ phase = "pairs"
  /\ items = {}
  /\ retval' = check_soundness
  /\ phase' = "checked"
  /\ UNCHANGED <<statics, graph, items, aborted>>

EndCheck ==
  /\ phase = "checked"
  /\ destroy_aut
  /\ phase' = "none"
  /\ UNCHANGED <<graph, items, retval>>

\* The part of the inner check_proof in which the OCaml runtime allocates
\* memory, and so may run a signal handler between two foreign calls.
BuildAutomaton ==
  \/ CreateVertices
  \/ phase = "vertices" /\ Enter("tags", tagged)
  \/ CreateTags
  \/ phase = "tags" /\ Enter("succs", edges)
  \/ CreateSuccs
  \/ SetInitial
  \/ CreateTracePairs

-----------------------------------------------------------------------------
(* Properties *)

\* The foreign calls, in whatever order the iterations make them, rebuild the
\* graph that was passed in: its vertices without merging two of them, their tags
\* and successors, and the trace pairs and progress pairs of every edge.
GraphRebuilt ==
  phase = "checked" =>
    /\ IsProof(proof)
    /\ DOMAIN bdd_map = DOMAIN graph.prf /\ IsInjective(bdd_map)
    /\ proof.initial_vertex = bdd_map[graph.init]
    /\ \A v \in DOMAIN graph.prf :
         /\ proof.tag_map[bdd_map[v]] = graph.prf[v].tags
         /\ proof.trans_map[bdd_map[v]] = {bdd_map[w] : w \in children(graph.prf, v)}
         /\ \A w \in children(graph.prf, v) : \A t, u \in proof.tag_map[bdd_map[v]] \cup proof.tag_map[bdd_map[w]] :
              /\ trace_pair(proof, bdd_map[v], bdd_map[w], t, u)
                   <=> <<t, u>> \in graph.prf[v].subg[w].tv
              /\ progress_pair(proof, bdd_map[v], bdd_map[w], t, u)
                   <=> <<t, u>> \in graph.prf[v].subg[w].tp

\* Containment of the automata that walk the graph which the foreign calls have
\* rebuilt is the global trace condition of the graph that was passed in.
AnswerIsForGraph ==
  /\ GraphRebuilt
  /\ phase = "checked" => (retval <=> GloballySound(graph.prf, graph.init))
=============================================================================
