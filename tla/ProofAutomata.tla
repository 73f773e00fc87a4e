----------------------------- MODULE ProofAutomata -----------------------------
(***************************************************************************)
(* The C++ classes of the soundness check: the proof graph as a collection *)
(* of maps keyed by vertices (proof.hpp, proof.c), and the two automata    *)
(* that walk it on behalf of Spot: the proof automaton (proof_aut.hpp,     *)
(* proof_aut.c), whose runs are the paths of the proof, and the trace      *)
(* automaton (trace.hpp, trace.c), whose accepting runs are the infinitely *)
(* progressing traces along a path.                                        *)
(*                                                                         *)
(* A BDD over the propositions p_0, p_1, ... is the set of the valuations  *)
(* that satisfy it.  A valuation is the number whose bit i is p_i.         *)
(***************************************************************************)
EXTENDS AbstractProof

\* Powers of two.
pow2[n \in Nat] == IF n = 0 THEN 1 ELSE 2 * pow2[n - 1]

Bit(n, i) == (n \div pow2[i]) % 2

\* The conjunction over all propositions of p_i or its negation, after bit i of n.
vertex_bdd(log2, n) ==
  {l \in 0 .. pow2[log2] - 1 : \A i \in 0 .. log2 - 1 : Bit(l, i) = Bit(n, i)}

bddtrue(log2) == 0 .. pow2[log2] - 1
NO_VERTEX == {}
NO_TAG == 0

\* BuDDy shares the nodes of BDDs: two BDDs are equal iff their ids are.
id(b) == IF b = NO_VERTEX THEN 0 ELSE 2 + Min(b)

-----------------------------------------------------------------------------
(* class Proof *)

Proof(maxv_l2) ==
  [max_vertices_log2 |-> maxv_l2, max_tag |-> 0, last_vertex |-> 0,
   initial_vertex |-> NO_VERTEX, vertices |-> {}, trans_map |-> << >>,
   tag_map |-> << >>, trace_pairs |-> {}, progress_pairs |-> {}]

get_tags_of_vertex(p, v) == p.tag_map[v]

get_successors(p, v) == p.trans_map[v]

trace_pair(p, v1, v2, t1, t2) == <<v1, v2, t1, t2>> \in p.trace_pairs

progress_pair(p, v1, v2, t1, t2) == <<v1, v2, t1, t2>> \in p.progress_pairs

new_vertex(p) == vertex_bdd(p.max_vertices_log2, p.last_vertex + 1)

\* The number of the vertex must fit in the propositions.
VertexFits(p) == p.last_vertex + 1 < pow2[p.max_vertices_log2]

with_vertex(p) ==
  LET v == new_vertex(p)
      with_key(map) == [x \in DOMAIN map \cup {v} |-> IF x \in DOMAIN map THEN map[x] ELSE {}]
  IN  [p EXCEPT !.last_vertex = @ + 1,
                !.vertices = @ \cup {v},
                !.tag_map = with_key(@),
                !.trans_map = with_key(@)]

with_tag(p, v, t) ==
  [p EXCEPT !.max_tag = Max({@, t}), !.tag_map[v] = @ \cup {t}]

with_initial_vertex(p, v) == [p EXCEPT !.initial_vertex = v]

with_successor(p, v1, v2) == [p EXCEPT !.trans_map[v1] = @ \cup {v2}]

\* What set_trace_pair and set_progress_pair assert.
PairTagged(p, v1, v2, t1, t2) ==
  /\ {v1, v2} \subseteq p.vertices
  /\ t1 \in p.tag_map[v1]
  /\ t2 \in p.tag_map[v2]

with_trace_pair(p, v1, v2, t1, t2) ==
  [p EXCEPT !.trace_pairs = @ \cup {<<v1, v2, t1, t2>>}]

with_progress_pair(p, v1, v2, t1, t2) ==
  [p EXCEPT !.progress_pairs = @ \cup {<<v1, v2, t1, t2>>}]

\* The shape that the foreign calls leave a proof object in when all their assertions hold.
IsProof(p) ==
  /\ \A v \in p.vertices : \E n \in v : n \in Nat /\ v = {n}
  /\ DOMAIN p.tag_map = p.vertices
  /\ DOMAIN p.trans_map = p.vertices
  /\ \A v \in p.vertices : p.tag_map[v] \subseteq Int /\ p.trans_map[v] \subseteq p.vertices
  /\ p.initial_vertex \in p.vertices

-----------------------------------------------------------------------------
(* The states of the two automata.  A ProofState also refers to the tags of *)
(* its vertex, for printing.                                                *)

TraceState(v, t) == [class |-> "trace", vertex |-> v, tag |-> t]

ProofState(v) == [class |-> "proof", vertex |-> v, tag |-> NO_TAG]

ProofGhostState == [class |-> "ghost", vertex |-> NO_VERTEX, tag |-> NO_TAG]

initial(s) == s.vertex = NO_VERTEX /\ s.tag = NO_TAG

Order(m, n) == IF m < n THEN -1 ELSE IF m > n THEN 1 ELSE 0

\* The initial state comes first, then states are ordered by vertex and tag.
TraceCompare(s, r) ==
  IF initial(s) THEN IF initial(r) THEN 0 ELSE -1
  ELSE IF initial(r) THEN 1
  ELSE IF id(s.vertex) # id(r.vertex) THEN Order(id(s.vertex), id(r.vertex))
  ELSE Order(s.tag, r.tag)

ProofStateCompare(s, r) ==
  IF r.class = "ghost" THEN 1 ELSE Order(id(s.vertex), id(r.vertex))

ProofGhostStateCompare(r) == IF r.class = "proof" THEN -1 ELSE 0

compare(s, r) ==
  CASE s.class = "trace" -> TraceCompare(s, r)
    [] s.class = "proof" -> ProofStateCompare(s, r)
    [] s.class = "ghost" -> ProofGhostStateCompare(r)

-----------------------------------------------------------------------------
(* The automata: the initial state, the successors that an iterator visits, *)
(* and the letters and the acceptance mark of the transition to each.       *)

get_init_state(class) ==
  IF class = "trace" THEN TraceState(NO_VERTEX, NO_TAG) ELSE ProofGhostState

\* A faulty variant: the trace automaton does not wait.
TraceSuccessors_NoWaiting(p, s) ==
  IF initial(s)
  THEN UNION {{TraceState(v, t) : t \in get_tags_of_vertex(p, v)} : v \in p.vertices}
  ELSE UNION {{TraceState(v, t) :
                 t \in {u \in get_tags_of_vertex(p, v) : trace_pair(p, s.vertex, v, s.tag, u)}} :
                 v \in get_successors(p, s.vertex)}

\* The initial state waits, or picks a tag of any vertex; other states follow the
\* trace pairs.
TraceSuccessors(p, s) ==
  IF initial(s)
  THEN {TraceState(NO_VERTEX, NO_TAG)}
         \cup UNION {{TraceState(v, t) : t \in get_tags_of_vertex(p, v)} : v \in p.vertices}
  ELSE UNION {{TraceState(v, t) :
                 t \in {u \in get_tags_of_vertex(p, v) : trace_pair(p, s.vertex, v, s.tag, u)}} :
                 v \in get_successors(p, s.vertex)}

TraceCond(p, d) == IF d.vertex = NO_VERTEX THEN bddtrue(p.max_vertices_log2) ELSE d.vertex

TraceAcc(p, s, d) == progress_pair(p, s.vertex, d.vertex, s.tag, d.tag)

ProofSuccessors(p, s) == {ProofState(v) : v \in get_successors(p, s.vertex)}

ProofGhostSuccessors(p) == {ProofState(p.initial_vertex)}

succ_iter(p, s) ==
  CASE s.class = "trace" -> TraceSuccessors(p, s)
    [] s.class = "proof" -> ProofSuccessors(p, s)
    [] s.class = "ghost" -> ProofGhostSuccessors(p)

\* Every transition of the proof automaton is accepting.
Transition(p, s, d) ==
  [src |-> s, dst |-> d,
   cond |-> IF s.class = "trace" THEN TraceCond(p, d) ELSE d.vertex,
   acc |-> s.class = "trace" => TraceAcc(p, s, d)]

-----------------------------------------------------------------------------
(* What Spot makes of an automaton: the part that can be reached from the   *)
(* initial state, and containment of two such graphs.                       *)

StateSpace(p, class) ==
  IF class = "trace"
  THEN {get_init_state(class)}
         \cup UNION {{TraceState(v, t) : t \in p.tag_map[v]} : v \in p.vertices}
  ELSE {get_init_state(class)} \cup {ProofState(v) : v \in p.vertices}

Closed(p, S) == \A s \in S : succ_iter(p, s) \subseteq S

ReachableStates(p, class) ==
  {s \in StateSpace(p, class) :
     \A S \in SUBSET StateSpace(p, class) :
       (get_init_state(class) \in S /\ Closed(p, S)) => s \in S}

TransitionsFrom(p, S) == UNION {{Transition(p, s, d) : d \in succ_iter(p, s)} : s \in S}

ReachablePart(p, class) ==
  [states |-> ReachableStates(p, class),
   edges |-> TransitionsFrom(p, ReachableStates(p, class))]

\* States are numbered, the initial one with 0.
Number(g, s) == Cardinality({r \in g.states : compare(r, s) < 0})

\* How a graph moves on letter l, as a label.
Moves(g, l) ==
  LET on == {e \in g.edges : l \in e.cond}
      ends(es) == {<<Number(g, e.src), Number(g, e.dst)>> : e \in es}
  IN  [tv |-> ends(on), tp |-> ends({e \in on : e.acc})]

\* The transitions of small, each labelled with all the moves of big on the same
\* letter and, as the pair Own, with its own acceptance.
Own == <<-1, -1>>

Joint(big, small) ==
  UNION {{[src |-> Number(small, e.src), dst |-> Number(small, e.dst),
           label |-> [tv |-> moves.tv \cup {Own},
                      tp |-> moves.tp \cup {x \in {Own} : e.acc}]] :
            moves \in {Moves(big, l) : l \in e.cond}} : e \in small.edges}

\* Every word that small accepts is accepted by big.  Both languages are
\* omega-regular: it is enough to look at a walk u that leads to a loop whose
\* composite label is idempotent.
contains(big, small) ==
  \A joint \in {Joint(big, small)} : \A walks \in {Walks(joint)} :
    \A loop \in {w \in walks : w.src = w.dst /\ Own \in w.label.tp} :
      FuseLabels(loop.label, loop.label) = loop.label =>
        \A u \in {w \in walks : w.src = 0 /\ w.dst = loop.src} :
          \E p \in compose(u.label.tv, loop.label.tv) :
            p[1] = 0 /\ <<p[2], p[2]>> \in loop.label.tp

TracesCoverPaths(p) == contains(ReachablePart(p, "trace"), ReachablePart(p, "proof"))
=============================================================================
