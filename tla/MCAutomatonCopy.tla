---------------------------- MODULE MCAutomatonCopy ----------------------------
(* Proof objects built by the methods of Proof from small graphs: one vertex   *)
(* with two tags and any loop, two vertices with one tag and any edges, two    *)
(* vertices with two tags on a cycle, and graphs with leaves, unreachable      *)
(* vertices and vertices without tags.                                         *)
EXTENDS AutomatonCopy, TLC

Lab(tv, tp) == [tv |-> tv, tp |-> tp]
N(tags, subg) == [tags |-> tags, subg |-> subg]

Labels(pairs) == UNION {{Lab(tv, tp) : tp \in SUBSET tv} : tv \in SUBSET pairs}
Two == {1, 2} \X {1, 2}
Swap == Lab({<<1, 2>>, <<2, 1>>}, {<<1, 2>>})
Keep == Lab({<<1, 1>>}, {})
Move == Lab({<<1, 1>>, <<1, 2>>, <<2, 2>>}, {<<1, 2>>})

Premises(nodes, labels) == UNION {[cs -> labels] : cs \in SUBSET nodes}

Graphs ==
  {0 :> N({1, 2}, 0 :> l) : l \in Labels(Two)}
  \cup {(0 :> N({1}, f)) @@ (1 :> N({1}, g)) :
          f \in Premises({0, 1}, Labels({<<1, 1>>})),
          g \in Premises({0, 1}, Labels({<<1, 1>>}))}
  \cup {(0 :> N({1, 2}, 1 :> l)) @@ (1 :> N({1, 2}, 0 :> k)) :
          l \in {x \in Labels(Two) : x.tp \subseteq {<<1, 2>>}}, k \in {Swap, Move}}
  \cup {(0 :> N({1}, 1 :> Keep)) @@ (1 :> N({1, 2}, 1 :> k)) @@ (2 :> N({}, f)) :
          k \in {Swap, Move, Keep},
          f \in Premises({0, 2}, {Lab({}, {})})}

\* The methods of Proof, called in the order of the inner check_proof.
V(i) == {i + 1}
Vertices(prf) == FoldSet(LAMBDA i, p : with_vertex(p), Proof(3), DOMAIN prf)
Tags(prf, p0) ==
  FoldSet(LAMBDA x, p : with_tag(p, V(x[1]), x[2]), p0,
          UNION {{i} \X prf[i].tags : i \in DOMAIN prf})
Succs(prf, p0) ==
  FoldSet(LAMBDA e, p : with_successor(p, V(e.src), V(e.dst)), p0, Edges(prf))
TracePairs(prf, p0) ==
  FoldSet(LAMBDA x, p : with_trace_pair(p, V(x[1].src), V(x[1].dst), x[2][1], x[2][2]), p0,
          UNION {{e} \X e.label.tv : e \in Edges(prf)})
ProgressPairs(prf, p0) ==
  FoldSet(LAMBDA x, p : with_progress_pair(p, V(x[1].src), V(x[1].dst), x[2][1], x[2][2]), p0,
          UNION {{e} \X e.label.tp : e \in Edges(prf)})

Build(g) ==
  {ProgressPairs(g, p5) : p5 \in
    {TracePairs(g, p4) : p4 \in
      UNION {{with_initial_vertex(p3, V(i)) : i \in DOMAIN g} : p3 \in
        {Succs(g, p2) : p2 \in {Tags(g, p1) : p1 \in {Vertices(g)}}}}}}

MCProofs == UNION {Build(g) : g \in Graphs}
=============================================================================
