----------------------------- MODULE AbstractProof -----------------------------
(***************************************************************************)
(* Abstract proofs (generic/soundcheck.ml): the graph that the soundness   *)
(* checker sees of a cyclic proof.  An abstract proof maps the index of    *)
(* each node to its set of tags and its premises.  The code keeps the      *)
(* premises in a list of triples (child, tv, tp); no list ever names a     *)
(* child twice, so the list is a function from children to labels here.    *)
(* A label holds the valid tag transitions tv and, among them, the         *)
(* progressing ones tp.                                                    *)
(*                                                                         *)
(* The loops of the minimiser appear as the operators that perform one     *)
(* iteration (module SoundCheck runs them).  GloballySound states the      *)
(* global trace condition that soundness.c decides with Spot.              *)
(***************************************************************************)
EXTENDS Integers, FiniteSets, Functions, FiniteSetsExt

TagPair == Int \X Int

Label == [tv : SUBSET TagPair, tp : SUBSET TagPair]

-----------------------------------------------------------------------------
(* Composition of sets of pairs, and of the labels of two adjacent edges. *)

compose(t1, t2) ==
  {<<pq[1][1], pq[2][2]>> : pq \in {xs \in t1 \X t2 : xs[1][2] = xs[2][1]}}

\* A composite trace progresses when either half does.
FuseLabels(a, b) ==
  [tv |-> compose(a.tv, b.tv),
   tp |-> compose(a.tp, b.tp) \cup compose(a.tv, b.tp) \cup compose(a.tp, b.tv)]

-----------------------------------------------------------------------------
(* Accessors. *)

children(prf, idx) == DOMAIN prf[idx].subg

is_leaf(prf, idx) == children(prf, idx) = {}

in_children(prf, child, idx) == child \in children(prf, idx)

\* Has one child and is not a self loop.
is_single_node(prf, idx) ==
  \E child \in children(prf, idx) \ {idx} : children(prf, idx) = {child}

\* Some parent of idx already has an edge to the only child of idx.
fathers_grandchild(prf, idx) ==
  \E par \in DOMAIN prf, child \in children(prf, idx) :
    in_children(prf, idx, par) /\ in_children(prf, child, par)

-----------------------------------------------------------------------------
(* The check made before and after minimisation. *)

valid_premise(prf, n, i) ==
  LET label == prf[n].subg[i] IN
  /\ i \in DOMAIN prf
  /\ label.tp \subseteq label.tv
  /\ {p[1] : p \in label.tv} \subseteq prf[n].tags
  /\ {p[2] : p \in label.tv} \subseteq prf[i].tags

valid(prf, init) ==
  /\ init \in DOMAIN prf
  /\ \A n \in DOMAIN prf : \A i \in children(prf, n) : valid_premise(prf, n, i)

-----------------------------------------------------------------------------
(* One iteration of each loop of the minimiser. *)

\* The leaves that remove_dead_nodes may remove: it spares index 0 only.
DeadNodes(prf) == {idx \in DOMAIN prf \ {0} : is_leaf(prf, idx)}

\* Faulty variants: the edges go, the node stays; the node goes, the edges stay.
remove_dead_node_KeepsNode(prf, idx) ==
  [i \in DOMAIN prf |->
     [prf[i] EXCEPT !.subg = Restrict(@, DOMAIN @ \ {idx})]]

remove_dead_node_KeepsEdges(prf, idx) == Restrict(prf, DOMAIN prf \ {idx})

\* Remove a node together with the edges that lead to it.
remove_dead_node(prf, idx) ==
  [i \in DOMAIN prf \ {idx} |->
     [tags |-> prf[i].tags,
      subg |-> Restrict(prf[i].subg, children(prf, i) \ {idx})]]

\* A faulty variant: the initial node is not spared.
SingleNodes_AnyNode(prf, init) ==
  {idx \in DOMAIN prf : is_single_node(prf, idx) /\ ~fathers_grandchild(prf, idx)}

\* The nodes that fuse_single_nodes may bypass.
SingleNodes(prf, init) ==
  {idx \in DOMAIN prf \ {init} :
     is_single_node(prf, idx) /\ ~fathers_grandchild(prf, idx)}

\* The child of a single node (the head of its list of premises).
only_child(prf, idx) == CHOOSE c \in children(prf, idx) : TRUE

\* A faulty variant: the new edge keeps the label of the first edge only.
fuse_node_FirstLabel(prf, idx) ==
  LET grandchild == only_child(prf, idx)
      moved(c) == IF c = idx THEN grandchild ELSE c
  IN  [i \in DOMAIN prf \ {idx} |->
         [tags |-> prf[i].tags,
          subg |-> [c \in {moved(d) : d \in children(prf, i)} |->
                      prf[i].subg[CHOOSE d \in children(prf, i) : moved(d) = c]]]]

\* Redirect every edge into idx to the only child of idx, and remove idx.
fuse_node(prf, idx) ==
  LET grandchild == only_child(prf, idx)
      redirect(par) ==
        IF in_children(prf, idx, par)
        THEN [c \in (children(prf, par) \ {idx}) \cup {grandchild} |->
                IF c = grandchild
                THEN FuseLabels(prf[par].subg[idx], prf[idx].subg[grandchild])
                ELSE prf[par].subg[c]]
        ELSE prf[par].subg
  IN  [i \in DOMAIN prf \ {idx} |->
         [tags |-> prf[i].tags, subg |-> redirect(i)]]

-----------------------------------------------------------------------------
(* The global trace condition: every infinite path from the initial node   *)
(* has a suffix that carries a trace which progresses infinitely often.    *)
(* It may be judged on lassos, and a lasso may be judged on the composite  *)
(* label of its loop.  Some power of that label is idempotent; the loop    *)
(* carries a progressing trace iff that power has a progressing pair from  *)
(* a tag to itself.  ProofAutomata has the automata by which the code      *)
(* decides the condition.                                                  *)

Walk == [src : Int, dst : Int, label : Label]

Edges(prf) ==
  UNION {{[src |-> i, dst |-> j, label |-> prf[i].subg[j]] :
            j \in children(prf, i)} : i \in DOMAIN prf}

\* The walks ws, each followed by an edge.
Extensions(ws, edges) ==
  UNION {{[src |-> w.src, dst |-> e.dst, label |-> FuseLabels(w.label, e.label)] :
            e \in {x \in edges : x.src = w.dst}} : w \in ws}

\* The composite labels of all non-empty walks along the edges: closure takes the
\* walks found so far and the ones found last, which are to be extended.
Walks(edges) ==
  LET closure[s \in [found : SUBSET Walk, latest : SUBSET Walk]] ==
        IF s.latest = {} THEN s.found
        ELSE LET found == s.found \cup s.latest
             IN  closure[[found |-> found, latest |-> Extensions(s.latest, edges) \ found]]
  IN  closure[[found |-> {}, latest |-> edges]]

ReachableFrom(walks, init) == {init} \cup {w.dst : w \in {x \in walks : x.src = init}}

GloballySound(prf, init) ==
  \A edges \in {Edges(prf)} : \A walks \in {Walks(edges)} : \A w \in walks :
    (/\ w.src = w.dst
     /\ w.src \in ReachableFrom(walks, init)
     /\ FuseLabels(w.label, w.label) = w.label)
      => \E p \in w.label.tp : p[1] = p[2]
=============================================================================
