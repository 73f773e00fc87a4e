------------------------------ MODULE MCSoundCheck ------------------------------
(* Instances of SoundCheck: which abstract proofs are passed to check_proof. *)
EXTENDS SoundCheck, TLC

Lab(tv, tp) == [tv |-> tv, tp |-> tp]

\* Labels over one tag: the trace goes on, with or without progress.
OneTagLabels == {Lab({<<1, 1>>}, {}), Lab({<<1, 1>>}, {<<1, 1>>})}

\* Labels over two tags: keep both, progress on one, swap with progress, and
\* lose a trace.
TwoTagLabels ==
  LET keep == {<<1, 1>>, <<2, 2>>}
      swap == {<<1, 2>>, <<2, 1>>}
  IN  {Lab(keep, {}), Lab(keep, {<<1, 1>>}), Lab(swap, {<<1, 2>>}),
       Lab({<<2, 2>>}, {<<2, 2>>})}

\* All proofs over the given nodes, tags and labels with at most two premises
\* to a node, in which every node but the root is a premise.
Graphs(nodes, tags, labels) ==
  LET premises == UNION {[S -> labels] : S \in {T \in SUBSET nodes : Cardinality(T) <= 2}}
  IN  {g \in [nodes -> [tags : {tags}, subg : premises]] :
         \A i \in nodes \ {0} : \E j \in nodes \ {i} : in_children(g, i, j)}

\* The proofs of one shape: node i has exactly the children shape[i].
Shaped(shape, tags, labels) ==
  LET edges == {e \in (DOMAIN shape) \X (DOMAIN shape) : e[2] \in shape[e[1]]}
  IN  {[i \in DOMAIN shape |->
          [tags |-> tags, subg |-> [j \in shape[i] |-> lab[<<i, j>>]]]] :
         lab \in [edges -> labels]}

AtRoot(prfs) == {[prf |-> p, init |-> 0] : p \in prfs}

\* The graphs on three nodes with traces on one tag.
SmallGraphs == Graphs(0 .. 2, {1}, OneTagLabels)

\* Chains into a loop, nested and branching loops, with traces on two tags.
TwoTagGraphs ==
  UNION {Shaped(s, {1, 2}, TwoTagLabels) :
           s \in {(0 :> {1} @@ 1 :> {2} @@ 2 :> {0, 1}),
                  (0 :> {1, 2} @@ 1 :> {0} @@ 2 :> {0}),
                  (0 :> {1} @@ 1 :> {2} @@ 2 :> {3} @@ 3 :> {1})}}

GraphRequests == AtRoot(SmallGraphs \cup TwoTagGraphs)

\* Few proofs that differ in one label or minimise to one graph, for the cache.
CacheRequests ==
  AtRoot(Shaped(0 :> {1} @@ 1 :> {0, 2} @@ 2 :> {}, {1}, OneTagLabels)
         \cup Shaped(0 :> {0}, {1}, OneTagLabels)
         \cup {<< >>})

\* A process belongs to a client, which has one graph to check, or several in any
\* order.  Bound: as many calls as the client has graphs.
Clients == {{r} : r \in GraphRequests} \cup {CacheRequests}

MCRequests == UNION Clients

VARIABLE client

MCInit == Init /\ client \in Clients

MCNext ==
  /\ \/ \E r \in client : calls < Cardinality(client) /\ Call(r)
     \/ CheckProof
  /\ UNCHANGED client

MCFairSpec ==
  /\ MCInit
  /\ [][MCNext]_<<vars, client>>
  /\ WF_vars(CheckProof)

\* The requests are those of a prover.
ASSUME RootedClientAssumption == RootedClient

\* They are abstract proofs.
ASSUME TypedClientAssumption == TypedClient
=============================================================================
