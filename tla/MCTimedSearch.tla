----------------------------- MODULE MCTimedSearch -----------------------------
(* An instance of TimedSearch: searches check a sound and an unsound loop, and  *)
(* graphs whose number of nodes is, is just below and is just above a power of  *)
(* two.                                                                         *)
EXTENDS TimedSearch, TLC

Lab(tv, tp) == [tv |-> tv, tp |-> tp]

Swap == Lab({<<1, 2>>, <<2, 1>>}, {<<1, 2>>})
Keep == Lab({<<1, 1>>}, {})
Step == Lab({<<1, 1>>, <<2, 2>>}, {<<2, 2>>})

N(tags, subg) == [tags |-> tags, subg |-> subg]

NoPremise == [i \in {} |-> Keep]

Loop(progress) ==
  [prf |-> (0 :> N({1}, 1 :> Lab({<<1, 1>>}, progress)) @@ 1 :> N({1}, 0 :> Keep)),
   init |-> 0]

Ring(n) ==
  [i \in 0 .. n - 1 |->
     N({1, 2}, ((i + 1) % n) :> (IF i = 0 THEN Swap ELSE Keep))]

MCChecks ==
  {Loop({<<1, 1>>}), Loop({})}
  \cup {[prf |-> Ring(n), init |-> 0] : n \in 1 .. 5}
  \cup {[prf |-> (3 :> N({1, 2}, 7 :> Step @@ 3 :> Swap) @@ 7 :> N({1, 2}, 3 :> Keep)),
         init |-> i] : i \in {3, 7}}
  \cup {[prf |-> (0 :> N({}, NoPremise)), init |-> 0]}
=============================================================================
