----------------------------- MODULE AutomatonCopy -----------------------------
(***************************************************************************)
(* check_soundness of soundness.c in detail.  Spot copies first the trace  *)
(* automaton, then the proof automaton into explicit graphs, and decides   *)
(* containment of the copies.  The copying belongs to Spot and is modelled *)
(* by the calls it makes: it starts at get_init_state, opens the iterator  *)
(* of each state it has found, takes the successors off the iterator one   *)
(* by one, and recognises a state that it has seen before by compare.      *)
(* Hash sets decide in which order states are visited; any order may come. *)
(***************************************************************************)
EXTENDS ProofAutomata

CONSTANT Proofs      \* proof objects, as the foreign calls leave them

ASSUME ProofsAssumption == \A p \in Proofs : IsProof(p)

VARIABLES
  proof,      \* the static variable proof
  stage,      \* the automaton being copied, "contains" or "done"
  states,     \* states of the copy
  edges,      \* transitions of the copy
  todo,       \* states of the copy whose iterator has not been opened
  state,      \* the state whose iterator is open
  succs,      \* successors that the iterator has still to visit
  open,       \* is an iterator open?
  state_map,  \* the trace states that the trace automaton has allocated
  ta,         \* the copy of the trace automaton
  pa,         \* the copy of the proof automaton
  retval

copyvars == <<states, edges, todo, state, succs, open>>
vars == <<proof, stage, copyvars, state_map, ta, pa, retval>>

NoGraph == [states |-> {}, edges |-> {}]

Init ==
  /\ proof \in Proofs
  /\ stage = "trace"
  /\ states = {get_init_state("trace")}
  /\ edges = {}
  /\ todo = {get_init_state("trace")}
  /\ state = get_init_state("trace")
  /\ succs = {}
  /\ open = FALSE
  /\ state_map = {get_init_state("trace")}
  /\ ta = NoGraph
  /\ pa = NoGraph
  /\ retval = FALSE

-----------------------------------------------------------------------------

\* A faulty variant: get_state allocates a state without keeping it.
OpenIterator_Leaks ==
  /\ stage \in {"trace", "proof"}
  /\ ~open
  /\ \E s \in todo :
       /\ todo' = todo \ {s}
       /\ state' = s
       /\ succs' = succ_iter(proof, s)
  /\ open' = TRUE
  /\ UNCHANGED <<proof, stage, states, edges, state_map, ta, pa, retval>>

\* A faulty variant: the iterator works on the successors in the proof object, not
\* on a copy, and uses them up.
OpenIterator_Consumes ==
  /\ stage \in {"trace", "proof"}
  /\ ~open
  /\ \E s \in todo :
       /\ todo' = todo \ {s}
       /\ state' = s
       /\ succs' = succ_iter(proof, s)
       /\ proof' = [proof EXCEPT !.trans_map[s.vertex] = {}]
  /\ open' = TRUE
  /\ state_map' = IF stage = "trace" THEN state_map \cup succs' ELSE state_map
  /\ UNCHANGED <<stage, states, edges, ta, pa, retval>>

\* succ_iter, and the iterator's first, which allocates the trace states.
OpenIterator ==
  /\ stage \in {"trace", "proof"}
  /\ ~open
  /\ \E s \in todo :
       /\ todo' = todo \ {s}
       /\ state' = s
       /\ succs' = succ_iter(proof, s)
  /\ open' = TRUE
  /\ state_map' = IF stage = "trace" THEN state_map \cup succs' ELSE state_map
  /\ UNCHANGED <<proof, stage, states, edges, ta, pa, retval>>

\* The states of the copy that compare takes for d.
Seen(d) == {r \in states : compare(r, d) = 0}

\* A faulty variant: the iterator does not move on.
AddTransition_NoNext ==
  /\ open
  /\ \E d \in succs :
       /\ IF Seen(d) = {}
          THEN /\ states' = states \cup {d}
               /\ todo' = todo \cup {d}
               /\ edges' = edges \cup {Transition(proof, state, d)}
          ELSE /\ edges' = edges \cup {[Transition(proof, state, d) EXCEPT !.dst = r] : r \in Seen(d)}
               /\ UNCHANGED <<states, todo>>
  /\ UNCHANGED <<proof, stage, state, succs, open, state_map, ta, pa, retval>>

\* dst, cond and acc of the successor the iterator is at; then next.
AddTransition ==
  /\ open
  /\ \E d \in succs :
       /\ IF Seen(d) = {}
          THEN /\ states' = states \cup {d}
               /\ todo' = todo \cup {d}
               /\ edges' = edges \cup {Transition(proof, state, d)}
          ELSE /\ edges' = edges \cup {[Transition(proof, state, d) EXCEPT !.dst = r] : r \in Seen(d)}
               /\ UNCHANGED <<states, todo>>
       /\ succs' = succs \ {d}
  /\ UNCHANGED <<proof, stage, state, open, state_map, ta, pa, retval>>

CloseIterator ==
  /\ open
  /\ succs = {}
  /\ open' = FALSE
  /\ UNCHANGED <<proof, stage, states, edges, todo, state, succs, state_map, ta, pa, retval>>

TraceCopied ==
  /\ stage = "trace"
  /\ ~open
  /\ todo = {}
  /\ ta' = [states |-> states, edges |-> edges]
  /\ stage' = "proof"
  /\ states' = {get_init_state("proof")}
  /\ edges' = {}
  /\ todo' = {get_init_state("proof")}
  /\ state' = get_init_state("proof")
  /\ UNCHANGED <<proof, succs, open, state_map, pa, retval>>

ProofCopied ==
  /\ stage = "proof"
  /\ ~open
  /\ todo = {}
  /\ pa' = [states |-> states, edges |-> edges]
  /\ stage' = "contains"
  /\ UNCHANGED <<proof, copyvars, state_map, ta, retval>>

\* The answer; the trace automaton goes out of scope and deletes its states.
Contain ==
  /\ stage = "contains"
  /\ retval' = contains(ta, pa)
  /\ stage' = "done"
  /\ state_map' = {}
  /\ UNCHANGED <<proof, copyvars, ta, pa>>

Next ==
  \/ OpenIterator
  \/ AddTransition
  \/ CloseIterator
  \/ TraceCopied
  \/ ProofCopied
  \/ Contain

Spec == Init /\ [][Next]_vars

\* The foreign call is sequential code that nothing interrupts.
FairSpec == Spec /\ WF_vars(Next)

-----------------------------------------------------------------------------
(* Properties *)

\* The C assertions on the way: every vertex that an iterator asks about has its
\* entries in tag_map and trans_map, the states that compare casts belong to the
\* automaton being copied, and no trace state is used that was not allocated.
AssertionsHold ==
  stage \in {"trace", "proof"} =>
    \A s \in states \cup succs :
      /\ s.class = "trace" <=> stage = "trace"
      /\ s.class = "trace" => s \in state_map
      /\ s.vertex # NO_VERTEX =>
           /\ s.vertex \in DOMAIN proof.trans_map
           /\ proof.trans_map[s.vertex] \subseteq DOMAIN proof.tag_map

\* check_soundness implements the one-step answer: whatever the order in which
\* states are found, the copies are the reachable parts of the two automata.
Abstract == INSTANCE Containment
  WITH Covered <- TracesCoverPaths,
       answer <- IF stage = "done" THEN IF retval THEN "yes" ELSE "no" ELSE "none"

ImplementsContainment == Abstract!Spec

\* The graph that the maps of a proof object describe, by the numbers of its
\* vertices.
GraphOf(p) ==
  LET number(v) == CHOOSE n \in v : TRUE
      label(v, w, quads) ==
        {<<q[3], q[4]>> : q \in {x \in quads : x[1] = v /\ x[2] = w}}
  IN  [n \in {number(v) : v \in p.vertices} |->
         [tags |-> p.tag_map[{n}],
          subg |-> [m \in {number(w) : w \in p.trans_map[{n}]} |->
                      [tv |-> label({n}, {m}, p.trace_pairs),
                       tp |-> label({n}, {m}, p.progress_pairs)]]]]

\* The answer is the global trace condition of the graph in the maps, on every path
\* from the initial vertex: waiting, guessing a tag and following trace pairs
\* finds a progressing trace iff the composition of labels has one.
AnswerIsTraceCondition ==
  stage = "done" =>
    (retval <=> \A n \in proof.initial_vertex : GloballySound(GraphOf(proof), n))

\* The foreign call returns.
CheckReturns == <>(stage = "done")
=============================================================================
