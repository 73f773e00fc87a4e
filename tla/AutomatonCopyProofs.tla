-------------------------- MODULE AutomatonCopyProofs --------------------------
(***************************************************************************)
(* For every set of proof objects: the copies that Spot makes of the trace *)
(* automaton and of the proof automaton are their reachable parts,         *)
(* whatever the order in which states come up, and so check_soundness      *)
(* implements its one-step specification.                                  *)
(***************************************************************************)
EXTENDS AutomatonCopy, TLAPS

Class == {"trace", "proof"}

\* The number of a vertex is its id, up to a constant.
LEMMA IdOfVertex ==
  ASSUME NEW n \in Nat
  PROVE  id({n}) = n + 2
  <1>1. Min({n}) = n
    BY DEF Min
  <1>. QED  BY <1>1 DEF id, NO_VERTEX

\* compare returns 0 exactly when two states of an automaton are the same, so the
\* copy neither merges two states nor splits one.
LEMMA CompareZero ==
  ASSUME NEW p, IsProof(p), NEW class \in Class,
         NEW s \in StateSpace(p, class), NEW r \in StateSpace(p, class)
  PROVE  compare(s, r) = 0 <=> s = r
  <1>1. \A v, w \in p.vertices : /\ v # NO_VERTEX
                                 /\ id(v) \in Int
                                 /\ id(v) = id(w) => v = w
    <2>1. SUFFICES ASSUME NEW v \in p.vertices, NEW w \in p.vertices
                   PROVE  v # NO_VERTEX /\ id(v) \in Int /\ (id(v) = id(w) => v = w)
      OBVIOUS
    <2>2. PICK n \in Nat : v = {n}
      BY DEF IsProof
    <2>3. PICK m \in Nat : w = {m}
      BY DEF IsProof
    <2>. QED  BY <2>2, <2>3, IdOfVertex DEF NO_VERTEX
  <1>2. CASE class = "trace"
    <2>1. \A x \in StateSpace(p, class) :
            \/ x = TraceState(NO_VERTEX, NO_TAG)
            \/ \E v \in p.vertices, t \in Int : x = TraceState(v, t)
      BY <1>2 DEF StateSpace, get_init_state, IsProof
    <2>2. s.class = "trace" /\ r.class = "trace"
      BY <2>1 DEF TraceState
    <2>3. compare(s, r) = TraceCompare(s, r)
      BY <2>2 DEF compare
    <2>. QED  BY <1>1, <2>1, <2>3 DEF TraceCompare, TraceState, initial, Order, NO_TAG
  <1>3. CASE class = "proof"
    <2>1. \A x \in StateSpace(p, class) :
            \/ x = ProofGhostState
            \/ \E v \in p.vertices : x = ProofState(v)
      BY <1>3 DEF StateSpace, get_init_state
    <2>2. CASE s = ProofGhostState
      BY <2>1, <2>2 DEF compare, ProofGhostStateCompare, ProofGhostState, ProofState
    <2>3. CASE \E v \in p.vertices : s = ProofState(v)
      <3>1. s.class = "proof"
        BY <2>3 DEF ProofState
      <3>2. compare(s, r) = ProofStateCompare(s, r)
        BY <3>1 DEF compare
      <3>. QED  BY <1>1, <2>1, <2>3, <3>2 DEF ProofStateCompare, ProofGhostState, ProofState, Order
    <2>. QED  BY <2>1, <2>2, <2>3
  <1>. QED  BY <1>2, <1>3 DEF Class

-----------------------------------------------------------------------------
(* The state space is closed, and so is its reachable part. *)

LEMMA SpaceClosed ==
  ASSUME NEW p, IsProof(p), NEW class \in Class, NEW s \in StateSpace(p, class)
  PROVE  succ_iter(p, s) \subseteq StateSpace(p, class)
  <1>1. CASE class = "trace"
    <2>1. \/ s = TraceState(NO_VERTEX, NO_TAG)
          \/ \E v \in p.vertices, t \in Int : s = TraceState(v, t)
      BY <1>1 DEF StateSpace, get_init_state, IsProof
    <2>2. succ_iter(p, s) = TraceSuccessors(p, s)
      BY <2>1 DEF succ_iter, TraceState
    <2>3. initial(s) \/ s.vertex \in p.vertices
      BY <2>1 DEF TraceState, initial
    <2>4. TraceSuccessors(p, s) \subseteq StateSpace(p, class)
      BY <1>1, <2>3 DEF TraceSuccessors, StateSpace, get_init_state, IsProof,
                         get_tags_of_vertex, get_successors
    <2>. QED  BY <2>2, <2>4
  <1>2. CASE class = "proof"
    <2>1. CASE s = ProofGhostState
      <3>1. succ_iter(p, s) = ProofGhostSuccessors(p)
        BY <2>1 DEF succ_iter, ProofGhostState
      <3>. QED  BY <1>2, <3>1 DEF ProofGhostSuccessors, StateSpace, IsProof
    <2>2. CASE \E v \in p.vertices : s = ProofState(v)
      <3>1. succ_iter(p, s) = ProofSuccessors(p, s)
        BY <2>2 DEF succ_iter, ProofState
      <3>2. s.vertex \in p.vertices
        BY <2>2 DEF ProofState
      <3>. QED  BY <1>2, <3>1, <3>2 DEF ProofSuccessors, StateSpace, IsProof, get_successors
    <2>. QED  BY <1>2, <2>1, <2>2 DEF StateSpace, get_init_state
  <1>. QED  BY <1>1, <1>2 DEF Class

LEMMA ReachableClosed ==
  ASSUME NEW p, IsProof(p), NEW class \in Class
  PROVE  /\ get_init_state(class) \in ReachableStates(p, class)
         /\ ReachableStates(p, class) \subseteq StateSpace(p, class)
         /\ Closed(p, ReachableStates(p, class))
  <1>1. get_init_state(class) \in StateSpace(p, class)
    BY DEF StateSpace
  <1>2. ASSUME NEW s \in ReachableStates(p, class), NEW d \in succ_iter(p, s)
        PROVE  d \in ReachableStates(p, class)
    <2>1. d \in StateSpace(p, class)
      BY <1>2, SpaceClosed DEF ReachableStates
    <2>2. ASSUME NEW S \in SUBSET StateSpace(p, class),
                 get_init_state(class) \in S, Closed(p, S)
          PROVE  d \in S
      BY <1>2, <2>2 DEF ReachableStates, Closed
    <2>. QED  BY <2>1, <2>2 DEF ReachableStates
  <1>. QED  BY <1>1, <1>2 DEF ReachableStates, Closed

LEMMA ReachableLeast ==
  ASSUME NEW p, NEW class \in Class, NEW S \in SUBSET ReachableStates(p, class),
         get_init_state(class) \in S, Closed(p, S)
  PROVE  S = ReachableStates(p, class)
  BY DEF ReachableStates

-----------------------------------------------------------------------------
(* The inductive invariant.  A state of the copy is done when its iterator  *)
(* has been opened and closed.                                              *)

Done == states \ (todo \cup {s \in {state} : open})

\* The transitions from s to the states in D have been copied.
Copied(s, D) ==
  /\ D \subseteq states
  /\ \A d \in D : Transition(proof, s, d) \in edges

CopyInv ==
  /\ get_init_state(stage) \in states
  /\ states \subseteq ReachableStates(proof, stage)
  /\ todo \subseteq states
  /\ state \in states
  /\ edges \subseteq TransitionsFrom(proof, states)
  /\ \A s \in Done : Copied(s, succ_iter(proof, s))
  /\ open => succs \subseteq succ_iter(proof, state)
  /\ open => Copied(state, succ_iter(proof, state) \ succs)
  /\ ~open => succs = {}
  /\ stage = "trace" => states \cup succs \subseteq state_map

IInv ==
  /\ proof \in Proofs
  /\ stage \in Class \cup {"contains", "done"}
  /\ open \in BOOLEAN
  /\ stage \in Class => CopyInv
  /\ stage \notin Class => ~open
  /\ stage # "trace" => ta = ReachablePart(proof, "trace")
  /\ stage \in {"contains", "done"} => pa = ReachablePart(proof, "proof")
  /\ stage = "done" => retval = contains(ta, pa)

\* A finished copy is the reachable part.
LEMMA FinishedCopy ==
  ASSUME IInv, stage \in Class, ~open, todo = {}
  PROVE  [states |-> states, edges |-> edges] = ReachablePart(proof, stage)
  <1>1. CopyInv /\ Done = states
    BY DEF IInv, Done
  <1>2. Closed(proof, states)
    BY <1>1 DEF CopyInv, Copied, Closed
  <1>3. states = ReachableStates(proof, stage)
    BY <1>1, <1>2, ReachableLeast DEF CopyInv
  <1>4. edges = TransitionsFrom(proof, states)
    BY <1>1 DEF CopyInv, Copied, TransitionsFrom
  <1>. QED  BY <1>3, <1>4 DEF ReachablePart

LEMMA InitInv == Init => IInv
  <1>. SUFFICES ASSUME Init PROVE IInv
    OBVIOUS
  <1>1. IsProof(proof) /\ "trace" \in Class
    BY ProofsAssumption DEF Init, Class
  <1>2. get_init_state("trace") \in ReachableStates(proof, "trace")
    BY <1>1, ReachableClosed
  <1>3. Done = {}
    BY DEF Init, Done
  <1>4. CopyInv
    BY <1>2, <1>3 DEF Init, CopyInv, Copied
  <1>. QED  BY <1>1, <1>4 DEF Init, IInv, Class

LEMMA OpenPreserves == IInv /\ OpenIterator => IInv'
  <1>. SUFFICES ASSUME IInv, OpenIterator PROVE IInv'
    OBVIOUS
  <1>1. stage \in Class /\ CopyInv
    BY DEF IInv, OpenIterator, Class
  <1>2. PICK s \in todo : todo' = todo \ {s} /\ state' = s /\ succs' = succ_iter(proof, s)
    BY DEF OpenIterator
  <1>. USE DEF OpenIterator
  <1>3. Done' \subseteq Done
    BY <1>1, <1>2 DEF Done, CopyInv
  <1>4. \A x \in Done' : Copied(x, succ_iter(proof, x))'
    BY <1>1, <1>3 DEF CopyInv, Copied
  <1>5. Copied(state, succ_iter(proof, state) \ succs)'
    BY <1>2 DEF Copied
  <1>6. CopyInv'
    BY <1>1, <1>2, <1>4, <1>5 DEF CopyInv
  <1>. QED  BY <1>1, <1>6 DEF IInv

LEMMA AddPreserves == IInv /\ AddTransition => IInv'
  <1>. SUFFICES ASSUME IInv, AddTransition PROVE IInv'
    OBVIOUS
  <1>1. stage \in Class /\ CopyInv /\ open /\ IsProof(proof)
    BY ProofsAssumption DEF IInv, AddTransition
  <1>2. PICK d \in succs :
          /\ IF Seen(d) = {}
             THEN /\ states' = states \cup {d}
                  /\ todo' = todo \cup {d}
                  /\ edges' = edges \cup {Transition(proof, state, d)}
             ELSE /\ edges' = edges \cup {[Transition(proof, state, d) EXCEPT !.dst = r] : r \in Seen(d)}
                  /\ UNCHANGED <<states, todo>>
          /\ succs' = succs \ {d}
    BY DEF AddTransition
  <1>3. UNCHANGED <<proof, stage, state, open, state_map, ta, pa, retval>>
    BY DEF AddTransition
  \* Reachability of the new state, and what compare says of it.
  <1>4. d \in ReachableStates(proof, stage) /\ d \in succ_iter(proof, state)
    BY <1>1, ReachableClosed DEF CopyInv, Closed
  <1>5. Seen(d) = states \cap {d}
    <2>1. \A r \in states : compare(r, d) = 0 <=> r = d
      BY <1>1, <1>4, ReachableClosed, CompareZero DEF CopyInv
    <2>. QED  BY <2>1 DEF Seen
  <1>6. [Transition(proof, state, d) EXCEPT !.dst = d] = Transition(proof, state, d)
    BY DEF Transition
  <1>7. /\ states' = states \cup {d}
        /\ todo' \subseteq states' /\ todo \subseteq todo'
        /\ d \notin states => d \in todo'
        /\ edges' = edges \cup {Transition(proof, state, d)}
    <2>1. CASE d \in states
      BY <1>1, <1>2, <1>5, <1>6, <2>1 DEF CopyInv
    <2>2. CASE d \notin states
      BY <1>1, <1>2, <1>5, <2>2 DEF CopyInv
    <2>. QED  BY <2>1, <2>2
  <1>8. Done' \subseteq Done
    BY <1>3, <1>7 DEF Done
  <1>9. \A x \in Done' : Copied(x, succ_iter(proof, x))'
    BY <1>1, <1>3, <1>7, <1>8 DEF CopyInv, Copied
  <1>10. Copied(state, succ_iter(proof, state) \ succs)'
    BY <1>1, <1>2, <1>3, <1>7 DEF CopyInv, Copied
  <1>11. edges' \subseteq TransitionsFrom(proof, states)'
    BY <1>1, <1>3, <1>4, <1>7 DEF CopyInv, TransitionsFrom
  <1>12. CopyInv'
    BY <1>1, <1>2, <1>3, <1>4, <1>7, <1>9, <1>10, <1>11 DEF CopyInv
  <1>. QED  BY <1>1, <1>3, <1>12 DEF IInv

LEMMA ClosePreserves == IInv /\ CloseIterator => IInv'
  <1>. SUFFICES ASSUME IInv, CloseIterator PROVE IInv'
    OBVIOUS
  <1>1. stage \in Class /\ CopyInv /\ open
    BY DEF IInv, CloseIterator
  <1>. USE DEF CloseIterator
  <1>2. Done' \subseteq Done \cup {state}
    BY DEF Done
  <1>3. \A x \in Done' : Copied(x, succ_iter(proof, x))'
    BY <1>1, <1>2 DEF CopyInv, Copied
  <1>4. CopyInv'
    BY <1>1, <1>3 DEF CopyInv
  <1>. QED  BY <1>1, <1>4 DEF IInv

LEMMA TraceCopiedPreserves == IInv /\ TraceCopied => IInv'
  <1>. SUFFICES ASSUME IInv, TraceCopied PROVE IInv'
    OBVIOUS
  <1>1. stage \in Class /\ CopyInv /\ IsProof(proof)
    BY ProofsAssumption DEF IInv, TraceCopied, Class
  <1>. USE DEF TraceCopied
  <1>2. ta' = ReachablePart(proof, "trace")
    BY <1>1, FinishedCopy
  <1>3. get_init_state("proof") \in ReachableStates(proof, "proof")
    BY <1>1, ReachableClosed DEF Class
  <1>4. Done' = {}
    BY DEF Done
  <1>5. CopyInv'
    BY <1>1, <1>3, <1>4 DEF CopyInv, Copied
  <1>. QED  BY <1>1, <1>2, <1>5 DEF IInv, Class

\* IInv is an invariant: what has been copied is a reachable part in the making.
THEOREM CopyInvariant == Spec => []IInv
  <1>1. IInv /\ [Next]_vars => IInv'
    <2>. SUFFICES ASSUME IInv, [Next]_vars PROVE IInv'
      OBVIOUS
    <2>1. CASE OpenIterator   BY <2>1, OpenPreserves
    <2>2. CASE AddTransition  BY <2>2, AddPreserves
    <2>3. CASE CloseIterator  BY <2>3, ClosePreserves
    <2>4. CASE TraceCopied    BY <2>4, TraceCopiedPreserves
    <2>5. CASE ProofCopied
      <3>1. pa' = ReachablePart(proof, "proof")
        BY <2>5, FinishedCopy DEF ProofCopied, Class
      <3>. QED  BY <2>5, <3>1 DEF IInv, ProofCopied, Class, copyvars
    <2>6. CASE Contain
      BY <2>6 DEF IInv, Contain, Class, copyvars
    <2>7. CASE UNCHANGED vars
      BY <2>7 DEF vars, copyvars, IInv, CopyInv, Copied, Done
    <2>. QED  BY <2>1, <2>2, <2>3, <2>4, <2>5, <2>6, <2>7 DEF Next
  <1>. QED  BY InitInv, <1>1, PTL DEF Spec

\* The C assertions on the way of the copy hold.
THEOREM CopyAssertions == Spec => []AssertionsHold
  <1>1. IInv => AssertionsHold
    <2>. SUFFICES ASSUME IInv, stage \in Class, NEW s \in states \cup succs
                  PROVE  /\ s.class = "trace" <=> stage = "trace"
                         /\ s.class = "trace" => s \in state_map
                         /\ s.vertex # NO_VERTEX =>
                              /\ s.vertex \in DOMAIN proof.trans_map
                              /\ proof.trans_map[s.vertex] \subseteq DOMAIN proof.tag_map
      BY DEF AssertionsHold, Class
    <2>1. CopyInv /\ IsProof(proof)
      BY ProofsAssumption DEF IInv
    <2>2. s \in StateSpace(proof, stage)
      BY <2>1, ReachableClosed DEF CopyInv, Closed
    <2>3. /\ s.class = "trace" <=> stage = "trace"
          /\ s.vertex # NO_VERTEX => s.vertex \in proof.vertices
      BY <2>2 DEF StateSpace, get_init_state, TraceState, ProofState, ProofGhostState, Class
    <2>. QED  BY <2>1, <2>3 DEF CopyInv, IsProof
  <1>. QED  BY <1>1, CopyInvariant, PTL

\* check_soundness, which copies the automata state by state, implements the
\* specification that answers in one step.
THEOREM CopyImplements == Spec => ImplementsContainment
  <1>. DEFINE ans == IF stage = "done" THEN IF retval THEN "yes" ELSE "no" ELSE "none"
  <1>1. Init => Abstract!Init
    BY DEF Init, Abstract!Init
  <1>2. ASSUME IInv, [Next]_vars PROVE [Abstract!Answer]_<<proof, ans>>
    <2>1. CASE Contain
      <3>1. retval' = TracesCoverPaths(proof)
        BY <1>2, <2>1 DEF IInv, Contain, TracesCoverPaths, Class
      <3>. QED  BY <2>1, <3>1 DEF Contain, Abstract!Answer
    <2>2. CASE ~Contain
      BY <1>2, <2>2 DEF Next, vars, OpenIterator, AddTransition, CloseIterator,
                        TraceCopied, ProofCopied, IInv, Class, copyvars
    <2>. QED  BY <2>1, <2>2
  <1>. QED  BY <1>1, <1>2, CopyInvariant, PTL DEF Spec, ImplementsContainment, Abstract!Spec
=============================================================================
