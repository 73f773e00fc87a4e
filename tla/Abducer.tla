-------------------------------- MODULE Abducer --------------------------------
(***************************************************************************)
(* Breadth-first search for a proof and definitions (generic/abducer.ml,   *)
(* bfs).  Every iteration of its loop aux is a step.  An application in    *)
(* progress has a proof, its depth, the goals that are open in it with     *)
(* their depths, and definitions.  A state holds the applications of the   *)
(* rule to the goal idx of one application, which came from the state      *)
(* numbered par.  The stack has the states to try at the current depth,    *)
(* the frontier, latest first, the ones to try at the next.                *)
(***************************************************************************)
EXTENDS CyclicProof

CONSTANTS
  Rule(_, _, _),   \* the rule of the abducer
  Searches,        \* calls of bfs: records [seq, maxbound]
  InitialDefs,     \* the definitions to begin with
  Acceptable       \* the definitions that check accepts

ASSUME SearchesAssumption == \A s \in Searches : s.maxbound \in Nat

VARIABLES
  pc,              \* "aux", "done" or "assert_failed"
  args,            \* arguments of bfs
  bound, frontier, stack,
  state_seq_no,    \* number of states made so far
  ret,             \* what bfs returns: None, or an application
  last_search_depth

vars == <<pc, args, bound, frontier, stack, state_seq_no, ret, last_search_depth>>

None == << >>

mk_app(prf, depth, goals, defs) ==
  [prf |-> prf, depth |-> depth, goals |-> goals, defs |-> defs]

mk_state(seq_no, par, idx, apps) ==
  [seq_no |-> seq_no, par |-> par, idx |-> idx, apps |-> apps]

\* A faulty variant: states that are older than the parent are dropped with it.
pop_parents_Older(sn, states) == SelectSeq(states, LAMBDA p : p.seq_no > sn)

\* Drop the state sn and, on the way down, its parent, the parent of that, and so
\* on, as long as they are found.  kept[k] and next[k] are aux and s of the loop
\* after k states.
pop_parents(sn, states) ==
  LET next[k \in 0 .. Len(states)] ==
        IF k = 0 THEN sn
        ELSE IF states[k].seq_no = next[k - 1] THEN states[k].par ELSE next[k - 1]
      kept[k \in 0 .. Len(states)] ==
        IF k = 0 THEN << >>
        ELSE IF states[k].seq_no = next[k - 1] THEN kept[k - 1]
        ELSE Append(kept[k - 1], states[k])
  IN  kept[Len(states)]

\* The assertion of expand_proof_state, also made before it is called.
Expandable(old) == ~is_closed(old.prf) /\ old.goals # << >>

\* A faulty variant: the goal being closed stays in the list.
expand_proof_state_KeepsGoal(seq_no, par, old, apps) ==
  LET depth == Head(old.goals)[2] + 1
      goals(app) == [j \in DOMAIN app.subgoals |-> <<app.subgoals[j], depth>>]
  IN  mk_state(seq_no, par, Head(old.goals)[1],
        [k \in DOMAIN apps |->
           mk_app(apps[k].prf, Max({old.depth, depth}), goals(apps[k]) \o old.goals,
                  apps[k].defs)])

\* The state of the applications apps of the rule to the first goal.
expand_proof_state(seq_no, par, old, apps) ==
  LET depth == Head(old.goals)[2] + 1
      goals(app) == [j \in DOMAIN app.subgoals |-> <<app.subgoals[j], depth>>]
  IN  mk_state(seq_no, par, Head(old.goals)[1],
        [k \in DOMAIN apps |->
           mk_app(apps[k].prf, Max({old.depth, depth}), goals(apps[k]) \o Tail(old.goals),
                  apps[k].defs)])

Init ==
  /\ pc = "aux"
  /\ args \in Searches
  /\ bound = 1
  /\ frontier = << >>
  /\ \E apps \in {Rule(0, mk(args.seq), InitialDefs)} :
       stack = <<expand_proof_state(1, 0, mk_app(mk(args.seq), 0, <<<<0, 0>>>>, InitialDefs),
                                    apps)>>
  /\ state_seq_no = 1
  /\ ret = None
  /\ last_search_depth = 0

-----------------------------------------------------------------------------
(* The loop aux. *)

GiveUp ==
  /\ pc = "aux"
  /\ bound > args.maxbound \/ (stack = << >> /\ frontier = << >>)
  /\ pc' = "done"
  /\ UNCHANGED <<args, bound, frontier, stack, state_seq_no, ret, last_search_depth>>

\* The current depth is finished.
Deepen ==
  /\ pc = "aux"
  /\ bound <= args.maxbound
  /\ stack = << >>
  /\ frontier # << >>
  /\ bound' = bound + 1
  /\ frontier' = << >>
  /\ stack' = [k \in DOMAIN frontier |-> frontier[Len(frontier) + 1 - k]]
  /\ UNCHANGED <<pc, args, state_seq_no, ret, last_search_depth>>

\* A faulty variant: the empty state stays.
DropState_Keeps ==
  /\ pc = "aux"
  /\ bound <= args.maxbound
  /\ stack # << >>
  /\ Head(stack).apps = << >>
  /\ UNCHANGED vars

\* No application is left in the state on top.
DropState ==
  /\ pc = "aux"
  /\ bound <= args.maxbound
  /\ stack # << >>
  /\ Head(stack).apps = << >>
  /\ stack' = Tail(stack)
  /\ UNCHANGED <<pc, args, bound, frontier, state_seq_no, ret, last_search_depth>>

HasApp ==
  /\ pc = "aux"
  /\ bound <= args.maxbound
  /\ stack # << >>
  /\ Head(stack).apps # << >>

\* The next application, and the stack with the others pushed back.
current == Head(Head(stack).apps)
remaining == [stack EXCEPT ![1].apps = Tail(@)]

AppAssertion ==
  /\ current.depth <= bound
  /\ \A k \in DOMAIN current.goals : current.goals[k][2] <= bound

\* A faulty variant: the definitions are not checked.
TryClosed_AnyDefs ==
  /\ HasApp
  /\ current.goals = << >>
  /\ pc' = "done"
  /\ ret' = current
  /\ last_search_depth' = current.depth
  /\ UNCHANGED <<args, bound, frontier, stack, state_seq_no>>

\* An application without goals: a proof, if its definitions are acceptable.
TryClosed ==
  /\ HasApp
  /\ current.goals = << >>
  /\ IF ~(AppAssertion /\ is_closed(current.prf))
     THEN pc' = "assert_failed" /\ UNCHANGED <<stack, ret, last_search_depth>>
     ELSE IF current.defs \in Acceptable
     THEN pc' = "done" /\ ret' = current /\ last_search_depth' = current.depth /\ UNCHANGED stack
     ELSE stack' = remaining /\ UNCHANGED <<pc, ret, last_search_depth>>
  /\ UNCHANGED <<args, bound, frontier, state_seq_no>>

AtBound == \E k \in DOMAIN current.goals : current.goals[k][2] = bound

\* Some goal is at the current depth: the new state waits for the next one.
Postpone(new) ==
  /\ AtBound
  /\ frontier' = <<new>> \o frontier
  /\ stack' = remaining

\* Go on with the new state; if the goal of the state on top is closed, no other
\* way to close it is tried, nor any other application of the states it comes from.
Expand(new) ==
  /\ ~AtBound
  /\ stack' = <<new>> \o
       IF is_closed_at(current.prf)[Head(stack).idx]
       THEN pop_parents(Head(stack).seq_no, remaining) ELSE remaining
  /\ UNCHANGED frontier

\* An application with goals: apply the rule to the first of them.
TryOpen ==
  /\ HasApp
  /\ current.goals # << >>
  /\ IF AppAssertion /\ Expandable(current)
     THEN /\ state_seq_no' = state_seq_no + 1
          /\ \E apps \in {Rule(Head(current.goals)[1], current.prf, current.defs)} :
               \E new \in {expand_proof_state(state_seq_no', Head(stack).seq_no, current, apps)} :
                 Postpone(new) \/ Expand(new)
          /\ UNCHANGED pc
     ELSE pc' = "assert_failed" /\ UNCHANGED <<frontier, stack, state_seq_no>>
  /\ UNCHANGED <<args, bound, ret, last_search_depth>>

Next ==
  \/ GiveUp
  \/ Deepen
  \/ DropState
  \/ TryClosed
  \/ TryOpen

Spec == Init /\ [][Next]_vars

\* TryOpen, by the number that they give to a state.
Expanding ==
  /\ HasApp
  /\ current.goals # << >>
  /\ state_seq_no' = state_seq_no + 1

\* The search is sequential and never waits.  This is weak fairness of Next,
\* written so that TLC need not apply the rule to evaluate ENABLED.
FairSpec ==
  /\ Spec
  /\ WF_vars(GiveUp \/ Deepen \/ DropState \/ TryClosed)
  /\ WF_state_seq_no(Expanding)

-----------------------------------------------------------------------------
(* Properties *)

States == Range(stack) \cup Range(frontier)

\* The assertions of aux and expand_proof_state hold: nothing on the stack is
\* deeper than the current depth although goals of several depths are postponed
\* together, and a proof is closed exactly when no goal is left.
\*
\* States that wait have distinct numbers, by which pop_parents finds them.  The
\* goals of their applications are the open nodes of the proof, each once, and
\* none is deeper than the proof, as the assertion says that expand_proof_state
\* has in a comment.
GoalsOpen ==
  /\ pc # "assert_failed"
  /\ Cardinality({s.seq_no : s \in States}) = Len(stack) + Len(frontier)
  /\ \A s \in States : \A a \in Range(s.apps) :
       LET goals == {g[1] : g \in Range(a.goals)}
       IN  /\ goals = OpenNodes(a.prf)
           /\ Cardinality(goals) = Len(a.goals)
           /\ \A g \in Range(a.goals) : g[2] <= a.depth

\* What bfs returns is a closed and sound proof of the goal, with definitions that
\* check accepts, within the maximal depth.
ResultIsProof ==
  (pc = "done" /\ ret # None) =>
    /\ is_closed(ret.prf)
    /\ check(ret.prf)
    /\ ret.prf[0].seq = args.seq
    /\ ret.defs \in Acceptable
    /\ last_search_depth <= args.maxbound

\* The rule keeps its side of the bargain in every call that bfs makes.
LegalAt(idx, prf, defs) ==
  \A apps \in {Rule(idx, prf, defs)} :
    /\ apps \in Seq(Range(apps))
    /\ \A app \in Range(apps) : LegalApplication(idx, prf, app)

RulesLegal ==
  /\ state_seq_no = 1 => LegalAt(0, mk(args.seq), InitialDefs)
  /\ (HasApp /\ current.goals # << >>) =>
       LegalAt(Head(current.goals)[1], current.prf, current.defs)

\* The states that pop_parents throws away although they have applications left.
Cut == {s \in States : s.apps # << >> /\ s.seq_no # Head(stack).seq_no
                       /\ \A t \in States' : t.seq_no # s.seq_no}

\* Do two proofs agree on the nodes that the first has closed outside the subtree
\* of idx?
AgreeOutside(prf, idx, prf2) ==
  \A i \in DOMAIN prf :
    (~is_open(prf[i]) /\ idx \notin Range(get_ancestry(prf, i))) =>
      i \in DOMAIN prf2 /\ prf2[i] = prf[i]

\* The cut reaches only states on the way to the application being expanded: what
\* is thrown away are other ways to treat a goal that this application has
\* worked on, in the same proof.  Competing branches of the search survive.
CutOnBranch ==
  [][HasApp =>
       \A s \in Cut :
         /\ s.idx \in DOMAIN current.prf
         /\ ~is_open(current.prf[s.idx])
         /\ \A a \in Range(s.apps) : AgreeOutside(a.prf, s.idx, current.prf)]_vars

\* The search ends, with a proof or without.
Terminates == <>(pc # "aux")
=============================================================================
