--------------------------------- MODULE Prover ---------------------------------
(***************************************************************************)
(* Iterative deepening depth-first search (generic/prover.ml, idfs).  The  *)
(* recursion of dfs is run on an explicit stack.  A frame belongs to a     *)
(* call of dfs that is trying the applications of the rules to its node:   *)
(* bound is the argument of that call, apps the applications not tried     *)
(* yet, todo the subgoals of the current application not visited yet, and  *)
(* prf the proof so far for the current application (optprf of the fold).  *)
(*                                                                         *)
(* None is the empty proof.  OCaml's native integers wrap around; Width is *)
(* their number of bits.                                                   *)
(***************************************************************************)
EXTENDS CyclicProof

CONSTANTS
  Ax(_, _),      \* the axioms, as a proof rule
  Rl(_, _),      \* the proof rules
  Searches,      \* calls of idfs: records [seq, bound, maxbound]
  Width          \* bits of an integer

max_int == 2 ^ (Width - 1) - 1

ASSUME WidthAssumption == Width \in Nat \ {0, 1}

ASSUME SearchesAssumption ==
  \A s \in Searches : s.bound \in 0 .. max_int /\ s.maxbound \in 0 .. max_int

VARIABLES
  pc,                  \* where the search is; "idle" if there is none
  args,                \* arguments of the outermost call of idfs
  bound,               \* argument bound of the current call of idfs
  call,                \* arguments of the call of dfs being made
  stack,               \* frames of the calls of dfs in progress, innermost first
  ret,                 \* value that dfs, or in the end idfs, returns
  last_search_depth

vars == <<pc, args, bound, call, stack, ret, last_search_depth>>

Control == {"idle", "idfs", "call", "next_app", "fold", "return", "done"}

None == << >>

\* Addition of native integers.
Plus(a, b) == ((a + b + 2 ^ (Width - 1)) % 2 ^ Width) - 2 ^ (Width - 1)

Init ==
  /\ pc = "idfs"
  /\ args \in Searches
  /\ bound = args.bound
  /\ call = [bound |-> bound, idx |-> 0, prf |-> mk(args.seq)]
  /\ stack = << >>
  /\ ret = None
  /\ last_search_depth = 0

-----------------------------------------------------------------------------

\* A faulty variant: maxbound itself is not tried.
Deepen_Exclusive ==
  /\ pc = "idfs"
  /\ IF bound >= args.maxbound
     THEN pc' = "done" /\ ret' = None /\ UNCHANGED call
     ELSE /\ pc' = "call"
          /\ call' = [bound |-> bound, idx |-> 0, prf |-> mk(args.seq)]
          /\ UNCHANGED ret
  /\ UNCHANGED <<args, bound, stack, last_search_depth>>

\* idfs gives up, or starts dfs at the root.
Deepen ==
  /\ pc = "idfs"
  /\ IF bound > args.maxbound
     THEN pc' = "done" /\ ret' = None /\ UNCHANGED call
     ELSE /\ pc' = "call"
          /\ call' = [bound |-> bound, idx |-> 0, prf |-> mk(args.seq)]
          /\ UNCHANGED ret
  /\ UNCHANGED <<args, bound, stack, last_search_depth>>

Return(value) == pc' = "return" /\ ret' = value

\* dfs looks for an axiom that closes the node, and then for a rule.
Dfs ==
  LET axs == Ax(call.idx, call.prf)
      closing == {k \in DOMAIN axs : axs[k].subgoals = << >>}
  IN  /\ pc = "call"
      /\ IF call.bound < 0
         THEN Return(None) /\ UNCHANGED stack
         ELSE IF closing # {}
         THEN Return(axs[Min(closing)].prf) /\ UNCHANGED stack
         ELSE /\ stack' = <<[bound |-> call.bound, apps |-> Rl(call.idx, call.prf),
                             todo |-> << >>, prf |-> None]>> \o stack
              /\ pc' = "next_app"
              /\ UNCHANGED ret
      /\ UNCHANGED <<args, bound, call, last_search_depth>>

\* A faulty variant: find_map ends with the proof of the last application it tried.
NextApp_LastProof ==
  /\ pc = "next_app"
  /\ IF Head(stack).apps = << >>
     THEN Return(Head(stack).prf) /\ stack' = Tail(stack)
     ELSE /\ LET app == Head(Head(stack).apps)
             IN  stack' = [stack EXCEPT ![1].apps = Tail(@),
                                        ![1].todo = app.subgoals,
                                        ![1].prf = app.prf]
          /\ pc' = "fold"
          /\ UNCHANGED ret
  /\ UNCHANGED <<args, bound, call, last_search_depth>>

\* find_map moves on to the next application, or fails.
NextApp ==
  /\ pc = "next_app"
  /\ IF Head(stack).apps = << >>
     THEN Return(None) /\ stack' = Tail(stack)
     ELSE /\ LET app == Head(Head(stack).apps)
             IN  stack' = [stack EXCEPT ![1].apps = Tail(@),
                                        ![1].todo = app.subgoals,
                                        ![1].prf = app.prf]
          /\ pc' = "fold"
          /\ UNCHANGED ret
  /\ UNCHANGED <<args, bound, call, last_search_depth>>

\* The fold visits the next subgoal, or ends with a proof.
Fold ==
  /\ pc = "fold"
  /\ LET frame == Head(stack)
     IN  IF frame.todo = << >>
         THEN Return(frame.prf) /\ stack' = Tail(stack) /\ UNCHANGED call
         ELSE /\ call' = [bound |-> Plus(frame.bound, -1),
                          idx |-> Head(frame.todo), prf |-> frame.prf]
              /\ stack' = [stack EXCEPT ![1].todo = Tail(@)]
              /\ pc' = "call"
              /\ UNCHANGED ret
  /\ UNCHANGED <<args, bound, last_search_depth>>

\* A faulty variant: the fold goes on with the proof it had before the call.
ReturnToFold_OldProof ==
  /\ pc = "return"
  /\ stack # << >>
  /\ pc' = IF ret = None THEN "next_app" ELSE "fold"
  /\ UNCHANGED <<args, bound, call, stack, ret, last_search_depth>>

\* A call made by the fold returns: None ends the fold, and find_map goes on.
ReturnToFold ==
  /\ pc = "return"
  /\ stack # << >>
  /\ IF ret = None
     THEN pc' = "next_app" /\ UNCHANGED stack
     ELSE pc' = "fold" /\ stack' = [stack EXCEPT ![1].prf = ret]
  /\ UNCHANGED <<args, bound, call, ret, last_search_depth>>

\* A faulty variant: the bound is not raised.
ReturnToIdfs_SameBound ==
  /\ pc = "return"
  /\ stack = << >>
  /\ IF ret = None
     THEN pc' = "idfs" /\ UNCHANGED last_search_depth
     ELSE pc' = "done" /\ last_search_depth' = bound
  /\ UNCHANGED <<args, bound, call, stack, ret>>

\* The outermost call returns.
ReturnToIdfs ==
  /\ pc = "return"
  /\ stack = << >>
  /\ IF ret = None
     THEN pc' = "idfs" /\ bound' = Plus(bound, 1) /\ UNCHANGED last_search_depth
     ELSE pc' = "done" /\ last_search_depth' = bound /\ UNCHANGED bound
  /\ UNCHANGED <<args, call, stack, ret>>

Next ==
  \/ Deepen
  \/ Dfs
  \/ NextApp
  \/ Fold
  \/ ReturnToFold
  \/ ReturnToIdfs

Spec == Init /\ [][Next]_vars

\* The search is sequential and never waits: the control advances until the end.
\* Every action changes pc, and one is enabled while a search is in progress, so
\* this is weak fairness of Next; it spares TLC the rules when it evaluates
\* ENABLED.
Advance == pc \notin {"idle", "done"} /\ pc' \in Control

FairSpec == Spec /\ WF_pc(Advance)

-----------------------------------------------------------------------------
(* Properties *)

\* A proof that the search returns is closed, has the goal at its root and
\* satisfies the global trace condition, although the search looks for open
\* nodes only among the subgoals of the current branch.
ResultIsProof ==
  (pc = "done" /\ ret # None) =>
    /\ is_closed(ret)
    /\ ret[0].seq = args.seq
    /\ check(ret)

\* The proof in which the search is working on subgoals.
CurrentProof ==
  IF pc = "call" THEN call.prf
  ELSE IF pc = "fold" THEN Head(stack).prf
  ELSE ret

\* The subgoals still to be visited, in all frames, are open in the current
\* proof, and every other node that is open is the node of the call being made:
\* closing one subgoal neither touches nor forgets another.
PendingGoalsOpen ==
  pc \in {"call", "fold"} =>
    LET pending == (UNION {Range(stack[k].todo) : k \in DOMAIN stack})
                     \cup (IF pc = "call" THEN {call.idx} ELSE {})
    IN  OpenNodes(CurrentProof) = pending

\* The rules keep their side of the bargain in every call that dfs makes.
RulesLegal ==
  (pc = "call" /\ ~(call.bound < 0)) =>
    \A apps \in {Ax(call.idx, call.prf), Rl(call.idx, call.prf)} :
      /\ apps \in Seq(Range(apps))
      /\ \A app \in Range(apps) : LegalApplication(call.idx, call.prf, app)

\* The search ends, with a proof or without.
Terminates == <>(pc = "done")

\* A search with a limit below the greatest integer ends, however many searches
\* were made, or abandoned, before it.
BoundedSearchEnds ==
  (pc \notin {"idle", "done"} /\ args.maxbound < max_int) ~> (pc \in {"idle", "done"})
=============================================================================
