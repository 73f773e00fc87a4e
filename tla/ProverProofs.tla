------------------------------ MODULE ProverProofs ------------------------------
(***************************************************************************)
(* Proofs about the depth-first search, for all goals, bounds and integer  *)
(* widths and for all rules that keep the contract RulesLegal.  The        *)
(* inductive invariant says which nodes are open in every proof that the   *)
(* search may still return to: each application left in a frame is open at *)
(* its own subgoals and at those that the frames further out still have to *)
(* visit, and nowhere else.  The second part is about the entailment       *)
(* sub-prover, which starts such searches one after the other and keeps    *)
(* the proofs they find.                                                   *)
(***************************************************************************)
EXTENDS Entails, CyclicProofTheorems

USE Zenon

-----------------------------------------------------------------------------
(* The contract of the searches with the rules, one application after another. *)

\* Lists put together.
LEMMA RangeConcat ==
  ASSUME NEW s \in Seq(Nat), NEW t \in Seq(Nat)
  PROVE  /\ s \o t \in Seq(Nat)
         /\ Range(s \o t) = Range(s) \cup Range(t)
         /\ IsInjective(s \o t)
              <=> IsInjective(s) /\ IsInjective(t) /\ Range(s) \cap Range(t) = {}
<1> DEFINE u == s \o t
           m == Len(s)
           n == Len(t)
<1>1. /\ m \in Nat /\ n \in Nat /\ DOMAIN s = 1 .. m /\ DOMAIN t = 1 .. n
      /\ u \in Seq(Nat) /\ DOMAIN u = 1 .. m + n
      /\ \A k \in DOMAIN s : u[k] = s[k]
      /\ \A k \in DOMAIN t : u[m + k] = t[k]
  BY SMT
<1> HIDE DEF u, m, n
<1>2. \A k \in DOMAIN u : k \in DOMAIN s \/ (k - m \in DOMAIN t /\ u[k] = t[k - m])
  <2> TAKE k \in DOMAIN u
  <2>1. ASSUME k \notin DOMAIN s PROVE k - m \in DOMAIN t /\ m + (k - m) = k
    BY <1>1, <2>1, SMT
  <2> QED
    BY <1>1, <2>1
<1>3. \A k \in DOMAIN s : k \in DOMAIN u
  BY <1>1, SMT
<1>4. \A k \in DOMAIN t : m + k \in DOMAIN u /\ m + k \notin DOMAIN s
  BY <1>1, SMT
<1>5. Range(u) = Range(s) \cup Range(t)
  BY <1>1, <1>2, <1>3, <1>4, SMTT(30) DEF Range
<1>6. ASSUME IsInjective(u)
      PROVE  IsInjective(s) /\ IsInjective(t) /\ Range(s) \cap Range(t) = {}
  <2>1. IsInjective(s)
    BY <1>1, <1>3, <1>6 DEF IsInjective
  <2>2. IsInjective(t)
    <3> SUFFICES ASSUME NEW k \in DOMAIN t, NEW l \in DOMAIN t, t[k] = t[l]
                 PROVE  k = l
      BY DEF IsInjective
    <3>1. m + k = m + l
      BY <1>1, <1>4, <1>6 DEF IsInjective
    <3> QED
      BY <1>1, <3>1, SMT
  <2>3. \A k \in DOMAIN s : \A l \in DOMAIN t : s[k] # t[l]
    BY <1>1, <1>3, <1>4, <1>6, SMT DEF IsInjective
  <2> QED
    BY <2>1, <2>2, <2>3 DEF Range
<1>7. ASSUME IsInjective(s), IsInjective(t), Range(s) \cap Range(t) = {}
      PROVE  IsInjective(u)
  <2> SUFFICES ASSUME NEW k \in DOMAIN u, NEW l \in DOMAIN u, u[k] = u[l]
               PROVE  k = l
    BY DEF IsInjective
  <2>1. \A i \in DOMAIN s : \A j \in DOMAIN t : s[i] # t[j]
    <3>1. \A x : ~(x \in Range(s) /\ x \in Range(t))
      BY <1>7
    <3> QED
      BY <3>1 DEF Range
  <2>2. CASE k \in DOMAIN s /\ l \in DOMAIN s
    BY <1>1, <1>7, <2>2 DEF IsInjective
  <2>3. CASE k \notin DOMAIN s /\ l \notin DOMAIN s
    <3>1. k - m = l - m
      BY <1>2, <1>7, <2>3 DEF IsInjective
    <3> QED
      BY <1>1, <3>1, SMT
  <2> QED
    BY <1>1, <1>2, <2>1, <2>2, <2>3, SMT
<1> QED
  BY <1>1, <1>5, <1>6, <1>7 DEF u

\* A legal application to one of the subgoals of a legal application makes a legal
\* application: this is one turn of the loop of apply_to_subgoals_pairwise, on which
\* the combinators compose, compose_pairwise, sequence and combine_axioms rest.
THEOREM ComposedLegal ==
  ASSUME NEW idx, NEW p, NEW q, NEW r,
         NEW A \in Seq(Nat), NEW g \in Nat, NEW B \in Seq(Nat), NEW C \in Seq(Nat),
         LegalApplication(idx, p, [subgoals |-> A \o (<<g>> \o B), prf |-> q]),
         LegalApplication(g, q, [subgoals |-> C, prf |-> r])
  PROVE  LegalApplication(idx, p, [subgoals |-> A \o (C \o B), prf |-> r])
<1> DEFINE gB == <<g>> \o B
           CB == C \o B
           old == A \o gB
           new == A \o CB
<1>0. <<g>> \in Seq(Nat) /\ Range(<<g>>) = {g}
  BY SMT DEF Range
<1>1. /\ gB \in Seq(Nat) /\ Range(gB) = {g} \cup Range(B)
      /\ IsInjective(gB) <=> IsInjective(<<g>>) /\ IsInjective(B) /\ {g} \cap Range(B) = {}
  <2>1. /\ gB \in Seq(Nat) /\ Range(gB) = Range(<<g>>) \cup Range(B)
        /\ IsInjective(gB) <=> IsInjective(<<g>>) /\ IsInjective(B) /\ Range(<<g>>) \cap Range(B) = {}
    BY <1>0, RangeConcat
  <2> QED
    BY <1>0, <2>1
<1>2. /\ CB \in Seq(Nat) /\ Range(CB) = Range(C) \cup Range(B)
      /\ IsInjective(CB) <=> IsInjective(C) /\ IsInjective(B) /\ Range(C) \cap Range(B) = {}
  BY RangeConcat
<1>3. /\ IsInjective(old)
      /\ Range(old) \cap (OpenNodes(p) \ {idx}) = {}
      /\ OpenNodes(q) = (OpenNodes(p) \ {idx}) \cup Range(old)
      /\ q[0].seq = p[0].seq
      /\ check(q) \/ ~check(p)
  BY DEF LegalApplication
<1>4. /\ IsInjective(C)
      /\ Range(C) \cap (OpenNodes(q) \ {g}) = {}
      /\ OpenNodes(r) = (OpenNodes(q) \ {g}) \cup Range(C)
      /\ 0 \in DOMAIN r
      /\ r[0].seq = q[0].seq
      /\ check(r) \/ ~check(q)
  BY DEF LegalApplication
<1> HIDE DEF gB, CB
<1>5. /\ Range(old) = Range(A) \cup Range(gB)
      /\ IsInjective(old) <=> IsInjective(A) /\ IsInjective(gB) /\ Range(A) \cap Range(gB) = {}
  BY <1>1, RangeConcat
<1>6. /\ new \in Seq(Nat) /\ Range(new) = Range(A) \cup Range(CB)
      /\ IsInjective(new) <=> IsInjective(A) /\ IsInjective(CB) /\ Range(A) \cap Range(CB) = {}
  BY <1>2, RangeConcat
<1> HIDE DEF old, new
<1>7. OpenNodes(q) \ {g} = (OpenNodes(p) \ {idx}) \cup Range(A) \cup Range(B)
  BY <1>1, <1>3, <1>5
<1>8. IsInjective(new)
  BY <1>1, <1>2, <1>3, <1>4, <1>5, <1>6, <1>7, SMTT(30)
<1>9. Range(new) \cap (OpenNodes(p) \ {idx}) = {}
  BY <1>1, <1>2, <1>3, <1>4, <1>5, <1>6, <1>7, SMT
<1>10. OpenNodes(r) = (OpenNodes(p) \ {idx}) \cup Range(new)
  BY <1>2, <1>4, <1>6, <1>7
<1> QED
  BY <1>3, <1>4, <1>6, <1>8, <1>9, <1>10 DEF LegalApplication, new, CB

-----------------------------------------------------------------------------
(* Lists. *)

\* A list without repetition: its head is not in its tail.
LEMMA HeadApart ==
  ASSUME NEW s, IsSeq(s), s # << >>, IsInjective(s)
  PROVE  /\ IsInjective(Tail(s))
         /\ Range(s) = {Head(s)} \cup Range(Tail(s))
         /\ Head(s) \notin Range(Tail(s))
<1>1. /\ Len(s) \in Nat
      /\ DOMAIN s = 1 .. Len(s)
      /\ 1 \in DOMAIN s /\ Head(s) = s[1]
  BY SeqFacts
<1>2. /\ DOMAIN Tail(s) = 1 .. Len(s) - 1
      /\ \A k \in DOMAIN Tail(s) : k + 1 \in DOMAIN s /\ Tail(s)[k] = s[k + 1]
      /\ \A k \in DOMAIN s : k # 1 => k - 1 \in DOMAIN Tail(s)
  BY TailFacts
<1>3. IsInjective(Tail(s))
  BY <1>1, <1>2, SMT DEF IsInjective
<1>4. Range(s) = {Head(s)} \cup Range(Tail(s))
  <2>1. ASSUME NEW k \in DOMAIN s, k # 1 PROVE s[k] \in Range(Tail(s))
    <3>1. k - 1 \in DOMAIN Tail(s) /\ Tail(s)[k - 1] = s[k]
      BY <1>1, <1>2, <2>1, SMT
    <3> QED
      BY <3>1 DEF Range
  <2> QED
    BY <1>1, <1>2, <2>1, SMTT(30) DEF Range
<1>5. Head(s) \notin Range(Tail(s))
  BY <1>1, <1>2, SMT DEF IsInjective, Range
<1> QED
  BY <1>3, <1>4, <1>5

-----------------------------------------------------------------------------
(* The inductive invariant. *)

\* The subgoals that the frames below the k-th one still have to visit.
Todos(s, k) == UNION {Range(s[l].todo) : l \in {i \in DOMAIN s : i > k}}

AppOK(app, goal, outer) ==
  /\ IsSeq(app.subgoals)
  /\ IsInjective(app.subgoals)
  /\ Range(app.subgoals) \cap outer = {}
  /\ Works(app.prf, goal, Range(app.subgoals) \cup outer)

FrameOK(frame, goal, outer) ==
  /\ DOMAIN frame = {"bound", "apps", "todo", "prf"}
  /\ IsSeq(frame.apps)
  /\ \A j \in DOMAIN frame.apps : AppOK(frame.apps[j], goal, outer)
  /\ IsSeq(frame.todo)
  /\ IsInjective(frame.todo)
  /\ Range(frame.todo) \cap outer = {}

StackOK(s, goal) ==
  /\ IsSeq(s)
  /\ \A k \in DOMAIN s : FrameOK(s[k], goal, Todos(s, k))

SInv ==
  /\ pc \in Control \ {"idle"}
  /\ StackOK(stack, args.seq)
  /\ pc \in {"idfs", "done"} => stack = << >>
  /\ pc = "call" =>
       /\ Works(call.prf, args.seq, {call.idx} \cup Todos(stack, 0))
       /\ call.idx \notin Todos(stack, 0)
  /\ pc \in {"next_app", "fold"} => stack # << >>
  /\ pc = "fold" => Works(stack[1].prf, args.seq, Todos(stack, 0))
  /\ pc = "return" => (ret = None \/ Works(ret, args.seq, Todos(stack, 0)))
  /\ pc = "done" => (ret = None \/ Works(ret, args.seq, {}))

LEMMA TodosEmpty == Todos(<< >>, 0) = {}
BY SMT DEF Todos

LEMMA TodosFirst ==
  ASSUME NEW s, IsSeq(s), s # << >>
  PROVE  Todos(s, 0) = Range(s[1].todo) \cup Todos(s, 1)
BY SeqFacts, SMT DEF Todos

LEMMA TodosTail ==
  ASSUME NEW s, IsSeq(s), s # << >>, NEW k \in Nat
  PROVE  Todos(Tail(s), k) = Todos(s, k + 1)
<1>1. /\ Len(s) \in Nat
      /\ DOMAIN s = 1 .. Len(s)
  BY SeqFacts
<1>2. /\ DOMAIN Tail(s) = 1 .. Len(s) - 1
      /\ \A l \in DOMAIN Tail(s) : l + 1 \in DOMAIN s /\ Tail(s)[l] = s[l + 1]
  BY TailFacts
<1>3. ASSUME NEW l \in DOMAIN Tail(s), l > k
      PROVE  l + 1 \in DOMAIN s /\ l + 1 > k + 1 /\ Tail(s)[l].todo = s[l + 1].todo
  BY <1>1, <1>2, <1>3, SMT
<1>4. ASSUME NEW l \in DOMAIN s, l > k + 1
      PROVE  l - 1 \in DOMAIN Tail(s) /\ l - 1 > k /\ Tail(s)[l - 1].todo = s[l].todo
  BY <1>1, <1>2, <1>4, SMT
<1>5. \A x : x \in Todos(Tail(s), k) => x \in Todos(s, k + 1)
  BY <1>3 DEF Todos
<1>6. \A x : x \in Todos(s, k + 1) => x \in Todos(Tail(s), k)
  BY <1>4 DEF Todos
<1> QED
  BY <1>5, <1>6

LEMMA TodosCons ==
  ASSUME NEW s, IsSeq(s), NEW x, NEW k \in Nat
  PROVE  Todos(<<x>> \o s, k + 1) = Todos(s, k)
<1> DEFINE t == <<x>> \o s
<1>0. Pushed(t, x, s)
  BY DEF Pushed
<1> HIDE DEF t
<1>1. /\ IsSeq(t)
      /\ DOMAIN t = 1 .. Len(s) + 1
      /\ \A l \in DOMAIN s : t[l + 1] = s[l]
  BY <1>0, ConsFacts, SMT
<1>2. Len(s) \in Nat /\ DOMAIN s = 1 .. Len(s)
  BY SeqFacts
<1>3. ASSUME NEW l \in DOMAIN t, l > k + 1
      PROVE  l - 1 \in DOMAIN s /\ l - 1 > k /\ s[l - 1].todo = t[l].todo
  <2>1. l - 1 \in DOMAIN s /\ l - 1 > k /\ (l - 1) + 1 = l
    BY <1>1, <1>2, <1>3, SMT
  <2> QED
    BY <1>1, <2>1
<1>4. ASSUME NEW l \in DOMAIN s, l > k
      PROVE  l + 1 \in DOMAIN t /\ l + 1 > k + 1 /\ t[l + 1].todo = s[l].todo
  BY <1>1, <1>2, <1>4, SMT
<1>5. \A y : y \in Todos(t, k + 1) => y \in Todos(s, k)
  BY <1>3 DEF Todos
<1>6. \A y : y \in Todos(s, k) => y \in Todos(t, k + 1)
  BY <1>4 DEF Todos
<1> QED
  BY <1>5, <1>6 DEF t

\* Two stacks that differ in their first frames only.
LEMMA TodosUpdate ==
  ASSUME NEW s, NEW t, DOMAIN s \in SUBSET Int, DOMAIN t = DOMAIN s,
         \A l \in DOMAIN s : l > 1 => t[l] = s[l],
         NEW k \in Int, k >= 1
  PROVE  Todos(t, k) = Todos(s, k)
BY SMT DEF Todos

-----------------------------------------------------------------------------
(* What the steps do to the stack. *)

LEMMA PopOK ==
  ASSUME NEW s, NEW goal, StackOK(s, goal), s # << >>
  PROVE  /\ StackOK(Tail(s), goal)
         /\ Todos(Tail(s), 0) = Todos(s, 1)
<1>1. /\ IsSeq(Tail(s))
      /\ DOMAIN Tail(s) = 1 .. Len(s) - 1
      /\ \A k \in DOMAIN Tail(s) : k + 1 \in DOMAIN s /\ Tail(s)[k] = s[k + 1]
  BY TailFacts DEF StackOK
<1>2. \A k \in Nat : Todos(Tail(s), k) = Todos(s, k + 1)
  BY TodosTail DEF StackOK
<1>3. ASSUME NEW k \in DOMAIN Tail(s)
      PROVE  FrameOK(Tail(s)[k], goal, Todos(Tail(s), k))
  <2>1. k \in Nat
    BY <1>1, SMT
  <2>2. FrameOK(s[k + 1], goal, Todos(s, k + 1))
    BY <1>1 DEF StackOK
  <2> QED
    BY <1>1, <1>2, <2>1, <2>2
<1>4. Todos(Tail(s), 0) = Todos(s, 1)
  BY <1>2, SMT
<1> QED
  BY <1>1, <1>3, <1>4 DEF StackOK

LEMMA PushOK ==
  ASSUME NEW s, NEW goal, StackOK(s, goal), NEW frame, FrameOK(frame, goal, Todos(s, 0))
  PROVE  StackOK(<<frame>> \o s, goal) /\ <<frame>> \o s # << >>
<1> DEFINE t == <<frame>> \o s
<1>0. Pushed(t, frame, s)
  BY DEF Pushed
<1> HIDE DEF t
<1>1. /\ IsSeq(t)
      /\ DOMAIN t = 1 .. Len(s) + 1
      /\ t[1] = frame
      /\ \A k \in DOMAIN s : t[k + 1] = s[k]
  BY <1>0, ConsFacts, SMT DEF StackOK
<1>2. Len(s) \in Nat /\ DOMAIN s = 1 .. Len(s)
  BY SeqFacts DEF StackOK
<1>3. \A k \in Nat : Todos(t, k + 1) = Todos(s, k)
  BY TodosCons DEF StackOK, t
<1>4. FrameOK(t[1], goal, Todos(t, 1))
  BY <1>1, <1>3, SMT
<1>5. ASSUME NEW k \in DOMAIN t, k # 1
      PROVE  FrameOK(t[k], goal, Todos(t, k))
  <2>1. k - 1 \in DOMAIN s /\ k - 1 \in Nat /\ (k - 1) + 1 = k
    BY <1>1, <1>2, <1>5, SMT
  <2>2. FrameOK(s[k - 1], goal, Todos(s, k - 1))
    BY <2>1 DEF StackOK
  <2>3. t[k] = s[k - 1] /\ Todos(t, k) = Todos(s, k - 1)
    BY <1>1, <1>3, <2>1
  <2> QED
    BY <2>2, <2>3
<1>6. 1 \in DOMAIN t
  BY <1>1, <1>2, SMT
<1>7. t # << >>
  BY <1>6, SMT
<1> QED
  BY <1>1, <1>4, <1>5, <1>7 DEF StackOK, t

LEMMA ReplaceOK ==
  ASSUME NEW s, NEW goal, StackOK(s, goal), s # << >>,
         NEW frame, FrameOK(frame, goal, Todos(s, 1)),
         NEW t, DOMAIN t = DOMAIN s, t = [k \in DOMAIN s |-> t[k]],
         t[1] = frame, \A l \in DOMAIN s : l # 1 => t[l] = s[l]
  PROVE  /\ StackOK(t, goal)
         /\ t # << >>
         /\ Todos(t, 0) = Range(frame.todo) \cup Todos(s, 1)
<1>1. IsSeq(s) /\ Len(s) \in Nat /\ DOMAIN s = 1 .. Len(s) /\ 1 \in DOMAIN s
  BY SeqFacts DEF StackOK
<1>2. IsSeq(t) /\ t # << >>
  BY <1>1, UpdateFacts
<1>3. \A k \in DOMAIN s : Todos(t, k) = Todos(s, k)
  BY <1>1, TodosUpdate, SMT
<1>4. Todos(t, 0) = Range(t[1].todo) \cup Todos(t, 1)
  BY <1>2, TodosFirst
<1>5. \A k \in DOMAIN t : FrameOK(t[k], goal, Todos(t, k))
  BY <1>1, <1>3 DEF StackOK
<1> QED
  BY <1>1, <1>2, <1>3, <1>4, <1>5 DEF StackOK

-----------------------------------------------------------------------------
(* The steps. *)

\* An application of a rule that keeps the contract.
LEMMA LegalWorks ==
  ASSUME NEW idx, NEW prf, NEW goal, NEW outer, NEW app,
         Works(prf, goal, {idx} \cup outer), idx \notin outer,
         LegalApplication(idx, prf, app)
  PROVE  AppOK(app, goal, outer)
<1>1. OpenNodes(prf) \ {idx} = outer
  BY DEF Works
<1>2. IsSeq(app.subgoals)
  BY DEF LegalApplication, IsSeq
<1> QED
  BY <1>1, <1>2 DEF Works, AppOK, LegalApplication

LEMMA EmptyOK == ASSUME NEW goal PROVE StackOK(<< >>, goal)
<1>1. IsSeq(<< >>) /\ DOMAIN << >> = {}
  BY SMT DEF IsSeq
<1> QED
  BY <1>1 DEF StackOK

LEMMA InitSInv == Init => SInv
BY EmptyOK DEF Init, SInv, Control

LEMMA DeepenStep == SInv /\ Deepen => SInv'
<1> SUFFICES ASSUME SInv, Deepen PROVE SInv'
  OBVIOUS
<1>1. /\ pc = "idfs" /\ stack = << >> /\ stack' = stack /\ args' = args
      /\ StackOK(stack, args.seq)
  BY DEF SInv, Deepen
<1>2. StackOK(stack', args'.seq)
  BY <1>1
<1>3. CASE pc' = "done" /\ ret' = None
  BY <1>1, <1>2, <1>3 DEF SInv, Control
<1>4. CASE pc' = "call" /\ call' = [bound |-> bound, idx |-> 0, prf |-> mk(args.seq)]
  <2>1. Todos(stack', 0) = {}
    BY <1>1, TodosEmpty
  <2>2. Works(mk(args.seq), args.seq, {0})
    BY MkWorks
  <2>3. call'.idx = 0 /\ call'.prf = mk(args.seq)
    BY <1>4
  <2>4. {call'.idx} \cup Todos(stack', 0) = {0}
    BY <2>1, <2>3
  <2>5. Works(call'.prf, args'.seq, {call'.idx} \cup Todos(stack', 0))
    BY <1>1, <2>2, <2>3, <2>4
  <2> QED
    BY <1>2, <1>4, <2>1, <2>5 DEF SInv, Control
<1> QED
  BY <1>3, <1>4 DEF Deepen

LEMMA DfsStep == SInv /\ RulesLegal /\ Dfs => SInv'
<1> SUFFICES ASSUME SInv, RulesLegal, Dfs PROVE SInv'
  OBVIOUS
<1> DEFINE axs == Ax(call.idx, call.prf)
           rls == Rl(call.idx, call.prf)
           closing == {k \in DOMAIN axs : axs[k].subgoals = << >>}
           frame == [bound |-> call.bound, apps |-> rls, todo |-> << >>, prf |-> None]
           goal == args.seq
           outer == Todos(stack, 0)
<1>1. /\ pc = "call" /\ args' = args
      /\ StackOK(stack, goal)
      /\ Works(call.prf, goal, {call.idx} \cup outer)
      /\ call.idx \notin outer
  BY DEF SInv, Dfs
<1>2. \/ pc' = "return" /\ ret' = None /\ stack' = stack
      \/ /\ ~(call.bound < 0)
         /\ closing # {}
         /\ pc' = "return" /\ ret' = axs[Min(closing)].prf /\ stack' = stack
      \/ /\ ~(call.bound < 0)
         /\ pc' = "next_app" /\ stack' = <<frame>> \o stack
  BY DEF Dfs, Return
<1>3. ASSUME ~(call.bound < 0), NEW apps \in {axs, rls}
      PROVE  /\ apps \in Seq(Range(apps))
             /\ \A j \in DOMAIN apps : AppOK(apps[j], goal, outer)
  <2>1. /\ apps \in Seq(Range(apps))
        /\ \A app \in Range(apps) : LegalApplication(call.idx, call.prf, app)
    BY <1>1, <1>3 DEF RulesLegal
  <2>2. \A j \in DOMAIN apps : LegalApplication(call.idx, call.prf, apps[j])
    BY <2>1 DEF Range
  <2> HIDE DEF goal, outer
  <2> QED
    BY <1>1, <2>1, <2>2, LegalWorks
<1> HIDE DEF axs, rls, goal, outer
<1>4. CASE pc' = "return" /\ ret' = None /\ stack' = stack
  BY <1>1, <1>4 DEF SInv, Control, goal
<1>5. ASSUME ~(call.bound < 0), closing # {},
             pc' = "return", ret' = axs[Min(closing)].prf, stack' = stack
      PROVE  SInv'
  <2>1. axs \in Seq(Range(axs)) /\ \A j \in DOMAIN axs : AppOK(axs[j], goal, outer)
    BY <1>3, <1>5
  <2>2. closing \in SUBSET Nat
    BY <2>1, SMT
  <2>3. Min(closing) \in closing
    <3> HIDE DEF closing
    <3>1. PICK x \in closing : \A y \in closing : x =< y
      BY <1>5, <2>2, LeastNatural
    <3> QED
      BY <3>1 DEF Min
  <2>4. /\ AppOK(axs[Min(closing)], goal, outer)
        /\ axs[Min(closing)].subgoals = << >>
    BY <2>1, <2>3
  <2> HIDE DEF closing
  <2>5. Range(axs[Min(closing)].subgoals) \cup outer = outer
    BY <2>4, SMT DEF Range
  <2>6. Works(ret', goal, outer)
    BY <1>5, <2>4, <2>5 DEF AppOK
  <2> QED
    BY <1>1, <1>5, <2>6 DEF SInv, Control, goal, outer
<1>6. ASSUME ~(call.bound < 0), pc' = "next_app", stack' = <<frame>> \o stack
      PROVE  SInv'
  <2>1. rls \in Seq(Range(rls)) /\ \A j \in DOMAIN rls : AppOK(rls[j], goal, outer)
    BY <1>3, <1>6
  <2>2. IsSeq(rls)
    BY <2>1 DEF IsSeq
  <2>3. IsSeq(<< >>) /\ IsInjective(<< >>) /\ Range(<< >>) = {}
    BY SMT DEF IsSeq, IsInjective, Range
  <2>4. FrameOK(frame, goal, outer)
    BY <2>1, <2>2, <2>3 DEF FrameOK
  <2> HIDE DEF frame
  <2>5. StackOK(stack', goal) /\ stack' # << >>
    BY <1>1, <1>6, <2>4, PushOK DEF outer
  <2> QED
    BY <1>1, <1>6, <2>5 DEF SInv, Control, goal
<1> QED
  BY <1>2, <1>4, <1>5, <1>6

LEMMA NextAppStep == SInv /\ NextApp => SInv'
<1> SUFFICES ASSUME SInv, NextApp PROVE SInv'
  OBVIOUS
<1> DEFINE goal == args.seq
           app == Head(Head(stack).apps)
           frame == [stack[1] EXCEPT !.apps = Tail(@), !.todo = app.subgoals, !.prf = app.prf]
<1>1. /\ pc = "next_app" /\ stack # << >> /\ args' = args
      /\ StackOK(stack, goal)
  BY DEF SInv, NextApp
<1>2. IsSeq(stack) /\ 1 \in DOMAIN stack /\ Head(stack) = stack[1]
  BY <1>1, SeqFacts DEF StackOK
<1>3. FrameOK(stack[1], goal, Todos(stack, 1))
  BY <1>1, <1>2 DEF StackOK
<1>4. CASE pc' = "return" /\ ret' = None /\ stack' = Tail(stack)
  <2>1. StackOK(stack', goal)
    BY <1>1, <1>4, PopOK
  <2> QED
    BY <1>1, <1>4, <2>1 DEF SInv, Control
<1>5. ASSUME Head(stack).apps # << >>, pc' = "fold",
             stack' = [stack EXCEPT ![1].apps = Tail(@),
                                    ![1].todo = app.subgoals,
                                    ![1].prf = app.prf]
      PROVE  SInv'
  <2>1. /\ IsSeq(stack[1].apps) /\ stack[1].apps # << >>
        /\ \A j \in DOMAIN stack[1].apps : AppOK(stack[1].apps[j], goal, Todos(stack, 1))
    BY <1>2, <1>3, <1>5 DEF FrameOK
  <2>2. 1 \in DOMAIN stack[1].apps /\ app = stack[1].apps[1]
    BY <1>2, <2>1, SeqFacts
  <2>3. AppOK(app, goal, Todos(stack, 1))
    BY <2>1, <2>2
  <2>4. /\ IsSeq(Tail(stack[1].apps))
        /\ \A k \in DOMAIN Tail(stack[1].apps) :
             k + 1 \in DOMAIN stack[1].apps /\ Tail(stack[1].apps)[k] = stack[1].apps[k + 1]
    BY <2>1, TailFacts
  <2> HIDE DEF app
  <2>5. /\ DOMAIN stack' = DOMAIN stack
        /\ stack' = [k \in DOMAIN stack |-> stack'[k]]
        /\ stack'[1] = frame
        /\ \A l \in DOMAIN stack : l # 1 => stack'[l] = stack[l]
    BY <1>2, <1>5
  <2>6. /\ frame.apps = Tail(stack[1].apps)
        /\ frame.todo = app.subgoals
        /\ frame.prf = app.prf
        /\ DOMAIN frame = {"bound", "apps", "todo", "prf"}
    BY <1>3 DEF FrameOK
  <2> HIDE DEF frame
  <2>7. FrameOK(frame, goal, Todos(stack, 1))
    <3>1. ASSUME NEW k \in DOMAIN frame.apps PROVE AppOK(frame.apps[k], goal, Todos(stack, 1))
      BY <2>1, <2>4, <2>6
    <3> QED
      BY <2>3, <2>4, <2>6, <3>1 DEF FrameOK, AppOK
  <2>8. /\ StackOK(stack', goal)
        /\ stack' # << >>
        /\ Todos(stack', 0) = Range(frame.todo) \cup Todos(stack, 1)
    BY <1>1, <2>5, <2>7, ReplaceOK, SMTT(30)
  <2>9. Works(stack'[1].prf, goal, Todos(stack', 0))
    BY <2>3, <2>5, <2>6, <2>8 DEF AppOK
  <2> QED
    BY <1>1, <1>5, <2>8, <2>9 DEF SInv, Control
<1> QED
  BY <1>4, <1>5 DEF NextApp, Return

LEMMA FoldStep == SInv /\ Fold => SInv'
<1> SUFFICES ASSUME SInv, Fold PROVE SInv'
  OBVIOUS
<1> DEFINE goal == args.seq
           frame == [stack[1] EXCEPT !.todo = Tail(@)]
<1>1. /\ pc = "fold" /\ stack # << >> /\ args' = args
      /\ StackOK(stack, goal)
      /\ Works(stack[1].prf, goal, Todos(stack, 0))
  BY DEF SInv, Fold
<1>2. IsSeq(stack) /\ 1 \in DOMAIN stack /\ Head(stack) = stack[1]
  BY <1>1, SeqFacts DEF StackOK
<1>3. FrameOK(stack[1], goal, Todos(stack, 1))
  BY <1>1, <1>2 DEF StackOK
<1>4. Todos(stack, 0) = Range(stack[1].todo) \cup Todos(stack, 1)
  BY <1>1, <1>2, TodosFirst
<1>5. ASSUME stack[1].todo = << >>,
             pc' = "return", ret' = stack[1].prf, stack' = Tail(stack)
      PROVE  SInv'
  <2>1. Todos(stack, 0) = Todos(stack, 1)
    <3>1. Range(<< >>) = {}
      BY SMT DEF Range
    <3> QED
      BY <1>4, <1>5, <3>1
  <2>2. StackOK(stack', goal) /\ Todos(stack', 0) = Todos(stack, 1)
    BY <1>1, <1>5, PopOK
  <2> QED
    BY <1>1, <1>5, <2>1, <2>2 DEF SInv, Control
<1>6. ASSUME stack[1].todo # << >>, pc' = "call",
             call'.idx = Head(stack[1].todo), call'.prf = stack[1].prf,
             stack' = [stack EXCEPT ![1].todo = Tail(@)]
      PROVE  SInv'
  <2>1. /\ IsSeq(stack[1].todo) /\ IsInjective(stack[1].todo)
        /\ Range(stack[1].todo) \cap Todos(stack, 1) = {}
    BY <1>3 DEF FrameOK
  <2>2. /\ IsInjective(Tail(stack[1].todo))
        /\ Range(stack[1].todo) = {Head(stack[1].todo)} \cup Range(Tail(stack[1].todo))
        /\ Head(stack[1].todo) \notin Range(Tail(stack[1].todo))
    BY <1>6, <2>1, HeadApart
  <2>3. IsSeq(Tail(stack[1].todo))
    BY <1>6, <2>1, TailFacts
  <2>5. /\ DOMAIN stack' = DOMAIN stack
        /\ stack' = [k \in DOMAIN stack |-> stack'[k]]
        /\ stack'[1] = frame
        /\ \A l \in DOMAIN stack : l # 1 => stack'[l] = stack[l]
    BY <1>2, <1>6
  <2>6. /\ frame.apps = stack[1].apps
        /\ frame.todo = Tail(stack[1].todo)
        /\ DOMAIN frame = {"bound", "apps", "todo", "prf"}
    BY <1>3 DEF FrameOK
  <2> HIDE DEF frame
  <2>7. FrameOK(frame, goal, Todos(stack, 1))
    BY <1>3, <2>1, <2>2, <2>3, <2>6 DEF FrameOK
  <2>8. /\ StackOK(stack', goal)
        /\ stack' # << >>
        /\ Todos(stack', 0) = Range(frame.todo) \cup Todos(stack, 1)
    BY <1>1, <2>5, <2>7, ReplaceOK, SMTT(30)
  <2>9. /\ call'.idx \notin Todos(stack', 0)
        /\ Todos(stack, 0) = {call'.idx} \cup Todos(stack', 0)
    BY <1>4, <1>6, <2>1, <2>2, <2>6, <2>8
  <2>10. Works(call'.prf, goal, {call'.idx} \cup Todos(stack', 0))
    BY <1>1, <1>6, <2>9
  <2> QED
    BY <1>1, <1>6, <2>8, <2>9, <2>10 DEF SInv, Control
<1>7. \/ /\ stack[1].todo = << >>
         /\ pc' = "return" /\ ret' = stack[1].prf /\ stack' = Tail(stack)
      \/ /\ stack[1].todo # << >> /\ pc' = "call"
         /\ call'.idx = Head(stack[1].todo) /\ call'.prf = stack[1].prf
         /\ stack' = [stack EXCEPT ![1].todo = Tail(@)]
  BY <1>2, SMT DEF Fold, Return
<1> QED
  BY <1>5, <1>6, <1>7

LEMMA ReturnToFoldStep == SInv /\ ReturnToFold => SInv'
<1> SUFFICES ASSUME SInv, ReturnToFold PROVE SInv'
  OBVIOUS
<1> DEFINE goal == args.seq
           frame == [stack[1] EXCEPT !.prf = ret]
<1>1. /\ pc = "return" /\ stack # << >> /\ args' = args /\ ret' = ret
      /\ StackOK(stack, goal)
      /\ ret = None \/ Works(ret, goal, Todos(stack, 0))
  BY DEF SInv, ReturnToFold
<1>2. IsSeq(stack) /\ 1 \in DOMAIN stack
  BY <1>1, SeqFacts DEF StackOK
<1>3. FrameOK(stack[1], goal, Todos(stack, 1))
  BY <1>1, <1>2 DEF StackOK
<1>4. CASE pc' = "next_app" /\ stack' = stack
  BY <1>1, <1>4 DEF SInv, Control
<1>5. ASSUME ret # None, pc' = "fold", stack' = [stack EXCEPT ![1].prf = ret]
      PROVE  SInv'
  <2>1. /\ DOMAIN stack' = DOMAIN stack
        /\ stack' = [k \in DOMAIN stack |-> stack'[k]]
        /\ stack'[1] = frame
        /\ \A l \in DOMAIN stack : l # 1 => stack'[l] = stack[l]
    BY <1>2, <1>5
  <2>2. /\ frame.apps = stack[1].apps
        /\ frame.todo = stack[1].todo
        /\ frame.prf = ret
        /\ DOMAIN frame = {"bound", "apps", "todo", "prf"}
    BY <1>3 DEF FrameOK
  <2> HIDE DEF frame
  <2>3. FrameOK(frame, goal, Todos(stack, 1))
    BY <1>3, <2>2 DEF FrameOK
  <2>4. /\ StackOK(stack', goal)
        /\ stack' # << >>
        /\ Todos(stack', 0) = Range(frame.todo) \cup Todos(stack, 1)
    BY <1>1, <2>1, <2>3, ReplaceOK, SMT
  <2>5. Todos(stack', 0) = Todos(stack, 0)
    BY <1>1, <1>2, <2>2, <2>4, TodosFirst
  <2> QED
    BY <1>1, <1>5, <2>1, <2>2, <2>4, <2>5 DEF SInv, Control
<1> QED
  BY <1>4, <1>5 DEF ReturnToFold

LEMMA ReturnToIdfsStep == SInv /\ ReturnToIdfs => SInv'
<1> SUFFICES ASSUME SInv, ReturnToIdfs PROVE SInv'
  OBVIOUS
<1>1. /\ stack = << >> /\ stack' = stack /\ args' = args /\ ret' = ret
      /\ StackOK(stack, args.seq)
      /\ ret = None \/ Works(ret, args.seq, Todos(stack, 0))
      /\ pc' \in {"idfs", "done"}
  BY DEF SInv, ReturnToIdfs
<1>2. Todos(stack, 0) = {}
  BY <1>1, TodosEmpty
<1> QED
  BY <1>1, <1>2 DEF SInv, Control

LEMMA StepSInv == SInv /\ RulesLegal /\ [Next]_vars => SInv'
<1> SUFFICES ASSUME SInv, RulesLegal, [Next]_vars PROVE SInv'
  OBVIOUS
<1>1. CASE UNCHANGED vars
  BY <1>1 DEF vars, SInv
<1> QED
  BY <1>1, DeepenStep, DfsStep, NextAppStep, FoldStep, ReturnToFoldStep, ReturnToIdfsStep DEF Next

-----------------------------------------------------------------------------
(* The results. *)

\* The strengthening of the two properties below is an invariant of every search
\* whose rules keep the contract.
THEOREM SearchInvariance == Spec /\ []RulesLegal => []SInv
BY InitSInv, StepSInv, PTL DEF Spec

\* At every call of dfs, and whenever its fold goes on to the next subgoal, the
\* open nodes of the proof are the node of the call and the subgoals that the
\* frames on the stack still have to visit: no subgoal is forgotten or visited
\* twice, after any number of failures and retries.
THEOREM NoGoalForgotten == Spec /\ []RulesLegal => []PendingGoalsOpen
<1>1. SInv => PendingGoalsOpen
  <2> SUFFICES ASSUME SInv, pc \in {"call", "fold"}
               PROVE  OpenNodes(CurrentProof) =
                        (UNION {Range(stack[k].todo) : k \in DOMAIN stack})
                          \cup (IF pc = "call" THEN {call.idx} ELSE {})
    BY DEF PendingGoalsOpen
  <2>1. IsSeq(stack)
    BY DEF SInv, StackOK
  <2>2. {l \in DOMAIN stack : l > 0} = DOMAIN stack
    <3>1. DOMAIN stack = 1 .. Len(stack)
      BY <2>1, SeqFacts
    <3> QED
      BY <3>1, SMT
  <2>3. Todos(stack, 0) = UNION {Range(stack[k].todo) : k \in DOMAIN stack}
    BY <2>2 DEF Todos
  <2>4. CASE pc = "call"
    BY <2>3, <2>4 DEF SInv, Works, CurrentProof
  <2>5. CASE pc = "fold"
    <3>1. Head(stack) = stack[1]
      BY <2>1, <2>5, SeqFacts DEF SInv
    <3> QED
      BY <2>3, <2>5, <3>1 DEF SInv, Works, CurrentProof
  <2> QED
    BY <2>4, <2>5
<1> QED
  BY <1>1, SearchInvariance, PTL

\* What idfs returns is None or a proof of the goal without an open node that
\* satisfies the global trace condition, although idfs never looks at the whole
\* proof.
THEOREM SearchReturnsProofs == Spec /\ []RulesLegal => []ResultIsProof
<1>1. SInv => ResultIsProof
  BY DEF SInv, ResultIsProof, Works, OpenNodes, is_closed
<1> QED
  BY <1>1, SearchInvariance, PTL

-----------------------------------------------------------------------------
(* Entailments: the searches that entails starts one after the other, and   *)
(* the table that outlives them.                                            *)

\* A proof of seq, if there is one.
ProofOrNone(prf, seq) == prf = None \/ Works(prf, seq, {})

TableOK == \A s \in DOMAIN entailment_table : ProofOrNone(entailment_table[s].prf, s)

EInv ==
  /\ TableOK
  /\ epc \in {"idle", "entails", "prove", "answered"}
  /\ epc = "prove" => SInv /\ args.seq = Goal
  /\ epc # "prove" => pc = "idle" /\ stack = << >>
  /\ epc = "answered" => ProofOrNone(ret, Goal)

LEMMA StoreOK ==
  ASSUME TableOK, NEW seq, NEW prf, ProofOrNone(prf, seq), Store(seq, prf)
  PROVE  TableOK'
<1> DEFINE entry == [depth |-> entl_depth, prf |-> prf]
           D == DOMAIN entailment_table
           table == [s \in D \cup {seq} |-> IF s = seq THEN entry ELSE entailment_table[s]]
<1>1. entry.prf = prf
  OBVIOUS
<1>2. entailment_table' = table
  BY DEF Store
<1> HIDE DEF entry
<1>3. /\ DOMAIN table = D \cup {seq}
      /\ \A s \in D \cup {seq} : table[s] = IF s = seq THEN entry ELSE entailment_table[s]
  OBVIOUS
<1> HIDE DEF table
<1>4. ASSUME NEW s \in D \cup {seq} PROVE ProofOrNone(table[s].prf, s)
  <2>1. CASE s = seq
    BY <1>1, <1>3, <2>1
  <2>2. CASE s # seq
    <3>1. table[s] = entailment_table[s] /\ s \in D
      BY <1>3, <2>2
    <3> QED
      BY <3>1 DEF TableOK
  <2> QED
    BY <2>1, <2>2
<1> QED
  BY <1>2, <1>3, <1>4 DEF TableOK

\* Between two searches.
LEMMA NoSearch ==
  ASSUME EInv, entailment_table' = entailment_table, epc' \in {"idle", "entails"},
         pc' = "idle", stack' = << >>
  PROVE  EInv'
<1>1. TableOK'
  BY DEF EInv, TableOK
<1> QED
  BY <1>1 DEF EInv

\* A rule asks, goes on or ends.
LEMMA AskStep ==
  ASSUME EInv,
         \/ mk_symex_empty_axiom \/ AuxGoesOn \/ AuxEnds \/ assert_rule
         \/ AssertAnswered \/ cut_rule \/ CutAnswered
  PROVE  EInv'
<1>1. /\ entailment_table' = entailment_table /\ epc' \in {"idle", "entails"}
      /\ epc \in {"idle", "answered"} /\ pc' = pc /\ stack' = stack
  BY ZenonT(40) DEF mk_symex_empty_axiom, AuxGoesOn, AuxEnds, assert_rule, AssertAnswered,
                    cut_rule, CutAnswered, Ask, Finish, vars
<1>2. pc = "idle" /\ stack = << >>
  BY <1>1 DEF EInv
<1> QED
  BY <1>1, <1>2, NoSearch

\* entails answers from the table, or rejects the sequent.
LEMMA AnswerStep ==
  ASSUME EInv, Hit \/ Reject
  PROVE  EInv'
<1>1. pc = "idle" /\ stack = << >> /\ TableOK
  BY DEF EInv, Hit, Reject
<1>2. /\ epc' = "answered" /\ pc' = pc /\ stack' = stack /\ job' = job
      /\ TableOK' /\ ProofOrNone(ret', Goal)
  <2>1. CASE Hit
    <3>1. Goal \in DOMAIN entailment_table /\ ret' = entailment_table[Goal].prf
      BY <2>1 DEF Hit, Cached
    <3>2. ProofOrNone(ret', Goal)
      BY <1>1, <3>1 DEF TableOK
    <3> QED
      BY <1>1, <2>1, <3>2 DEF Hit, TableOK
  <2>2. CASE Reject
    <3>1. ProofOrNone(None, Goal)
      BY DEF ProofOrNone
    <3>2. TableOK'
      BY <1>1, <2>2, <3>1, StoreOK DEF Reject
    <3> QED
      BY <2>2, <3>1, <3>2 DEF Reject
  <2> QED
    BY <2>1, <2>2
<1>3. Goal' = Goal
  BY <1>2 DEF Goal
<1> QED
  BY <1>1, <1>2, <1>3 DEF EInv

\* prove starts a search.
LEMMA ProveStep ==
  ASSUME EInv, Prove
  PROVE  EInv'
<1>1. /\ epc' = "prove" /\ pc' = "idfs" /\ stack' = << >> /\ job' = job
      /\ entailment_table' = entailment_table
      /\ args' = [seq |-> Goal, bound |-> 1, maxbound |-> Depth]
  BY DEF EInv, Prove
<1>2. args'.seq = Goal
  BY <1>1
<1>3. Goal' = Goal
  BY <1>1 DEF Goal
<1>4. TableOK'
  BY <1>1 DEF EInv, TableOK
<1>5. SInv'
  BY <1>1, EmptyOK DEF SInv, Control
<1> QED
  BY <1>1, <1>2, <1>3, <1>4, <1>5 DEF EInv

\* The table keeps what the search returns.
LEMMA ProvedStep ==
  ASSUME EInv, Proved
  PROVE  EInv'
<1>1. /\ epc = "prove" /\ pc = "done" /\ Store(Goal, ret) /\ epc' = "answered" /\ pc' = "idle"
      /\ stack' = stack /\ ret' = ret /\ job' = job
  BY DEF Proved
<1>2. stack = << >> /\ ProofOrNone(ret, Goal) /\ TableOK
  BY <1>1 DEF EInv, SInv, ProofOrNone
<1>3. TableOK'
  BY <1>1, <1>2, StoreOK
<1>4. Goal' = Goal
  BY <1>1 DEF Goal
<1> QED
  BY <1>1, <1>2, <1>3, <1>4 DEF EInv

\* A step of a search.
LEMMA SearchGoesOn ==
  ASSUME EInv, RulesLegal, Search
  PROVE  EInv'
<1>1. Next /\ entailment_table' = entailment_table /\ epc' = epc /\ job' = job
  BY DEF Search, evars
<1>2. pc # "idle" /\ args' = args
  BY <1>1, ZenonT(40) DEF Next, Deepen, Dfs, NextApp, Fold, ReturnToFold, ReturnToIdfs
<1>3. epc = "prove" /\ SInv /\ args.seq = Goal
  BY <1>2 DEF EInv
<1>4. SInv'
  BY <1>1, <1>3, StepSInv
<1>5. Goal' = Goal
  BY <1>1 DEF Goal
<1>6. TableOK'
  BY <1>1 DEF EInv, TableOK
<1> QED
  BY <1>1, <1>2, <1>3, <1>4, <1>5, <1>6 DEF EInv

LEMMA NextEInv == EInv /\ RulesLegal /\ [EntailsNext]_<<vars, evars>> => EInv'
<1> SUFFICES ASSUME EInv, RulesLegal, [EntailsNext]_<<vars, evars>> PROVE EInv'
  OBVIOUS
<1>1. CASE UNCHANGED <<vars, evars>>
  BY <1>1, ZenonT(40) DEF vars, evars, EInv, TableOK, SInv, Goal
<1>2. CASE Timeout
  <2>1. /\ entailment_table' = entailment_table /\ epc' \in {"idle", "entails"}
        /\ pc' = "idle" /\ stack' = << >>
    BY <1>2 DEF Timeout
  <2> QED
    BY <2>1, NoSearch
<1>3. CASE UntimedNext
  BY <1>3, AskStep, AnswerStep, ProveStep, ProvedStep, SearchGoesOn DEF UntimedNext
<1> QED
  BY <1>1, <1>2, <1>3 DEF EntailsNext

\* Whatever a rule that asks for entailments was told before, from the table or by
\* a search, and wherever an alarm ended a search: what the table holds and what the
\* rule is told is None or a proof of the very sequent, closed and satisfying the
\* global trace condition.
THEOREM EntailmentsProved == EntailsSpec /\ []RulesLegal => []ProofsRight
<1>1. EntailsInit => EInv
  <2>1. DOMAIN << >> = {}
    BY SMT
  <2> QED
    BY <2>1 DEF EntailsInit, EInv, TableOK
<1>2. EInv => ProofsRight
  BY DEF EInv, TableOK, ProofOrNone, ProofsRight, Works, OpenNodes, is_closed
<1> QED
  BY <1>1, <1>2, NextEInv, PTL DEF EntailsSpec
=============================================================================
