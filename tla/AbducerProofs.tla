------------------------------ MODULE AbducerProofs -----------------------------
(***************************************************************************)
(* Proofs about the breadth-first search, for all goals, depths and        *)
(* definitions and for all rules that keep the contract RulesLegal.  The   *)
(* inductive invariant says that an application waiting in some state is   *)
(* open at its goals, each listed once, and nowhere else, that no goal is  *)
(* deeper than the application, no application on the stack deeper than    *)
(* the current bound and none on the frontier deeper than the next, and    *)
(* that states have distinct numbers.                                      *)
(***************************************************************************)
EXTENDS Abducer, CyclicProofTheorems, FiniteSetTheorems

USE Zenon

-----------------------------------------------------------------------------
(* Lists and numbers. *)

LEMMA JoinFacts ==
  ASSUME NEW s, IsSeq(s), NEW t, IsSeq(t), NEW u, Joined(u, s, t)
  PROVE  /\ IsSeq(u)
         /\ Len(u) = Len(s) + Len(t)
         /\ DOMAIN u = 1 .. Len(s) + Len(t)
         /\ \A k \in DOMAIN s : k \in DOMAIN u /\ u[k] = s[k]
         /\ \A k \in DOMAIN t : Len(s) + k \in DOMAIN u /\ u[Len(s) + k] = t[k]
         /\ \A k \in DOMAIN u : k \in DOMAIN s \/ (k - Len(s) \in DOMAIN t /\ u[k] = t[k - Len(s)])
<1>1. PICK S : s \in Seq(S)
  BY DEF IsSeq
<1>2. PICK T : t \in Seq(T)
  BY DEF IsSeq
<1> DEFINE R == S \cup T
<1>3. s \in Seq(R) /\ t \in Seq(R)
  BY <1>1, <1>2, SMT
<1> HIDE DEF R
<1>4. /\ Len(s) \in Nat /\ Len(t) \in Nat
      /\ DOMAIN s = 1 .. Len(s) /\ DOMAIN t = 1 .. Len(t)
      /\ u \in Seq(R) /\ Len(u) = Len(s) + Len(t)
      /\ DOMAIN u = 1 .. Len(s) + Len(t)
  BY <1>3, SMT DEF Joined
<1>5. \A k \in DOMAIN s : k \in DOMAIN u /\ u[k] = s[k]
  BY <1>3, <1>4, SMT DEF Joined
<1>6. \A k \in DOMAIN t : Len(s) + k \in DOMAIN u /\ u[Len(s) + k] = t[k]
  BY <1>3, <1>4, SMT DEF Joined
<1>7. ASSUME NEW k \in DOMAIN u, k \notin DOMAIN s
      PROVE  k - Len(s) \in DOMAIN t /\ u[k] = t[k - Len(s)]
  <2>1. k - Len(s) \in DOMAIN t /\ Len(s) + (k - Len(s)) = k
    BY <1>4, <1>7, SMT
  <2> QED
    BY <1>6, <2>1
<1> QED
  BY <1>4, <1>5, <1>6, <1>7 DEF IsSeq

LEMMA MaxPair ==
  ASSUME NEW a \in Nat, NEW b \in Nat
  PROVE  Max({a, b}) \in {a, b} /\ Max({a, b}) >= a /\ Max({a, b}) >= b
<1>1. \E x \in {a, b} : \A y \in {a, b} : x >= y
  BY SMT DEF Max
<1> QED
  BY <1>1 DEF Max

-----------------------------------------------------------------------------
(* The inductive invariant. *)

GoalNodes(goals) == {goals[k][1] : k \in DOMAIN goals}

\* An application a of a search for goal, at most d deep.
AppOK(a, goal, d) ==
  /\ IsSeq(a.goals)
  /\ a.depth \in Nat
  /\ a.depth <= d
  /\ \A k \in DOMAIN a.goals : a.goals[k][2] \in Nat /\ a.goals[k][2] <= a.depth
  /\ \A k, l \in DOMAIN a.goals : a.goals[k][1] = a.goals[l][1] => k = l
  /\ Works(a.prf, goal, GoalNodes(a.goals))

StateOK(s, goal, d) ==
  /\ DOMAIN s = {"seq_no", "par", "idx", "apps"}
  /\ IsSeq(s.apps)
  /\ \A j \in DOMAIN s.apps : AppOK(s.apps[j], goal, d)

StatesOK(states, goal, d) ==
  /\ IsSeq(states)
  /\ \A k \in DOMAIN states : StateOK(states[k], goal, d)

\* The states of a list have numbers up to n, each its own.
Numbered(states, n) ==
  /\ \A k \in DOMAIN states : states[k].seq_no \in 1 .. n
  /\ \A k, l \in DOMAIN states : states[k].seq_no = states[l].seq_no => k = l

Apart(states1, states2) ==
  \A k \in DOMAIN states1 : \A l \in DOMAIN states2 : states1[k].seq_no # states2[l].seq_no

AInv ==
  /\ pc \in {"aux", "done"}
  /\ args.maxbound \in Nat
  /\ bound \in Nat
  /\ state_seq_no \in Nat
  /\ StatesOK(stack, args.seq, bound)
  /\ StatesOK(frontier, args.seq, bound + 1)
  /\ Numbered(stack, state_seq_no)
  /\ Numbered(frontier, state_seq_no)
  /\ Apart(stack, frontier)
  /\ pc = "aux" => ret = None
  /\ ret # None =>
       /\ Works(ret.prf, args.seq, {})
       /\ ret.defs \in Acceptable
       /\ last_search_depth <= args.maxbound

-----------------------------------------------------------------------------
(* New states. *)

\* Goals of one depth put in front of others that no open node shares with them.
LEMMA JoinedGoals ==
  ASSUME NEW sub, IsSeq(sub), NEW rest, IsSeq(rest), NEW goals, Joined(goals, sub, rest),
         NEW d \in Nat,
         \A k \in DOMAIN sub : sub[k][2] \in Nat /\ sub[k][2] <= d,
         \A k \in DOMAIN rest : rest[k][2] \in Nat /\ rest[k][2] <= d,
         \A k, l \in DOMAIN sub : sub[k][1] = sub[l][1] => k = l,
         \A k, l \in DOMAIN rest : rest[k][1] = rest[l][1] => k = l,
         \A k \in DOMAIN sub : \A l \in DOMAIN rest : sub[k][1] # rest[l][1]
  PROVE  /\ IsSeq(goals)
         /\ GoalNodes(goals) = GoalNodes(sub) \cup GoalNodes(rest)
         /\ \A k \in DOMAIN goals : goals[k][2] \in Nat /\ goals[k][2] <= d
         /\ \A k, l \in DOMAIN goals : goals[k][1] = goals[l][1] => k = l
<1> DEFINE m == Len(sub)
<1>1. m \in Nat /\ DOMAIN sub = 1 .. m /\ DOMAIN goals = 1 .. m + Len(rest) /\ Len(rest) \in Nat
  BY SeqFacts, JoinFacts, SMT
<1>2. /\ IsSeq(goals)
      /\ \A k \in DOMAIN sub : k \in DOMAIN goals /\ goals[k] = sub[k]
      /\ \A k \in DOMAIN rest : m + k \in DOMAIN goals /\ goals[m + k] = rest[k]
      /\ \A k \in DOMAIN goals :
           k \in DOMAIN sub \/ (k - m \in DOMAIN rest /\ goals[k] = rest[k - m])
  <2> HIDE DEF m
  <2>1. m = Len(sub)
    BY DEF m
  <2> QED
    BY <2>1, JoinFacts, SMT
<1> HIDE DEF m
<1>3. GoalNodes(goals) = GoalNodes(sub) \cup GoalNodes(rest)
  <2>1. ASSUME NEW x \in GoalNodes(goals) PROVE x \in GoalNodes(sub) \cup GoalNodes(rest)
    <3>1. PICK k \in DOMAIN goals : x = goals[k][1]
      BY DEF GoalNodes
    <3>2. CASE k \in DOMAIN sub
      BY <1>2, <3>1, <3>2, SMT DEF GoalNodes
    <3>3. CASE k \notin DOMAIN sub
      BY <1>2, <3>1, <3>3, SMT DEF GoalNodes
    <3> QED
      BY <3>2, <3>3
  <2>2. GoalNodes(sub) \subseteq GoalNodes(goals)
    BY <1>2, SMT DEF GoalNodes
  <2>3. ASSUME NEW k \in DOMAIN rest PROVE rest[k][1] \in GoalNodes(goals)
    <3>1. m + k \in DOMAIN goals /\ goals[m + k][1] = rest[k][1]
      BY <1>2
    <3> QED
      BY <3>1 DEF GoalNodes
  <2>4. GoalNodes(rest) \subseteq GoalNodes(goals)
    BY <2>3, SMT DEF GoalNodes
  <2> QED
    BY <2>1, <2>2, <2>4
<1>4. ASSUME NEW k \in DOMAIN goals
      PROVE  goals[k][2] \in Nat /\ goals[k][2] <= d
  BY <1>2, SMT
<1>5. ASSUME NEW k \in DOMAIN goals, NEW l \in DOMAIN goals, goals[k][1] = goals[l][1]
      PROVE  k = l
  <2>1. CASE k \in DOMAIN sub /\ l \in DOMAIN sub
    BY <1>2, <1>5, <2>1, SMT
  <2>2. CASE k \notin DOMAIN sub /\ l \notin DOMAIN sub
    <3>1. k - m = l - m
      BY <1>2, <1>5, <2>2, SMT
    <3> QED
      BY <1>1, <3>1, SMT
  <2>3. CASE k \in DOMAIN sub /\ l \notin DOMAIN sub
    BY <1>2, <1>5, <2>3, SMT
  <2>4. CASE k \notin DOMAIN sub /\ l \in DOMAIN sub
    BY <1>2, <1>5, <2>4, SMT
  <2> QED
    BY <2>1, <2>2, <2>3, <2>4
<1> QED
  BY <1>2, <1>3, <1>4, <1>5, SMT

\* What a legal application of the rule to the first goal makes of an application.
LEMMA NewAppOK ==
  ASSUME NEW old, NEW goal, NEW d1, AppOK(old, goal, d1), old.goals # << >>,
         NEW app, LegalApplication(Head(old.goals)[1], old.prf, app),
         NEW new, NEW depth, depth = Head(old.goals)[2] + 1,
         new.depth = Max({old.depth, depth}),
         new.prf = app.prf,
         NEW sub, IsSeq(sub), DOMAIN sub = DOMAIN app.subgoals,
         \A j \in DOMAIN sub : sub[j][1] = app.subgoals[j] /\ sub[j][2] = depth,
         NEW goals, Joined(goals, sub, Tail(old.goals)), new.goals = goals,
         NEW d \in Nat, old.depth <= d, depth <= d
  PROVE  AppOK(new, goal, d)
<1> DEFINE idx == Head(old.goals)[1]
           rest == Tail(old.goals)
           before == old.goals
<1>1. /\ IsSeq(before) /\ before # << >> /\ 1 \in DOMAIN before
      /\ idx = before[1][1] /\ depth = before[1][2] + 1
  BY SeqFacts DEF AppOK
<1>2. /\ IsSeq(rest)
      /\ \A k \in DOMAIN rest : k + 1 \in DOMAIN before /\ rest[k] = before[k + 1]
      /\ \A k \in DOMAIN before : k # 1 => k - 1 \in DOMAIN rest
      /\ DOMAIN before \subseteq Nat
      /\ DOMAIN rest \subseteq Nat \ {0}
  <2>1. Len(before) \in Nat /\ DOMAIN before = 1 .. Len(before)
    BY <1>1, SeqFacts
  <2> QED
    BY <1>1, <2>1, TailFacts, SMTT(30)
<1>3. /\ IsInjective(app.subgoals)
      /\ Range(app.subgoals) \cap (OpenNodes(old.prf) \ {idx}) = {}
      /\ OpenNodes(app.prf) = (OpenNodes(old.prf) \ {idx}) \cup Range(app.subgoals)
      /\ 0 \in DOMAIN app.prf
      /\ app.prf[0].seq = old.prf[0].seq
      /\ check(app.prf) \/ ~check(old.prf)
  BY DEF LegalApplication
<1>4. /\ old.depth \in Nat
      /\ \A k \in DOMAIN before : before[k][2] \in Nat /\ before[k][2] <= old.depth
      /\ \A k, l \in DOMAIN before : before[k][1] = before[l][1] => k = l
      /\ Works(old.prf, goal, GoalNodes(before))
  BY DEF AppOK
<1>5. Joined(goals, sub, rest)
  OBVIOUS
<1> HIDE DEF idx, rest, before
<1>6. depth \in Nat
  BY <1>1, <1>4, SMTT(30)
<1> DEFINE top == new.depth
<1>7. /\ top \in Nat /\ top <= d
      /\ top >= old.depth /\ top >= depth
  BY <1>4, <1>6, MaxPair, SMTT(30)
<1> HIDE DEF top
<1>8. /\ \A k \in DOMAIN rest : rest[k][2] \in Nat /\ rest[k][2] <= old.depth
      /\ \A k \in DOMAIN rest : rest[k][1] # idx
  BY <1>1, <1>2, <1>4, SMTT(30)
<1>9. \A k, l \in DOMAIN rest : rest[k][1] = rest[l][1] => k = l
  <2> TAKE k, l \in DOMAIN rest
  <2> HAVE rest[k][1] = rest[l][1]
  <2>1. k + 1 = l + 1
    BY <1>2, <1>4, SMT
  <2> QED
    BY <1>2, <2>1, SMT
<1>10. GoalNodes(rest) = GoalNodes(before) \ {idx}
  <2>1. \A k \in DOMAIN before : before[k][1] # idx =>
          k - 1 \in DOMAIN rest /\ rest[k - 1][1] = before[k][1]
    BY <1>1, <1>2, SMT
  <2>2. \A k \in DOMAIN rest : \E l \in DOMAIN before : rest[k][1] = before[l][1]
    BY <1>2
  <2>3. GoalNodes(rest) \subseteq GoalNodes(before) \ {idx}
    BY <1>8, <2>2, SMT DEF GoalNodes
  <2>4. ASSUME NEW x \in GoalNodes(before), x # idx PROVE x \in GoalNodes(rest)
    <3>1. PICK k \in DOMAIN before : x = before[k][1]
      BY DEF GoalNodes
    <3>2. k - 1 \in DOMAIN rest /\ rest[k - 1][1] = x
      BY <2>1, <2>4, <3>1
    <3> QED
      BY <3>2 DEF GoalNodes
  <2> QED
    BY <2>3, <2>4
<1>11. OpenNodes(old.prf) \ {idx} = GoalNodes(rest)
  BY <1>4, <1>10 DEF Works
<1>12. GoalNodes(sub) = Range(app.subgoals)
  BY SMT DEF GoalNodes, Range
<1>13. \A k \in DOMAIN sub : \A l \in DOMAIN rest : sub[k][1] # rest[l][1]
  <2>1. \A x : ~(x \in GoalNodes(sub) /\ x \in GoalNodes(rest))
    BY <1>3, <1>11, <1>12
  <2>2. /\ \A k \in DOMAIN sub : sub[k][1] \in GoalNodes(sub)
        /\ \A l \in DOMAIN rest : rest[l][1] \in GoalNodes(rest)
    BY DEF GoalNodes
  <2> QED
    BY <2>1, <2>2
<1>14. \A k, l \in DOMAIN sub : sub[k][1] = sub[l][1] => k = l
  BY <1>3, SMT DEF IsInjective
<1>15. /\ \A k \in DOMAIN rest : rest[k][2] \in Nat /\ rest[k][2] <= top
       /\ \A k \in DOMAIN sub : sub[k][2] \in Nat /\ sub[k][2] <= top
  BY <1>4, <1>6, <1>7, <1>8, SMTT(30)
<1>16. /\ IsSeq(goals)
       /\ GoalNodes(goals) = GoalNodes(sub) \cup GoalNodes(rest)
       /\ \A k \in DOMAIN goals : goals[k][2] \in Nat /\ goals[k][2] <= top
       /\ \A k, l \in DOMAIN goals : goals[k][1] = goals[l][1] => k = l
  BY <1>2, <1>5, <1>7, <1>9, <1>13, <1>14, <1>15, JoinedGoals, SMTT(30)
<1>17. Works(new.prf, goal, GoalNodes(goals))
  BY <1>3, <1>4, <1>11, <1>12, <1>16, SMTT(30) DEF Works
<1> QED
  BY <1>7, <1>16, <1>17 DEF AppOK, top

\* The state that expand_proof_state makes.
LEMMA ExpandOK ==
  ASSUME NEW old, NEW goal, NEW d1, AppOK(old, goal, d1), old.goals # << >>,
         NEW apps, apps \in Seq(Range(apps)),
         \A app \in Range(apps) : LegalApplication(Head(old.goals)[1], old.prf, app),
         NEW d \in Nat, old.depth <= d, Head(old.goals)[2] + 1 <= d,
         NEW seq_no, NEW par
  PROVE  /\ StateOK(expand_proof_state(seq_no, par, old, apps), goal, d)
         /\ expand_proof_state(seq_no, par, old, apps).seq_no = seq_no
<1> DEFINE depth == Head(old.goals)[2] + 1
           goals(app) == [j \in DOMAIN app.subgoals |-> <<app.subgoals[j], depth>>]
           new(k) == mk_app(apps[k].prf, Max({old.depth, depth}),
                            goals(apps[k]) \o Tail(old.goals), apps[k].defs)
           s == expand_proof_state(seq_no, par, old, apps)
           news == [k \in DOMAIN apps |-> new(k)]
<1>1. s = mk_state(seq_no, par, Head(old.goals)[1], news)
  BY DEF expand_proof_state
<1>2. /\ DOMAIN s = {"seq_no", "par", "idx", "apps"}
      /\ s.seq_no = seq_no
      /\ s.apps = news
  <2> HIDE DEF s, news
  <2> QED
    BY <1>1 DEF mk_state
<1>3. ASSUME NEW k \in DOMAIN apps
      PROVE  AppOK(new(k), goal, d)
  <2>1. /\ new(k).depth = Max({old.depth, depth})
        /\ new(k).prf = apps[k].prf
        /\ new(k).goals = goals(apps[k]) \o Tail(old.goals)
    BY DEF mk_app
  <2>2. LegalApplication(Head(old.goals)[1], old.prf, apps[k])
    BY DEF Range
  <2> DEFINE n == new(k)
             dd == depth
             app == apps[k]
             sub == goals(app)
             gs == n.goals
  <2>3. dd = Head(old.goals)[2] + 1 /\ dd <= d
    OBVIOUS
  <2>4. /\ n.depth = Max({old.depth, dd})
        /\ n.prf = app.prf
        /\ Joined(gs, sub, Tail(old.goals))
    BY <2>1 DEF Joined
  <2>5. /\ DOMAIN sub = DOMAIN app.subgoals
        /\ \A j \in DOMAIN sub : sub[j][1] = app.subgoals[j] /\ sub[j][2] = dd
    OBVIOUS
  <2>6. IsSeq(sub)
    <3> DEFINE T == {<<app.subgoals[j], depth>> : j \in DOMAIN app.subgoals}
    <3>1. app.subgoals \in Seq(Nat)
      BY <2>2 DEF LegalApplication
    <3>2. sub \in [1 .. Len(app.subgoals) -> T]
      BY <3>1, SMTT(30)
    <3>3. Len(app.subgoals) \in Nat
      BY <3>1, SMT
    <3> HIDE DEF sub, T
    <3>4. sub \in Seq(T)
      BY <3>2, <3>3, SMTT(20)
    <3> QED
      BY <3>4 DEF IsSeq
  <2>7. gs = n.goals /\ LegalApplication(Head(old.goals)[1], old.prf, app)
    BY <2>2
  <2> HIDE DEF gs, sub, app, n, dd, new, goals, depth, s, news
  <2>8. AppOK(n, goal, d)
    BY <2>3, <2>4, <2>5, <2>6, <2>7, NewAppOK, SMTT(30)
  <2> QED
    BY <2>8 DEF n
<1>4. Len(apps) \in Nat /\ DOMAIN apps = 1 .. Len(apps)
  BY SMT
<1>5. DOMAIN news = 1 .. Len(apps) /\ \A k \in DOMAIN apps : news[k] = new(k)
  BY <1>4
<1>6. news \in Seq({new(k) : k \in DOMAIN apps})
  <2>1. news \in [1 .. Len(apps) -> {new(k) : k \in DOMAIN apps}]
    BY <1>4
  <2> HIDE DEF news, new
  <2> QED
    BY <1>4, <2>1, SMT
<1>7. IsSeq(news)
  BY <1>6 DEF IsSeq
<1> HIDE DEF s, news, new
<1> QED
  BY <1>2, <1>3, <1>4, <1>5, <1>7 DEF StateOK, s

-----------------------------------------------------------------------------
(* Lists of states. *)

\* The states of t are among those of s.
Among(t, s) == \A k \in DOMAIN t : \E l \in DOMAIN s : t[k].seq_no = s[l].seq_no

LEMMA AmongApart ==
  ASSUME NEW s, NEW t, NEW u, Among(t, s), Apart(s, u)
  PROVE  Apart(t, u)
BY SMT DEF Among, Apart

LEMMA ApartSymmetric ==
  ASSUME NEW s, NEW t, Apart(s, t)
  PROVE  Apart(t, s)
BY ZenonT(60) DEF Apart

\* Deeper bounds and larger numbers.
LEMMA StatesDeeper ==
  ASSUME NEW s, NEW goal, NEW d \in Nat, NEW e \in Nat, d <= e, StatesOK(s, goal, d)
  PROVE  StatesOK(s, goal, e)
BY SMT DEF StatesOK, StateOK, AppOK

LEMMA NumberedUpTo ==
  ASSUME NEW s, NEW m \in Nat, NEW n \in Nat, m <= n, Numbered(s, m)
  PROVE  Numbered(s, n)
BY SMT DEF Numbered

\* No states.
LEMMA NoStates ==
  ASSUME NEW goal, NEW d, NEW n, NEW t
  PROVE  /\ StatesOK(<< >>, goal, d)
         /\ Numbered(<< >>, n)
         /\ Apart(t, << >>)
<1>1. << >> \in Seq({}) /\ DOMAIN << >> = {}
  BY SMT
<1> QED
  BY <1>1 DEF StatesOK, Numbered, Apart, IsSeq

\* All states but the first.
LEMMA TailStates ==
  ASSUME NEW s, s # << >>, NEW goal, NEW d, NEW n, StatesOK(s, goal, d), Numbered(s, n)
  PROVE  /\ StatesOK(Tail(s), goal, d)
         /\ Numbered(Tail(s), n)
         /\ Among(Tail(s), s)
<1>1. /\ IsSeq(Tail(s))
      /\ DOMAIN Tail(s) = 1 .. Len(s) - 1
      /\ \A k \in DOMAIN Tail(s) : k + 1 \in DOMAIN s /\ Tail(s)[k] = s[k + 1]
  BY TailFacts DEF StatesOK
<1>2. Len(s) \in Nat
  BY SeqFacts DEF StatesOK
<1> DEFINE t == Tail(s)
<1> HIDE DEF t
<1>3. /\ DOMAIN t \subseteq Int
      /\ \A k \in DOMAIN t : k + 1 \in DOMAIN s /\ t[k] = s[k + 1]
      /\ IsSeq(t)
  BY <1>1, <1>2, SMT DEF t
<1>4. StatesOK(t, goal, d)
  BY <1>3 DEF StatesOK
<1>5. Among(t, s)
  BY <1>3 DEF Among
<1>6. Numbered(t, n)
  <2>1. \A k \in DOMAIN t : t[k].seq_no \in 1 .. n
    BY <1>3 DEF Numbered
  <2>2. ASSUME NEW k \in DOMAIN t, NEW l \in DOMAIN t, t[k].seq_no = t[l].seq_no
        PROVE  k = l
    <3>1. k + 1 = l + 1
      BY <1>3, <2>2, SMT DEF Numbered
    <3> QED
      BY <1>3, <3>1, SMTT(30)
  <2> QED
    BY <2>1, <2>2 DEF Numbered
<1> QED
  BY <1>4, <1>5, <1>6 DEF t

\* A new state in front.
LEMMA PushState ==
  ASSUME NEW s, NEW goal, NEW d, NEW n \in Nat, StatesOK(s, goal, d), Numbered(s, n),
         NEW new, StateOK(new, goal, d), new.seq_no = n + 1,
         NEW t, Pushed(t, new, s)
  PROVE  /\ StatesOK(t, goal, d)
         /\ Numbered(t, n + 1)
         /\ \A u : (Apart(s, u) /\ Numbered(u, n)) => Apart(t, u)
<1>1. IsSeq(s) /\ Len(s) \in Nat /\ DOMAIN s = 1 .. Len(s)
  BY SeqFacts DEF StatesOK
<1>2. /\ IsSeq(t)
      /\ DOMAIN t = 1 .. Len(s) + 1
      /\ t[1] = new
      /\ \A k \in DOMAIN s : t[k + 1] = s[k]
  BY <1>1, ConsFacts, SMT
<1>3. ASSUME NEW k \in DOMAIN t, k # 1
      PROVE  k - 1 \in DOMAIN s /\ t[k] = s[k - 1]
  <2>1. k - 1 \in DOMAIN s /\ (k - 1) + 1 = k
    BY <1>1, <1>2, <1>3, SMT
  <2> QED
    BY <1>2, <2>1
<1>4. StatesOK(t, goal, d)
  <2>1. ASSUME NEW k \in DOMAIN t PROVE StateOK(t[k], goal, d)
    BY <1>2, <1>3 DEF StatesOK
  <2> QED
    BY <1>2, <2>1 DEF StatesOK
<1>5. /\ \A k \in DOMAIN s : s[k].seq_no \in 1 .. n
      /\ \A k, l \in DOMAIN s : s[k].seq_no = s[l].seq_no => k = l
  BY DEF Numbered
<1>6. Numbered(t, n + 1)
  <2>1. ASSUME NEW k \in DOMAIN t PROVE t[k].seq_no \in 1 .. n + 1
    BY <1>2, <1>3, <1>5, SMT
  <2>2. ASSUME NEW k \in DOMAIN t, NEW l \in DOMAIN t, t[k].seq_no = t[l].seq_no
        PROVE  k = l
    <3>1. CASE k = 1 /\ l # 1
      <4>1. t[l].seq_no \in 1 .. n
        BY <1>3, <1>5, <3>1
      <4> QED
        BY <1>2, <2>2, <3>1, <4>1, SMT
    <3>2. CASE k # 1 /\ l = 1
      <4>1. t[k].seq_no \in 1 .. n
        BY <1>3, <1>5, <3>2
      <4> QED
        BY <1>2, <2>2, <3>2, <4>1, SMTT(30)
    <3>3. CASE k # 1 /\ l # 1
      <4>1. k - 1 = l - 1
        BY <1>3, <1>5, <2>2, <3>3, SMT
      <4> QED
        BY <1>1, <1>2, <4>1, SMT
    <3> QED
      BY <3>1, <3>2, <3>3
  <2> QED
    BY <2>1, <2>2 DEF Numbered
<1>7. ASSUME NEW u, Apart(s, u), Numbered(u, n)
      PROVE  Apart(t, u)
  <2>1. ASSUME NEW k \in DOMAIN t, NEW l \in DOMAIN u
        PROVE  t[k].seq_no # u[l].seq_no
    <3>1. CASE k = 1
      <4>1. u[l].seq_no \in 1 .. n
        BY <1>7 DEF Numbered
      <4> QED
        BY <1>2, <3>1, <4>1, SMTT(30)
    <3>2. CASE k # 1
      BY <1>3, <1>7, <3>2 DEF Apart
    <3> QED
      BY <3>1, <3>2
  <2> QED
    BY <2>1 DEF Apart
<1> QED
  BY <1>4, <1>6, <1>7

\* The frontier from its end.
LEMMA ReversedStates ==
  ASSUME NEW s, NEW goal, NEW d, NEW n, StatesOK(s, goal, d), Numbered(s, n),
         NEW t, t = [k \in DOMAIN s |-> s[Len(s) + 1 - k]]
  PROVE  StatesOK(t, goal, d) /\ Numbered(t, n)
<1>1. IsSeq(s) /\ Len(s) \in Nat /\ DOMAIN s = 1 .. Len(s)
  BY SeqFacts DEF StatesOK
<1> DEFINE r(k) == Len(s) + 1 - k
<1>2. /\ \A k \in DOMAIN s : r(k) \in DOMAIN s
      /\ \A k, l \in DOMAIN s : r(k) = r(l) => k = l
  BY <1>1, SMTT(30)
<1>3. DOMAIN t = DOMAIN s /\ \A k \in DOMAIN t : t[k] = s[r(k)]
  OBVIOUS
<1>4. t \in Seq({s[k] : k \in DOMAIN s})
  <2> DEFINE T == {s[k] : k \in DOMAIN s}
  <2>1. t \in [1 .. Len(s) -> T]
    BY <1>1, <1>2
  <2> HIDE DEF T
  <2> QED
    BY <1>1, <2>1, SMT
<1>5. IsSeq(t)
  BY <1>4 DEF IsSeq
<1> HIDE DEF r
<1>6. StatesOK(t, goal, d)
  BY <1>2, <1>3, <1>5 DEF StatesOK
<1>7. Numbered(t, n)
  <2>1. /\ \A k \in DOMAIN s : s[k].seq_no \in 1 .. n
        /\ \A k, l \in DOMAIN s : s[k].seq_no = s[l].seq_no => k = l
    BY DEF Numbered
  <2>2. ASSUME NEW k \in DOMAIN t, NEW l \in DOMAIN t, t[k].seq_no = t[l].seq_no
        PROVE  k = l
    <3> DEFINE a == r(k)
               b == r(l)
    <3>1. a \in DOMAIN s /\ b \in DOMAIN s /\ t[k] = s[a] /\ t[l] = s[b]
      BY <1>2, <1>3
    <3> HIDE DEF a, b
    <3>2. s[a].seq_no = s[b].seq_no
      BY <2>2, <3>1
    <3>3. a = b
      BY <2>1, <3>1, <3>2
    <3> QED
      BY <1>2, <1>3, <3>3 DEF a, b
  <2>3. \A k \in DOMAIN t : t[k].seq_no \in 1 .. n
    BY <1>2, <1>3, <2>1
  <2> QED
    BY <2>2, <2>3 DEF Numbered
<1> QED
  BY <1>6, <1>7

LEMMA SameNumbers ==
  ASSUME NEW s, NEW t, NEW n, Numbered(s, n), DOMAIN t = DOMAIN s,
         \A k \in DOMAIN s : t[k].seq_no = s[k].seq_no
  PROVE  Numbered(t, n) /\ Among(t, s) /\ Among(s, t)
BY DEF Numbered, Among

\* The first state without its first application.
LEMMA RemainingStates ==
  ASSUME NEW s, s # << >>, NEW goal, NEW d, NEW n, StatesOK(s, goal, d), Numbered(s, n),
         Head(s).apps # << >>,
         NEW t, t = [s EXCEPT ![1].apps = Tail(@)]
  PROVE  StatesOK(t, goal, d) /\ Numbered(t, n) /\ Among(t, s) /\ Among(s, t)
<1>1. IsSeq(s) /\ 1 \in DOMAIN s /\ Head(s) = s[1]
  BY SeqFacts DEF StatesOK
<1>2. StateOK(s[1], goal, d)
  BY <1>1 DEF StatesOK
<1>3. /\ DOMAIN t = DOMAIN s
      /\ t = [k \in DOMAIN s |-> t[k]]
      /\ \A k \in DOMAIN s : k # 1 => t[k] = s[k]
      /\ t[1] = [s[1] EXCEPT !.apps = Tail(@)]
  BY <1>1
<1>4. IsSeq(t)
  BY <1>1, <1>3, UpdateFacts
<1>5. /\ DOMAIN t[1] = {"seq_no", "par", "idx", "apps"}
      /\ t[1].seq_no = s[1].seq_no
      /\ t[1].apps = Tail(s[1].apps)
  BY <1>2, <1>3, SMT DEF StateOK
<1> DEFINE as == s[1].apps
           bs == Tail(as)
<1>6. IsSeq(as) /\ as # << >> /\ \A j \in DOMAIN as : AppOK(as[j], goal, d)
  BY <1>1, <1>2 DEF StateOK
<1> HIDE DEF as
<1>7. IsSeq(bs) /\ \A j \in DOMAIN bs : AppOK(bs[j], goal, d)
  <2>1. IsSeq(bs) /\ \A j \in DOMAIN bs : j + 1 \in DOMAIN as /\ bs[j] = as[j + 1]
    BY <1>6, TailFacts
  <2> HIDE DEF bs
  <2> QED
    BY <1>6, <2>1
<1> HIDE DEF bs
<1>8. t[1].apps = bs
  BY <1>5 DEF as, bs
<1>9. StateOK(t[1], goal, d)
  BY <1>5, <1>7, <1>8 DEF StateOK
<1>10. \A k \in DOMAIN s : t[k].seq_no = s[k].seq_no
  BY <1>3, <1>5
<1>11. StatesOK(t, goal, d)
  BY <1>3, <1>4, <1>9 DEF StatesOK
<1>12. Numbered(t, n) /\ Among(t, s) /\ Among(s, t)
  <2>1. DOMAIN t = DOMAIN s
    BY <1>3
  <2> QED
    BY <1>10, <2>1, SameNumbers
<1> QED
  BY <1>11, <1>12

-----------------------------------------------------------------------------
(* pop_parents. *)

\* The states kept by the loop of pop_parents after k states; nxt[i] is the parent
\* number it looks for after i of them.
KeptUpTo(f, k, states, nxt) ==
  f = [i \in 0 .. k |->
         IF i = 0 THEN << >>
         ELSE IF states[i].seq_no = nxt[i - 1] THEN f[i - 1]
         ELSE Append(f[i - 1], states[i])]

\* The recursion has a solution.
LEMMA KeptExists ==
  ASSUME NEW states, NEW nxt, NEW k \in Nat
  PROVE  \E f : KeptUpTo(f, k, states, nxt)
<1> DEFINE S == {i \in Nat : ~ \E f : KeptUpTo(f, i, states, nxt)}
<1> SUFFICES ASSUME S # {} PROVE FALSE
  OBVIOUS
<1>1. PICK n \in S : \A i \in S : n <= i
  BY LeastNatural
<1>2. CASE n = 0
  <2> DEFINE f == [i \in 0 .. 0 |-> << >>]
  <2>1. f = [i \in 0 .. 0 |->
         IF i = 0 THEN << >>
         ELSE IF states[i].seq_no = nxt[i - 1] THEN f[i - 1]
         ELSE Append(f[i - 1], states[i])]
    BY SMT
  <2> HIDE DEF f
  <2>2. KeptUpTo(f, 0, states, nxt)
    BY <2>1 DEF KeptUpTo
  <2> QED
    BY <1>1, <1>2, <2>2
<1>3. CASE n # 0
  <2>1. n - 1 \in Nat /\ n - 1 \notin S
    BY <1>1, <1>3, SMT
  <2>2. PICK g : KeptUpTo(g, n - 1, states, nxt)
    BY <2>1
  <2> DEFINE f == [i \in 0 .. n |->
         IF i = n THEN (IF states[n].seq_no = nxt[n - 1] THEN g[n - 1]
                        ELSE Append(g[n - 1], states[n]))
         ELSE g[i]]
  <2>3. /\ DOMAIN g = 0 .. n - 1
        /\ \A i \in 0 .. n - 1 :
             g[i] = IF i = 0 THEN << >>
                    ELSE IF states[i].seq_no = nxt[i - 1] THEN g[i - 1]
                    ELSE Append(g[i - 1], states[i])
    <3> DEFINE h(i) == IF i = 0 THEN << >>
                    ELSE IF states[i].seq_no = nxt[i - 1] THEN g[i - 1]
                    ELSE Append(g[i - 1], states[i])
    <3>1. g = [i \in 0 .. n - 1 |-> h(i)]
      BY <2>2 DEF KeptUpTo
    <3> HIDE DEF h
    <3>2. DOMAIN g = 0 .. n - 1 /\ \A i \in 0 .. n - 1 : g[i] = h(i)
      BY <3>1
    <3> QED
      BY <3>2 DEF h
  <2>4. /\ DOMAIN f = 0 .. n
        /\ f[n] = IF states[n].seq_no = nxt[n - 1] THEN g[n - 1]
                  ELSE Append(g[n - 1], states[n])
        /\ \A i \in 0 .. n - 1 : f[i] = g[i]
    BY <2>1, SMT
  <2> DEFINE h(i) == IF i = 0 THEN << >>
                     ELSE IF states[i].seq_no = nxt[i - 1] THEN f[i - 1]
                     ELSE Append(f[i - 1], states[i])
  <2>5. f = [i \in 0 .. n |-> f[i]]
    OBVIOUS
  <2> HIDE DEF f
  <2>6. ASSUME NEW i \in 0 .. n PROVE f[i] = h(i)
    <3>1. CASE i = n
      <4>1. n - 1 \in 0 .. n - 1 /\ n # 0
        BY <1>3, <2>1, SMT
      <4>2. f[n - 1] = g[n - 1]
        BY <2>4, <4>1
      <4> QED
        BY <2>4, <3>1, <4>1, <4>2
    <3>2. CASE i # n
      <4>1. i \in 0 .. n - 1 /\ (i # 0 => i - 1 \in 0 .. n - 1)
        BY <1>1, <2>6, <3>2, SMT
      <4>2. f[i] = g[i] /\ (i # 0 => f[i - 1] = g[i - 1])
        BY <2>4, <4>1
      <4> QED
        BY <2>3, <4>1, <4>2
    <3> QED
      BY <3>1, <3>2
  <2> HIDE DEF h
  <2>7. f = [i \in 0 .. n |-> h(i)]
    BY <2>5, <2>6
  <2>8. KeptUpTo(f, n, states, nxt)
    BY <2>7 DEF KeptUpTo, h
  <2> QED
    BY <1>1, <2>8
<1> QED
  BY <1>2, <1>3

\* What is kept are states of the list, each once.
LEMMA KeptStates ==
  ASSUME NEW states, NEW goal, NEW d, NEW n, StatesOK(states, goal, d), Numbered(states, n),
         NEW nxt, NEW f, KeptUpTo(f, Len(states), states, nxt)
  PROVE  /\ StatesOK(f[Len(states)], goal, d)
         /\ Numbered(f[Len(states)], n)
         /\ Among(f[Len(states)], states)
<1> DEFINE m == Len(states)
           Good(k) == /\ IsSeq(f[k])
                      /\ \A i \in DOMAIN f[k] : \E l \in 1 .. k : f[k][i] = states[l]
                      /\ \A i, j \in DOMAIN f[k] : f[k][i].seq_no = f[k][j].seq_no => i = j
           B == {k \in 0 .. m : ~Good(k)}
<1>1. m \in Nat /\ DOMAIN states = 1 .. m
  BY SeqFacts DEF StatesOK
<1>2. \A k, l \in 1 .. m : states[k].seq_no = states[l].seq_no => k = l
  BY <1>1 DEF Numbered
<1> HIDE DEF m
<1>3. \A k \in 0 .. m : f[k] = IF k = 0 THEN << >>
                    ELSE IF states[k].seq_no = nxt[k - 1] THEN f[k - 1]
                    ELSE Append(f[k - 1], states[k])
  <2> DEFINE h(i) == IF i = 0 THEN << >>
                  ELSE IF states[i].seq_no = nxt[i - 1] THEN f[i - 1]
                  ELSE Append(f[i - 1], states[i])
  <2>1. f = [i \in 0 .. m |-> h(i)]
    BY DEF KeptUpTo, m
  <2> HIDE DEF h
  <2>2. \A i \in 0 .. m : f[i] = h(i)
    BY <2>1
  <2> QED
    BY <2>2 DEF h
<1>4. B = {}
  <2> SUFFICES ASSUME B # {} PROVE FALSE
    OBVIOUS
  <2>1. B \subseteq Nat
    BY <1>1, SMT
  <2>2. PICK k \in B : \A i \in B : k <= i
    BY <2>1, LeastNatural
  <2>3. k \in 0 .. m /\ ~Good(k)
    BY <2>2
  <2>4. k # 0
    <3>1. f[0] = << >>
      BY <1>1, <1>3, SMTT(30)
    <3>2. << >> \in Seq({}) /\ DOMAIN << >> = {}
      BY SMT
    <3>3. Good(0)
      BY <3>1, <3>2 DEF IsSeq
    <3> HIDE DEF Good
    <3> QED
      BY <2>3, <3>3
  <2> DEFINE g == f[k - 1]
             t == f[k]
             x == states[k]
  <2>5. Good(k - 1)
    <3> HIDE DEF Good
    <3>1. k - 1 \in 0 .. m /\ ~(k <= k - 1)
      BY <1>1, <2>3, <2>4, SMT
    <3> QED
      BY <2>2, <3>1
  <2>6. /\ IsSeq(g)
        /\ \A i \in DOMAIN g : \E l \in 1 .. k - 1 : g[i] = states[l]
        /\ \A i, j \in DOMAIN g : g[i].seq_no = g[j].seq_no => i = j
    BY <2>5
  <2>7. t = g \/ t = Append(g, x)
    BY <1>3, <2>3, <2>4
  <2>8. CASE t = g
    <3> HIDE DEF g
    <3>1. Good(k)
      <4>1. 1 .. k - 1 \subseteq 1 .. k
        BY <2>3, SMT
      <4> QED
        BY <2>6, <2>8, <4>1
    <3> HIDE DEF Good
    <3> QED
      BY <2>3, <3>1
  <2>9. CASE t = Append(g, x)
    <3> HIDE DEF t, g, x
    <3>1. PICK S : g \in Seq(S)
      BY <2>6 DEF IsSeq
    <3> DEFINE T == S \cup {x}
    <3>2. g \in Seq(T) /\ x \in T
      BY <3>1, SMTT(30)
    <3> HIDE DEF T
    <3>3. /\ t \in Seq(T) /\ Len(g) \in Nat /\ DOMAIN g = 1 .. Len(g)
          /\ DOMAIN t = 1 .. Len(g) + 1
          /\ \A i \in DOMAIN g : t[i] = g[i]
          /\ t[Len(g) + 1] = x
      BY <2>9, <3>2, SMT
    <3>4. IsSeq(t)
      BY <3>3 DEF IsSeq
    <3>5. \A i \in DOMAIN t : i \in DOMAIN g \/ i = Len(g) + 1
      BY <3>3, SMT
    <3>6. ASSUME NEW i \in DOMAIN t PROVE \E l \in 1 .. k : t[i] = states[l]
      <4>1. CASE i \in DOMAIN g
        <5>1. PICK l \in 1 .. k - 1 : g[i] = states[l]
          BY <2>6, <4>1
        <5>2. l \in 1 .. k
          BY <2>3, <5>1, SMTT(30)
        <5> QED
          BY <3>3, <4>1, <5>1, <5>2, SMTT(30)
      <4>2. CASE i = Len(g) + 1
        <5>1. k \in 1 .. k
          BY <2>3, <2>4, SMTT(30)
        <5> QED
          BY <3>3, <4>2, <5>1, SMTT(30) DEF x
      <4> QED
        BY <3>5, <4>1, <4>2
    <3>7. ASSUME NEW i \in DOMAIN g PROVE g[i].seq_no # x.seq_no
      <4>1. PICK l \in 1 .. k - 1 : g[i] = states[l]
        BY <2>6
      <4>2. l \in 1 .. m /\ k \in 1 .. m /\ l # k
        BY <1>1, <2>3, <2>4, <4>1, SMTT(30)
      <4> QED
        BY <1>2, <4>1, <4>2, SMTT(30) DEF x
    <3>8. \A i, j \in DOMAIN t : t[i].seq_no = t[j].seq_no => i = j
      BY <2>6, <3>3, <3>5, <3>7, SMTT(30)
    <3>9. Good(k)
      BY <3>4, <3>6, <3>8, SMTT(30) DEF t
    <3> HIDE DEF Good
    <3> QED
      BY <2>3, <3>9
  <2> QED
    BY <2>7, <2>8, <2>9
<1>5. Good(m)
  <2> HIDE DEF Good
  <2> QED
    BY <1>1, <1>4, SMT
<1> DEFINE t == f[m]
<1>6. /\ IsSeq(t)
      /\ \A i \in DOMAIN t : \E l \in DOMAIN states : t[i] = states[l]
      /\ \A i, j \in DOMAIN t : t[i].seq_no = t[j].seq_no => i = j
  BY <1>1, <1>5
<1> HIDE DEF t
<1>7. StatesOK(t, goal, d) /\ Among(t, states)
  BY <1>6 DEF StatesOK, Among
<1>8. Numbered(t, n)
  BY <1>6 DEF Numbered
<1> QED
  BY <1>7, <1>8 DEF t, m

LEMMA PopParents ==
  ASSUME NEW states, NEW goal, NEW d, NEW n, StatesOK(states, goal, d), Numbered(states, n),
         NEW sn
  PROVE  /\ StatesOK(pop_parents(sn, states), goal, d)
         /\ Numbered(pop_parents(sn, states), n)
         /\ Among(pop_parents(sn, states), states)
<1> DEFINE nxt == CHOOSE next : next = [k \in 0 .. Len(states) |->
                    IF k = 0 THEN sn
                    ELSE IF states[k].seq_no = next[k - 1] THEN states[k].par ELSE next[k - 1]]
           kept == CHOOSE f : KeptUpTo(f, Len(states), states, nxt)
<1>1. Len(states) \in Nat
  BY SeqFacts DEF StatesOK
<1>2. pop_parents(sn, states) = kept[Len(states)]
  BY DEF pop_parents, KeptUpTo
<1> HIDE DEF nxt
<1>3. KeptUpTo(kept, Len(states), states, nxt)
  BY <1>1, KeptExists
<1> HIDE DEF kept
<1> QED
  BY <1>2, <1>3, KeptStates

-----------------------------------------------------------------------------
(* The search keeps the invariant. *)

LEMMA LegalRule ==
  ASSUME NEW idx, NEW prf, NEW defs, LegalAt(idx, prf, defs)
  PROVE  /\ Rule(idx, prf, defs) \in Seq(Range(Rule(idx, prf, defs)))
         /\ \A app \in Range(Rule(idx, prf, defs)) : LegalApplication(idx, prf, app)
BY DEF LegalAt

LEMMA InitAInv == Init /\ RulesLegal => AInv
<1> SUFFICES ASSUME Init, RulesLegal PROVE AInv
  OBVIOUS
<1> DEFINE old == mk_app(mk(args.seq), 0, <<<<0, 0>>>>, InitialDefs)
           apps == Rule(0, mk(args.seq), InitialDefs)
           new == expand_proof_state(1, 0, old, apps)
<1>1. /\ pc = "aux" /\ args \in Searches /\ bound = 1 /\ frontier = << >>
      /\ state_seq_no = 1 /\ ret = None
  BY DEF Init
<1>2. stack = <<new>>
  BY DEF Init
<1>3. LegalAt(0, mk(args.seq), InitialDefs)
  BY <1>1 DEF RulesLegal
<1>4. args.maxbound \in Nat
  BY <1>1, SearchesAssumption, SMT
<1>5. /\ old.goals = <<<<0, 0>>>> /\ old.depth = 0 /\ old.prf = mk(args.seq)
  BY DEF mk_app
<1>6. AppOK(old, args.seq, 1) /\ old.goals # << >> /\ Head(old.goals)[1] = 0 /\ Head(old.goals)[2] = 0
  <2> DEFINE goals == <<<<0, 0>>>>
  <2>1. /\ DOMAIN goals = {1} /\ goals[1][1] = 0 /\ goals[1][2] = 0 /\ goals \in Seq({<<0, 0>>})
        /\ goals # << >> /\ Head(goals) = <<0, 0>>
    BY SMT
  <2> HIDE DEF goals
  <2>2. GoalNodes(goals) = {0}
    BY <2>1 DEF GoalNodes
  <2>3. IsSeq(goals)
    BY <2>1 DEF IsSeq
  <2>4. Works(mk(args.seq), args.seq, GoalNodes(goals))
    BY <2>2, MkWorks
  <2>5. old.goals = goals
    BY <1>5 DEF goals
  <2> HIDE DEF old
  <2>6. AppOK(old, args.seq, 1)
    BY <1>5, <2>1, <2>3, <2>4, <2>5, SMTT(30) DEF AppOK
  <2> QED
    BY <2>1, <2>5, <2>6, SMT
<1> HIDE DEF old
<1>7. /\ apps \in Seq(Range(apps))
      /\ \A app \in Range(apps) : LegalApplication(Head(old.goals)[1], old.prf, app)
  BY <1>3, <1>5, <1>6, LegalRule
<1> HIDE DEF apps
<1>8. StateOK(new, args.seq, 1) /\ new.seq_no = 1
  <2>1. old.depth <= 1 /\ Head(old.goals)[2] + 1 <= 1 /\ 1 \in Nat
    BY <1>5, <1>6, SMTT(30)
  <2> QED
    BY <1>6, <1>7, <2>1, ExpandOK, SMTT(30)
<1> HIDE DEF new
<1>9. stack \in Seq({new}) /\ DOMAIN stack = {1} /\ stack[1] = new
  BY <1>2, SMT
<1>10. IsSeq(stack)
  BY <1>9 DEF IsSeq
<1>11. StatesOK(stack, args.seq, bound) /\ Numbered(stack, state_seq_no)
  BY <1>1, <1>8, <1>9, <1>10, SMTT(30) DEF StatesOK, Numbered
<1>12. /\ StatesOK(frontier, args.seq, bound + 1) /\ Numbered(frontier, state_seq_no)
       /\ Apart(stack, frontier)
  BY <1>1, NoStates, SMT
<1> QED
  BY <1>1, <1>4, <1>11, <1>12 DEF AInv

\* What the invariant says of the application that comes next.
LEMMA CurrentOK ==
  ASSUME AInv, HasApp
  PROVE  /\ AppOK(current, args.seq, bound)
         /\ AppAssertion
         /\ bound <= args.maxbound
         /\ stack # << >>
         /\ Head(stack).apps # << >>
<1>1. stack # << >> /\ Head(stack).apps # << >> /\ bound <= args.maxbound
  BY DEF HasApp
<1>2. StatesOK(stack, args.seq, bound) /\ bound \in Nat
  BY DEF AInv
<1>3. 1 \in DOMAIN stack /\ Head(stack) = stack[1]
  BY <1>1, <1>2, SeqFacts DEF StatesOK
<1> DEFINE as == Head(stack).apps
<1>4. IsSeq(as) /\ \A j \in DOMAIN as : AppOK(as[j], args.seq, bound)
  BY <1>2, <1>3 DEF StatesOK, StateOK
<1>5. 1 \in DOMAIN as /\ Head(as) = as[1]
  BY <1>1, <1>4, SeqFacts
<1>6. AppOK(current, args.seq, bound)
  BY <1>4, <1>5 DEF current
<1> HIDE DEF as
<1>7. AppAssertion
  BY <1>2, <1>6, SMTT(30) DEF AppAssertion, AppOK
<1> QED
  BY <1>1, <1>6, <1>7

LEMMA GiveUpStep ==
  ASSUME AInv, GiveUp
  PROVE  AInv'
<1>1. /\ pc = "aux" /\ pc' = "done" /\ ret' = ret
      /\ args' = args /\ bound' = bound /\ frontier' = frontier /\ stack' = stack
      /\ state_seq_no' = state_seq_no
  BY DEF GiveUp
<1>2. ret = None
  BY <1>1 DEF AInv
<1> QED
  BY <1>1, <1>2 DEF AInv

LEMMA DeepenStep ==
  ASSUME AInv, Deepen
  PROVE  AInv'
<1>1. /\ pc' = pc /\ ret' = ret /\ args' = args /\ last_search_depth' = last_search_depth
      /\ bound' = bound + 1 /\ frontier' = << >>
      /\ state_seq_no' = state_seq_no
      /\ stack' = [k \in DOMAIN frontier |-> frontier[Len(frontier) + 1 - k]]
  BY DEF Deepen
<1>2. bound' \in Nat
  BY <1>1, SMT DEF AInv
<1>3. StatesOK(frontier, args.seq, bound + 1) /\ Numbered(frontier, state_seq_no)
  BY DEF AInv
<1>4. StatesOK(stack', args.seq, bound + 1) /\ Numbered(stack', state_seq_no)
  BY <1>1, <1>3, ReversedStates, SMT
<1>5. /\ StatesOK(frontier', args.seq, bound + 1 + 1) /\ Numbered(frontier', state_seq_no)
      /\ Apart(stack', frontier')
  BY <1>1, NoStates
<1> QED
  BY <1>1, <1>2, <1>4, <1>5 DEF AInv

LEMMA DropStateStep ==
  ASSUME AInv, DropState
  PROVE  AInv'
<1>1. /\ pc' = pc /\ ret' = ret /\ args' = args /\ last_search_depth' = last_search_depth
      /\ bound' = bound /\ frontier' = frontier
      /\ state_seq_no' = state_seq_no
      /\ stack # << >> /\ stack' = Tail(stack)
  BY DEF DropState
<1>2. StatesOK(stack, args.seq, bound) /\ Numbered(stack, state_seq_no) /\ Apart(stack, frontier)
  BY DEF AInv
<1>3. StatesOK(stack', args.seq, bound) /\ Numbered(stack', state_seq_no) /\ Among(stack', stack)
  BY <1>1, <1>2, TailStates
<1>4. Apart(stack', frontier)
  BY <1>2, <1>3, AmongApart, SMTT(30)
<1> QED
  BY <1>1, <1>3, <1>4 DEF AInv

\* The stack with the other applications pushed back.
LEMMA RemainingOK ==
  ASSUME AInv, HasApp
  PROVE  /\ StatesOK(remaining, args.seq, bound)
         /\ Numbered(remaining, state_seq_no)
         /\ Apart(remaining, frontier)
<1>1. StatesOK(stack, args.seq, bound) /\ Numbered(stack, state_seq_no) /\ Apart(stack, frontier)
  BY DEF AInv
<1>2. stack # << >> /\ Head(stack).apps # << >>
  BY CurrentOK
<1>3. remaining = [stack EXCEPT ![1].apps = Tail(@)]
  BY DEF remaining
<1>4. /\ StatesOK(remaining, args.seq, bound) /\ Numbered(remaining, state_seq_no)
      /\ Among(remaining, stack)
  <2> DEFINE t == remaining
  <2>1. t = [stack EXCEPT ![1].apps = Tail(@)]
    BY <1>3
  <2> HIDE DEF t
  <2>2. /\ StatesOK(t, args.seq, bound) /\ Numbered(t, state_seq_no) /\ Among(t, stack)
    BY <1>1, <1>2, <2>1, RemainingStates
  <2> QED
    BY <2>2 DEF t
<1> QED
  BY <1>1, <1>4, AmongApart

LEMMA TryClosedStep ==
  ASSUME AInv, TryClosed
  PROVE  AInv'
<1>1. HasApp /\ current.goals = << >>
  BY DEF TryClosed
<1>2. /\ args' = args /\ bound' = bound /\ frontier' = frontier /\ state_seq_no' = state_seq_no
  BY DEF TryClosed
<1>3. AppOK(current, args.seq, bound) /\ AppAssertion /\ bound <= args.maxbound
  BY <1>1, CurrentOK
<1>4. Works(current.prf, args.seq, {})
  <2>1. GoalNodes(<< >>) = {}
    BY SMT DEF GoalNodes
  <2> QED
    BY <1>1, <1>3, <2>1, SMTT(30) DEF AppOK
<1>5. is_closed(current.prf)
  BY <1>4 DEF Works, OpenNodes, is_closed
<1>6. \/ /\ current.defs \in Acceptable
         /\ pc' = "done" /\ ret' = current /\ last_search_depth' = current.depth /\ stack' = stack
      \/ stack' = remaining /\ pc' = pc /\ ret' = ret /\ last_search_depth' = last_search_depth
  BY <1>3, <1>5 DEF TryClosed
<1>7. CASE /\ current.defs \in Acceptable
           /\ pc' = "done" /\ ret' = current /\ last_search_depth' = current.depth /\ stack' = stack
  <2>1. last_search_depth' <= args.maxbound
    <3>1. current.depth \in Nat /\ current.depth <= bound /\ bound \in Nat /\ args.maxbound \in Nat
      BY <1>3 DEF AppOK, AInv
    <3> QED
      BY <1>3, <1>7, <3>1, SMTT(30)
  <2> QED
    BY <1>2, <1>4, <1>7, <2>1 DEF AInv
<1>8. CASE stack' = remaining /\ pc' = pc /\ ret' = ret /\ last_search_depth' = last_search_depth
  <2>1. /\ StatesOK(stack', args.seq, bound)
        /\ Numbered(stack', state_seq_no)
        /\ Apart(stack', frontier)
    BY <1>1, <1>8, RemainingOK
  <2> QED
    BY <1>2, <1>8, <2>1 DEF AInv
<1> QED
  BY <1>6, <1>7, <1>8

\* The state that TryOpen makes, for the stack or for the frontier.
LEMMA NewStateOK ==
  ASSUME AInv, RulesLegal, HasApp, current.goals # << >>,
         NEW new,
         new = expand_proof_state(state_seq_no + 1, Head(stack).seq_no, current,
                 Rule(Head(current.goals)[1], current.prf, current.defs))
  PROVE  /\ StateOK(new, args.seq, bound + 1)
         /\ ~AtBound => StateOK(new, args.seq, bound)
         /\ new.seq_no = state_seq_no + 1
<1> DEFINE old == current
           apps == Rule(Head(current.goals)[1], current.prf, current.defs)
           depth == Head(old.goals)[2] + 1
<1>1. AppOK(old, args.seq, bound)
  BY CurrentOK
<1>2. /\ apps \in Seq(Range(apps))
      /\ \A app \in Range(apps) : LegalApplication(Head(old.goals)[1], old.prf, app)
  <2>1. LegalAt(Head(current.goals)[1], current.prf, current.defs)
    BY DEF RulesLegal
  <2> QED
    BY <2>1, LegalRule
<1>3. bound \in Nat
  BY DEF AInv
<1>4. 1 \in DOMAIN old.goals /\ Head(old.goals) = old.goals[1] /\ old.goals # << >>
  BY <1>1, SeqFacts DEF AppOK
<1>5. /\ old.depth \in Nat /\ old.depth <= bound
      /\ old.goals[1][2] \in Nat /\ old.goals[1][2] <= old.depth
  BY <1>1, <1>4 DEF AppOK
<1>6. ~AtBound => old.goals[1][2] # bound
  BY <1>4 DEF AtBound
<1> HIDE DEF old
<1>7. /\ depth <= bound + 1 /\ (~AtBound => depth <= bound)
      /\ old.depth <= bound + 1 /\ bound + 1 \in Nat
  BY <1>3, <1>4, <1>5, <1>6, SMTT(30)
<1>8. new = expand_proof_state(state_seq_no + 1, Head(stack).seq_no, old, apps)
  BY DEF old
<1> HIDE DEF apps
<1>9. StateOK(new, args.seq, bound + 1) /\ new.seq_no = state_seq_no + 1
  BY <1>1, <1>2, <1>4, <1>7, <1>8, ExpandOK, SMTT(30)
<1>10. ASSUME ~AtBound PROVE StateOK(new, args.seq, bound)
  BY <1>1, <1>2, <1>3, <1>4, <1>5, <1>7, <1>8, <1>10, ExpandOK, SMTT(30)
<1> QED
  BY <1>9, <1>10

LEMMA TryOpenStep ==
  ASSUME AInv, RulesLegal, TryOpen
  PROVE  AInv'
<1>1. HasApp /\ current.goals # << >>
  BY DEF TryOpen
<1>2. /\ args' = args /\ bound' = bound /\ ret' = ret /\ last_search_depth' = last_search_depth
  BY DEF TryOpen
<1>3. AppOK(current, args.seq, bound) /\ AppAssertion
  BY <1>1, CurrentOK
<1>4. Expandable(current)
  <2>1. IsSeq(current.goals) /\ OpenNodes(current.prf) = GoalNodes(current.goals)
    BY <1>3 DEF AppOK, Works
  <2>2. current.goals[1][1] \in GoalNodes(current.goals)
    BY <1>1, <2>1, SeqFacts DEF GoalNodes
  <2>3. ~is_closed(current.prf)
    BY <2>1, <2>2 DEF OpenNodes, is_closed
  <2> QED
    BY <1>1, <2>3 DEF Expandable
<1> DEFINE n == state_seq_no
           new == expand_proof_state(n + 1, Head(stack).seq_no, current,
                    Rule(Head(current.goals)[1], current.prf, current.defs))
<1>5. state_seq_no' = n + 1 /\ pc' = pc
  BY <1>3, <1>4 DEF TryOpen
<1>6. Postpone(new) \/ Expand(new)
  <2>1. \E apps \in {Rule(Head(current.goals)[1], current.prf, current.defs)} :
          \E nw \in {expand_proof_state(state_seq_no', Head(stack).seq_no, current, apps)} :
            Postpone(nw) \/ Expand(nw)
    BY <1>3, <1>4 DEF TryOpen
  <2> QED
    BY <1>5, <2>1
<1>7. /\ StateOK(new, args.seq, bound + 1)
      /\ ~AtBound => StateOK(new, args.seq, bound)
      /\ new.seq_no = n + 1
  BY <1>1, NewStateOK
<1> HIDE DEF new
<1>8. /\ StatesOK(remaining, args.seq, bound) /\ Numbered(remaining, n)
      /\ Apart(remaining, frontier)
  BY <1>1, RemainingOK
<1>9. n \in Nat /\ n + 1 \in Nat /\ n <= n + 1 /\ bound \in Nat
  BY SMT DEF AInv
<1>10. StatesOK(frontier, args.seq, bound + 1) /\ Numbered(frontier, n)
  BY DEF AInv
<1>11. /\ StatesOK(stack', args.seq, bound)
       /\ StatesOK(frontier', args.seq, bound + 1)
       /\ Numbered(stack', n + 1)
       /\ Numbered(frontier', n + 1)
       /\ Apart(stack', frontier')
  <2>1. CASE Postpone(new)
    <3>1. stack' = remaining /\ Pushed(frontier', new, frontier)
      BY <2>1 DEF Postpone, Pushed
    <3> DEFINE f == frontier'
    <3>2. Pushed(f, new, frontier)
      BY <3>1
    <3> HIDE DEF f
    <3>3. /\ StatesOK(f, args.seq, bound + 1)
          /\ Numbered(f, n + 1)
          /\ \A u : (Apart(frontier, u) /\ Numbered(u, n)) => Apart(f, u)
      BY <1>7, <1>9, <1>10, <3>2, PushState, SMTT(30)
    <3>4. Apart(f, remaining)
      BY <1>8, <3>3, ApartSymmetric
    <3>5. Apart(remaining, f)
      BY <3>4, ApartSymmetric
    <3>6. Numbered(remaining, n + 1)
      BY <1>8, <1>9, NumberedUpTo, SMTT(30)
    <3> QED
      BY <1>8, <3>1, <3>3, <3>5, <3>6 DEF f
  <2>2. CASE Expand(new)
    <3> DEFINE base == IF is_closed_at(current.prf)[Head(stack).idx]
                       THEN pop_parents(Head(stack).seq_no, remaining) ELSE remaining
               t == stack'
    <3>1. ~AtBound /\ frontier' = frontier /\ Pushed(t, new, base)
      BY <2>2 DEF Expand, Pushed
    <3> HIDE DEF t
    <3>2. base \in {remaining, pop_parents(Head(stack).seq_no, remaining)}
      OBVIOUS
    <3> HIDE DEF base
    <3>3. /\ StatesOK(base, args.seq, bound) /\ Numbered(base, n)
          /\ Apart(base, frontier)
      <4>1. CASE base = remaining
        BY <1>8, <4>1
      <4>2. CASE base = pop_parents(Head(stack).seq_no, remaining)
        <5>1. /\ StatesOK(base, args.seq, bound) /\ Numbered(base, n)
              /\ Among(base, remaining)
          BY <1>8, <4>2, PopParents
        <5> QED
          BY <1>8, <5>1, AmongApart
      <4> QED
        BY <3>2, <4>1, <4>2
    <3>4. /\ StatesOK(t, args.seq, bound)
          /\ Numbered(t, n + 1)
          /\ \A u : (Apart(base, u) /\ Numbered(u, n)) => Apart(t, u)
      BY <1>7, <1>9, <3>1, <3>3, PushState, SMTT(30)
    <3>5. Apart(t, frontier)
      BY <1>10, <3>3, <3>4
    <3>6. Numbered(frontier, n + 1)
      BY <1>9, <1>10, NumberedUpTo
    <3> QED
      BY <1>10, <3>1, <3>4, <3>5, <3>6 DEF t
  <2> QED
    BY <1>6, <2>1, <2>2
<1> QED
  BY <1>2, <1>5, <1>9, <1>11 DEF AInv

LEMMA StepAInv == AInv /\ RulesLegal /\ [Next]_vars => AInv'
<1> SUFFICES ASSUME AInv, RulesLegal, [Next]_vars PROVE AInv'
  OBVIOUS
<1>1. CASE GiveUp
  BY <1>1, GiveUpStep
<1>2. CASE Deepen
  BY <1>2, DeepenStep
<1>3. CASE DropState
  BY <1>3, DropStateStep
<1>4. CASE TryClosed
  BY <1>4, TryClosedStep
<1>5. CASE TryOpen
  BY <1>5, TryOpenStep
<1>6. CASE UNCHANGED vars
  BY <1>6 DEF AInv, vars
<1> QED
  BY <1>1, <1>2, <1>3, <1>4, <1>5, <1>6, SMTT(30) DEF Next

\* The invariant of the breadth-first search: with legal rules, every application
\* that waits is sound and open at its goals only, and within its depth.
THEOREM BfsInvariance == Spec /\ []RulesLegal => []AInv
BY InitAInv, StepAInv, PTL DEF Spec

\* A list without repetition has as many elements as its length.
LEMMA CountOnce ==
  ASSUME NEW n \in Nat, NEW f, DOMAIN f = 1 .. n, f = [k \in 1 .. n |-> f[k]],
         IsInjective(f)
  PROVE  IsFiniteSet(Range(f)) /\ Cardinality(Range(f)) = n
<1>1. IsFiniteSet(1 .. n) /\ Cardinality(1 .. n) = n
  BY FS_Interval, SMT
<1>2. f \in Bijection(1 .. n, Range(f))
  BY DEF Bijection, Injection, Surjection, IsInjective, Range
<1>3. ExistsBijection(1 .. n, Range(f))
  BY <1>2 DEF ExistsBijection
<1> QED
  BY <1>1, <1>3, FS_Bijection

\* The list of goals has as many elements as there are goals.
LEMMA GoalsCounted ==
  ASSUME NEW a, NEW goal, NEW d, AppOK(a, goal, d)
  PROVE  /\ {g[1] : g \in Range(a.goals)} = OpenNodes(a.prf)
         /\ Cardinality({g[1] : g \in Range(a.goals)}) = Len(a.goals)
         /\ \A g \in Range(a.goals) : g[2] <= a.depth
<1> DEFINE goals == a.goals
           n == Len(goals)
           f == [k \in 1 .. n |-> goals[k][1]]
<1>1. n \in Nat /\ DOMAIN goals = 1 .. n
  BY SeqFacts DEF AppOK
<1>2. \A k, l \in DOMAIN goals : goals[k][1] = goals[l][1] => k = l
  BY DEF AppOK
<1>3. OpenNodes(a.prf) = GoalNodes(goals)
  BY DEF AppOK, Works
<1>4. \A g \in Range(goals) : g[2] <= a.depth
  BY DEF AppOK, Range
<1> HIDE DEF goals, n
<1>5. {g[1] : g \in Range(goals)} = GoalNodes(goals)
  BY DEF Range, GoalNodes
<1>6. Range(f) = GoalNodes(goals)
  BY <1>1 DEF Range, GoalNodes
<1>7. IsInjective(f)
  BY <1>1, <1>2 DEF IsInjective
<1>8. DOMAIN f = 1 .. n /\ f = [k \in 1 .. n |-> f[k]]
  OBVIOUS
<1> HIDE DEF f
<1>9. Cardinality(GoalNodes(goals)) = n
  BY <1>1, <1>6, <1>7, <1>8, CountOnce, SMTT(30)
<1> QED
  BY <1>3, <1>4, <1>5, <1>9 DEF goals, n

\* The states that wait have as many numbers as there are states.
LEMMA StatesCounted ==
  ASSUME NEW s, NEW t, IsSeq(s), IsSeq(t), NEW m, NEW n,
         Numbered(s, m), Numbered(t, n), Apart(s, t)
  PROVE  Cardinality({x.seq_no : x \in Range(s) \cup Range(t)}) = Len(s) + Len(t)
<1> DEFINE a == Len(s)
           b == Len(t)
           f == [k \in 1 .. a + b |-> IF k \in 1 .. a THEN s[k].seq_no ELSE t[k - a].seq_no]
           N == {x.seq_no : x \in Range(s) \cup Range(t)}
<1>1. a \in Nat /\ b \in Nat /\ a + b \in Nat /\ DOMAIN s = 1 .. a /\ DOMAIN t = 1 .. b
  BY SeqFacts, SMT
<1> HIDE DEF a, b
<1>2. DOMAIN f = 1 .. a + b /\ f = [k \in 1 .. a + b |-> f[k]]
  OBVIOUS
<1>3. /\ \A k \in 1 .. a : k \in 1 .. a + b /\ f[k] = s[k].seq_no
      /\ \A k \in 1 .. b : a + k \in 1 .. a + b /\ f[a + k] = t[k].seq_no
      /\ \A k \in 1 .. a + b : k \in 1 .. a \/ (k - a \in 1 .. b /\ f[k] = t[k - a].seq_no)
  BY <1>1, SMT
<1> HIDE DEF f
<1>4. IsInjective(f)
  <2>1. ASSUME NEW k \in 1 .. a + b, NEW l \in 1 .. a + b, f[k] = f[l]
        PROVE  k = l
    <3> DEFINE i == k - a
               j == l - a
    <3>1. /\ k \in 1 .. a => k \in DOMAIN s /\ f[k] = s[k].seq_no
          /\ k \notin 1 .. a => i \in DOMAIN t /\ f[k] = t[i].seq_no
          /\ l \in 1 .. a => l \in DOMAIN s /\ f[l] = s[l].seq_no
          /\ l \notin 1 .. a => j \in DOMAIN t /\ f[l] = t[j].seq_no
          /\ i = j => k = l
      BY <1>1, <1>3, SMTT(30)
    <3> HIDE DEF i, j
    <3>2. CASE k \in 1 .. a /\ l \in 1 .. a
      BY <2>1, <3>1, <3>2 DEF Numbered
    <3>3. CASE k \notin 1 .. a /\ l \notin 1 .. a
      BY <2>1, <3>1, <3>3 DEF Numbered
    <3>4. CASE k \in 1 .. a /\ l \notin 1 .. a
      BY <2>1, <3>1, <3>4 DEF Apart
    <3>5. CASE k \notin 1 .. a /\ l \in 1 .. a
      BY <2>1, <3>1, <3>5 DEF Apart
    <3> QED
      BY <3>2, <3>3, <3>4, <3>5
  <2> QED
    BY <1>2, <2>1 DEF IsInjective
<1>5. Range(f) = N
  <2>1. ASSUME NEW k \in 1 .. a + b PROVE f[k] \in N
    <3>1. CASE k \in 1 .. a
      BY <1>1, <1>3, <3>1 DEF Range
    <3>2. CASE k \notin 1 .. a
      <4>1. k - a \in DOMAIN t /\ f[k] = t[k - a].seq_no
        BY <1>1, <1>3, <3>2, SMTT(30)
      <4>2. t[k - a] \in Range(t)
        BY <4>1 DEF Range
      <4> QED
        BY <4>1, <4>2
    <3> QED
      BY <3>1, <3>2
  <2>2. ASSUME NEW x \in Range(s) PROVE x.seq_no \in Range(f)
    <3>1. PICK k \in 1 .. a : x = s[k]
      BY <1>1 DEF Range
    <3> QED
      BY <1>2, <1>3, <3>1 DEF Range
  <2>3. ASSUME NEW x \in Range(t) PROVE x.seq_no \in Range(f)
    <3>1. PICK k \in 1 .. b : x = t[k]
      BY <1>1 DEF Range
    <3>2. a + k \in DOMAIN f /\ f[a + k] = x.seq_no
      BY <1>2, <1>3, <3>1
    <3> QED
      BY <3>2 DEF Range
  <2>4. Range(f) \subseteq N
    BY <1>2, <2>1 DEF Range
  <2> QED
    BY <2>2, <2>3, <2>4
<1>6. Cardinality(N) = a + b
  BY <1>1, <1>2, <1>4, <1>5, CountOnce
<1> QED
  BY <1>6 DEF a, b

\* The assertions of the breadth-first search never fail, states that wait have
\* distinct numbers, and the goals of an application are the open nodes of its
\* proof, each once, none deeper than the proof.
THEOREM BfsGoalsOpen == Spec /\ []RulesLegal => []GoalsOpen
<1>1. AInv => GoalsOpen
  <2> SUFFICES ASSUME AInv PROVE GoalsOpen
    OBVIOUS
  <2>1. pc # "assert_failed"
    BY DEF AInv
  <2>2. Cardinality({s.seq_no : s \in States}) = Len(stack) + Len(frontier)
    <3>1. /\ IsSeq(stack) /\ IsSeq(frontier)
          /\ Numbered(stack, state_seq_no) /\ Numbered(frontier, state_seq_no)
          /\ Apart(stack, frontier)
      BY DEF AInv, StatesOK
    <3> QED
      BY <3>1, StatesCounted DEF States
  <2>3. ASSUME NEW s \in States, NEW a \in Range(s.apps)
        PROVE  \E d : AppOK(a, args.seq, d)
    <3>1. \E d : StateOK(s, args.seq, d)
      BY DEF AInv, StatesOK, States, Range
    <3> QED
      BY <3>1 DEF StateOK, Range
  <2>4. ASSUME NEW s \in States, NEW a \in Range(s.apps)
        PROVE  /\ {g[1] : g \in Range(a.goals)} = OpenNodes(a.prf)
               /\ Cardinality({g[1] : g \in Range(a.goals)}) = Len(a.goals)
               /\ \A g \in Range(a.goals) : g[2] <= a.depth
    BY <2>3, GoalsCounted
  <2> QED
    BY <2>1, <2>2, <2>4 DEF GoalsOpen
<1> QED
  BY <1>1, BfsInvariance, PTL

\* What the breadth-first search returns is a closed and sound proof of the goal,
\* with acceptable definitions, within the maximal depth.
THEOREM BfsReturnsProofs == Spec /\ []RulesLegal => []ResultIsProof
<1>1. AInv => ResultIsProof
  BY DEF AInv, ResultIsProof, Works, OpenNodes, is_closed
<1> QED
  BY <1>1, BfsInvariance, PTL
=============================================================================
