--------------------------------- MODULE Entails --------------------------------
(***************************************************************************)
(* Entailments in the procedure prover (procedure/rules.ml): the axiom for *)
(* finished commands, the rule for assertions and the two cut rules ask    *)
(* whether one formula entails another.  entails answers from a table, or  *)
(* runs the search of Prover and stores what it finds with the depth it    *)
(* was asked for.  The depth is a global reference: 0 means no limit, and  *)
(* assertions are searched without limit.                                  *)
(*                                                                         *)
(* A job is a rule application that asks: goals are the entailments it     *)
(* still asks for, in order.  A symbolic-execution axiom asks for each     *)
(* assertion and then for the postcondition; the other rules ask once.     *)
(***************************************************************************)
EXTENDS Prover

CONSTANTS
  EntlDepths,    \* values of the option -ed
  Jobs,          \* applications that ask: records [rule, goals]
  Invalid,       \* sequents that check_invalid rejects
  MaxJobs        \* bound: applications of one execution

ASSUME EntlDepthsAssumption == EntlDepths \subseteq -(max_int + 1) .. max_int

ASSUME JobsAssumption ==
  /\ MaxJobs \in Nat
  /\ \A j \in Jobs : /\ j.rule \in {"symex_empty", "assert", "cut"}
                     /\ Len(j.goals) > 0
                     /\ j.rule # "symex_empty" => Len(j.goals) = 1

VARIABLES
  ed,                  \* the option -ed, as given on the command line
  entl_depth,
  entailment_table,    \* partial function from sequents to [depth, prf]
  epc,                 \* "idle", "entails", "prove" or "answered"
  job,                 \* the application in progress
  default_depth,       \* its local variable of that name
  jobs                 \* applications so far

evars == <<ed, entl_depth, entailment_table, epc, job, default_depth, jobs>>

NoJob == [rule |-> "none", goals |-> << >>]

Goal == Head(job.goals)

EntailsInit ==
  /\ pc = "idle"
  /\ args = [seq |-> None, bound |-> 0, maxbound |-> 0]
  /\ bound = 0
  /\ call = None
  /\ stack = << >>
  /\ ret = None
  /\ last_search_depth = 0
  /\ ed \in EntlDepths
  /\ entl_depth = ed
  /\ entailment_table = << >>
  /\ epc = "idle"
  /\ job = NoJob
  /\ default_depth = 0
  /\ jobs = 0

-----------------------------------------------------------------------------
(* The rules that ask *)

\* A rule application starts with its first entailment.
Ask(rule) ==
  /\ epc = "idle"
  /\ jobs < MaxJobs
  /\ job' \in {j \in Jobs : j.rule = rule}
  /\ epc' = "entails"
  /\ jobs' = jobs + 1
  /\ UNCHANGED <<ed, entailment_table, vars>>

\* An entailment has been answered in ret, and the application ends.
Finish ==
  /\ epc = "answered"
  /\ epc' = "idle"
  /\ job' = NoJob
  /\ default_depth' = 0
  /\ ret' = None
  /\ UNCHANGED <<ed, entailment_table, jobs>>
  /\ UNCHANGED <<pc, args, bound, call, stack, last_search_depth>>

\* aux asks for the first of goals: at depth default when only the postcondition is
\* left, and otherwise at the depth that is set.
AuxDepth(goals, default, depth) == IF Len(goals) = 1 THEN default ELSE depth

mk_symex_empty_axiom ==
  /\ Ask("symex_empty")
  /\ default_depth' = entl_depth
  /\ entl_depth' = AuxDepth(job'.goals, entl_depth, 0)

\* aux goes on after an assertion that holds.
AuxGoesOn ==
  /\ epc = "answered"
  /\ job.rule = "symex_empty"
  /\ ret # None
  /\ Len(job.goals) > 1
  /\ epc' = "entails"
  /\ job' = [job EXCEPT !.goals = Tail(@)]
  /\ entl_depth' = AuxDepth(Tail(job.goals), default_depth, entl_depth)
  /\ ret' = None
  /\ UNCHANGED <<ed, entailment_table, default_depth, jobs>>
  /\ UNCHANGED <<pc, args, bound, call, stack, last_search_depth>>

\* aux ends with the postcondition, or gives up at an assertion.
AuxEnds ==
  /\ job.rule = "symex_empty"
  /\ ret = None \/ Len(job.goals) = 1
  /\ Finish
  /\ UNCHANGED entl_depth

assert_rule ==
  /\ Ask("assert")
  /\ default_depth' = entl_depth
  /\ entl_depth' = 0

AssertAnswered ==
  /\ job.rule = "assert"
  /\ Finish
  /\ entl_depth' = default_depth

\* left_cut_rule and right_cut_rule
cut_rule ==
  /\ Ask("cut")
  /\ UNCHANGED <<entl_depth, default_depth>>

CutAnswered ==
  /\ job.rule = "cut"
  /\ Finish
  /\ UNCHANGED entl_depth

-----------------------------------------------------------------------------
(* entails *)

\* The table has a proof, or a failure at least as deep as the search would be.
Cached(seq) ==
  /\ seq \in DOMAIN entailment_table
  /\ \/ entailment_table[seq].prf # None
     \/ entl_depth <= entailment_table[seq].depth

\* A faulty variant: the entry claims the next depth as well.
Store_NextDepth(seq, prf) ==
  entailment_table' =
    [s \in DOMAIN entailment_table \cup {seq} |->
       IF s = seq THEN [depth |-> entl_depth + 1, prf |-> prf] ELSE entailment_table[s]]

\* EntlSeqHash.replace
Store(seq, prf) ==
  entailment_table' =
    [s \in DOMAIN entailment_table \cup {seq} |->
       IF s = seq THEN [depth |-> entl_depth, prf |-> prf] ELSE entailment_table[s]]

Hit ==
  /\ epc = "entails"
  /\ Cached(Goal)
  /\ epc' = "answered"
  /\ ret' = entailment_table[Goal].prf
  /\ UNCHANGED <<ed, entl_depth, entailment_table, job, default_depth, jobs>>
  /\ UNCHANGED <<pc, args, bound, call, stack, last_search_depth>>

\* prove finds the sequent invalid.
Reject ==
  /\ epc = "entails"
  /\ ~Cached(Goal)
  /\ Goal \in Invalid
  /\ Store(Goal, None)
  /\ epc' = "answered"
  /\ ret' = None
  /\ UNCHANGED <<ed, entl_depth, job, default_depth, jobs>>
  /\ UNCHANGED <<pc, args, bound, call, stack, last_search_depth>>

\* The limit of the search.
Depth == IF entl_depth < 1 THEN max_int ELSE entl_depth

\* prove calls idfs 1 depth.
Prove ==
  /\ epc = "entails"
  /\ ~Cached(Goal)
  /\ Goal \notin Invalid
  /\ epc' = "prove"
  /\ pc' = "idfs"
  /\ args' = [seq |-> Goal, bound |-> 1, maxbound |-> Depth]
  /\ bound' = 1
  /\ call' = [bound |-> 1, idx |-> 0, prf |-> mk(Goal)]
  /\ UNCHANGED <<stack, ret, last_search_depth>>
  /\ UNCHANGED <<ed, entl_depth, entailment_table, job, default_depth, jobs>>

\* A faulty variant: the table keeps the proof that idfs tried last.
Proved_LastTried ==
  /\ epc = "prove"
  /\ pc = "done"
  /\ Store(Goal, call.prf)
  /\ epc' = "answered"
  /\ pc' = "idle"
  /\ UNCHANGED <<args, bound, call, stack, ret, last_search_depth>>
  /\ UNCHANGED <<ed, entl_depth, job, default_depth, jobs>>

\* idfs returns, and the table keeps what it found.
Proved ==
  /\ epc = "prove"
  /\ pc = "done"
  /\ Store(Goal, ret)
  /\ epc' = "answered"
  /\ pc' = "idle"
  /\ UNCHANGED <<args, bound, call, stack, ret, last_search_depth>>
  /\ UNCHANGED <<ed, entl_depth, job, default_depth, jobs>>

\* The alarm of w_timeout ends the proof search for the procedure, wherever it
\* is; the search for the next procedure starts with the references as they are.
Timeout ==
  /\ epc # "idle"
  /\ epc' = "idle"
  /\ job' = NoJob
  /\ default_depth' = 0
  /\ pc' = "idle"
  /\ stack' = << >>
  /\ ret' = None
  /\ UNCHANGED <<ed, entl_depth, entailment_table, jobs>>
  /\ UNCHANGED <<args, bound, call, last_search_depth>>

Search == Next /\ UNCHANGED evars

UntimedNext ==
  \/ mk_symex_empty_axiom
  \/ AuxGoesOn
  \/ AuxEnds
  \/ assert_rule
  \/ AssertAnswered
  \/ cut_rule
  \/ CutAnswered
  \/ Hit
  \/ Reject
  \/ Prove
  \/ Search
  \/ Proved

EntailsNext == UntimedNext \/ Timeout

EntailsSpec == EntailsInit /\ [][EntailsNext]_<<vars, evars>> /\ WF_pc(Advance)

\* With the option -t 0 there is no alarm.
UntimedSpec == EntailsInit /\ [][UntimedNext]_<<vars, evars>>

-----------------------------------------------------------------------------
(* Properties *)

\* What the table keeps and what a rule is told are proofs: closed, of the sequent
\* that was asked for, and satisfying the global trace condition, whatever was
\* stored before and wherever an alarm ended a search.
ProofsRight ==
  /\ \A s \in DOMAIN entailment_table :
       LET prf == entailment_table[s].prf
       IN  prf # None => is_closed(prf) /\ prf[0].seq = s /\ check(prf)
  /\ (epc = "answered" /\ ret # None) => is_closed(ret) /\ ret[0].seq = Goal /\ check(ret)

\* The entailment asked for is an assertion of the program.
AsksAssertion ==
  job.rule = "assert" \/ (job.rule = "symex_empty" /\ Len(job.goals) > 1)

\* The option -ed, "maximum search depth for entailment sub-prover", limits every
\* search for an entailment that is not an assertion of the program; below 1 it
\* stands for no limit.
DepthAsConfigured ==
  (epc = "prove" /\ ~AsksAssertion) => args.maxbound = IF ed < 1 THEN max_int ELSE ed
=============================================================================
