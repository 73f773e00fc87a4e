# A TLA+ model of Cyclist

Cyclist is a framework for cyclic theorem provers.  A prover searches for a
derivation tree in which a leaf may be closed by a back-link to a node with an
equal sequent; such a proof is sound if every infinite path through it carries
a trace that makes progress infinitely often.  This directory models the part
of Cyclist on which the soundness of every prover rests: the proof object, the
rules' access to it, the searches, the soundness checker with its minimiser, its
cache and its C++ automata, and the timeouts around all of it.

## The system's parts

| Part | Source (under `src/src`) | Modules |
|---|---|---|
| soundness checker: validation, minimisation, cache | `generic/soundcheck.ml` | `AbstractProof`, `SoundCheck` |
| soundness checker: proof graph in C++ and foreign calls | `generic/soundness.c`, `proof.c`, `proof.hpp` | `ProofAutomata`, `SoundnessAutomaton` |
| soundness checker: trace and proof automata | `generic/trace.*`, `proof_aut.*` | `ProofAutomata`, `AutomatonCopy`, `Containment` |
| stand-alone checker | `generic/checkproof.ml` | `Checkproof` |
| proof object | `generic/proof.ml`, `proofnode.ml` | `CyclicProof`, `ProofObject` |
| proofs of procedures: splicing and extraction | `generic/proof.ml`, `procedure/prove.ml` | `ProofObject`, `ProcedureProofs` |
| rule combinators | `generic/proofrule.ml` | `ProofRule` |
| iterative-deepening search | `generic/prover.ml` | `Prover` |
| timed searches | `lib/misc.ml`, `generic/frontend.ml` | `TimedSearch` |
| abduction engine | `generic/abducer.ml`, `abdrule.ml` | `Abducer`, `Abdrule` |
| entailment sub-prover of the procedure prover | `procedure/rules.ml` | `Entails` |
| tactics, ordinal constraints | `generic/seqtactics.ml`, `ord_constraints.ml` | not modelled |
| symbolic heaps: union-find, disequalities, spatial atoms | `seplog/uf.ml`, `deqs.ml`, `ptos.ml`, `tpreds.ml`, `heap.ml`, `form.ml` | not modelled |
| base pairs, satisfiability, invalidity | `seplog/basepair.ml`, `satcheck.ml`, `invalid.ml` | not modelled |
| model checker | `seplog/mc_core.ml`, `mc_cvdet.ml` | its search only |
| definitions, unification, fresh variables | `seplog/defs.ml`, `unify.ml`, `lib/unification.ml`, `lib/varManager.ml` | not modelled |
| programs and rules of the provers | `while/`, `procedure/`, `firstorder/`, `seplog/rules.ml` | constants of the models |
| parsing, printing, statistics, signatures, build | `lib/`, `generic/stats.ml`, `seplog/smtlib.ml` | left out |
| `lib/lru.ml` | | left out: nothing uses it |

A prover is a rule (a function from an open node and a proof to a list of
applications) that `Prover.idfs` applies.  Rules change proofs only through the
constructors of `Proof`.  A rule that forms a back-link calls `Proof.check`,
which abstracts the proof to its tags and trace pairs and calls
`Soundcheck.check_proof`.  That validates the graph, minimises it, looks the
result up in a table, and otherwise rebuilds it on the C++ side, where Spot
decides a language inclusion between a trace automaton and a proof automaton.  The front ends run the search under a timeout.
The procedure prover makes many searches in one process, keeps the proofs it
finds, splices them into later proofs, extracts proofs of inner nodes, and asks a
second prover for entailments between formulas.

## Modules

`AbstractProof` has no state.  It defines abstract proofs (functions from
indices to tags and labelled premises), one operator for each function of
`soundcheck.ml` on them, and `GloballySound`, the global trace condition, which
is what the soundness check is for.  It is computed from the composite labels of
walks: lassos suffice, and a loop carries a progressing trace iff an idempotent
power of its label progresses from a tag to itself.

`SoundCheck` is the outer `check_proof`, called again and again by one process.
`work` is `!prf` of the minimiser, `ccache` the table, `verdict` the answer.
Each iteration of `remove_dead_nodes` and of `fuse_single_nodes` is a step that
takes the least candidate, as `Map.find_map` does.  A lookup may miss an equal
graph, because the table compares the shapes of balanced trees.

`Checkproof` composes `SoundCheck` with the main loop of the stand-alone
checker, which builds graphs from lists of edges and has its initial node
wherever the input says.

`ProofAutomata` has no state: the C++ classes.  A BDD is the set of its
valuations, so that the vertices of a `Proof` are the BDDs that `create_vertex`
makes from the bits of a number.  The methods of `Proof` are operators on a record
of its maps.  The two automata are their states, `compare`, the successors that an
iterator visits, and the letters and acceptance marks of the transitions.  At the
end stands what Spot makes of them: the reachable part of an automaton, and
`contains`.

`SoundnessAutomaton` is the inner `check_proof` and the foreign calls it makes.
`proof` and `bdd_map` are the static variables of `soundness.c`; each call meets its
C assertions and changes them, or aborts the process.  `check_soundness` is one
step, `TracesCoverPaths`.

`AutomatonCopy` takes that step apart.  Spot copies the trace automaton and then
the proof automaton: it opens the iterator of a state it has found, takes
successors off it, and recognises states by `compare`; the order is any order,
since hash sets decide it.  `state_map` holds the trace states that `get_state` has
allocated.  `Containment` is the promise, an answer in one step, and `Abstract` in
`AutomatonCopy` the refinement mapping: the answer is there when the stage is
"done".

`TimedSearch` composes `SoundnessAutomaton` with a sequence of searches that run
under `w_timeout`.  SIGALRM arrives at any moment.  The OCaml runtime raises
`Timeout` at the next allocation, which may be between two foreign calls; after
`check_soundness` there is none until `destroy_aut`.

`CyclicProof` has no state: nodes, constructors and observers of `Proof`.
A sequent is reduced to what `equal_upto_tags` sees and its tags.
`ProofObject` is the life of a proof: rule applications by the constants
`Axioms`, `InfRules` and `BackRules`, then a kept proof, the next search, and
`add_subprf`, whose recursion is a machine with the explicit stack `todo`, the
map `node_map` and the list `bls` of back-links to form at the end.
`ProcedureProofs` adds `extract_subproof` in the same way.

`ProofRule` has the rules and combinators of `proofrule.ml`: a rule is a record
that says how it was made, and `Apply` returns its sequence of applications.
`Prover` is `idfs` for any axioms `Ax` and rules `Rl`, with the recursion of `dfs`
on an explicit stack and integers of `Width` bits that wrap around; `MCProver`
gives it rules combined as the provers combine theirs.

`Entails` composes `Prover` with the rules of the procedure prover that ask for
entailments.  `entl_depth` and `entailment_table` are the global references of
`procedure/rules.ml`; a job is a rule application with the entailments it still asks
for, `default_depth` its local variable, `ed` the value of the option.  A job is
answered from the table, by the invalidity check, or by a search; an alarm may
end it anywhere, as `procedure/prove.ml` then goes on to the next procedure.

`Abdrule` has the rules of the abducer, which also carry definitions, and
`Abducer` is `bfs`: each iteration of its loop is a step on the stack of states to
try now and the frontier of states to try one level deeper.

Modules named `MC...` give the constants values.  Definitions whose comment says
"a faulty variant" are used only to see that the properties notice the fault.

## Runs

| Run | Question |
|---|---|
| `soundcheck` | Does minimisation end, keep its assertions and keep the answer, and do calls that share the table get their own answers?  All graphs of three nodes with at most two premises each over one tag, three shapes of up to four nodes over two tags with four labels, and a client that makes three calls with graphs that minimise to each other. |
| `checkproof_one` | Does the stand-alone checker build a valid graph from any list of at most three edges, and answer for it?  When it gives up in the middle of minimisation, has the proof no loop that the initial node reaches? |
| `checkproof_cache` | Violated: the table forgets the initial node. |
| `proof_object` | Are proofs always well-formed, sound, valid for the checker and stable, and are splices exact copies?  Proofs of at most five nodes (`MaxNodes`), any number of searches. |
| `procedure_proofs` | The same with extraction, for back-links between equal sequents, and does extraction end in a closed proof? |
| `timed_search` | Do the foreign calls meet all C assertions and rebuild the graph, for sizes one to five, around powers of two?  How far does a timeout reach?  Three searches with ten graphs to choose from: an alarm reaches at most the search after its own. |
| `timed_search_stale` | Violated: a timeout leaves the automaton behind and the next check aborts. |
| `check_soundness` | Whatever the order in which Spot finds states, is the copy the reachable automaton, do the C assertions hold, does the call return, and is its answer the global trace condition?  725 proof objects, built by the methods of `Proof`: all loops over two tags, all graphs of two vertices over one tag, cycles over two tags, leaves, unreachable and untagged vertices, any initial vertex. |
| `prover` | Does the search return the first proof at the least depth, closed and sound, and does it end?  Compared with a recursive transcription of `dfs`.  Are entailments answered right, and what the table says true?  Three rule applications in a row, options 0 (no limit), 1 and 2, alarms at any moment. |
| `entails_depth` | Violated: a failed assertion lifts the limit on all later entailments. |
| `model_search` | Violated: with both bounds at `max_int` a failing search never ends. |
| `abducer` | Do the assertions about depths and goals hold, is the result a closed and sound proof with accepted definitions, does the cut spare competing branches, and does the search end?  Seven goals, depths one to six. |

`CHECK_DEADLOCK FALSE` is set throughout: every one of these processes ends.

Bounds.  Three nodes are enough for a chain, a branch, a self-loop and two loops
that share a node, the cases that the guards of the minimiser tell apart; four
nodes add a chain into a loop.  Two tags are the least for a trace to be handed
over.  Three calls let an entry be stored, missed and hit.  Five nodes let a
proof with an inference, a premise and a back-link be spliced under an
inference.  Three searches let an alarm outlive one search and reach a third.
`Width = 4` keeps all depths of the searches away from the largest integer in
`prover` and lets the bound reach it in `model_search` and in entailments without a
limit.  Three rule applications let one store, one change the depth and one hit;
the options 1 and 2 are below and at the least depth of the proof of `A1`.  Two vertices
with two tags give the trace automaton up to five states and every way for a
trace to start late, to be handed over and to be lost.

Fairness.  `SoundCheck`, the extraction in `ProcedureProofs`, `AutomatonCopy`, `Prover`
and `Abducer` are sequential code that waits for nothing, so weak fairness of their
own steps is all that is assumed, and only for `EveryCallReturns`, `ExtractionEnds`,
`CheckReturns`, `BoundedSearchEnds` and `Terminates`.  For `Prover` it is written as
fairness of `Advance`, a change of `pc`, which every step of the search makes, and
for `Abducer` with `Expanding`, a change of `state_seq_no`, in place of the actions
that apply the rule.  No fairness is assumed of callers or of signals.

## What the violated runs show

* `checkproof_cache`: `ccache` is keyed by the minimised graph, but the answer
  also depends on the initial node (`soundcheck.ml`, lines 267 to 306).  Provers
  always pass 0; `checkproof` does not.
* `timed_search_stale`: `Timeout` raised between `create_aut` and `destroy_aut`
  leaves the static pointer set, and `assert(proof==0)` fails in the next check.
* `model_search`: `bound + 1` wraps around at `max_int`, which is how
  `mc_cvdet.ml` calls `idfs`.
* `entails_depth`: `mk_symex_empty_axiom` sets `entl_depth` to 0, no limit, for the
  assertions in front of a finished command, and restores it only on the way to
  the postcondition.  If an assertion is found invalid, it returns without
  restoring it.  From then on the option `-ed` has no effect, and entailments
  that would fail at its depth are searched for ever.  A timeout during an
  assertion has the same effect.

`FailuresRight` speaks of the depth of the option on purpose.  A failure that was
cached at that depth also answers the unlimited query of an assertion, since 0
compares as the least depth (`rules.ml`, line 74): such an assertion is refused
although a deeper proof may exist.

In `timed_search` the variables `alarm` and `blame` also show that `w_timeout`
restores the handler and leaves the alarm ticking: it may kill the process
between two searches or end the next search early, and `AlarmAge` says that it
reaches no further.

`checkproof_one` does not ask for the assertions of `check_proof`: an initial node
other than 0 from which no loop is reached is itself removed as a dead node,
because `remove_dead_nodes` spares index 0 only, and the second validation fails.
`GivesUpWithoutLoop` says that this is the only case: a proof in which the initial
node reaches a loop, sound or not, always gets an answer.

## Proofs

All theorems are for every value of the constants, and so for graphs, proofs and
searches of every size.  `tlapm` checks them.  The constants are assumed to be what
the code makes them: rules relate tags of their conclusion to tags of their
premises (`RuleTagsAssumption`), tags are finitely many integers
(`TagsAssumption`), clients of `check_proof` pass typed and valid graphs rooted at 0
(`RootedClient`, `TypedClient`; `AlwaysValidForChecker` is the proof that
`Proof.check` is such a client), graphs handed to the foreign calls are finite and
valid (`ChecksAssumption`), back-links of the procedure rules join equal sequents
and let every tag trace itself (`StrictBacklinksAssumption`).  Runs evaluate each
of these on their instance.

**The trace condition** (`CyclicProofTheorems`).  `GloballySound` is computed by a
recursion that extends walks by edges until nothing is new.  `WalksArePaths` shows
that what it computes is the least set of walks that holds the edges and can be
followed by any edge (`Paths`).  The induction is on finite sets and is done by hand:
of the sets of walks found so far from which the recursion would go wrong there is a
largest, and its successor is larger.  From then on graphs are compared through
`Paths` alone.  `CopiedLoops`: a graph whose
edges are copies of edges of a sound one is sound.  `ShortcutLoops`: it stays so
if some edges go from a second copy of a node to the first and let every tag trace
itself, because such shortcuts cannot follow each other and change no label.

**The soundness checker** (`SoundCheckProofs`).  `SInv` is inductive: between the two
validations `work` is valid, its nodes are among those of the argument, no dead
node is left once fusion has begun, and every entry of the table is right for a
graph rooted at 0.  It gives `AssertionsAlwaysHold`, `FusionLeavesNoDeadNode`
and `TypeCorrect`.  `AnswerInv` adds that the answer for `work` is
still the answer for the argument: edges into a dead node are on no loop, and
fusing a node with one successor replaces two edges of every loop through it by
their composition.  It gives `MinimisationKeepsAnswer` and `VerdictAlwaysCorrect`.

`GivesUpOnlyWithoutLoop` needs no root 0, only typed graphs with numbered nodes
(`TypedClient`, `NumberedClient`).  Its invariant `GInv` says that, while minimisation
runs, the initial node is in `work` or no path from it leads to a loop.  This
rests on `Pruned`, for the first of the two loops: the nodes removed so far are on
no loop, and no path leads from them back to a node that is left.  Fusion spares
the initial node.

**The proof object** (`ProofObjectProofs`).  Each constructor keeps a proof good
(`GoodProof`: node types, shape, tag pairs within the tags of the sequents they
join, back-links without progress).  `PInv` is inductive: all proofs are good, no
assertion has failed, and while `add_subprf` runs, `SpliceOK` holds: `node_map` is
injective and keeps sequents; a node of the source is mapped iff its parent has
been visited; the nodes on the two stacks have open copies; all others have exact
copies.  When `todo` is empty, every node is mapped, since a least node that is not
would have a parent that is.  This is why the targets of all back-links are known
when they are formed.  From it: `AlwaysWellFormed`, `SpliceAlwaysSucceeds`,
`AlwaysValidForChecker`, `SpliceAlwaysCopies`, `NodesAlwaysPersist`, `TypeCorrect`.

**Extraction** (second half of `ProofObjectProofs`).  `XInv` is inductive.  Outside of
extraction it is `PInv`; proofs that are kept are closed; back-links are strict.
While `extract_subproof` runs, `ExtractOK` holds: the pairs in `todo` wait for
different open nodes of the result, whose sequents are those of the nodes to be
copied; no other node of the result is open; every mapped node has the sequent of
its image; and only buds are mapped to a node that still waits, which is why two
nodes share an image only if one is a bud.  `CopiesRecorded` adds that every axiom
and inference of the result is the image of a node of the same kind and sequent,
so that no copy is made of a node that has one.  From these: `ExtractionWellFormed`,
`ExtractionValidForChecker`, `ExtractionNeverFails`, `KeptProofsClosed`,
`BacklinksStayStrict`, `ExtractionShares`.

**Proofs are always sound** (`SoundnessProofs`).  Only rules that form a back-link
call `Proof.check`.  For a search, `ProofsAlwaysSound` says that this is enough: an
inference adds edges to nodes that no edge leaves, and the half-copied stages of a
splice are disjoint unions of the proof and a copy of part of a sound one, joined by
edges that no loop takes.  For extraction, which forms back-links that nobody
checks, `ExtractionStaysGood` shows the same, together with all the above
(`ProofsStayGood`).  Its inductive invariant `SInv` says that the result simulates
the source: there is a function `h` from nodes of the result to nodes of the source
such that every link of the result stands for a path of the source with the same
label, or is a shortcut from a second copy of a node to the first (`Sim`).  Following
a bud to its target moves `h` along the back-link, on which every tag traces
itself.  A node that is met again becomes a shortcut to its first copy, unless that
copy, by way of a bud, stands for another node; then the new back-link stands for the
path from the bud to its target.  That a shortcut never leads to another second copy
needs that mapped nodes are closed, except right after a bud has been followed
(`Settled`).
`ClosedTestsAgree`: the recursive test for open nodes and the scan agree.

**The searches** (`ProverProofs`, `AbducerProofs`).  What a search needs of its rules
is a contract, `LegalApplication`: an application closes the node it is asked
about, leaves every other open node open, reports exactly the new open nodes as
subgoals, keeps the root, and keeps the proof sound.  The theorems say that
`Spec /\ []RulesLegal` implies the properties; `RulesLegal` says that the rules keep
the contract in every call that is made.  The runs check it for rules combined as
the provers combine theirs, and `AxiomLegal`, `BacklinkLegal`, `InferenceLegal`
(`SoundnessProofs`) and `ComposedLegal` (`ProverProofs`) prove it for the rules `proofrule.ml`
makes, the last for one turn of the loop on which its combinators rest.  In `Prover`
the inductive invariant describes the open nodes of every proof that the search may
still return to: each application left in a frame is open at its own subgoals and
at those that the frames further out still have to visit, and nowhere else.  From
it: `NoGoalForgotten`, `SearchReturnsProofs`.  `EntailmentsProved` carries it over to
`Entails`: `EInv` holds it during each of the searches that the rules start one after
the other and an alarm may end anywhere, and the table, which outlives them, holds
only proofs of its own keys (`ProofsRight`).  In `Abducer` the invariant adds depths
and the numbers of states: `BfsGoalsOpen`, `BfsReturnsProofs`.

**The automata** (`TimedSearchProofs`, `AutomatonCopyProofs`).  `TInv` is inductive for
any number of searches: a ticking alarm belongs to the current search once that has
set its own, and to the one before until then; an alarm is noted only while the
handler is installed, and none is left over between searches.  From it:
`AlarmReachesOneSearch`.  `BInv` follows the foreign calls: `Stage` says what has been
built when the iterations have visited part of the graph.  That a number of bits
computed from the size of the graph suffices to number its vertices rests on the
recursive function `pow2`, handled through its least counterexamples.  From it:
`OnlyTimeoutsLeaveStale`, and `ChecksRebuildGraphs`, the first conjunct of
`AnswerIsForGraph`.  In `AutomatonCopy`, for all sets of proof objects in that shape,
`IInv` is inductive: all states of the copy are reachable, all its transitions are
transitions of the automaton from states that are not waiting, every state whose
iterator has been closed has all its transitions in the copy, and the state whose
iterator is open has all but those to `succs`.  It needs that `compare` is 0 only for
equal states (`CompareZero`).  When nothing is waiting, the copy is closed under
successors, hence the reachable part, which is the least such set.  From it:
`CopyAssertions`, and `CopyImplements`: the step `Contain` is the step `Answer` of
`Containment`, and every other step a stutter.

**Only model-checked.**  Liveness (`EveryCallReturns`, `ExtractionEnds`, `CheckReturns`,
`BoundedSearchEnds`, `Terminates`), which the prover does not do.  That containment of
the two automata is the trace condition (`AnswerIsTraceCondition`, second conjunct of
`AnswerIsForGraph`), whose proof is Ramsey's theorem on infinite paths.  What a
comparison with a recursive operator says: `FirstProof` and `FailuresRight`, since the
modules of proofs cannot mention one.  `CutOnBranch`, which is about the ancestry of
nodes in proofs that the rules, and not the search, have built, so that it would
need more of the rules than the contract.  `InputAccepted` and `AnswerCorrect`, which
rest on what `mk_prf` folds over a list of lines.  `RulesLegal` itself, for the
combinators as a whole.

## Not modelled

* Spot.  Its copying of an automaton is modelled by the calls it makes, its
  containment check by what it decides.  BuDDy's BDDs are sets of valuations.
* What only serves output: `format_state`, `vertex_names`, hash functions, printing,
  LaTeX, statistics, debug switches; and parsing of text.
* The content of sequents: symbolic heaps, programs and first-order formulas.  What
  rules do to them, and which sequents are invalid, is left to constants.  For the
  same reason base pairs, satisfiability, the fixed points of `mc_core.ml`,
  unification and ordinal constraints have no module: they are functions of that
  content, and a model would have to begin with `seplog/heap.ml`.
* `Seqtactics`, which repeats the combinators of `proofrule.ml` on lists of subgoals,
  and the tables of the backlink abducers in `procedure/rules.ml`, which hold
  substitutions.
