------------------------------- MODULE Checkproof -------------------------------
(***************************************************************************)
(* The stand-alone checker (checkproof.ml): a process that reads proofs    *)
(* from its standard input, each a list of edges ended by a semicolon, and *)
(* prints one answer for each.  All its calls of check_proof share one     *)
(* cache.  Parsing is left out: an input is the list of the records that   *)
(* parse_line returns, with node names already mapped to the positive      *)
(* numbers that VarManager gives them.                                     *)
(***************************************************************************)
EXTENDS SoundCheck, SequencesExt

CONSTANT Sessions    \* what a process may read: sequences of lists of lines

VARIABLES
  session,    \* inputs not answered yet
  printed     \* answers printed so far

cvars == <<vars, session, printed>>

-----------------------------------------------------------------------------
(* From lines to a proof. *)

Emptied(tags) == [tags |-> tags, subg |-> << >>]

\* update and its default: the entry of a node, and the map with another entry.
Entry(nodemap, idx) == IF idx \in DOMAIN nodemap THEN nodemap[idx] ELSE Emptied({})

Update(nodemap, idx, n) ==
  [i \in DOMAIN nodemap \cup {idx} |-> IF i = idx THEN n ELSE nodemap[i]]

AddTags(nodemap, idx, tags) ==
  LET n == Entry(nodemap, idx)
  IN  Update(nodemap, idx, [n EXCEPT !.tags = @ \cup tags])

AddPremise(nodemap, idx, dest, label) ==
  LET n == Entry(nodemap, idx)
  IN  Update(nodemap, idx, [n EXCEPT !.subg = Update(@, dest, label)])

\* A faulty variant: the tags at the end of the edge are not collected.
add_entry_SourceTags(nodemap, line) ==
  LET all == line.nonprog \cup line.prog
      withsrc == AddPremise(AddTags(nodemap, line.src, {p[1] : p \in all}), line.src,
                            line.dest, [tv |-> all, tp |-> line.prog])
  IN  AddTags(withsrc, line.dest, {})

add_entry(nodemap, line) ==
  LET all == line.nonprog \cup line.prog
      withsrc == AddPremise(AddTags(nodemap, line.src, {p[1] : p \in all}), line.src,
                            line.dest, [tv |-> all, tp |-> line.prog])
  IN  AddTags(withsrc, line.dest, {p[2] : p \in all})

mk_prf(lines) ==
  [prf |-> FoldLeft(add_entry, << >>, lines),
   init |-> IF lines = << >> THEN 0 ELSE Head(lines).src]

\* The assertion of add_entry: no edge is given twice.
EdgesDistinct(lines) ==
  \A k, l \in DOMAIN lines :
    (lines[k].src = lines[l].src /\ lines[k].dest = lines[l].dest) => k = l

-----------------------------------------------------------------------------
(* The main loop. *)

CInit ==
  /\ Init
  /\ session \in Sessions
  /\ printed = << >>

ReadProof ==
  /\ session # << >>
  /\ IF EdgesDistinct(Head(session))
     THEN Call(mk_prf(Head(session)))
     ELSE /\ pc = "idle"
          /\ pc' = "mk_failed"
          /\ UNCHANGED <<req, work, ccache, verdict, calls>>
  /\ UNCHANGED <<session, printed>>

CheckStep ==
  /\ CheckProof
  /\ pc # "return"
  /\ UNCHANGED <<session, printed>>

PrintAnswer ==
  /\ Return
  /\ printed' = Append(printed, verdict)
  /\ session' = Tail(session)

CNext == ReadProof \/ CheckStep \/ PrintAnswer

CSpec == CInit /\ [][CNext]_cvars

-----------------------------------------------------------------------------
(* Properties *)

\* Every input whose edges are distinct passes the first validation of check_proof:
\* the tags that mk_prf collects from all lines cover the pairs of every edge.
InputAccepted == pc \in {"dead", "assert_failed"} => valid(req.prf, req.init)

\* The answer printed for each input is the one for the graph that was read.
AnswerCorrect ==
  pc = "return" =>
    LET read == mk_prf(Head(session))
    IN  verdict <=> GloballySound(read.prf, read.init)
=============================================================================
