------------------------------ MODULE MCCheckproof ------------------------------
(* Inputs to the stand-alone checker. *)
EXTENDS Checkproof

Line(src, dest, prog, nonprog) ==
  [src |-> src, dest |-> dest, prog |-> prog, nonprog |-> nonprog]

\* Lines over three nodes and two tags: progress, hand over, and lose the trace.
Lines ==
  {Line(i, j, tps[1], tps[2]) :
     i \in 1 .. 3, j \in 1 .. 3,
     tps \in {<<{<<1, 1>>}, {}>>, <<{<<1, 2>>}, {<<2, 1>>}>>, <<{}, {}>>}}

\* Node names are numbered in the order in which they are first read.
Numbered(lines) ==
  LET ids == [k \in 1 .. 2 * Len(lines) |->
                IF k % 2 = 1 THEN lines[(k + 1) \div 2].src ELSE lines[k \div 2].dest]
  IN  \A k \in DOMAIN ids :
        ids[k] = 1 \/ \E l \in 1 .. k - 1 : ids[l] = ids[k] - 1 \/ ids[l] = ids[k]

\* Processes that read one proof.
OneProof ==
  {<<lines>> : lines \in {ls \in UNION {[1 .. n -> Lines] : n \in 0 .. 3} : Numbered(ls)}}

\* Four loops next to each other, of which the first progresses, read twice in
\* another order: the two maps are balanced into the same tree.
Loop(i) == Line(i, i, IF i = 1 THEN {<<1, 1>>} ELSE {}, {<<1, 1>>})
TwoProofs == {<<[i \in 1 .. 4 |-> Loop(i)], <<Loop(2), Loop(1), Loop(3), Loop(4)>>>>}

\* Call takes its arguments from the session.
AnyRequest == {mk_prf(<< >>)}
=============================================================================
