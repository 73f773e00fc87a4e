-------------------------------- MODULE Abdrule --------------------------------
(***************************************************************************)
(* Rules of the abducer (generic/abdrule.ml).  They are like the rules of  *)
(* ProofRule and may also replace the definitions found so far: a rule     *)
(* takes the index of an open node, a proof and definitions, and returns a *)
(* list of applications, each with open subgoals, a proof and definitions. *)
(* A rule is again a record that says how it was made; its fields r map a  *)
(* sequent (abr_f: two sequents) and definitions to a list.                *)
(***************************************************************************)
EXTENDS CyclicProof

PR == INSTANCE ProofRule

AbdApp(subgoals, prf, defs) == [subgoals |-> subgoals, prf |-> prf, defs |-> defs]

\* New definitions; the goal stays open.
mk_abdinfrule(r, idx, prf, defs) ==
  PR!Map(LAMBDA newdefs : AbdApp(<<idx>>, prf, newdefs), r[prf[idx].seq, defs])

\* New definitions for each pair of a source and a target of a back-link.
mk_abdbackrule(sel_f, abr_f, srcidx, prf, defs) ==
  LET apply(trgidx) ==
        PR!Map(LAMBDA newdefs : AbdApp(<<srcidx>>, prf, newdefs),
               abr_f[prf[srcidx].seq, prf[trgidx].seq, defs])
  IN  PR!Bind(apply, PR!Targets(sel_f, srcidx, prf))

\* An inference with new definitions.
mk_abdgenrule(r, idx, prf, defs) ==
  PR!Map(LAMBDA app : AbdApp(fresh_idxs(prf, app.subgoals), add_inf(prf, idx, app.subgoals),
                             app.defs),
         r[prf[idx].seq, defs])

fail(idx, prf, defs) == << >>

lift(r, idx, prf, defs) ==
  PR!Map(LAMBDA app : AbdApp(app.subgoals, app.prf, defs), PR!Apply(r, idx, prf))

-----------------------------------------------------------------------------

RECURSIVE Apply(_, _, _, _)

\* Close each subgoal in turn with the rule, in every way there is.
apply_to_subgoals(r, app) ==
  LET extend(opened, idx) ==
        PR!Map(LAMBDA new : AbdApp(opened.subgoals \o new.subgoals, new.prf, new.defs),
               Apply(r, idx, opened.prf, opened.defs))
      apps[k \in 0 .. Len(app.subgoals)] ==
        IF k = 0 THEN <<AbdApp(<< >>, app.prf, app.defs)>>
        ELSE PR!Bind(LAMBDA opened : extend(opened, app.subgoals[k]), apps[k - 1])
  IN  apps[Len(app.subgoals)]

compose_rules(r, r2, idx, prf, defs) ==
  PR!Bind(LAMBDA app : apply_to_subgoals(r2, app), Apply(r, idx, prf, defs))

choice(rl, idx, prf, defs) == PR!Bind(LAMBDA r : Apply(r, idx, prf, defs), rl)

RECURSIVE first(_, _, _, _)
first(rl, idx, prf, defs) ==
  IF rl = << >> THEN << >>
  ELSE PR!The({IF apps # << >> THEN apps ELSE first(Tail(rl), idx, prf, defs) :
                 apps \in {Apply(Head(rl), idx, prf, defs)}})

attempt(r, idx, prf, defs) ==
  PR!The({IF apps # << >> THEN apps ELSE <<AbdApp(<<idx>>, prf, defs)>> :
            apps \in {Apply(r, idx, prf, defs)}})

Apply(r, idx, prf, defs) ==
  CASE r.op = "abdinfrule" -> mk_abdinfrule(r.r, idx, prf, defs)
    [] r.op = "abdbackrule" -> mk_abdbackrule(r.sel_f, r.abr_f, idx, prf, defs)
    [] r.op = "abdgenrule" -> mk_abdgenrule(r.r, idx, prf, defs)
    [] r.op = "fail" -> fail(idx, prf, defs)
    [] r.op = "lift" -> lift(r.r, idx, prf, defs)
    [] r.op = "compose" -> compose_rules(r.r, r.r2, idx, prf, defs)
    [] r.op = "choice" -> choice(r.rl, idx, prf, defs)
    [] r.op = "first" -> first(r.rl, idx, prf, defs)
    [] r.op = "attempt" -> attempt(r.r, idx, prf, defs)
=============================================================================
