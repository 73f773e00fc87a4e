------------------------------ MODULE Containment ------------------------------
(***************************************************************************)
(* What check_soundness of soundness.c promises: in one step, whether the  *)
(* traces of the proof cover its paths.                                    *)
(***************************************************************************)
CONSTANT Covered(_)  \* the verdict on a proof object

VARIABLES
  proof,      \* the static variable proof
  answer      \* "none" until check_soundness returns

Init == answer = "none"

Answer ==
  /\ answer = "none"
  /\ answer' = IF Covered(proof) THEN "yes" ELSE "no"
  /\ UNCHANGED proof

Spec == Init /\ [][Answer]_<<proof, answer>>
=============================================================================
