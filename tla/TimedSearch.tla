------------------------------ MODULE TimedSearch ------------------------------
(***************************************************************************)
(* The procedure prover's sequence of timed searches (procedure/prove.ml,  *)
(* frontend.ml, w_timeout of lib/misc.ml).  Each search runs under         *)
(* w_timeout when a timeout is set.  SIGALRM arrives from the kernel at    *)
(* any moment.  While the default action is installed it kills the         *)
(* process; otherwise the OCaml runtime notes it, and raises Timeout the   *)
(* next time the program allocates, also in the middle of the foreign      *)
(* calls that build the soundness automaton.                               *)
(***************************************************************************)
EXTENDS SoundnessAutomaton

CONSTANTS
  Searches     \* bound: number of searches the process makes

ASSUME SearchesAssumption == Searches \in Nat \ {0}

VARIABLES
  timeout,    \* the sign of the option -t
  pc,         \* control state of the driver and of w_timeout
  search,     \* number of the current search
  handler,    \* action installed for SIGALRM: "default" or "raise"
  alarm,      \* the search whose alarm is ticking; 0 if none is
  pending,    \* the search whose alarm was noted but not yet raised; 0 if none
  result,     \* search -> "none", "returned", "timeout"
  blame,      \* search -> the search whose alarm ended it
  fate        \* "running", or how the process ended

timervars == <<timeout, handler, alarm, pending>>
vars == <<autvars, pc, search, timervars, result, blame, fate>>

Init ==
  /\ AutInit
  /\ timeout \in {"negative", "zero", "positive"}
  /\ pc = "idle"
  /\ search = 1
  /\ handler = "default"
  /\ alarm = 0
  /\ pending = 0
  /\ result = [s \in 1 .. Searches |-> "none"]
  /\ blame = [s \in 1 .. Searches |-> 0]
  /\ fate = "running"

-----------------------------------------------------------------------------
(* The driver, gather_stats and w_timeout. *)

\* gather_stats decides whether to go through w_timeout, whose first step
\* installs the handler.
StartSearch ==
  /\ pc = "idle"
  /\ search <= Searches
  /\ IF timeout # "zero"
     THEN pc' = "set_alarm" /\ handler' = "raise"
     ELSE pc' = "search" /\ UNCHANGED handler
  /\ UNCHANGED <<autvars, timeout, search, alarm, pending, result, blame, fate>>

\* A faulty variant: an alarm that is still ticking is left alone.
SetAlarm_KeepsOld ==
  /\ pc = "set_alarm"
  /\ alarm' = IF timeout = "positive" /\ alarm = 0 THEN search ELSE alarm
  /\ pc' = "search"
  /\ UNCHANGED <<autvars, timeout, search, handler, pending, result, blame, fate>>

\* Unix.alarm, called for positive numbers only, replaces an alarm that is still
\* ticking.
SetAlarm ==
  /\ pc = "set_alarm"
  /\ alarm' = IF timeout = "positive" THEN search ELSE alarm
  /\ pc' = "search"
  /\ UNCHANGED <<autvars, timeout, search, handler, pending, result, blame, fate>>

\* A soundness check made by the search.
Check ==
  /\ pc = "search"
  /\ \E g \in Checks : BeginCheck(g)
  /\ UNCHANGED <<pc, search, timervars, result, blame, fate>>

CheckGoesOn ==
  /\ pc = "search"
  /\ BuildAutomaton \/ CheckSoundness \/ EndCheck
  /\ UNCHANGED <<pc, search, timervars, result, blame, fate>>

\* f () returns, with or without a proof; reset_sigalrm restores the handler but
\* leaves the alarm ticking.
SearchReturns ==
  /\ pc = "search"
  /\ phase = "none"
  /\ pc' = "return"
  /\ handler' = "default"
  /\ UNCHANGED <<autvars, timeout, search, alarm, pending, result, blame, fate>>

\* The allocation of Some res is the last point inside the try.
Return ==
  /\ pc = "return"
  /\ pending = 0
  /\ result' = [result EXCEPT ![search] = "returned"]
  /\ search' = search + 1
  /\ pc' = "idle"
  /\ UNCHANGED <<autvars, timervars, blame, fate>>

Exit ==
  /\ pc = "idle"
  /\ search > Searches
  /\ fate' = "exited"
  /\ UNCHANGED <<autvars, pc, search, timervars, result, blame>>

-----------------------------------------------------------------------------
(* The signal. *)

AlarmRings ==
  /\ alarm # 0
  /\ alarm' = 0
  /\ IF handler = "default"
     THEN fate' = "killed" /\ UNCHANGED pending
     ELSE pending' = alarm /\ UNCHANGED fate
  /\ UNCHANGED <<autvars, timeout, pc, search, handler, result, blame>>

\* The exception unwinds whatever runs inside the try of w_timeout.  The global
\* automaton of the C++ side stays as it is.
RaiseTimeout ==
  /\ pending # 0
  /\ \/ pc = "search" /\ phase # "checked"
     \/ pc = "return"
  /\ pending' = 0
  /\ handler' = "default"
  /\ result' = [result EXCEPT ![search] = "timeout"]
  /\ blame' = [blame EXCEPT ![search] = pending]
  /\ search' = search + 1
  /\ pc' = "idle"
  /\ phase' = "none"
  /\ items' = {}
  /\ UNCHANGED <<statics, graph, retval, aborted, timeout, alarm, fate>>

\* Between Sys.signal and the try nothing catches the exception.
TimeoutEscapes ==
  /\ pending # 0
  /\ pc = "set_alarm"
  /\ fate' = "uncaught"
  /\ UNCHANGED <<autvars, pc, search, timervars, result, blame>>

Next ==
  /\ fate = "running"
  /\ ~aborted
  /\ \/ StartSearch
     \/ SetAlarm
     \/ Check
     \/ CheckGoesOn
     \/ SearchReturns
     \/ Return
     \/ Exit
     \/ AlarmRings
     \/ RaiseTimeout
     \/ TimeoutEscapes

Spec == Init /\ [][Next]_vars

-----------------------------------------------------------------------------
(* Properties *)

\* w_timeout never cancels an alarm, but the next w_timeout replaces it: an alarm
\* that ticks, is pending or ended a search is never older than the search
\* before.  Between two searches the handler is the one from before w_timeout.
AlarmAge ==
  /\ pc = "idle" => handler = "default" /\ phase = "none"
  /\ alarm # 0 => alarm \in {search - 1, search}
  /\ pending # 0 => pending \in {search - 1, search}
  /\ \A s \in 1 .. Searches : result[s] = "timeout" => blame[s] \in {s - 1, s}

\* No foreign call fails an assertion, and no automaton outlives its check, unless
\* a timeout has cut an earlier search short: the vertex numbers fit in the
\* propositions that log2size provides, vertices and tags are declared before
\* use, and every check that runs to its end destroys its automaton.
StaleOnlyAfterTimeout ==
  (aborted \/ (phase = "none" /\ proof # NoProof)) =>
    \E s \in 1 .. search - 1 : result[s] = "timeout"

\* What assert(proof==0) of create_aut claims: no check ever finds the automaton
\* of an earlier one.
NoStaleAutomaton == ~aborted
=============================================================================
