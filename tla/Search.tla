------------------------------- MODULE Search -------------------------------
(***************************************************************************)
(* What a push search promises its caller, whichever mode runs, and        *)
(* nothing of how it searches (crates/search/src/lib.rs): the status, once *)
(* final, stays, and with it what the search found; the best route only    *)
(* shortens and is never shorter than the optimum; the counters only rise, *)
(* and nothing is expanded that was not generated; an Optimal search that  *)
(* ends of itself has the optimum, or there is none.                       *)
(***************************************************************************)
EXTENDS Naturals

CONSTANT Inf   \* no route, and any count too long to tell

VARIABLES
  exact,     \* whether the mode is Optimal
  opt,       \* the length of the shortest solution, or Inf
  best,      \* best_moves, or Inf without one
  routed,    \* whether there is a route, a saturated one included
  status,
  expanded, generated

promised == <<exact, opt, best, routed, status, expanded, generated>>

(* The ends a search finds itself, and the two a caller gives it.          *)
OwnEnds == {"solved", "exhausted", "state_limit", "memory_limit"}

StopReasons == {"time_limit", "cancelled"}

(* What the search may say of itself as it ends.                           *)
Verdict(end) ==
  /\ end = "solved" => routed' /\ (exact /\ best' < Inf => best' = opt)
  /\ end = "exhausted" => ~routed' /\ opt = Inf

(* Some pops: a route may be found, the first or a shorter one, and the    *)
(* search may end.                                                         *)
Work ==
  /\ status = "running"
  /\ status' \in {"running"} \cup OwnEnds
  /\ Verdict(status')
  /\ best' \in opt .. best
  /\ routed' \in BOOLEAN
  /\ routed \/ best' < best => routed'
  /\ expanded' \in expanded .. expanded + 1
  /\ generated' \in generated .. generated + 2
  /\ expanded' <= generated'
  /\ UNCHANGED <<exact, opt>>

(* A stop keeps what was found.                                            *)
StopFor(reason) ==
  /\ status = "running" /\ status' = reason
  /\ UNCHANGED <<exact, opt, best, routed, expanded, generated>>

Begins ==
  /\ exact \in BOOLEAN /\ opt \in 0 .. Inf
  /\ best = Inf /\ ~routed
  /\ status = "running" \/ (status = "exhausted" /\ opt = Inf)
  /\ expanded = 0 /\ generated = 1

Keeps == Work \/ \E reason \in StopReasons : StopFor(reason)

Promise == Begins /\ [][Keeps]_promised

=============================================================================
