-------------------------------- MODULE Pages --------------------------------
(***************************************************************************)
(* What the play page and the lab share: the kind of solver client they    *)
(* hold (SolverClient) and the optima recorded (web/src/optimal.ts).       *)
(***************************************************************************)
EXTENDS Optimal

CONSTANTS
  Found, Posts,  \* as in SolverClient
  Modes,         \* the modes the user may choose
  Searches       \* searches a page may start, hints included; a bound for TLC

VARIABLE
  certified  \* the optima recorded, with their boards

=============================================================================
