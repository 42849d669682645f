------------------------------- MODULE LabPage -------------------------------
(***************************************************************************)
(* The Solver Lab (web/src/lab-page.ts): searches over a room and a        *)
(* position that navigation may change under them.                         *)
(*                                                                         *)
(* Left out: the runs it keeps to compare, and their playback.             *)
(***************************************************************************)
EXTENDS Pages

CONSTANTS
  Catalog,  \* the catalog's rooms
  Logs,     \* the logs a lab link may carry; a bound for TLC
  Engines,  \* as in SolverClient
  Patient   \* whether the user waits for a search before navigating

(* A found route is one of moves, and so is a link's log (router.ts 17).   *)
ASSUME LabAssumption ==
  /\ MaxRoute \in Nat
  /\ Found \subseteq Seq(Dirs) /\ Logs \subseteq Seq(Dirs)

VARIABLES
  room, prefix,                       \* labPuzzle, labPrefix
  lState, lHeld, lJobs, lShown, lTried  \* labSolver

Lab == INSTANCE SolverClient WITH
  state <- lState, held <- lHeld, jobs <- lJobs, shown <- lShown, tried <- lTried,
  Rogue <- {}, Asks <- {}

lVars == <<lState, lHeld, lJobs, lShown, lTried>>

labVars == <<room, prefix, certified, lVars>>

LabInit ==
  /\ room \in Catalog /\ prefix = << >>
  /\ certified = {}
  /\ Lab!ClientInit

(* What renderLab keeps of a link's log: one that solves the room.         *)
Transferred(on, log) == IF Solves(on, log) THEN log ELSE << >>

RenderLab ==
  /\ Patient => ~Lab!Busy
  /\ room' \in Catalog
  /\ \E log \in Logs : prefix' = Transferred(room', log)
  /\ UNCHANGED <<certified, lVars>>

(* The rooms' list: cancel, then navigate to the room's start.             *)
ChooseRoom ==
  /\ Patient => ~Lab!Busy
  /\ Lab!Cancel
  /\ room' \in Catalog
  /\ prefix' = << >>
  /\ UNCHANGED certified

LabRun ==
  /\ \E e \in Engines, m \in Modes : Lab!Solve(room, prefix, m, e)
  /\ UNCHANGED <<room, prefix, certified>>

LabCancel ==
  /\ Lab!Busy /\ Lab!Cancel
  /\ UNCHANGED <<room, prefix, certified>>

\* Faulty: certifies the rest of a transferred position.
CertifiesTransferred(s) ==
  IF s.type = "done" /\ s.proof = "optimal" /\ s.route # {} THEN s.best ELSE {}

(* applyLabUpdate: what an update certifies of the room on show.           *)
CertifiesRoom(s) ==
  IF s.type = "done" /\ s.proof = "optimal" /\ s.route # {} /\ prefix = << >>
  THEN s.best ELSE {}

LabReply(id) ==
  /\ Lab!Deliver(id, room) \/ Lab!ReadBody(id, room)
  /\ certified' = IF lShown' = lShown THEN certified
                  ELSE Recorded(certified, room, CertifiesRoom(lShown'))
  /\ UNCHANGED <<room, prefix>>

LabSteps(id) ==
  /\ Lab!Respond(id) \/ Lab!WorkerError(id) \/ Lab!Watchdog(id) \/ Lab!Engine(id)
  /\ UNCHANGED <<room, prefix, certified>>

LabNext ==
  \/ RenderLab \/ ChooseRoom \/ LabRun \/ LabCancel
  \/ \E id \in Lab!Ids : LabReply(id) \/ LabSteps(id)

LabSpec == LabInit /\ [][LabNext]_labVars

-----------------------------------------------------------------------------
(* A recorded optimum is the length of its own room's shortest solution    *)
(* (optimal.ts 3-9, lab-page.ts 195-198).                                  *)
RoomRecordsTrue ==
  \A c \in certified :
    Lab!Shortest([ways |-> Lab!Ways(c.board, << >>)]) = {c.moves}

=============================================================================
