------------------------------ MODULE PlayPage ------------------------------
(***************************************************************************)
(* The play page (web/src/play.ts, the play controls of web/src/main.ts)   *)
(* over its game, its solver, its hint and its playback                    *)
(* (web/src/playback.ts): two searches and a player of routes that all     *)
(* speak of a position the user keeps moving.                              *)
(*                                                                         *)
(* Left out: the score, sounds, dialogs, the clock and what is stored,     *)
(* and the cooldown of hints, which only leaves out asks.  A walk to a     *)
(* tapped cell is one step long.                                           *)
(***************************************************************************)
EXTENDS Game, Pages

CONSTANT
  UndoRun  \* the moves the second undo button takes back, 5

(* A found route is one of moves.                                          *)
ASSUME PageAssumption ==
  /\ Found \subseteq Seq(Dirs)
  /\ UndoRun \in Nat

VARIABLES
  sState, sHeld, sJobs, sShown, sTried,  \* the solver's client
  hState, hHeld, hJobs, hShown, hTried,  \* the hint's client
  playback,   \* its kind, route and index; history: the log it starts from
  paused,
  fromStart,  \* searchedFromStart
  crossed     \* history: a hint answered while the solver ran, or was out
              \* when a route started to play

Solver == INSTANCE SolverClient WITH
  state <- sState, held <- sHeld, jobs <- sJobs, shown <- sShown, tried <- sTried,
  Engines <- {"browser"}, Rogue <- {}, Asks <- {}

Hint == INSTANCE SolverClient WITH
  state <- hState, held <- hHeld, jobs <- hJobs, shown <- hShown, tried <- hTried,
  Engines <- {"browser"}, Rogue <- {}, Asks <- {}

sVars == <<sState, sHeld, sJobs, sShown, sTried>>
hVars == <<hState, hHeld, hJobs, hShown, hTried>>

vars == <<gameVars, sVars, hVars, playback, paused, fromStart, certified, crossed>>

Still == [kind |-> "idle", route |-> << >>, index |-> 0, from |-> << >>]

Playing(route, from) == [kind |-> "playing", route |-> route, index |-> 0, from |-> from]

PageInit ==
  /\ GameInit
  /\ Solver!ClientInit /\ Hint!ClientInit
  /\ playback = Still
  /\ paused = FALSE /\ fromStart = FALSE
  /\ certified = {}
  /\ crossed = FALSE

Solved == SolvedIn(board, game.state)

MaySearch == Len(sJobs) + Len(hJobs) < Searches

PlaybackActive == playback.kind # "idle"

\* Faulty: leaves the route of a finished search standing.
InvalidateBusy ==
  /\ IF Solver!Busy THEN Solver!ResetClient ELSE UNCHANGED sVars
  /\ Hint!ResetClient
  /\ playback' = Still /\ crossed' = FALSE

(* invalidate: the position moves on, and with it every answer about it.   *)
Invalidate ==
  /\ Solver!ResetClient /\ Hint!ResetClient
  /\ playback' = Still /\ crossed' = FALSE

(* What move and tap invalidate for.                                       *)
AnswersStand ==
  \/ Solver!Busy \/ Hint!Busy
  \/ sState.route # {} \/ PlaybackActive

InvalidateIfStanding ==
  IF AnswersStand THEN Invalidate ELSE UNCHANGED <<sVars, hVars, playback, crossed>>

Move(d) ==
  /\ ~paused
  /\ InvalidateIfStanding
  /\ \/ Step(d)
     \/ Played(board, game, d) = {} /\ UNCHANGED gameVars
  /\ UNCHANGED <<paused, fromStart, certified>>

UndoClick ==
  /\ ~paused
  /\ Undo /\ Invalidate
  /\ UNCHANGED <<paused, fromStart, certified>>

(* undo-5, which the pause does not hold.                                  *)
UndoSeveral ==
  /\ Moves(game) >= UndoRun
  /\ LET undone[n \in 0 .. UndoRun] == IF n = 0 THEN game ELSE Undone(undone[n - 1])
     IN  game' = undone[UndoRun]
  /\ Invalidate
  /\ UNCHANGED <<board, paused, fromStart, certified>>

ResetClick ==
  /\ Reset /\ Invalidate
  /\ UNCHANGED <<paused, fromStart, certified>>

(* load-route; a refused route changes nothing.                            *)
LoadRoute ==
  /\ ~paused
  /\ \E r \in Routes \ {<< >>} : Replay(r)
  /\ Invalidate
  /\ UNCHANGED <<paused, fromStart, certified>>

(* load: another board, fresh or with a saved log.                         *)
Load ==
  /\ board' \in Boards
  /\ game' \in {NewGame(board')} \cup UNION {Replayed(board', r) : r \in Routes}
  /\ Invalidate
  /\ UNCHANGED <<paused, fromStart, certified>>

(* A tap walks the robot: a playback from where it stands.                 *)
Walk ==
  /\ ~paused
  /\ IF AnswersStand THEN Solver!ResetClient /\ Hint!ResetClient /\ crossed' = FALSE
     ELSE UNCHANGED <<sVars, hVars, crossed>>
  /\ \E d \in Dirs :
       /\ \E p \in Steps(board, game.state, d) : p.pushed = {}
       /\ playback' = Playing(<<d>>, game.actions)
  /\ UNCHANGED <<gameVars, paused, fromStart, certified>>

(* best: the stored route from the start.                                  *)
ReplayBest ==
  /\ \E r \in {q \in Routes : Solves(board, q)} : playback' = Playing(r, << >>)
  /\ Solver!ResetClient /\ Hint!ResetClient /\ crossed' = FALSE
  /\ Reset
  /\ UNCHANGED <<paused, fromStart, certified>>

(* The replay shelf: a board loaded fresh, and a stored route of it.       *)
PlayShelf ==
  /\ board' \in Boards
  /\ game' = NewGame(board')
  /\ \E r \in {q \in Routes : Solves(board', q)} : playback' = Playing(r, << >>)
  /\ Solver!ResetClient /\ Hint!ResetClient /\ crossed' = FALSE
  /\ UNCHANGED <<paused, fromStart, certified>>

(* solve: invalidate, then the solver's own reset and start.               *)
SolveClick ==
  /\ ~Solved /\ MaySearch
  /\ \E m \in Modes : Solver!Solve(board, game.actions, m, "browser")
  /\ Hint!ResetClient
  /\ playback' = Still /\ crossed' = FALSE
  /\ fromStart' = (Moves(game) = 0)
  /\ UNCHANGED <<gameVars, paused, certified>>

(* end: the playback stops, and the page drops the route it played.        *)
EndPlayback ==
  /\ playback' = Still /\ Solver!DropRoute
  /\ crossed' = (crossed /\ (Solver!Busy \/ Hint!Busy))

CancelClick ==
  /\ IF PlaybackActive THEN EndPlayback
     ELSE Solver!Busy /\ Solver!Cancel /\ UNCHANGED <<playback, crossed>>
  /\ UNCHANGED <<gameVars, hVars, paused, fromStart, certified>>

(* Play route, Pause and Resume: playback.toggle.                          *)
PlayClick ==
  /\ ~Solver!Busy
  /\ \/ /\ playback.kind = "playing" /\ playback' = [playback EXCEPT !.kind = "paused"]
        /\ UNCHANGED crossed
     \/ /\ playback.kind = "paused" /\ playback' = [playback EXCEPT !.kind = "playing"]
        /\ UNCHANGED crossed
     \/ /\ ~PlaybackActive
        /\ \E r \in sState.route : playback' = Playing(r, sState.prefix)
        /\ crossed' = (crossed \/ Hint!Busy)
  /\ UNCHANGED <<gameVars, sVars, hVars, paused, fromStart, certified>>

(* The key asks for a hint from a solved position too.                     *)
AskHint ==
  /\ ~PlaybackActive /\ ~paused /\ MaySearch
  /\ Hint!Solve(board, game.actions, "fast", "browser")
  /\ UNCHANGED <<gameVars, sVars, playback, paused, fromStart, certified, crossed>>

(* open-solver: the panel opens or closes.                                 *)
OpenSolver ==
  /\ Hint!ResetClient
  /\ UNCHANGED <<gameVars, sVars, playback, paused, fromStart, certified, crossed>>

TogglePause ==
  /\ paused' = ~paused
  /\ IF paused THEN UNCHANGED hVars ELSE Hint!ResetClient
  /\ UNCHANGED <<gameVars, sVars, playback, fromStart, certified, crossed>>

(* The playback's interval, which the page's pause holds: it ends, plays a *)
(* move, or is blocked.                                                    *)
Tick ==
  /\ playback.kind = "playing" /\ ~paused
  /\ IF playback.index >= Len(playback.route)
     THEN EndPlayback /\ UNCHANGED gameVars
     ELSE LET d == playback.route[playback.index + 1] IN
          \/ /\ Step(d)
             /\ playback' = [playback EXCEPT !.index = @ + 1]
             /\ UNCHANGED <<sVars, crossed>>
          \/ /\ Played(board, game, d) = {}
             /\ EndPlayback /\ UNCHANGED gameVars
  /\ UNCHANGED <<hVars, paused, fromStart, certified>>

-----------------------------------------------------------------------------
\* Faulty: certifies the rest of a game played part of the way.
CertifiesAnywhere(s) ==
  IF s.type = "done" /\ s.proof = "optimal" /\ s.route # {}
  THEN s.best ELSE {}

(* applyUpdate: a proof of a search from the start certifies the board.    *)
Certifies(s) ==
  IF s.type = "done" /\ s.proof = "optimal" /\ s.route # {} /\ fromStart THEN s.best ELSE {}

SolverSteps(id) ==
  /\ \/ /\ Solver!Deliver(id, board)
        /\ certified' = IF sShown' = sShown THEN certified
                         ELSE Recorded(certified, board, Certifies(sShown'))
     \/ /\ Solver!WorkerError(id) \/ Solver!Watchdog(id) \/ Solver!Engine(id)
        /\ UNCHANGED certified
  /\ UNCHANGED <<gameVars, hVars, playback, paused, fromStart, crossed>>

FirstThree(r) == SubSeq(r, 1, IF Len(r) < 3 THEN Len(r) ELSE 3)

(* The hint's update: a found route's first steps play as a nudge.         *)
HintSteps(id) ==
  /\ \/ /\ Hint!Deliver(id, board)
        /\ IF hShown' # hShown /\ hShown'.type = "done" /\ hShown'.route # {}
           THEN /\ \E r \in hShown'.route : playback' = Playing(FirstThree(r), hState.prefix)
                /\ crossed' = (crossed \/ Solver!Busy)
           ELSE UNCHANGED <<playback, crossed>>
     \/ /\ Hint!WorkerError(id) \/ Hint!Watchdog(id) \/ Hint!Engine(id)
        /\ UNCHANGED <<playback, crossed>>
  /\ UNCHANGED <<gameVars, sVars, paused, fromStart, certified>>

User ==
  \/ \E d \in Dirs : Move(d)
  \/ UndoClick \/ UndoSeveral \/ ResetClick
  \/ LoadRoute \/ Load \/ Walk \/ ReplayBest \/ PlayShelf
  \/ SolveClick \/ CancelClick \/ PlayClick
  \/ AskHint \/ OpenSolver \/ TogglePause

PageNext ==
  \/ User
  \/ Tick
  \/ \E id \in Solver!Ids : SolverSteps(id)
  \/ \E id \in Hint!Ids : HintSteps(id)

PageSpec == PageInit /\ [][PageNext]_vars

-----------------------------------------------------------------------------
(* A finished search's route is kept only while the game stands where it   *)
(* starts, or while a route plays (solver-client.ts 95-100,                *)
(* play.ts 120-124).                                                       *)
KeptRouteFits ==
  sState.kind = "completed" /\ sState.route # {} /\ ~PlaybackActive =>
    game.actions = sState.prefix

(* A playing route plays from the position it was found for, move by move, *)
(* a hint's nudge too (play.ts 146-156, playback.ts 43-64).                *)
PlaysOnRoute ==
  PlaybackActive =>
    game.actions = playback.from \o SubSeq(playback.route, 1, playback.index)

(* Both hold of every route, a hint's nudge included, unless a hint and    *)
(* another answer got in each other's way, until that is over: every way   *)
(* the position moves on takes the answers about the earlier one with it   *)
(* (play.ts 146-157, 427-436).                                             *)
AnswersFit == ~crossed => KeptRouteFits /\ PlaysOnRoute

(* A recorded optimum is the length of the board's shortest solution, no   *)
(* position's rest of one (optimal.ts 3-9, play.ts 399-424).               *)
CertificatesTrue ==
  \A c \in certified :
    Solver!Shortest([ways |-> Solver!Ways(c.board, << >>)]) = {c.moves}

=============================================================================
