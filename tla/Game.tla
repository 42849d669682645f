-------------------------------- MODULE Game --------------------------------
(***************************************************************************)
(* The play session of one board (crates/core/src/game.rs).                *)
(***************************************************************************)
EXTENDS Rules

CONSTANTS
  Boards,  \* the boards played
  Routes   \* routes a caller asks to replay; a bound for TLC

(* What Board::parse lets through: a board's boxes and player start on     *)
(* open cells, no two on the same one.  A route with a byte that is no     *)
(* move is refused before any of it is played.                             *)
ASSUME GameAssumption ==
  /\ MaxRoute \in Nat /\ Routes \subseteq Seq(Dirs)
  /\ \A b \in Boards :
       /\ b.open \subseteq Int \X Int
       /\ b.start \in [player : b.open, boxes : [DOMAIN b.labels -> b.open]]
       /\ Legal(b, b.start)

VARIABLES board, game

gameVars == <<board, game>>

GameInit == board \in Boards /\ game = NewGame(board)

Step(d) ==
  /\ game' \in Played(board, game, d)
  /\ UNCHANGED board

Undo ==
  /\ game.history # << >>
  /\ game' = Undone(game)
  /\ UNCHANGED board

Reset ==
  /\ game' = NewGame(board)
  /\ UNCHANGED board

(* A refused route changes nothing.                                        *)
Replay(route) ==
  /\ game' \in Replayed(board, route)
  /\ UNCHANGED board

GameNext ==
  \/ \E d \in Dirs : Step(d)
  \/ Undo
  \/ Reset
  \/ \E r \in Routes : Replay(r)

GameSpec == GameInit /\ [][GameNext]_gameVars

-----------------------------------------------------------------------------
(* However it was reached, by undos and replays too, a game stands in a    *)
(* legal position and is exactly what a strict replay of its own route     *)
(* gives: position, box slots, pushes and undo records.  Every solve, save *)
(* and share rests on that route alone (game.rs 119-151, 191-204).         *)
GameIsReplay ==
  /\ Legal(board, game.state)
  /\ Replayed(board, game.actions) = {game}

=============================================================================
