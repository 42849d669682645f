------------------------------- MODULE Rules --------------------------------
(***************************************************************************)
(* The rules of play, as operators: Board::step, Board::solved and         *)
(* Board::validate_state (crates/core/src/board.rs) and the moves of Game  *)
(* (crates/core/src/game.rs).                                              *)
(*                                                                         *)
(* A board is its open cells, a function from its goal cells to labels,    *)
(* the boxes' labels by slot and the start; a cell is a row and a column.  *)
(* A game is a record of its board's position, the pushes, the undo        *)
(* records and the route played.                                           *)
(***************************************************************************)
EXTENDS Integers, Sequences, FiniteSets, SequencesExt

CONSTANTS
  MaxRoute   \* MAX_ROUTE

Dirs == {"U", "D", "L", "R"}

(* The cell beyond a cell.                                                 *)
Beyond(cell, d) ==
  CASE d = "U" -> <<cell[1] - 1, cell[2]>>
    [] d = "D" -> <<cell[1] + 1, cell[2]>>
    [] d = "L" -> <<cell[1], cell[2] - 1>>
    [] d = "R" -> <<cell[1], cell[2] + 1>>

OnGoal(board, i, cell) ==
  cell \in DOMAIN board.goals /\ board.goals[cell] = board.labels[i]

SolvedIn(board, s) == \A i \in DOMAIN board.labels : OnGoal(board, i, s.boxes[i])

(* What validate_state asks of a position.                                 *)
Legal(board, s) ==
  /\ s.player \in board.open
  /\ \A i \in DOMAIN s.boxes : s.boxes[i] \in board.open \ {s.player}
  /\ \A i, j \in DOMAIN s.boxes : i # j => s.boxes[i] # s.boxes[j]

(* Board::step: the one position a legal step leads to with the slot it    *)
(* pushed, or none.                                                        *)
Steps(board, s, d) ==
  LET next == Beyond(s.player, d)
      far  == Beyond(next, d)
      hit  == {i \in DOMAIN s.boxes : s.boxes[i] = next}
  IN {p \in {[state |-> [player |-> next,
                         boxes |-> [i \in DOMAIN s.boxes |->
                                      IF i \in hit THEN far ELSE s.boxes[i]]],
              pushed |-> hit]} :
       /\ next \in board.open
       /\ hit # {} => /\ far \in board.open
                      /\ \A i \in DOMAIN s.boxes : s.boxes[i] # far}

NewGame(board) ==
  [state |-> board.start, pushes |-> 0, history |-> << >>, actions |-> << >>]

Moves(g) == Len(g.history)

(* Game::step: the game after one move, or none where it is refused.       *)
Played(board, g, d) ==
  {[state   |-> p.state,
    pushes  |-> g.pushes + Cardinality(p.pushed),
    history |-> Append(g.history, [player |-> g.state.player, pushed |-> p.pushed]),
    actions |-> Append(g.actions, d)] :
     p \in IF SolvedIn(board, g.state) \/ Moves(g) >= MaxRoute THEN {}
           ELSE Steps(board, g.state, d)}

\* Faulty: puts the player back, not the box.
UndoneLeavingBox(g) ==
  [g EXCEPT !.state.player = Last(g.history).player,
            !.pushes = @ - Cardinality(Last(g.history).pushed),
            !.history = Front(@),
            !.actions = Front(@)]

Undone(g) ==
  LET u == Last(g.history) IN
  [state   |-> [player |-> u.player,
                boxes  |-> [i \in DOMAIN g.state.boxes |->
                              IF i \in u.pushed THEN g.state.player ELSE g.state.boxes[i]]],
   pushes  |-> g.pushes - Cardinality(u.pushed),
   history |-> Front(g.history),
   actions |-> Front(g.actions)]

(* The game that each prefix of a route leads to from the start, or none.  *)
GamesAlong(board, route) ==
  LET after[n \in 0 .. Len(route)] ==
        IF n = 0 THEN {NewGame(board)}
        ELSE UNION {Played(board, g, route[n]) : g \in after[n - 1]}
  IN  after

(* replay: the game a route leads to from the start, or none where one of  *)
(* its moves is refused.                                                   *)
Replayed(board, route) ==
  IF Len(route) > MaxRoute THEN {} ELSE GamesAlong(board, route)[Len(route)]

(* check_extension: whether so many moves more fit.                        *)
Extends(g, moves) == moves <= MaxRoute - Moves(g)

(* Game::at: what a caller that searches from a played prefix starts with. *)
SearchableAt(board, log) ==
  {g \in Replayed(board, log) : ~SolvedIn(board, g.state) => Extends(g, 1)}

Solves(board, log) == \E g \in Replayed(board, log) : SolvedIn(board, g.state)

=============================================================================
