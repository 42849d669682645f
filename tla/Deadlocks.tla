----------------------------- MODULE Deadlocks ------------------------------
(***************************************************************************)
(* Verdicts on boxes that can no longer be solved: the freeze fixpoint     *)
(* after a push (crates/search/src/deadlock.rs), and the stage ladder's    *)
(* goal placements, by what each box reaches alone and by sink lines       *)
(* (deadlock/goals.rs).                                                    *)
(*                                                                         *)
(* Boxes are given as a function from slots to cells.                      *)
(***************************************************************************)
EXTENDS Estimate

\* Faulty: a dead cell on one side of an axis is enough.
HeldOneSide(board, heur, i, cell, blocked) ==
  \A axis \in {{"U", "D"}, {"L", "R"}} :
    LET sides == {Beyond(cell, d) : d \in axis}
    IN  ~(sides \subseteq board.open) \/ sides \cap blocked # {} \/ \E c \in sides : DeadAt(board, heur, i, c)

(* held: both axes have a wall or a blocked cell on a side, or a cell dead *)
(* for the box on both.                                                    *)
Held(board, heur, i, cell, blocked) ==
  \A axis \in {{"U", "D"}, {"L", "R"}} :
    LET sides == {Beyond(cell, d) : d \in axis} IN
    \/ ~(sides \subseteq board.open)
    \/ sides \cap blocked # {}
    \/ \A c \in sides : DeadAt(board, heur, i, c)

(* frozen_off_goal_among: the greatest set of these boxes that hold one    *)
(* another, of which one is off its goal.                                  *)
Frozen(board, heur, at) ==
  LET frozen[some \in SUBSET DOMAIN at] ==
        LET kept == {i \in some : Held(board, heur, i, at[i], {at[j] : j \in some})}
        IN  IF kept = some THEN some ELSE frozen[kept]
  IN  frozen[DOMAIN at]

FrozenOffGoal(board, heur, at) ==
  \E i \in Frozen(board, heur, at) : ~OnGoal(board, i, at[i])

(* The boxes joined to box i through boxes side by side.                   *)
Joined(at, box) ==
  LET joined[some \in SUBSET DOMAIN at] ==
        LET near == {Beyond(at[i], d) : i \in some, d \in Dirs}
            more == some \cup {j \in DOMAIN at : at[j] \in near}
        IN  IF more = some THEN some ELSE joined[more]
  IN  joined[{box}]

(* is_dead_after_push: box i pushed onto to, of boxes only the members     *)
(* taken for there; alone it is dead where its cell is.                    *)
DeadAfterPush(board, heur, boxes, members, i, to) ==
  LET Verdict(at, group) == IF group = {i} THEN DeadAt(board, heur, i, to)
                            ELSE FrozenOffGoal(board, heur, Restrict(at, group))
      Onto(at) == Verdict(at, Joined(at, i))
  IN  Onto([Restrict(boxes, members \cup {i}) EXCEPT ![i] = to])

----------------------------------------------------------------------------
\* Faulty: starts from one side of each goal.
GoalReachOneSide(board, blocks) ==
  [j \in DOMAIN Columns(board) |->
     Flooded(ReversePushes(board, TRUE, blocks), {<<Columns(board)[j], "U">>})]

(* GoalReach::build: the spots from which a box alone reaches each column. *)
GoalReach(board, blocks) ==
  LET pushes  == ReversePushes(board, TRUE, blocks)
      columns == Columns(board)
  IN  [j \in DOMAIN columns |->
         Flooded(pushes, {s \in SpotsOf(board, TRUE) : s[1] = columns[j]})]

(* reach: a box outside the keeper's component reaches only what is under  *)
(* it.                                                                     *)
ReachAlone(board, blocks, reach, cell, player) ==
  IF InKeeper(blocks, cell)
    THEN {j \in DOMAIN reach : <<cell, Side(blocks, cell, player)>> \in reach[j]}
    ELSE {j \in DOMAIN reach : Columns(board)[j] = cell}

(* augment: Kuhn's path from box i, over the goals not seen this round.    *)
Free == 0           \* FREE, the owner of a goal no box took

Rounds(wants) == [ok : BOOLEAN, seen : SUBSET DOMAIN wants,
                  owner : [DOMAIN wants -> DOMAIN wants \cup {Free}]]

Kuhn(box, wants, round) ==
  LET kuhn[i \in DOMAIN wants, t \in Rounds(wants)] ==
        LET Take(u, j) ==
              IF u.ok \/ j \in u.seen THEN u
              ELSE LET tried == [u EXCEPT !.seen = @ \cup {j}]
                       moved == IF u.owner[j] = Free THEN [tried EXCEPT !.ok = TRUE]
                                ELSE kuhn[u.owner[j], tried]
                   IN  IF moved.ok THEN [moved EXCEPT !.owner[j] = i] ELSE moved
        IN  FoldLeft(Take, t, Members(wants[i]))
  IN  kuhn[box, round]

(* matched: each box takes a goal of its own that it reaches alone.        *)
Matched(board, blocks, reach, s) ==
  LET wants == [i \in DOMAIN s.boxes |->
                  ReachAlone(board, blocks, reach, s.boxes[i], s.player) \cap Group(board, i)]
      Box(t, i) == IF t.ok THEN Kuhn(i, wants, [t EXCEPT !.ok = FALSE, !.seen = {}]) ELSE t
      None     == [i \in DOMAIN s.boxes |-> Free]
  IN  FoldLeft(Box, [ok |-> TRUE, seen |-> {}, owner |-> None], [i \in DOMAIN s.boxes |-> i]).ok

(* walk: the cells from a head on, up to the wall.                         *)
Run(board, head, d) ==
  LET run[c \in board.open] ==
        <<c>> \o (IF Beyond(c, d) \in board.open THEN run[Beyond(c, d)] ELSE << >>)
  IN  run[head]

(* SinkLines::build: the wall-to-wall runs of two cells or more with a     *)
(* wall beside each, across.                                               *)
SinkLines(board) ==
  LET across(d) == IF d = "R" THEN {"U", "D"} ELSE {"L", "R"}
      heads == {h \in board.open \X {"R", "D"} :
                  /\ Beyond(h[1], Back(h[2])) \notin board.open
                  /\ Beyond(h[1], h[2]) \in board.open}
  IN  {Run(board, h[1], h[2]) : h \in {g \in heads :
         \A x \in Range(Run(board, g[1], g[2])) :
           \E d \in across(g[2]) : Beyond(x, d) \notin board.open}}

(* sink_ok: along each line every box takes the first goal of its label    *)
(* past the one before.                                                    *)
SinkOk(board, lines, boxes) ==
  \A line \in lines :
    LET Meet(next, c) ==       \* where the goals left begin, 0 when one had none
          LET on    == {i \in DOMAIN boxes : boxes[i] = c}
              goals == {k \in next .. Len(line) : \A i \in on : OnGoal(board, i, line[k])}
          IN  IF on = {} \/ next = 0 THEN next
              ELSE IF goals = {} THEN 0 ELSE Min(goals) + 1
    IN  FoldLeft(Meet, 1, line) # 0

=============================================================================
