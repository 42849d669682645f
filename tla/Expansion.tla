----------------------------- MODULE Expansion ------------------------------
(***************************************************************************)
(* A search on real boards: positions are expanded and their children      *)
(* popped (push.rs), and a rise to a position is weighed by the accept     *)
(* checks, one unit at a time (stage/checks.rs).  What Pushes assumes of a *)
(* board's estimates and verdicts is a property here.                      *)
(***************************************************************************)
EXTENDS Kernel

CONSTANTS
  Policies    \* whether a policy's estimate counts keeper sides

VARIABLES
  maze, guide, facts,  \* the board, its heuristic and the stage's facts
  pos,                  \* the position popped
  out,                  \* its pushes and the children admitted, once expanded
  check                 \* the accept check under way

vars == <<maze, guide, facts, pos, out, check>>

----------------------------------------------------------------------------
(* lane_open: a goal's lane, its source and the support beyond, of which   *)
(* one may hold a box of the goal's group.                                 *)
LaneOpen(b, boxes, j) ==
  \E d \in Dirs :
    LET source  == Beyond(Columns(b)[j], d)
        support == Beyond(source, d)
        on == {i \in DOMAIN boxes : boxes[i] \in {source, support}}
    IN  {source, support} \subseteq b.open /\ Cardinality(on) < 2 /\ on \subseteq Group(b, j)

RootLanes(b, boxes) == {j \in DOMAIN boxes : LaneOpen(b, boxes, j)}

SettledAt(b, boxes, cell) == \E i \in DOMAIN boxes : boxes[i] = cell /\ OnGoal(b, i, cell)

LaneLost(b, s, lanes) ==
  \E j \in lanes : ~SettledAt(b, s.boxes, Columns(b)[j]) /\ ~LaneOpen(b, s.boxes, j)

(* line_mobile: an unsettled box has a push while only the settled boxes,  *)
(* those on sink lines and itself block the keeper.                        *)
LineMobile(b, h, f, s, i) ==
  LET firm  == {s.boxes[j] : j \in {k \in DOMAIN s.boxes :
                  OnGoal(b, k, s.boxes[k]) \/ s.boxes[k] \in UNION {Range(l) : l \in f.lines}}}
      flood == Flood(b, s.player, firm \cup {s.boxes[i]})
  IN  \E d \in Dirs :
        LET ahead == Beyond(s.boxes[i], d) IN
        /\ ahead \in b.open /\ Reaches(flood, Beyond(s.boxes[i], Back(d)))
        /\ ~SettledAt(b, s.boxes, ahead) /\ ~DeadAt(b, h, i, ahead)

(* The stage's facts of a board, the root's lanes among them.              *)
Facts(b) ==
  LET With(blocks) == [blocks |-> blocks, reach |-> GoalReach(b, blocks), lines |-> SinkLines(b),
                       lanes |-> RootLanes(b, b.start.boxes)]
  IN  With(Blocks(b, b.start.player))

NoPockets == [unit |-> "none"]

AtCheck(unit, i) == [unit |-> unit, box |-> i, pockets |-> NoPockets, by |-> unit]

Rejected(unit) == [AtCheck("reject", 1) EXCEPT !.by = unit]

(* checks::run: one unit; a rejection names its check.                     *)
CheckUnit(b, h, f, s, c) ==
  LET Go(passed, unit, i) == IF passed THEN AtCheck(unit, i) ELSE Rejected(c.unit)
      unsettled == {i \in DOMAIN s.boxes : i >= c.box /\ ~OnGoal(b, i, s.boxes[i])}
  IN  CASE c.unit = "lane"    -> Go(~LaneLost(b, s, f.lanes), "sink", 1)
        [] c.unit = "sink"    -> Go(SinkOk(b, f.lines, s.boxes), "line", 1)
        [] c.unit = "line"    -> IF unsettled = {} THEN AtCheck("matched", 1)
                                 ELSE Go(LineMobile(b, h, f, s, Min(unsettled)), "line",
                                         Min(unsettled) + 1)
        [] c.unit = "matched" -> Go(Matched(b, f.blocks, f.reach, s), "begin", 1)
        [] c.unit = "begin"   -> [AtCheck("pockets", 1) EXCEPT !.pockets = PocketsBegun(b, s)]
        [] c.unit = "pockets" ->
             LET Now(p) == CASE p.unit = "dead"  -> Rejected("pockets")
                             [] p.unit = "alive" -> AtCheck("pass", 1)
                             [] OTHER            -> [c EXCEPT !.pockets = p]
             IN  Now(PocketStep(b, h, s, c.pockets))

----------------------------------------------------------------------------
Init ==
  /\ maze \in Boards
  /\ guide \in {Heuristic(maze, sided, {}) : sided \in Policies}
  /\ facts = Facts(maze)
  /\ pos = Canonical(maze, maze.start)
  /\ EstimateOf(maze, guide, pos) < Inf
  /\ out = NotYet
  /\ check = AtCheck("idle", 1)

Settled == check.unit \in {"idle", "pass", "reject"}

(* A popped position is expanded.                                          *)
Expand ==
  /\ Settled /\ out = NotYet
  /\ out' = Expanded(maze, guide, pos, FloodOf(maze, pos))
  /\ UNCHANGED <<maze, guide, facts, pos, check>>

(* One of its children is popped, now or later on.                         *)
Pop ==
  /\ \E k \in out.kids : pos' = k.state
  /\ out' = NotYet
  /\ check' = AtCheck("idle", 1)
  /\ UNCHANGED <<maze, guide, facts>>

(* The ladder weighs a rise to the position, a unit at a time.             *)
Weigh ==
  /\ check.unit = "idle" /\ out = NotYet /\ ~guide.sided
  /\ check' = AtCheck("lane", 1)
  /\ UNCHANGED <<maze, guide, facts, pos, out>>

Check ==
  /\ ~Settled
  /\ check' = CheckUnit(maze, guide, facts, pos, check)
  /\ UNCHANGED <<maze, guide, facts, pos, out>>

Next == Expand \/ Pop \/ Weigh \/ Check

Spec == Init /\ [][Next]_vars

----------------------------------------------------------------------------
(* The sides that one depth-first search finds are those a flood around    *)
(* each blocked cell finds, with the same names (reach/blocks.rs).         *)
SidesExact ==
  out = NotYet /\ check.unit = "idle" /\ pos.player = maze.start.player =>
    \A x \in maze.open : SidesAgree(maze, facts.blocks, x)

(* Every push offered can be played: the walk to its stand is legal, moves *)
(* no box and is as long as the flood says, and the push leads to the      *)
(* settled child, whose boxes are in canonical order (push.rs, reach.rs).  *)
PushesReal ==
  LET Go(states, d) == {q.state : q \in UNION {Steps(maze, s, d) : s \in states}}
      Gone(walk) == FoldLeft(Go, {pos}, walk)
      Real(p, walk, length) ==
        /\ Len(walk) = length
        /\ Gone(walk) = {[pos EXCEPT !.player = p.stand]}
        /\ {Canonical(maze, s) : s \in Gone(Append(walk, p.dir))} = {p.state}
      All(flood) == \A p \in out.pushes : Real(p, Walk(flood, p.stand), flood.at[p.stand])
  IN  All(FloodOf(maze, pos))

(* What the search's bounds rest on, in the words of BoardAssumption: the  *)
(* estimate less the keeper's charge, and with it the stand walk of a      *)
(* child whose box cannot be pushed on, is never above the moves left; a   *)
(* push lowers it by at most the push and its stand's charge; no charge is *)
(* above the walk it stands for.  A group's cost is the least of any       *)
(* pairing, and one repaired from the parent's duals is the one worked out *)
(* afresh (heuristic.rs).                                                  *)
EstimateSound ==
  LET Least(costs) == SolvedGroup(costs).cost = LeastMatching(costs)
      Fits(h, flood) ==
        /\ h - guide.charge[pos.player] <= MovesLeft(maze, pos)
        /\ \A k \in out.kids :
             /\ h <= 1 + guide.charge[k.stand] + k.h
             /\ guide.charge[k.stand] <= flood.at[k.stand] + guide.charge[pos.player]
             /\ k.h > 0 => k.h + StandWalk(maze, guide, k.state) <= MovesLeft(maze, k.state)
  IN  /\ Fits(EstimateOf(maze, guide, pos), FloodOf(maze, pos))
      /\ pos.player = maze.start.player =>
           RootEstimate(maze, guide, maze.start) <= MovesLeft(maze, Canonical(maze, maze.start))
      /\ \A group \in Groups(maze) : Least(Costs(guide, group, SpotsIn(guide, pos)))
      /\ \A k \in out.kids : k.h = EstimateOf(maze, guide, k.state)

(* A prune never costs a solution: neither the sealed corral of a position *)
(* nor the dead cell, the freeze or the missing assignment of a push, nor  *)
(* an accept check that claims a proof: a sink line, the goals boxes reach *)
(* alone and a dead pocket reject only what has no solution (the lane and  *)
(* the line checks may reject more).                                       *)
PrunesSound ==
  /\ \A p \in out.pushes :
       (~\E k \in out.kids : k.box = p.box /\ k.dir = p.dir) => MovesLeft(maze, p.state) >= Inf
  /\ check.unit = "reject" /\ check.by \in {"sink", "matched", "pockets"} =>
       MovesLeft(maze, pos) >= Inf

=============================================================================
