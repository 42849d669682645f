------------------------------ MODULE Estimate ------------------------------
(***************************************************************************)
(* The assignment heuristic (crates/search/src/heuristic.rs): reverse-push *)
(* distances of a lone box, with or without the keeper's sides, the        *)
(* charges of stands, and per label group a least-cost matching, solved    *)
(* afresh by the Hungarian method or repaired from the parent's duals.     *)
(*                                                                         *)
(* A heuristic is a record of what Heuristic::build computes once a board. *)
(***************************************************************************)
EXTENDS Floor

CONSTANTS
  MaxDistance,      \* MAX_DISTANCE, the largest push distance
  RepairCrossover   \* REPAIR_CROSSOVER, the group size repaired

ASSUME EstimateAssumption ==
  /\ MaxDistance \in Nat \ {0}
  /\ RepairCrossover \in Nat \ {0, 1}

Inf == 1000         \* INF, NONE and None: no distance, no matching

(* group_of: the slots of box i's label; board.labels is sorted.           *)
Group(board, i) == {j \in DOMAIN board.labels : board.labels[j] = board.labels[i]}

Groups(board) == {Group(board, i) : i \in DOMAIN board.labels}

(* The goal cells by column, grouped as the box slots are.                 *)
Columns(board) ==
  [j \in DOMAIN board.labels |->
     LET group == Group(board, j)
         goals == {c \in DOMAIN board.goals : board.goals[c] = board.labels[j]}
     IN  RowMajor(goals)[Cardinality({k \in group : k <= j})]]

----------------------------------------------------------------------------
(* Spots: a cell and the side of it the keeper is on, or "any" where the   *)
(* estimate counts no sides.                                               *)
SpotsOf(board, sided) == board.open \X (IF sided THEN Dirs ELSE {"any"})

SpotToward(sided, blocks, cell, d) ==
  <<cell, IF sided THEN Toward(blocks, cell, d) ELSE "any">>

(* reverse_push: every push of a lone box, which came to p[1] from the     *)
(* neighbour in direction p[2], where the keeper ends, pushed by a keeper  *)
(* on the stand beyond.                                                    *)
ReversePushes(board, sided, blocks) ==
  {[after    |-> SpotToward(sided, blocks, p[1], p[2]),
    before   |-> SpotToward(sided, blocks, Beyond(p[1], p[2]), p[2]),
    previous |-> Beyond(p[1], p[2]),
    stand    |-> Beyond(Beyond(p[1], p[2]), p[2])] :
     p \in {q \in board.open \X Dirs :
             {Beyond(q[1], q[2]), Beyond(Beyond(q[1], q[2]), q[2])} \subseteq board.open}}

(* The least cost of priced pushes from each spot to the spots of goal,    *)
(* capped: what the buckets of push_distances settle.                      *)
Relaxed(pushes, first) ==
  LET relaxed[dist \in [DOMAIN first -> Nat]] ==
        LET via(spot) == {Smaller(dist[p.after] + p.cost, MaxDistance) :
                            p \in {q \in pushes : q.before = spot /\ dist[q.after] < Inf}}
            next == [spot \in DOMAIN dist |-> Min(via(spot) \cup {dist[spot]})]
        IN  IF next = dist THEN dist ELSE relaxed[next]
  IN  relaxed[first]

PushDistances(pushes, spots, goal) ==
  Relaxed(pushes, [spot \in spots |-> IF spot[1] = goal THEN 0 ELSE Inf])

(* dead_masks: the spots a lone box of these goals reaches none of them    *)
(* from.                                                                   *)
Flooded(pushes, first) ==
  LET flooded[live \in SUBSET (first \cup {p.before : p \in pushes})] ==
        LET more == live \cup {p.before : p \in {q \in pushes : q.after \in live}}
        IN  IF more = live THEN live ELSE flooded[more]
  IN  flooded[first]

DeadSpots(pushes, spots, goals) == spots \ Flooded(pushes, {s \in spots : s[1] \in goals})

(* charges: the fewest charged steps from a cell where a box can stand to  *)
(* each cell, 0 where there are none; a step onto a counted cell is free.  *)
Charged(board, counted, first) ==
  LET cost(c) == IF c \in counted THEN 0 ELSE 1
      charged[steps \in [board.open -> Nat]] ==
        LET from(c) == {steps[Beyond(c, d)] : d \in {e \in Dirs : Beyond(c, e) \in board.open}}
            next == [c \in board.open |->
                       Min({steps[c]} \cup {n + cost(c) : n \in from(c) \ {Inf}})]
        IN  IF next = steps THEN [c \in board.open |-> IF steps[c] = Inf THEN 0 ELSE steps[c]]
            ELSE charged[next]
  IN  charged[first]

\* Faulty: starts the count at one.
ChargesFromOne(board, liveCells, counted) ==
  Charged(board, counted, [c \in board.open |-> IF c \in liveCells THEN 1 ELSE Inf])

Charges(board, liveCells, counted) ==
  Charged(board, counted, [c \in board.open |-> IF c \in liveCells THEN 0 ELSE Inf])

----------------------------------------------------------------------------
(* Heuristic::build: the keeper's sides when they count, dead spots and    *)
(* cells by label, the charges, and the distances of every spot by column. *)
(* counted is empty but for the room bound's hall part, where a move that  *)
(* ends on a counted cell is free.                                         *)
WithMasks(board, h, pushes, loose) ==
  LET goals(label)  == {c \in DOMAIN board.goals : board.goals[c] = label}
      mask(p, S)    == [l \in Range(board.labels) |-> DeadSpots(p, S, goals(l))]
      cells(spotOf) == [l \in DOMAIN spotOf |-> {spot[1] : spot \in spotOf[l]}]
  IN  h @@ [deadSpots |-> mask(pushes, h.spots),
            deadCells |-> cells(mask(loose, SpotsOf(board, FALSE)))]

WithCharges(board, h, counted) ==
  LET live == {spot[1] : spot \in {t \in h.spots : \E l \in DOMAIN h.deadSpots :
                                                      t \notin h.deadSpots[l]}}
      With(charge) == h @@ [charge |-> charge, most |-> Max(Range(charge))]
  IN  With(IF h.sided THEN Charges(board, live, counted) ELSE [c \in board.open |-> 0])

WithDistances(h, pushes, counted) ==
  LET cost(p) == h.charge[p.stand] + (IF p.previous \in counted THEN 0 ELSE 1)
      priced  == {p @@ [cost |-> cost(p)] : p \in pushes}
      With(to) == h @@ [distance |-> [spot \in h.spots |-> [j \in DOMAIN to |-> to[j][spot]]]]
  IN  With([j \in DOMAIN h.columns |-> PushDistances(priced, h.spots, h.columns[j])])

HeuristicOver(board, h, counted, pushes) ==
  WithDistances(WithCharges(board, WithMasks(board, h, pushes, ReversePushes(board, FALSE, << >>)),
                            counted),
                pushes, counted)

Sided(board, sided, blocks) ==
  [sided |-> sided, blocks |-> blocks, columns |-> Columns(board), spots |-> SpotsOf(board, sided)]

Heuristic(board, sided, counted) ==
  LET With(h) == HeuristicOver(board, h, counted, ReversePushes(board, sided, h.blocks))
  IN  With(Sided(board, sided, IF sided THEN Blocks(board, board.start.player) ELSE << >>))

(* dead, dead_after.                                                       *)
DeadAt(board, heur, i, cell) == cell \in heur.deadCells[board.labels[i]]

DeadAfter(board, heur, i, to, d) ==
  SpotToward(heur.sided, heur.blocks, to, Back(d)) \in heur.deadSpots[board.labels[i]]

(* spot: a box outside the keeper's component keeps one side for ever.     *)
SpotOf(heur, cell, player) ==
  <<cell, IF ~heur.sided THEN "any"
          ELSE IF InKeeper(heur.blocks, cell) THEN Side(heur.blocks, cell, player) ELSE "U">>

SpotsIn(heur, s) == [i \in DOMAIN s.boxes |-> SpotOf(heur, s.boxes[i], s.player)]

----------------------------------------------------------------------------
(* A group's costs: the distance of its k-th box to its j-th goal.         *)
Members(group) == Ascending(group)

Costs(heur, group, spots) ==
  LET m == Members(group)
  IN  [k \in DOMAIN m |-> [j \in DOMAIN m |-> heur.distance[spots[m[k]]][m[j]]]]

NoDuals(n) == [u |-> [k \in 0 .. n |-> 0], v |-> [k \in 0 .. n |-> 0],
               p |-> [k \in 0 .. n |-> 0], ok |-> TRUE]

(* augment: one shortest augmenting path from an unmatched row, with the   *)
(* potentials moved along; not ok where no finite column is reached.       *)
Slack(costs, t) ==
  [j \in DOMAIN costs |-> costs[t.p[t.at]][j] - t.u[t.p[t.at]] - t.v[j]]

(* The columns in the tree take in t.at, the rest their least slack.       *)
Scanned(t, slack) ==
  [t EXCEPT !.used = @ \cup {t.at},
            !.least = [j \in DOMAIN slack |-> Smaller(@[j], slack[j])],
            !.way = [j \in DOMAIN slack |->
                       IF j \notin t.used /\ slack[j] < t.least[j] THEN t.at ELSE @[j]]]

Outside(t) == DOMAIN t.least \ t.used

(* The potentials moved by delta, on to a column of least slack.           *)
Moved(t, delta) ==
  [t EXCEPT !.at = Min({j \in Outside(t) : t.least[j] = delta}),
            !.u = [k \in DOMAIN @ |-> @[k] + (IF \E j \in t.used : t.p[j] = k THEN delta ELSE 0)],
            !.v = [j \in DOMAIN @ |-> @[j] - (IF j \in t.used THEN delta ELSE 0)],
            !.least = [j \in DOMAIN @ |-> @[j] - (IF j \in t.used THEN 0 ELSE delta)]]

(* The rows along the way back to column 0 each take the next column.      *)
Flipped(t) ==
  LET flip[j \in DOMAIN t.p] ==
        IF j = 0 THEN t.p ELSE [flip[t.way[j]] EXCEPT ![j] = t.p[t.way[j]]]
  IN  [t EXCEPT !.p = flip[t.at]]

LeastOutside(t) == Min({Inf} \cup {t.least[j] : j \in Outside(t)})

(* A column a round, until one that no row holds.                          *)
Augmenting(costs, first) ==
  LET Move(t, s, by) == IF by >= Inf THEN [t EXCEPT !.ok = FALSE] ELSE Moved(s, by)
      Take(t, s)     == Move(t, s, LeastOutside(s))
      Round(t)  == IF t.ok /\ t.p[t.at] # 0 THEN Take(t, Scanned(t, Slack(costs, t))) ELSE t
      Ending(t) == IF t.ok THEN Flipped(t) ELSE t
      after[n \in 0 .. Len(costs)] == IF n = 0 THEN first ELSE Round(after[n - 1])
  IN  Ending(after[Len(costs)])

Augmented(costs, duals, row) ==
  LET Kept(t) == [u |-> t.u, v |-> t.v, p |-> t.p, ok |-> t.ok]
  IN  Kept(Augmenting(costs, [u |-> duals.u, v |-> duals.v, p |-> [duals.p EXCEPT ![0] = row],
                              ok |-> TRUE, at |-> 0, used |-> {},
                              least |-> [j \in DOMAIN costs |-> Inf],
                              way |-> [j \in DOMAIN costs |-> 0]]))

(* matched_cost: Inf where the matching uses an unreachable goal.          *)
MatchedCost(costs, duals) ==
  IF ~duals.ok THEN Inf
  ELSE Smaller(Inf, MapThenSumSet(LAMBDA j : costs[duals.p[j]][j], DOMAIN costs))

(* solve: a group's least cost and its final duals.                        *)
SolvedGroup(costs) ==
  LET Row(duals, row) == IF duals.ok THEN Augmented(costs, duals, row) ELSE duals
      With(duals) == [cost |-> MatchedCost(costs, duals), duals |-> duals]
  IN  IF Len(costs) = 1 THEN [cost |-> costs[1][1], duals |-> NoDuals(1)]
      ELSE With(FoldLeft(Row, NoDuals(Len(costs)), [k \in DOMAIN costs |-> k]))

\* Faulty: the row keeps its column whatever it costs now.
RepairedInPlace(costs, parent, row) == MatchedCost(costs, parent.duals)

(* repair: one augment over the parent's duals after only row moved, or    *)
(* none where the row's own column is still its least.                     *)
Repaired(costs, parent, row) ==
  LET duals   == parent.duals
      column  == CHOOSE j \in DOMAIN costs : duals.p[j] = row
      slack   == [j \in DOMAIN costs |-> costs[row][j] - duals.v[j]]
      settled == \A j \in DOMAIN costs : slack[j] >= slack[column]
  IN  IF settled THEN Smaller(Inf, parent.cost - duals.u[row] + slack[column])
      ELSE MatchedCost(costs, Augmented(costs, [duals EXCEPT !.u[row] = 0, !.p[column] = 0], row))

(* estimate: the sum of the groups' least costs, Inf where one has none.   *)
EstimateOf(board, heur, s) ==
  Smaller(Inf, MapThenSumSet(LAMBDA group :
                 SolvedGroup(Costs(heur, group, SpotsIn(heur, s))).cost, Groups(board)))

(* child_estimate: the parent's estimate with the pushed box's group       *)
(* solved again, or repaired where it is large enough.                     *)
ChildEstimate(board, heur, parentH, s, i, to, d) ==
  LET group == Group(board, i)
      Sum(parent, cost) == IF cost >= Inf THEN Inf ELSE parentH - parent.cost + cost
      Cost(parent, costs) ==
        IF Cardinality(group) < RepairCrossover THEN SolvedGroup(costs).cost
        ELSE Repaired(costs, parent, Cardinality({k \in group : k <= i}))
      From(parent, costs) == Sum(parent, Cost(parent, costs))
      Of(spots) == From(SolvedGroup(Costs(heur, group, spots)),
                        Costs(heur, group, [spots EXCEPT ![i] =
                                 SpotToward(heur.sided, heur.blocks, to, Back(d))]))
  IN  Of(SpotsIn(heur, s))

(* What a matching's cost is: the least sum over the ways to pair a        *)
(* group's boxes with its goals.                                           *)
LeastMatching(costs) ==
  LET n == Len(costs)
      pairings == {f \in [1 .. n -> 1 .. n] : IsInjective(f)}
  IN  Min({Smaller(Inf, MapThenSumSet(LAMBDA k : costs[k][f[k]], 1 .. n)) : f \in pairings})

=============================================================================
