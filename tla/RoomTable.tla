----------------------------- MODULE RoomTable ------------------------------
(***************************************************************************)
(* A room's table (crates/search/src/room_bound/table.rs): the relaxed     *)
(* problem over a room that keeps the boxes of some labels, the search     *)
(* forward from the start's projection, and the search back from the goal  *)
(* states that prices every state by its counted moves.                    *)
(*                                                                         *)
(* A state of the relaxed problem is a layout, the label on each cell of   *)
(* the room, and the keeper's node, one of these cells or OutNode.         *)
(***************************************************************************)
EXTENDS Rooms

CONSTANTS
  KeyBits,    \* the bits a state's key may take
  ScanSize,   \* SCAN, the states one unit scans
  MaxValue    \* MAX_VALUE, the largest value stored

ASSUME TableAssumption == {KeyBits, ScanSize, MaxValue} \subseteq Nat \ {0}

OutNode == <<0, 0>>
NoBox   == "none"

Node(room, cell) == IF cell \in room.cells THEN cell ELSE OutNode

(* Moves::new: the keeper's steps, pushes and entries among the nodes; an  *)
(* entry pushes a box off a door.                                          *)
MovesOf(board, room) ==
  LET at  == {p \in Inside(board) \X Dirs : Beyond(p[1], p[2]) \in board.open}
      far == {p \in at : Beyond(Beyond(p[1], p[2]), p[2]) \in board.open}
      move(p) == [from |-> Node(room, p[1]), over |-> Beyond(p[1], p[2]),
                  to |-> Node(room, Beyond(Beyond(p[1], p[2]), p[2]))]
      all == {move(p) : p \in far}
  IN  [steps   |-> {<<Node(room, p[1]), Node(room, Beyond(p[1], p[2]))>> : p \in at}
                     \ {<<u, u>> : u \in room.cells \cup {OutNode}},
       pushes  |-> {m \in all : m.over \in room.cells},
       entries |-> {[from |-> m.from, to |-> m.to] :
                      m \in {n \in all : n.over \notin room.cells /\ n.to # OutNode}}]

(* TableBuild::new: what the searches of one table read.  A lone box of a  *)
(* label is alive where it can reach a goal, and stuck where it is alive   *)
(* but cannot leave the room over live cells.                              *)
Freed(board, room, live) ==
  LET free[n \in 0 .. Cardinality(room.cells)] ==
        IF n = 0 THEN live \ room.cells
        ELSE free[n - 1] \cup {q \in room.cells \cap live : \E d \in Dirs :
               /\ {Beyond(q, d), Beyond(q, Back(d))} \subseteq board.open
               /\ Node(room, Beyond(q, d)) \in free[n - 1]}
  IN  free[Cardinality(room.cells)]

RulesOf(board, heur, room, part) ==
  LET labels == LabelsOn(board, part)
      live(l) == {Node(room, c) : c \in (room.cells \cup room.doors) \ heur.deadCells[l]}
  IN  [part   |-> part,
       room   |-> room,
       open   |-> board.open,
       labels |-> labels,
       alive  |-> [l \in labels |-> live(l)],
       stuck  |-> [l \in labels |-> live(l) \ Freed(board, room, live(l))],
       total  |-> [l \in labels |-> Cardinality({i \in DOMAIN board.labels : board.labels[i] = l})],
       goal   |-> [c \in room.cells |->
                     IF c \in DOMAIN board.goals /\ board.goals[c] \in labels
                     THEN board.goals[c] ELSE NoBox],
       moves  |-> MovesOf(board, room)]

(* The projection of a position, where Table::value looks it up.           *)
Projected(board, rules, s) ==
  [layout |-> [c \in rules.room.cells |->
                 IF \E i \in DOMAIN s.boxes : s.boxes[i] = c /\ board.labels[i] \in rules.labels
                 THEN board.labels[CHOOSE i \in DOMAIN s.boxes : s.boxes[i] = c] ELSE NoBox],
   node   |-> Node(rules.room, s.player)]

(* new: whether there is a table to build at all, and a key holds its      *)
(* states.                                                                 *)
BitsFor(n) == Min({k \in 0 .. n : 2 ^ k > n})

Buildable(rules) ==
  /\ rules.labels # {}
  /\ Cardinality(rules.room.cells) * BitsFor(Cardinality(rules.labels))
       + BitsFor(Cardinality(rules.room.cells)) <= KeyBits

----------------------------------------------------------------------------
Counts(rules, node) == node \in rules.part

Holding(layout, l) == {c \in DOMAIN layout : layout[c] = l}

(* dead: more boxes of a label on its stuck cells than goals.              *)
TooMany(rules, layout, l) ==
  Cardinality(Holding(layout, l) \cap rules.stuck[l]) > Cardinality(Holding(rules.goal, l))

(* frozen: on each axis a side is a wall or a box of fixed, or neither     *)
(* side is alive, or a side holds a box frozen itself.                     *)
FrozenAt(rules, layout, cell) ==
  LET frozen[q \in rules.room.cells, fixed \in SUBSET rules.room.cells] ==
        \A axis \in {{"U", "D"}, {"L", "R"}} :
          LET sides == {Beyond(q, d) : d \in axis} IN
          \/ \E x \in sides : x \notin rules.open \/ x \in fixed \cup {q}
          \/ \A x \in sides : Node(rules.room, x) \notin rules.alive[layout[q]]
          \/ \E x \in sides : /\ x \in rules.room.cells /\ layout[x] # NoBox
                              /\ frozen[x, fixed \cup {q}]
  IN  frozen[cell, {}]

(* freezes: the box put on t leaves one frozen off its goal, there or next *)
(* to it.                                                                  *)
Freezes(rules, layout, t) ==
  \E x \in ({t} \cup {Beyond(t, d) : d \in Dirs}) \cap rules.room.cells :
    layout[x] \notin {NoBox, rules.goal[x]} /\ FrozenAt(rules, layout, x)

(* What a box put on t must leave: a live layout, with none frozen anew.   *)
Allows(rules, layout, t, l) ==
  t # OutNode => ~TooMany(rules, layout, l) /\ ~Freezes(rules, layout, t)

IsFree(layout, node) == node = OutNode \/ layout[node] = NoBox

(* A box moved from x to t, either of which may be OutNode.                *)
Shifted(layout, x, t, l) ==
  [c \in DOMAIN layout |-> IF c = t THEN l ELSE IF c = x THEN NoBox ELSE layout[c]]

(* successors; unchecked, of the relaxed problem itself.                   *)
SuccessorsIf(rules, state, checked) ==
  LET layout == state.layout
      u      == state.node
      Ok(after, t, l) == checked => Allows(rules, after, t, l)
      stepped == {[state EXCEPT !.node = m[2]] :
                    m \in {n \in rules.moves.steps : n[1] = u /\ IsFree(layout, n[2])}}
      pushed == {[layout |-> Shifted(layout, m.over, m.to, layout[m.over]), node |-> m.over] :
                   m \in {n \in rules.moves.pushes :
                     /\ n.from = u /\ layout[n.over] # NoBox /\ IsFree(layout, n.to)
                     /\ n.to \in rules.alive[layout[n.over]]
                     /\ Ok(Shifted(layout, n.over, n.to, layout[n.over]), n.to, layout[n.over])}}
      entered == {[layout |-> Shifted(layout, OutNode, p[1].to, p[2]), node |-> OutNode] :
                    p \in {q \in rules.moves.entries \X rules.labels :
                      /\ q[1].from = u /\ IsFree(layout, q[1].to)
                      /\ {q[1].to, OutNode} \subseteq rules.alive[q[2]]
                      /\ Cardinality(Holding(layout, q[2])) < rules.total[q[2]]
                      /\ Ok(Shifted(layout, OutNode, q[1].to, q[2]), q[1].to, q[2])}}
  IN  stepped \cup pushed \cup entered

Successors(rules, state) == SuccessorsIf(rules, state, TRUE)

\* Faulty: forgets the boxes that crossed a door.
PullsInside(rules, state) ==
  LET layout == state.layout
      w      == state.node
      stepped == {[state EXCEPT !.node = m[2]] :
                    m \in {n \in rules.moves.steps : n[1] = w /\ IsFree(layout, n[2])}}
      pulled == {[layout |-> Shifted(layout, m.to, w, layout[m.to]), node |-> m.from] :
                   m \in {n \in rules.moves.pushes :
                     /\ n.over = w /\ n.to # OutNode /\ layout[n.to] # NoBox
                     /\ IsFree(layout, n.from)}}
  IN  stepped \cup pulled

(* predecessors: the same moves read backward.  The states it is called on *)
(* reach a goal state, so none of them froze a box.                        *)
Predecessors(rules, state) ==
  LET layout == state.layout
      w      == state.node
      Undoes(l, t) == t \in rules.alive[l] /\ ~TooMany(rules, layout, l)
      stepped == {[state EXCEPT !.node = m[2]] :
                    m \in {n \in rules.moves.steps : n[1] = w /\ IsFree(layout, n[2])}}
      pulls == {m \in rules.moves.pushes : m.over = w /\ IsFree(layout, m.from)}
      pulled == {[layout |-> Shifted(layout, m.to, w, layout[m.to]), node |-> m.from] :
                   m \in {n \in pulls : /\ n.to # OutNode /\ layout[n.to] # NoBox
                                        /\ Undoes(layout[n.to], n.to)}}
      brought == {[layout |-> Shifted(layout, OutNode, w, p[2]), node |-> p[1].from] :
                    p \in {q \in pulls \X rules.labels :
                             q[1].to = OutNode /\ OutNode \in rules.alive[q[2]]}}
      left == {[layout |-> Shifted(layout, m.to, OutNode, NoBox), node |-> m.from] :
                 m \in {n \in rules.moves.entries :
                   /\ w = OutNode /\ layout[n.to] # NoBox /\ IsFree(layout, n.from)
                   /\ OutNode \in rules.alive[layout[n.to]] /\ Undoes(layout[n.to], n.to)}}
  IN  stepped \cup pulled \cup brought \cup left

----------------------------------------------------------------------------
(* The build, one unit of work at a time.  A build is a record of its      *)
(* rules, its phase, the states by id, the distance of each, the worklists *)
(* of the level and of the next, and where the phase is at.                *)
NewBuild(rules, root) ==
  [rules |-> rules, root |-> root, phase |-> "start", at |-> 1, level |-> 0,
   states |-> << >>, dist |-> << >>, cur |-> << >>, next |-> << >>, stored |-> 0]

Started(b) == [b EXCEPT !.phase = "forward", !.states = <<b.root>>]

(* forward: expands one state; past the last one every distance is set.    *)
Forward(b) ==
  LET new  == Successors(b.rules, b.states[b.at]) \ ToSet(b.states)
      With(states) ==
        IF b.at < Len(states) THEN [b EXCEPT !.states = states, !.at = @ + 1]
        ELSE [b EXCEPT !.phase = "seed", !.at = 1, !.dist = [k \in DOMAIN states |-> Inf]]
  IN  With(b.states \o SetToSeq(new))

(* seed: scans some states for goal states.                                *)
Seed(b) ==
  LET scanned == b.at .. Smaller(b.at + ScanSize - 1, Len(b.states))
      goals   == {k \in scanned : b.states[k].layout = b.rules.goal}
      done    == b.at + ScanSize > Len(b.states)
  IN  [b EXCEPT !.dist = [k \in DOMAIN @ |-> IF k \in goals THEN 0 ELSE @[k]],
                !.cur = @ \o Ascending(goals),
                !.phase = IF done THEN "back" ELSE "seed",
                !.at = IF done THEN 1 ELSE @ + ScanSize]

Finite(b) == {k \in DOMAIN b.dist : b.dist[k] < Inf}

(* back: pops a state of the level, unless its distance dropped since, and *)
(* lowers the states with a move onto it that the forward search met.      *)
BackPop(b) ==
  LET id == Last(b.cur)
      to == Smaller(b.level + (IF Counts(b.rules, b.states[id].node) THEN 1 ELSE 0), MaxValue)
      With(before) ==
        LET lower == {k \in DOMAIN b.states : b.states[k] \in before /\ to < b.dist[k]}
            rest  == Front(b.cur)
        IN  [b EXCEPT !.dist = [k \in DOMAIN @ |-> IF k \in lower THEN to ELSE @[k]],
                      !.cur = IF to = b.level THEN rest \o Ascending(lower) ELSE rest,
                      !.next = IF to = b.level THEN @ ELSE @ \o Ascending(lower)]
  IN  IF b.dist[id] # b.level THEN [b EXCEPT !.cur = Front(@)]
      ELSE With(Predecessors(b.rules, b.states[id]))

RootReached(b) == b.dist[1] < Inf

NextLevel(b) == [b EXCEPT !.cur = b.next, !.next = << >>, !.level = @ + 1]

(* The worklists go, and the values are allocated.                         *)
Allocated(b) == [b EXCEPT !.phase = "insert", !.at = 1, !.stored = Cardinality(Finite(b))]

(* insert: stores the values of some states; all stored, the table is      *)
(* built.                                                                  *)
Insert(b) == [b EXCEPT !.at = @ + ScanSize]

Inserted(b) == b.at + ScanSize > Len(b.states)

(* A built table: the values of the states that reach a goal state.        *)
TableOf(b) ==
  [rules |-> b.rules, reached |-> Len(b.states),
   values |-> {[state |-> b.states[k], value |-> b.dist[k]] : k \in Finite(b)}]

(* Table::value: Inf where the projection has no solution.                 *)
ValueIn(board, table, s) ==
  LET At(state) == Min({Inf} \cup {v.value : v \in {w \in table.values : w.state = state}})
  IN  At(Projected(board, table.rules, s))

(* What the build has charged, an item a byte: the states and their slots, *)
(* the distances, the worklists, the values.                               *)
BytesOf(b) ==
  Len(b.states) * (IF b.phase = "insert" THEN 1 ELSE 2) + Len(b.dist)
    + Len(b.cur) + Len(b.next) + b.stored

TableBytes(table) == Cardinality(table.values)

----------------------------------------------------------------------------
(* What a table holds: for each state reachable from the root by the       *)
(* relaxed problem's own moves, those that neither freeze nor crowd a box  *)
(* left in, the fewest counted moves to a goal state.                      *)
AllSuccessors(rules, state) == SuccessorsIf(rules, state, FALSE)

States(rules) ==
  [layout : [rules.room.cells -> rules.labels \cup {NoBox}], node : rules.room.cells \cup {OutNode}]

Met(rules, root) ==
  LET met[all \in SUBSET States(rules), new \in SUBSET States(rules)] ==
        LET next == UNION {AllSuccessors(rules, s) : s \in new} \ all
        IN  IF next = {} THEN all ELSE met[all \cup next, next]
  IN  met[{root}, {root}]

(* The states some of the steps lead to some from.                         *)
Onto(steps, some) == {e[1] : e \in {f \in steps : f[2] \in some}}

FreeInto(steps, first) ==
  LET free[level \in SUBSET (first \cup {e[1] : e \in steps})] ==
        LET more == level \cup Onto(steps, level)
        IN  IF more = level THEN level ELSE free[more]
  IN  free[first]

(* Level by level, the states met n counted moves from a goal state, with  *)
(* the moves onto a node that does not count for free.                     *)
Priced(rules, all, steps) ==
  LET free == {e \in steps : ~Counts(rules, e[2].node)}
      priced[n \in Nat, done \in SUBSET all, level \in SUBSET all] ==
        LET With(here) ==
              LET next == Onto(steps, here) \ (done \cup here)
              IN  {[state |-> s, value |-> Smaller(n, MaxValue)] : s \in here}
                    \cup (IF next = {} THEN {} ELSE priced[n + 1, done \cup here, next])
        IN  With(FreeInto(free, level) \ done)
  IN  priced[0, {}, {s \in all : s.layout = rules.goal}]

TableExact(table, root) ==
  LET Exact(all) ==
        table.values =
          Priced(table.rules, all, UNION {{<<s, t>> : t \in AllSuccessors(table.rules, s)} : s \in all})
  IN  Exact(Met(table.rules, root))

=============================================================================
