------------------------------ MODULE Corrals -------------------------------
(***************************************************************************)
(* Boxes the keeper cannot get around (crates/search/src/corral.rs): the   *)
(* sealed corrals that an expansion checks after its flood, and the stage  *)
(* ladder's search of the pockets boxes close off, one unit at a time.     *)
(***************************************************************************)
EXTENDS Deadlocks

CONSTANTS
  CorralCap,     \* CAP, potential pushes judged per corral
  PocketBoxes,   \* POCKET_BOXES, members a searched pocket may have
  PocketNodes    \* POCKET_NODES, states a pocket's search may queue

(* The cells joined to some through cells of region.                       *)
Spread(region, first) ==
  LET spread[some \in SUBSET (region \cup first)] ==
        LET more == some \cup {c \in region : \E d \in Dirs : Beyond(c, d) \in some}
        IN  IF more = some THEN some ELSE spread[more]
  IN  spread[first]

(* pushes: the members' pushes the keeper can make now, box by box.        *)
PotentialPushes(board, s, flood, members) ==
  {p \in members \X Dirs :
     /\ Beyond(s.boxes[p[1]], p[2]) \in board.open \ BoxesOf(s)
     /\ Reaches(flood, Beyond(s.boxes[p[1]], Back(p[2])))}

(* flood: the cells out of reach that are joined to box i, and goal_open:  *)
(* whether one of the boxes there, or of its goals, still needs a push.    *)
CorralOf(board, s, flood, i) == Spread(board.open \ DOMAIN flood.at, {s.boxes[i]})

MembersOf(s, cells) == {j \in DOMAIN s.boxes : s.boxes[j] \in cells}

GoalOpen(board, s, cells) ==
  \/ \E j \in MembersOf(s, cells) : ~OnGoal(board, j, s.boxes[j])
  \/ (cells \cap DOMAIN board.goals) \ BoxesOf(s) # {}

Fatal(board, heur, s, members, p) ==
  LET to == Beyond(s.boxes[p[1]], p[2])
  IN  DeadAt(board, heur, p[1], to) \/ DeadAfterPush(board, heur, s.boxes, members, p[1], to)

(* is_dead: a corral with an empty cell and something to do, all of whose  *)
(* pushes are fatal whatever the boxes outside do.                         *)
SealedDead(board, heur, s, flood) ==
  LET Doomed(members, pushes) ==
        /\ Cardinality(pushes) <= CorralCap
        /\ \A p \in pushes : Fatal(board, heur, s, members, p)
      Sealed(cells, members) ==
        /\ Cardinality(cells) # Cardinality(members)
        /\ GoalOpen(board, s, cells)
        /\ Doomed(members, PotentialPushes(board, s, flood, members))
      Around(cells) == Sealed(cells, MembersOf(s, cells))
  IN  /\ Cardinality(DOMAIN flood.at) + Len(s.boxes) # Cardinality(board.open)
      /\ \E i \in DOMAIN s.boxes : Around(CorralOf(board, s, flood, i))

----------------------------------------------------------------------------
(* A pockets check: the unit that comes next, the cells no pocket covered  *)
(* yet, the last fill, and the current pocket with its members, its queue  *)
(* and the keys popped.                                                    *)
PocketsBegun(board, s) ==
  [unit |-> "scan", left |-> board.open, flood |-> FloodOf(board, s),
   cells |-> {}, members |-> {}, fifo |-> << >>, head |-> 1, seen |-> {}]

(* A key does not tell boxes of one label apart.                           *)
ByLabel(board, at) ==
  [l \in {board.labels[i] : i \in DOMAIN at} |->
     {at[i] : i \in {j \in DOMAIN at : board.labels[j] = l}}]

(* Scan and Rescan: on to the next empty cell out of reach, whose pocket   *)
(* is searched when it has boxes around it, and not too many.              *)
PocketScan(board, s, p) ==
  LET flood == IF p.unit = "rescan" THEN FloodOf(board, s) ELSE p.flood
      found == {c \in p.left : ~Reaches(flood, c) /\ c \notin BoxesOf(s)}
      start == RowMajor(found)[1]
      cells == Spread(board.open \ BoxesOf(s), {start})
      members == {j \in DOMAIN s.boxes : \E d \in Dirs : Beyond(s.boxes[j], d) \in cells}
      over  == [p EXCEPT !.unit = "scan", !.flood = flood, !.left = @ \ cells]
  IN  IF found = {} THEN [p EXCEPT !.unit = "alive"]
      ELSE IF Cardinality(members) \notin 1 .. PocketBoxes THEN over
      ELSE [over EXCEPT !.unit = "pop", !.cells = cells, !.members = members, !.head = 1, !.seen = {},
                        !.fifo = <<[at |-> Restrict(s.boxes, members), keeper |-> s.player]>>]

(* The members' pushes from one queued state, in the order of the slots    *)
(* and directions, with every box outside taken off the board.             *)
PocketPushes(board, heur, entry, flood) ==
  LET members == Members(DOMAIN entry.at)
      pushes  == [k \in 1 .. 4 * Len(members) |->
                    <<members[1 + (k - 1) \div 4], DirOrder[1 + ((k - 1) % 4)]>>]
      after(q) == [entry.at EXCEPT ![q[1]] = Beyond(@, q[2])]
      open    == SelectSeq(pushes, LAMBDA q :
                   LET to == Beyond(entry.at[q[1]], q[2]) IN
                   /\ to \in board.open \ Range(entry.at)
                   /\ Reaches(flood, Beyond(entry.at[q[1]], Back(q[2])))
                   /\ ~DeadAt(board, heur, q[1], to)
                   /\ ~FrozenOffGoal(board, heur, after(q)))
  IN  [k \in DOMAIN open |-> [at |-> after(open[k]), keeper |-> entry.at[open[k][1]]]]

(* The pocket ends alive: the keeper gets in, every member is home, or the *)
(* queue cannot take the next push.                                        *)
PocketEnds(board, p, entry, flood, queued) ==
  \/ DOMAIN flood.at \cap p.cells # {}
  \/ \A i \in DOMAIN entry.at : OnGoal(board, i, entry.at[i])
  \/ queued > PocketNodes

(* pocket_pop: a key popped before adds nothing; the pocket is dead when   *)
(* the queue runs out.  The fill is the pop's own from here on.            *)
PocketPop(board, heur, p) ==
  LET entry == p.fifo[p.head]
      flood == Flood(board, entry.keeper, Range(entry.at))
      key   == <<ByLabel(board, entry.at), DOMAIN flood.at>>
      fresh == key \notin p.seen
      fifo  == IF fresh THEN p.fifo \o PocketPushes(board, heur, entry, flood) ELSE p.fifo
      popped == [p EXCEPT !.head = @ + 1, !.seen = @ \cup {key}, !.flood = flood, !.fifo = fifo]
  IN  IF fresh /\ PocketEnds(board, p, entry, flood, Len(fifo))
        THEN [popped EXCEPT !.unit = "rescan"]
      ELSE IF popped.head > Len(fifo) THEN [popped EXCEPT !.unit = "dead"]
      ELSE popped

(* pockets_step.                                                           *)
PocketStep(board, heur, s, p) ==
  IF p.unit = "pop" THEN PocketPop(board, heur, p) ELSE PocketScan(board, s, p)

=============================================================================
