------------------------------- MODULE Rooms --------------------------------
(***************************************************************************)
(* The rooms of the room bound: the candidates, regions of the keeper's    *)
(* floor behind few doors, found as the sides of one door or behind the    *)
(* cuts of several (candidates and Cuts::try_cut of                        *)
(* crates/search/src/room_bound.rs), and a room's geometry                 *)
(* (room_bound/room.rs).                                                   *)
(*                                                                         *)
(* A room is a record of its doors and its cells.                          *)
(***************************************************************************)
EXTENDS Estimate

CONSTANTS
  MaxRoom,                                  \* MAX_ROOM, the most cells
  MaxPool,                                  \* MAX_POOL, the most door cells tried
  MaxCuts, MaxSteps,                        \* the budgets of the pairs
  TripleCuts, TripleSteps, TripleCombos,    \* of the triples
  WideCuts, WideSteps, WideCombos,          \* of the four and five doors
  WideSpan                                  \* WIDE_SPAN, how far these spread

ASSUME RoomsAssumption ==
  /\ {MaxRoom, MaxPool, WideSpan} \subseteq Nat \ {0}
  /\ {MaxCuts, TripleCuts, TripleCombos, WideCuts, WideCombos} \subseteq Nat
  /\ {MaxSteps, TripleSteps, WideSteps} \subseteq Nat

----------------------------------------------------------------------------
(* The keeper's floor with boxes ignored, the cells of a start box or a    *)
(* goal, and the floor next to a region.                                   *)
Inside(board) == board.open \cap DOMAIN Flood(board, board.start.player, {}).at

Marked(board) == BoxesOf(board.start) \cup DOMAIN board.goals

Near(board, cell) == {Beyond(cell, d) : d \in Dirs} \cap board.open

Boundary(board, cells) == UNION {Near(board, c) : c \in cells} \ cells

(* The one-door rooms: the sides of a door but the largest, the last of    *)
(* equals, that are small enough and hold a mark.                          *)
OneDoor(board, door) ==
  LET sides == {DOMAIN Flood(board, c, {door}).at : c \in Near(board, door)}
      first(s) == Min({k \in DOMAIN DirOrder : Beyond(door, DirOrder[k]) \in s})
      Below(s, t) == \/ Cardinality(s) < Cardinality(t)
                     \/ Cardinality(s) = Cardinality(t) /\ first(s) < first(t)
  IN  {[doors |-> {door}, cells |-> s] :
         s \in {t \in sides : /\ \E u \in sides : Below(t, u)
                              /\ Cardinality(t) <= MaxRoom
                              /\ t \cap Marked(board) # {}}}

----------------------------------------------------------------------------
(* The door pool: the floor with two neighbours at least that the flood    *)
(* from the marks meets before it stops at MAX_ROOM.                       *)
Pool(board) ==
  LET met[n \in 0 .. MaxRoom - 1] ==
        IF n = 0 THEN Marked(board)
        ELSE met[n - 1] \cup UNION {Near(board, c) : c \in met[n - 1]}
  IN  RowMajor({c \in Inside(board) \cap met[MaxRoom - 1] : Cardinality(Near(board, c)) >= 2})

\* Faulty: takes a piece carved by an earlier flood for a component.
IsTouched(board, cut, piece) ==
  /\ Cardinality(piece) <= MaxRoom
  /\ cut \subseteq Boundary(board, piece)
  /\ piece \cap Marked(board) # {}
  /\ 2 * Cardinality(piece) <= Cardinality(Inside(board)) - Cardinality(cut)

(* What a flooded piece must be to be a candidate: small, with the cut for *)
(* its whole boundary, marked, and no larger than the rest.                *)
IsCandidate(board, cut, piece) ==
  /\ Cardinality(piece) <= MaxRoom
  /\ Boundary(board, piece) = cut
  /\ piece \cap Marked(board) # {}
  /\ 2 * Cardinality(piece) <= Cardinality(Inside(board)) - Cardinality(cut)

(* try_cut: floods the floor less the cut piece by piece, each flood cut   *)
(* short past MAX_ROOM cells, until the pass runs out of steps.            *)
Took(board, cut, r, piece) ==
  [steps |-> Max({0, r.steps - Cardinality(piece)}),
   seen  |-> r.seen \cup piece,
   found |-> IF IsCandidate(board, cut, piece)
             THEN Append(r.found, [doors |-> cut, cells |-> piece]) ELSE r.found]

FirstMet(order) == {order[k] : k \in 1 .. Smaller(Len(order), MaxRoom + 1)}

TryCut(board, pass, cut) ==
  LET Visit(r, cell) ==
        IF r.steps = 0 THEN r
        ELSE IF cell \in r.seen THEN [r EXCEPT !.steps = @ - 1]
        ELSE Took(board, cut, r, FirstMet(Flood(board, cell, r.seen).order))
      Kept(r) == [steps |-> r.steps, found |-> r.found]
  IN  Kept(FoldLeft(Visit, [steps |-> pass.steps, seen |-> cut, found |-> pass.found],
                    RowMajor(Inside(board))))

FirstOf(seq, most) == SubSeq(seq, 1, Smaller(Len(seq), most))

(* Every cut in order, until the steps run out: the first half, then the   *)
(* rest with what the first half left.                                     *)
Rooms(board) == [doors : SUBSET board.open, cells : SUBSET board.open]

Cut(board, cuts, first) ==
  LET cut[from \in Nat, to \in Nat, pass \in [steps : Nat, found : Seq(Rooms(board))]] ==
        LET half == (from + to) \div 2
        IN  IF pass.steps = 0 \/ from > to THEN pass
            ELSE IF from = to THEN TryCut(board, pass, cuts[from])
            ELSE cut[half + 1, to, cut[from, half, pass]]
  IN  cut[1, Len(cuts), first]

----------------------------------------------------------------------------
(* The cuts of each pass, in the order they are tried.                     *)
AbsDiff(a, b) == Max({a - b, b - a})

Span(cut) == Max({Max({AbsDiff(a[1], b[1]), AbsDiff(a[2], b[2])}) : a, b \in cut})

PairsOf(seq) ==
  FlattenSeq([a \in DOMAIN seq |-> [k \in 1 .. Len(seq) - a |-> <<seq[a], seq[a + k]>>]])

TriplesOf(seq) ==
  FlattenSeq([a \in DOMAIN seq |->
    LET pairs == PairsOf(SubSeq(seq, a + 1, Len(seq)))
    IN  [k \in DOMAIN pairs |-> <<seq[a], pairs[k][1], pairs[k][2]>>]])

AsCuts(combos) == [k \in DOMAIN combos |-> ToSet(combos[k])]

PairCuts(pool) ==
  FirstOf(SelectSeq(AsCuts(PairsOf(pool)), LAMBDA cut : Span(cut) <= MaxRoom), MaxCuts)

TriplesTried(pool) ==
  LET examined == FirstOf(SelectSeq(TriplesOf(pool), LAMBDA t : Span({t[1], t[2]}) <= MaxRoom),
                          TripleCombos)
  IN  FirstOf(SelectSeq(AsCuts(examined), LAMBDA cut : Span(cut) <= MaxRoom), TripleCuts)

(* Every two disjoint adjacent pairs, the tightest first.                  *)
Adjacent(pool) ==
  FlattenSeq([k \in DOMAIN pool |->
    LET backs == SelectSeq(<<"U", "L">>, LAMBDA d : Beyond(pool[k], d) \in ToSet(pool))
    IN  [j \in DOMAIN backs |-> {Beyond(pool[k], backs[j]), pool[k]}]])

Bands(pool) ==
  LET pairs == PairsOf(Adjacent(pool))
  IN  SelectSeq([k \in DOMAIN pairs |-> pairs[k][1] \cup pairs[k][2]],
                LAMBDA cut : Cardinality(cut) = 4)

(* How far the cells of one of two pairs are from the other's.             *)
FourCuts(pool) ==
  LET bands == Bands(pool)
  IN  FlattenSeq([s \in 1 .. WideSpan |-> SelectSeq(bands, LAMBDA cut : Span(cut) = s)])

WithOneMore(cuts, pool) ==
  FlattenSeq([k \in DOMAIN cuts |->
    LET extras == SelectSeq(pool, LAMBDA c : c \notin cuts[k])
    IN  [j \in DOMAIN extras |-> cuts[k] \cup {extras[j]}]])

RawCuts(pool) ==
  LET fives == WithOneMore(Bands(pool), pool)
  IN  FlattenSeq([s \in 1 .. WideSpan |-> SelectSeq(fives, LAMBDA cut : Span(cut) = s)])

(* The rooms of two doors and more: the cuts of each pass with its budget, *)
(* the pairs and triples, those of four doors, and those of five, grown    *)
(* from the rooms of four and then of any four.                            *)
WideMost == Smaller(WideCuts, WideCombos)

Passes(pool) ==
  <<[cuts |-> PairCuts(pool), steps |-> MaxSteps],
    [cuts |-> TriplesTried(pool), steps |-> TripleSteps],
    [cuts |-> FirstOf(FourCuts(pool), WideMost), steps |-> WideSteps]>>

Grown(pool, found) ==
  LET fours == SelectSeq(found, LAMBDA room : Cardinality(room.doors) = 4)
  IN  WithOneMore([k \in DOMAIN fours |-> fours[k].doors], pool)

FiveCuts(pool, tried, found) ==
  FirstOf(Grown(pool, found) \o RawCuts(pool), Max({0, WideMost - tried}))

SeveralDoors(board) ==
  LET Run(pass, next) == Cut(board, next.cuts, [steps |-> next.steps, found |-> pass.found])
      Five(pool, passes, pass) ==
        Cut(board, FiveCuts(pool, Len(passes[3].cuts), pass.found), pass)
      With(pool, passes) ==
        Five(pool, passes, FoldLeft(Run, [steps |-> 0, found |-> << >>], passes))
      Over(pool) == IF Len(pool) \notin 1 .. MaxPool THEN {} ELSE ToSet(With(pool, Passes(pool)).found)
  IN  Over(Pool(board))

----------------------------------------------------------------------------
(* boundary_width: the ways a box may enter, the doors' neighbours in the  *)
(* room summed.                                                            *)
BoundaryWidth(board, room) ==
  MapThenSumSet(LAMBDA door : Cardinality(Near(board, door) \cap room.cells), room.doors)

(* The build's order: doors, width and size, then the first door and the   *)
(* cells, as the sort of the cells before it left them.                    *)
Heft(board, room) ==
  10000 * Cardinality(room.doors) + 100 * BoundaryWidth(board, room) + Cardinality(room.cells)

FirstCell(cells) == RowMajor(cells)[1]

InOrder(board, rooms) ==
  LET heft == [r \in rooms |-> Heft(board, r)]
      door == [r \in rooms |-> FirstCell(r.doors)]
      Earlier(a, b) ==
        \/ heft[a] < heft[b]
        \/ heft[a] = heft[b] /\ CellBefore(door[a], door[b])
        \/ /\ heft[a] = heft[b] /\ door[a] = door[b] /\ a.cells # b.cells
           /\ FirstCell((a.cells \ b.cells) \cup (b.cells \ a.cells)) \in a.cells
  IN  SortSeq(FoldSet(LAMBDA r, listed : Append(listed, r), << >>, rooms), Earlier)

(* candidates: a region is found once, however many cuts isolate it, since *)
(* its cells name its doors.                                               *)
Candidates(board) ==
  InOrder(board, UNION {OneDoor(board, door) : door \in Inside(board)} \cup SeveralDoors(board))

----------------------------------------------------------------------------
(* encloses, crosses.                                                      *)
Encloses(cells, room) == FirstCell(room.cells) \in cells

Crosses(a, b) == a \cap b # {} /\ ~(a \subseteq b) /\ ~(b \subseteq a)

(* halves: with one door the line runs through its first neighbour in the  *)
(* room, else at the median cell, by row unless some column lies farther   *)
(* from the board's edge than every row: each extent starts at the edge,   *)
(* wherever the room is.                                                   *)
Halves(board, room) ==
  LET low(axis, line) == {c \in room.cells : c[axis] < line}
      along(axis) == SortSeq([k \in 1 .. Cardinality(room.cells) |-> RowMajor(room.cells)[k][axis]],
                             LAMBDA a, b : a < b)
      median(axis) == along(axis)[(Cardinality(room.cells) + 1) \div 2]
      far(axis) == Max({c[axis] : c \in room.cells})
      door  == FirstCell(room.doors)
      d     == FirstDir({e \in Dirs : Beyond(door, e) \in room.cells})
      axis1 == IF d \in {"U", "D"} THEN 2 ELSE 1
      axis  == IF far(1) >= far(2) THEN 1 ELSE 2
      below == IF Cardinality(room.doors) = 1 THEN low(axis1, Beyond(door, d)[axis1])
               ELSE low(axis, median(axis))
  IN  <<below, room.cells \ below>>

(* labels: those with a start box or a goal on part.                       *)
LabelsOn(board, part) ==
  {board.labels[i] : i \in {j \in DOMAIN board.labels : board.start.boxes[j] \in part}}
    \cup {board.goals[c] : c \in DOMAIN board.goals \cap part}

=============================================================================
