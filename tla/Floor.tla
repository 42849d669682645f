------------------------------- MODULE Floor --------------------------------
(***************************************************************************)
(* The keeper's floor: the flood of what it reaches, with a shortest walk  *)
(* to any cell of it (crates/search/src/reach.rs), and the sides a cell    *)
(* has once it is blocked (reach/blocks.rs).                               *)
(***************************************************************************)
EXTENDS Rules, TLC

DirOrder == <<"U", "D", "L", "R">>

Back(d) == CASE d = "U" -> "D" [] d = "D" -> "U" [] d = "L" -> "R" [] d = "R" -> "L"

FirstDir(D) == SelectSeq(DirOrder, LAMBDA d : d \in D)[1]

CellBefore(a, b) == a[1] < b[1] \/ (a[1] = b[1] /\ a[2] < b[2])

(* A set of cells row by row, a set of numbers from the least up.          *)
RowMajor(cells) ==
  LET rank == [c \in cells |-> 1 + Cardinality({b \in cells : CellBefore(b, c)})]
  IN  [k \in 1 .. Cardinality(cells) |-> CHOOSE c \in cells : rank[c] = k]

Ascending(numbers) ==
  [k \in 1 .. Cardinality(numbers) |->
     CHOOSE n \in numbers : Cardinality({m \in numbers : m < n}) = k - 1]

Smaller(a, b) == IF a < b THEN a ELSE b

BoxesOf(s) == {s.boxes[i] : i \in DOMAIN s.boxes}

----------------------------------------------------------------------------
(* Reach::fill_from: the cells the keeper reaches in the order the flood   *)
(* meets them, and how far each is.                                        *)
Flood(board, player, blocked) ==
  LET Visit(f, k) ==
        IF k > Len(f.order) THEN f
        ELSE LET cell == f.order[k]
                 dirs == SelectSeq(DirOrder, LAMBDA d :
                           Beyond(cell, d) \in board.open \ (blocked \cup DOMAIN f.at))
                 met  == [j \in DOMAIN dirs |-> Beyond(cell, dirs[j])]
             IN  [order |-> f.order \o met,
                  at    |-> f.at @@ [c \in ToSet(met) |-> f.at[cell] + 1]]
  IN  FoldLeft(Visit, [order |-> <<player>>, at |-> player :> 0],
               [k \in 1 .. Cardinality(board.open) |-> k])

FloodOf(board, s) == Flood(board, s.player, BoxesOf(s))

Reaches(flood, cell) == cell \in DOMAIN flood.at

(* append_walk_reversed, turned about: a shortest walk to a reached cell.  *)
Walk(flood, cell) ==
  LET walk[c \in DOMAIN flood.at] ==
        IF flood.at[c] = 0 THEN << >>
        ELSE LET d == FirstDir({e \in Dirs : /\ Reaches(flood, Beyond(c, Back(e)))
                                             /\ flood.at[Beyond(c, Back(e))] = flood.at[c] - 1})
             IN  Append(walk[Beyond(c, Back(d))], d)
  IN  walk[cell]

----------------------------------------------------------------------------
\* Faulty: a subtree with an edge back to x is not separated by it.
SeparatesBridge(search, x, y) == search.low[y] > search.tin[x]

(* A child's subtree has no edge out but to x.                             *)
Separates(search, x, y) == search.low[y] >= search.tin[x]

(* Blocks::dfs from a root: entry and exit times, low-links, and the       *)
(* directions of the separated children.                                   *)
Unseen == 65535     \* UNSEEN, the entry time of a cell not met yet

DfsStates(board) ==
  LET times == [board.open -> Nat]
  IN  [time : Nat, tin : times, tout : times, low : times, parted : [board.open -> SUBSET Dirs]]

NothingSeen(board) ==
  LET unseen == [x \in board.open |-> Unseen]
  IN  [time |-> 0, tin |-> unseen, tout |-> unseen, low |-> unseen,
       parted |-> [x \in board.open |-> {}]]

Entered(board, root, search) ==
  LET entered[x \in board.open, s \in DfsStates(board)] ==
        LET opened == [s EXCEPT !.tin[x] = s.time, !.low[x] = s.time, !.time = @ + 1]
            Try(t, d) ==
              LET y == Beyond(x, d) IN
              IF y \notin board.open THEN t
              ELSE IF t.tin[y] # Unseen THEN [t EXCEPT !.low[x] = Smaller(@, t.tin[y])]
              ELSE LET u == entered[y, t] IN
                   [u EXCEPT !.low[x] = Smaller(@, u.low[y]),
                             !.parted[x] = IF Separates(u, x, y) THEN @ \cup {d} ELSE @]
            closed == FoldLeft(Try, opened, DirOrder)
        IN  [closed EXCEPT !.tout[x] = closed.time]
  IN  entered[root, search]

(* The direction of x's separated child below which c lies, or "rest".     *)
ChildHolding(search, x, c) ==
  LET spans == {d \in search.parted[x] :
                  LET y == Beyond(x, d)
                  IN  search.tin[y] <= search.tin[c] /\ search.tin[c] < search.tout[y]}
  IN  IF spans = {} THEN "rest" ELSE CHOOSE d \in spans : TRUE

(* Blocks::build: every component, the keeper's first, then the label of   *)
(* each side, the direction of the first neighbour found on it.            *)
Labelled(board, first, search) ==
  LET label(x) ==
        LET key == [d \in {e \in Dirs : Beyond(x, e) \in board.open} |->
                      ChildHolding(search, x, Beyond(x, d))]
        IN  [k \in Range(key) |-> FirstDir({d \in DOMAIN key : key[d] = k})]
  IN  [search |-> search,
       keeper |-> {x \in board.open : search.tin[x] < first.time},
       label  |-> [x \in board.open |-> label(x)]]

Searched(board, first) ==
  LET Root(s, x) == IF s.tin[x] # Unseen THEN s ELSE Entered(board, x, s)
  IN  Labelled(board, first, FoldLeft(Root, first, RowMajor(board.open)))

Blocks(board, player) ==
  Searched(board, Entered(board, player, NothingSeen(board)))

(* side and toward: the label of the side of x that holds c.               *)
Side(blocks, x, c) == blocks.label[x][ChildHolding(blocks.search, x, c)]

Toward(blocks, x, d) == Side(blocks, x, Beyond(x, d))

InKeeper(blocks, x) == x \in blocks.keeper

(* What the sides are, by a flood a blocked cell: two cells are on one     *)
(* side of x iff each reaches the other around it, and a side is named     *)
(* after the first neighbour of x on it.                                   *)
SidesAgree(board, blocks, x) ==
  \A c \in DOMAIN Flood(board, x, {}).at \ {x} :
    LET around == DOMAIN Flood(board, c, {x}).at
    IN  Side(blocks, x, c) = FirstDir({d \in Dirs : Beyond(x, d) \in around})

=============================================================================
