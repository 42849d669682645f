--------------------------- MODULE MCSolverClient ---------------------------
(* A corridor whose box is two pushes from its goal; an extra step back    *)
(* and again makes longer routes, and one prefix leaves them no room.      *)
EXTENDS SolverClient

Corridor ==
  [open   |-> {<<1, c>> : c \in 1 .. 5},
   goals  |-> <<1, 5>> :> "X",
   labels |-> <<"X">>,
   start  |-> [player |-> <<1, 2>>, boxes |-> << <<1, 3>> >>]]

(* No push can bring this box home.                                        *)
Stuck ==
  [open   |-> {<<1, c>> : c \in 1 .. 4},
   goals  |-> <<1, 1>> :> "X",
   labels |-> <<"X">>,
   start  |-> [player |-> <<1, 2>>, boxes |-> << <<1, 3>> >>]]

MCFound == {<<"R", "R">>, <<"L", "R", "R", "R">>}

MCAsks ==
  {[board |-> Corridor, prefix |-> << >>],
   [board |-> Corridor, prefix |-> <<"L", "R">>],
   [board |-> Stuck, prefix |-> << >>]}

(* What a faulty engine may send: a bound past its route, a route that     *)
(* does not solve, proofs that fit nothing shown.                          *)
MCRogue ==
  {Update("progress", "running", {2}, {3}, "none", {<<"R", "R">>}),
   Update("done", "solved", {2}, {2}, "optimal", {<<"L", "L">>}),
   Update("done", "solved", {2}, {2}, "optimal", {}),
   Update("done", "exhausted", {}, {}, "unsolvable", {})}

=============================================================================
