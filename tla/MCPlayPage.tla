----------------------------- MODULE MCPlayPage -----------------------------
(* A corridor whose box is two pushes from its goal, and a box in a niche  *)
(* that no push moves, in the slot before.                                 *)
EXTENDS PlayPage

Corridor ==
  [open   |-> {<<1, c>> : c \in 1 .. 5} \cup {<<2, 4>>},
   goals  |-> (<<1, 5>> :> "X") @@ (<<2, 4>> :> "A"),
   labels |-> <<"A", "X">>,
   start  |-> [player |-> <<1, 2>>, boxes |-> << <<2, 4>>, <<1, 3>> >>]]

MCFound == {<<"R", "R">>, <<"R">>, <<"R", "R", "R">>, << >>}

MCRoutes == {<<"R", "R">>, <<"L">>}

MCBoards == {Corridor}

=============================================================================
