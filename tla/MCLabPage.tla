----------------------------- MODULE MCLabPage -----------------------------
(* Two rooms: a box two pushes from its goal, and one a push away.         *)
EXTENDS LabPage

Far ==
  [open   |-> {<<1, c>> : c \in 1 .. 5},
   goals  |-> <<1, 5>> :> "X",
   labels |-> <<"X">>,
   start  |-> [player |-> <<1, 2>>, boxes |-> << <<1, 3>> >>]]

Near == [Far EXCEPT !.start = [player |-> <<1, 3>>, boxes |-> << <<1, 4>> >>]]

MCBoards == {Far, Near}

MCFound == {<< >>, <<"R">>, <<"R", "R">>}

MCLogs == {<< >>, <<"R">>, <<"R", "R">>, <<"U">>}

NoLogs == {<< >>}

=============================================================================
