---------------------------- MODULE MCExpansion ----------------------------
(* Small boards on which each estimate, prune and verdict comes up.        *)
EXTENDS Polish, Drawings

(* An open room, two boxes of one label.                                   *)
Open == Drawn(<< <<"@", ".", ".", "#">>,
                 <<".", "a", ".", "A">>,
                 <<".", ".", "a", "A">>,
                 <<"#", ".", ".", ".">> >>, <<"a", "a">>)

(* Two labels around a block.                                              *)
Block == Drawn(<< <<"A", ".", ".", "#", "#">>,
                  <<".", "a", ".", ".", "@">>,
                  <<".", ".", "#", "b", ".">>,
                  <<"#", "B", ".", ".", ".">> >>, <<"a", "b">>)

(* Three boxes of one label, which make three kicks; one gains.            *)
Three == Drawn(<< <<"A", ".", ".", ".">>,
                  <<"a", "@", "a", ".">>,
                  <<"A", ".", "a", "A">> >>, <<"a", "a", "a">>)

(* Two chambers joined by a corridor a box can block.                      *)
Gate == Drawn(<< <<"A", ".", "#", ".", ".">>,
                 <<".", "a", ".", "a", "@">>,
                 <<"A", ".", "#", ".", ".">> >>, <<"a", "a">>)

(* A closet behind two boxes.                                              *)
Closet == Drawn(<< <<".", "A", "#", "#">>,
                   <<".", "a", ".", ".">>,
                   <<".", "a", ".", "@">>,
                   <<".", "A", ".", ".">> >>, <<"a", "a">>)

(* A row of goals along a wall, which boxes enter in one order only.       *)
Row == Drawn(<< <<"@", ".", ".", ".", ".">>,
                <<".", "b", ".", "a", ".">>,
                <<"A", "B", ".", ".", ".">> >>, <<"a", "b">>)

(* A corridor that the keeper pushes along but never gets round.           *)
Lane == Drawn(<< <<"#", "#", "#", "#", "#", ".", ".">>,
                 <<".", ".", ".", "A", ".", "a", "@">> >>, <<"a">>)

(* A route here is cut at its first solved position, then a pair gains.    *)
Slide == Drawn(<< <<".", "A", ".", ".">>,
                  <<"@", "a", "a", ".">>,
                  <<".", ".", ".", "A">> >>, <<"a", "a">>)

MCBoards == {Open, Block, Three, Gate, Closet, Row, Lane, Slide}

(* Routes that a search may find, most of them far from the shortest.      *)
MCSeeds ==
  [b \in MCBoards |->
     CASE b = Slide ->
              {<<"D", "R", "R", "U", "R", "U", "L", "D", "D", "L", "L", "U", "U", "R", "D", "L", "D", "R", "R", "U", "R", "U", "L">>}
       [] b = Three ->
              {<<"D", "L", "U", "R", "U", "R", "R", "D", "D", "L", "L", "U", "R", "L", "U", "R", "R", "D">>}
       [] b = Block ->
              {<<"L", "L", "L", "R", "R", "D", "U", "L", "L", "D", "L", "U", "D", "R", "U", "R", "R", "R", "D", "D", "L", "L">>}
       [] b = Row ->
              {<<"R", "R", "R", "D", "U", "R", "D", "D", "L", "L", "L", "R", "U", "U", "L", "D">>}
       [] b = Lane ->
              {<<"L", "L">>}
       [] OTHER -> {}]

Ask(ending, allowance, states, workers) ==
  [ending |-> ending, allowance |-> allowance, states |-> states, workers |-> workers]

(* An episode short of memory, and end polishes: kicks one at a time and   *)
(* raced, with their fill of work and short of it.                         *)
MCAsks == {Ask("running", 250, 0, 1), Ask("solved", 3000, 40, 1), Ask("solved", 3000, 40, 2),
           Ask("solved", 3000, 1, 1)}

=============================================================================
