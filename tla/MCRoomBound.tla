---------------------------- MODULE MCRoomBound ----------------------------
(* Small boards with rooms behind one door, two and more.                  *)
EXTENDS RoomBound, Drawings

(* A closet within a room, each behind one door.                           *)
Nest == Drawn(<< <<".", ".", "#", ".", ".">>,
                 <<"@", "a", ".", ".", ".">>,
                 <<".", ".", "#", "#", "A">> >>, <<"a">>)

(* A loop around a pillar.                                                 *)
Ring == Drawn(<< <<"@", ".", ".", "#">>,
                 <<".", "#", "a", ".">>,
                 <<".", ".", ".", "A">> >>, <<"a">>)

(* Two labels, a closet for one and a nook for the other.                  *)
Pair == Drawn(<< <<"#", ".", ".", ".", "#">>,
                 <<"B", "a", ".", "b", "A">>,
                 <<"@", ".", ".", ".", "#">> >>, <<"a", "b">>)

(* Two labels in a room too large for one key, so that it is halved.       *)
Halved == Drawn(<< <<"A", ".", "#", ".", "B">>,
                   <<".", ".", ".", "a", "b">>,
                   <<".", ".", "#", "#", "@">> >>, <<"a", "b">>)

(* Two labels in a shaft, which size-fails in a small memory.              *)
Shaft == Drawn(<< <<"A", "#", "#", ".", "@">>,
                  <<".", ".", ".", "a", "b">>,
                  <<".", ".", "#", ".", "B">> >>, <<"a", "b">>)

(* Two boxes of one label: the second may shut the keeper out of the room  *)
(* with the first off its goal, and the room's table misses the position.  *)
Shut == Drawn(<< <<".", ".", ".", "#", "A">>,
                 <<".", "a", "@", "a", "A">>,
                 <<".", "#", "#", ".", ".">> >>, <<"a", "a">>)

(* A board with no route, which the room's table finds at its root.        *)
Barred == Drawn(<< <<".", ".", "#", "A">>,
                   <<".", "@", "a", "a">>,
                   <<".", ".", "#", "A">> >>, <<"a", "a">>)

MCBoards == {Nest, Ring, Pair, Halved, Shaft, Shut, Barred}

Search(nodes, memory, held) == [nodes |-> nodes, memory |-> memory, held |-> held]

(* Ample searches, one whose cap is the least, ones whose shares run out,  *)
(* and ones short of memory, to an arena of 60 or from the start.          *)
MCSearches == {Search(50, 2000, 0), Search(0, 2000, 0), Search(2, 2000, 0), Search(4, 2000, 0),
               Search(50, 200, 60), Search(50, 200, 0), Search(50, 140, 0), Search(50, 80, 0)}

=============================================================================
