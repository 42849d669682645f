------------------------------ MODULE MCEngine ------------------------------
(* Boards of five positions.  They are chosen so that a direct but dear    *)
(* push competes with a cheap detour to the same position, so that paths   *)
(* of unequal cost meet, a position has no solution, a sealed corral or no *)
(* assignment, the walk to a push goes uncharged, and levels rise twice    *)
(* before the goal.                                                        *)
EXTENDS Engine, TLC

Push1(to, cost, charge, ahead) == [to |-> to, cost |-> cost, charge |-> charge, ahead |-> ahead]

To(to, cost) == Push1(to, cost, 0, 0)

MCStates == {"s", "p", "c", "d", "g"}

On(s, p, c, d, g) == "s" :> s @@ "p" :> p @@ "c" :> c @@ "d" :> d @@ "g" :> g

(* The same function, its values worked out once.                          *)
Table(f) == On(f["s"], f["p"], f["c"], f["d"], f["g"])

(* The least total of W over the pushes from each position to a solved one. *)
LeastTo(succ, W(_)) ==
  LET d[n \in Nat] ==
        [s \in States |->
           IF s \in Goals THEN 0
           ELSE IF n = 0 THEN Inf
           ELSE Least({Inf} \cup {W(e) + d[n - 1][e.to] : e \in Range1(succ[s])})]
  IN  d[Cardinality(States)]

Distances(succ) == LET moves(e) == e.cost IN LeastTo(succ, moves)

Board(succ, est, first, roomH, term, corral, level) ==
  LET dist == Table(Distances(succ))
  IN  [ succ |-> succ, est |-> est, first |-> first, room |-> roomH, term |-> term,
        corral |-> corral, level |-> level,
        dist |-> dist, opt |-> dist["s"] ]

Zero == On(0, 0, 0, 0, 0)

Climb == On(0, 1, 1, 2, 2)

(* The detour over p reaches c first at 2 but is queued behind the direct  *)
(* push at 4; only the rooms see that p is far from done.                  *)
Detour ==
  Board(On(<<To("p", 1), To("c", 4)>>, <<To("c", 1)>>, <<To("d", 3)>>, <<To("g", 1)>>, << >>),
        On(2, 2, 1, 1, 0), 0, On(6, 5, 1, 1, 0), On(6, 5, 4, 1, 0), {}, Climb)

(* Two ways round, a cycle, walks the estimate leaves out, and a goal      *)
(* pushed first at a dear cost.                                            *)
Ring ==
  Board(On(<<Push1("c", 3, 0, 1), Push1("p", 2, 1, 0)>>, <<To("s", 1), Push1("d", 3, 1, 0)>>,
           <<Push1("g", 4, 2, 0), To("d", 2)>>, <<To("p", 2), To("g", 1)>>, << >>),
        On(3, 2, 2, 1, 0), 1, On(0, 4, 1, 1, 0), On(0, 4, 2, 1, 0), {}, On(0, 0, 1, 1, 2))

(* A way aside that the incumbent rules out while it waits in the queue.   *)
Aside ==
  Board(On(<<To("p", 2), To("c", 1)>>, <<Push1("g", 4, 3, 0)>>, <<To("d", 1)>>, <<To("g", 1)>>,
           << >>),
        On(3, 3, 2, 1, 0), 0, On(0, 4, 0, 0, 0), On(0, 4, 0, 0, 0), {}, On(1, 0, 1, 1, 2))

(* A dear route at the first push, and three pushes to a better one.       *)
Bait ==
  Board(On(<<To("p", 1), To("g", 9)>>, <<To("c", 1), To("g", 6)>>, <<To("d", 1)>>,
           <<To("g", 2)>>, << >>),
        On(1, 1, 1, 1, 0), 0, On(0, 0, 3, 0, 0), On(0, 0, 3, 2, 0), {}, On(0, 1, 2, 2, 3))

(* A position that a partial expansion leaves twice, once at a dear push.  *)
Fork ==
  Board(On(<<To("p", 1), To("c", 5)>>, <<To("c", 3), Push1("d", 6, 1, 0)>>, <<To("d", 1)>>,
           <<To("g", 1)>>, << >>),
        On(4, 3, 2, 1, 0), 0, Zero, Zero, {}, Climb)

(* Three routes, each found later and shorter than the one before.         *)
Better ==
  Board(On(<<To("p", 1), To("g", 9)>>, <<To("c", 1)>>, <<To("g", 5), To("d", 1)>>,
           <<To("g", 2)>>, << >>),
        On(1, 1, 1, 1, 0), 0, Zero, Zero, {}, Climb)

(* No route: a sealed corral at d, and a position without an assignment.   *)
Sealed ==
  Board(On(<<To("p", 2), To("c", 1)>>, <<To("d", 1)>>, <<To("p", 1)>>,
           <<To("s", 1)>>, << >>),
        On(2, 1, 1, 1, 0), 0, On(Inf, 0, 0, 0, 0), Zero, {"d"}, Climb)

Hopeless ==
  Board(On(<<To("p", 1), To("c", 2)>>, <<To("c", 3), To("d", 1)>>, <<To("s", 1)>>, << >>, << >>),
        On(2, 2, 1, Inf, 0), 0, On(0, Inf, 0, 0, 0), Zero, {}, Climb)

NoAssignment ==
  Board(On(<<To("p", 1)>>, << >>, << >>, << >>, << >>),
        On(Inf, 1, 1, 1, 0), 0, Zero, Zero, {}, Climb)

Named == {Detour, Ring, Aside, Bait, Sealed, Hopeless, NoAssignment}

(* A family: a diamond with a way back, cheap or dear pushes, charged      *)
(* walks, the estimate that counts pushes and charges alone, and rooms     *)
(* that know the distance of some positions.                               *)
Family ==
  LET edge(to, cost, charged) ==
        Push1(to, cost, IF charged THEN cost - 1 ELSE 0, 0)
      graph(sc, pc, cd, dg, back, charged) ==
        On(<<To("p", 1), To("c", sc)>>, <<edge("c", pc, charged), To("g", 8)>>,
           <<edge("d", cd, charged)>> \o back, <<edge("g", dg, ~charged), To("c", 2)>>, << >>)
      pushes(e) == 1 + e.charge
      build(succ, known) ==
        LET dist == Table(Distances(succ))
            roomH == Table([x \in MCStates |-> IF x \in known THEN dist[x] ELSE 0])
        IN  Board(succ, Table(LeastTo(succ, pushes)), 0, roomH, roomH, {}, Climb)
      pick(q, k, place) == q[1 + ((k \div place) % Len(q))]
  IN  {build(graph(pick(<<1, 3, 5, 5>>, k, 1), pick(<<1, 3>>, k, 4), pick(<<1, 3>>, k, 8),
                     pick(<<1, 2>>, k, 1), pick(<< << >>, <<To("p", 1)>> >>, k, 2),
                     pick(<<TRUE, FALSE>>, k, 16)),
               pick(<<{}, {"p"}, {"s", "d"}>>, k, 32)) : k \in 1 .. 96}

MCBoards == Named \cup {Better, Fork} \cup Family

(* The table for n records: at least twice as many slots, a power of two.  *)
MCFinalTable == [n \in 1 .. MaxLimit + 1 |->
                   CHOOSE p \in {2, 4, 8, 16, 32} :
                     p >= 2 * n /\ \A q \in {2, 4, 8, 16, 32} : q >= 2 * n => p <= q]

Granted == {[table |-> TRUE, chunk |-> TRUE]}

MCCaps == <<1, 3>>

=============================================================================
