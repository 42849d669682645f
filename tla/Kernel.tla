------------------------------- MODULE Kernel -------------------------------
(***************************************************************************)
(* The push kernel on real boards (crates/search/src/push.rs): a position  *)
(* expanded push by push, each child settled, pruned and estimated         *)
(* (Parts::open, legal, admit, stand_walk, settle), and what its bounds    *)
(* are checked against, the fewest moves left.                             *)
(***************************************************************************)
EXTENDS Corrals

CONSTANTS
  Boards,     \* the boards
  Depth       \* how many moves the reference looks ahead

----------------------------------------------------------------------------
(* canonicalize: each label's boxes in cell order.                         *)
Canonical(b, s) ==
  [s EXCEPT !.boxes =
     [i \in DOMAIN @ |-> RowMajor({@[j] : j \in Group(b, i)})
                           [Cardinality({j \in Group(b, i) : j <= i})]]]

\* Faulty: only shifts left.
SettleLeft(boxes, group, i) ==
  LET left == {j \in group : j < i /\ CellBefore(boxes[i], boxes[j])}
      to   == IF left = {} THEN i ELSE Min(left)
  IN  [j \in DOMAIN boxes |-> IF j = to THEN boxes[i]
                              ELSE IF j \in to + 1 .. i THEN boxes[j - 1] ELSE boxes[j]]

(* settle: box i shifts left past larger cells of its group, or right past *)
(* smaller ones.                                                           *)
Settle(boxes, group, i) ==
  LET left  == {j \in group : j < i /\ CellBefore(boxes[i], boxes[j])}
      right == {j \in group : j > i /\ CellBefore(boxes[j], boxes[i])}
      to    == IF left # {} THEN Min(left) ELSE Max(right \cup {i})
  IN  [j \in DOMAIN boxes |-> IF j = to THEN boxes[i]
                              ELSE IF j \in to + 1 .. i THEN boxes[j - 1]
                              ELSE IF j \in i .. to - 1 THEN boxes[j + 1]
                              ELSE boxes[j]]

(* legal: the pushes the keeper can walk to, each with its stand and the   *)
(* position it leads to.                                                   *)
Pushed(b, s, i, d) ==
  [box |-> i, dir |-> d, to |-> Beyond(s.boxes[i], d), stand |-> Beyond(s.boxes[i], Back(d)),
   state |-> [player |-> s.boxes[i],
              boxes  |-> Settle([s.boxes EXCEPT ![i] = Beyond(@, d)], Group(b, i), i)]]

LegalPushes(b, s, flood) ==
  {p \in {Pushed(b, s, i, d) : i \in DOMAIN s.boxes, d \in Dirs} :
     p.to \in b.open \ BoxesOf(s) /\ Reaches(flood, p.stand)}

(* stand_walk: a bound on the walk to the first push of a position, less   *)
(* what the estimate charges for it; 0 where there is no push at all.      *)
Apart(a, b) == Max({a[1] - b[1], b[1] - a[1]}) + Max({a[2] - b[2], b[2] - a[2]})

StandWalk(b, h, s) ==
  LET free == b.open \ BoxesOf(s)
      Least(walks) == IF walks = {} THEN 0 ELSE Max({0, Min(walks)})
      stands == {Beyond(s.boxes[p[1]], Back(p[2])) : p \in
                   {q \in (DOMAIN s.boxes) \X Dirs :
                      /\ {Beyond(s.boxes[q[1]], q[2]), Beyond(s.boxes[q[1]], Back(q[2]))} \subseteq free
                      /\ ~DeadAfter(b, h, q[1], Beyond(s.boxes[q[1]], q[2]), q[2])}}
  IN  Least({Apart(s.player, c) + h.charge[s.player] - h.charge[c] : c \in stands})

(* admit: the prunes of a child that read only its position, in order, and *)
(* the bounds of one that passes.                                          *)
Kid(b, h, s, parentH, p) ==
  p @@ [h |-> ChildEstimate(b, h, parentH, s, p.box, p.to, p.dir)]

Kids(b, h, s, parentH, pushes) ==
  {k \in {Kid(b, h, s, parentH, p) : p \in
             {q \in pushes : /\ ~DeadAfter(b, h, q.box, q.to, q.dir)
                             /\ ~DeadAfterPush(b, h, s.boxes, DOMAIN s.boxes, q.box, q.to)}} :
     k.h < Inf}

(* expand: the pushes of a position and the children admitted, none where  *)
(* a sealed corral is dead.                                                *)
Expanded(b, h, s, flood) ==
  LET With(pushes) ==
        [pushes |-> pushes,
         kids   |-> IF SealedDead(b, h, s, flood) THEN {}
                    ELSE Kids(b, h, s, EstimateOf(b, h, s), pushes)]
  IN  With(LegalPushes(b, s, flood))

NotYet == [pushes |-> {}, kids |-> {}]

(* root_estimate: the root's own charge may be paid already.               *)
RootEstimate(b, h, s) ==
  LET From(pushes) == IF pushes = 0 /\ SolvedIn(b, s) THEN 0
                      ELSE Max({0, pushes + StandWalk(b, h, s) - h.charge[s.player]})
  IN  From(EstimateOf(b, h, s))

----------------------------------------------------------------------------
(* The fewest moves from every position play can reach to a solved one,    *)
(* worked out from the rules alone; Inf where there is none.               *)
After(b, s) == {Canonical(b, p.state) : p \in UNION {Steps(b, s, d) : d \in Dirs}}

Reachable(b) ==
  LET start == {Canonical(b, b.start)}
      met[n \in 0 .. Depth] ==
        IF n = 0 THEN [all |-> start, new |-> start]
        ELSE LET r    == met[n - 1]
                 next == UNION {After(b, s) : s \in r.new} \ r.all
             IN  [all |-> r.all \cup next, new |-> next]
  IN  met[Depth].all

LevelsOf(b) ==
  LET all    == Reachable(b)
      solved == {s \in all : SolvedIn(b, s)}
      edges  == UNION {{<<s, t>> : t \in After(b, s)} : s \in all \ solved}
      found[n \in 0 .. Depth] ==
        IF n = 0 THEN [edges |-> edges, levels |-> <<solved>>]
        ELSE LET r     == found[n - 1]
                 level == {e[1] : e \in {f \in r.edges : f[2] \in Last(r.levels)}}
             IN  [edges  |-> {e \in r.edges : e[1] \notin level},
                  levels |-> Append(r.levels, level)]
  IN  IF edges = {} THEN <<solved>> ELSE found[Depth].levels

Levels == [b \in Boards |-> LevelsOf(b)]

MovesLeft(b, s) ==
  LET Least(levels) == Min({Inf} \cup {n - 1 : n \in {m \in DOMAIN levels : s \in levels[m]}})
  IN  Least(Levels[b])

=============================================================================
