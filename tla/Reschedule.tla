----------------------------- MODULE Reschedule -----------------------------
(***************************************************************************)
(* A polish job (Job of crates/search/src/polish.rs): one or two boxes of  *)
(* a route are freed, every other push is kept in its order, and an A*     *)
(* over where the freed boxes' pushes go among them looks for a shorter    *)
(* route.                                                                  *)
(*                                                                         *)
(* A node is how many kept pushes are done, where the freed boxes are and, *)
(* unless a kept push led to it, which of them was pushed and how.         *)
(***************************************************************************)
EXTENDS Kernel

CONSTANTS
  PairPops,    \* PAIR_POPS, the expansions of a job that frees two
  KickSlack,   \* KICK_SLACK, how much longer a kicked route may be
  MinNodes,    \* Nodes::MIN
  MinQueue,    \* MIN_QUEUE
  NodeCost     \* the bytes of a node, an entry of the queue being one

ASSUME RescheduleAssumption ==
  /\ {PairPops, KickSlack} \subseteq Nat
  /\ {MinNodes, MinQueue, NodeCost} \subseteq Nat \ {0}

----------------------------------------------------------------------------
(* A route replayed: its positions, and replay's answer, how many moves    *)
(* reach the first solved one, or none.                                    *)
Trail(b, route) ==
  FoldLeft(LAMBDA trail, d : trail \o SetToSeq({p.state : p \in Steps(b, Last(trail), d)}),
           <<b.start>>, route)

ReplayOf(b, route) ==
  LET Solved(trail) == {n \in DOMAIN trail : SolvedIn(b, trail[n])}
      First(ns) == IF ns = {} THEN {} ELSE {Min(ns) - 1}
      Legs(trail) == IF Len(trail) <= Len(route) THEN {} ELSE First(Solved(trail))
  IN  Legs(Trail(b, route))

----------------------------------------------------------------------------
(* Job::new: the job that frees some boxes of a route, or none, where one  *)
(* of them never moves or the buffers do not fit.                          *)
Fixed(b, kept, freed) ==
  kept + (kept + 1) * (Len(b.labels) - Len(freed)) + kept * Cardinality(b.open) + (kept + 1)
    + Len(b.labels)

Needs(b, kept, freed) == Fixed(b, kept, freed) + NodeCost * MinNodes + MinQueue

KeptPush(trail, n, d) ==
  [stand |-> trail[n].player, from |-> trail[n + 1].player,
   to |-> Beyond(trail[n + 1].player, d), dir |-> d]

JobOver(b, h, route, freed, allowance, trail, kept) ==
  LET m     == Len(kept)
      rest  == DOMAIN b.labels \ ToSet(freed)
      At(k) == IF k = 0 THEN trail[1] ELSE trail[kept[k] + 1]
      goals == [j \in DOMAIN freed |-> Last(trail).boxes[freed[j]]]
  IN  [goals   |-> goals,
       columns |-> [j \in DOMAIN freed |-> CHOOSE c \in DOMAIN h.columns : h.columns[c] = goals[j]],
       swap    |-> Len(freed) = 2 /\ freed[2] \in Group(b, freed[1]),
       kick    |-> FALSE,
       freed   |-> freed,
       root    |-> [j \in DOMAIN freed |-> b.start.boxes[freed[j]]],
       player  |-> b.start.player,
       bound   |-> Len(route),
       pops    |-> IF Len(freed) = 1 THEN Inf ELSE PairPops,
       events  |-> [k \in 1 .. m |-> KeptPush(trail, kept[k], route[kept[k]])],
       others  |-> [k \in 0 .. m |-> {At(k).boxes[i] : i \in rest}],
       walks   |-> << >>,
       tails   |-> m :> 0,
       keys    |-> << >>, costs |-> << >>, store |-> MinNodes,
       heap    |-> {}, room |-> MinQueue,
       fixed   |-> Fixed(b, m, freed), allowance |-> allowance,
       pending |-> m + 1,
       is      |-> "running", found |-> << >>]

JobsFor(b, h, route, freed, allowance) ==
  LET MovedAt(trail, n) == {i \in DOMAIN b.labels : trail[n].boxes[i] # trail[n + 1].boxes[i]}
      Over(trail, kept, pushed) ==
        IF ~ToSet(freed) \subseteq pushed \/ Needs(b, Len(kept), freed) > allowance THEN {}
        ELSE {JobOver(b, h, route, freed, allowance, trail, kept)}
      With(trail) ==
        Over(trail,
             SelectSeq([n \in DOMAIN route |-> n],
                       LAMBDA n : MovedAt(trail, n) # {} /\ MovedAt(trail, n) \cap ToSet(freed) = {}),
             UNION {MovedAt(trail, n) : n \in DOMAIN route})
  IN  With(Trail(b, route))

(* Job::kick: two boxes of one label made to take each other's goals.      *)
KicksFor(b, h, route, pair, allowance) ==
  {[job EXCEPT !.goals = Reverse(@), !.columns = Reverse(@), !.swap = FALSE, !.kick = TRUE,
               !.bound = Smaller(@ + KickSlack, MaxRoute)] :
     job \in JobsFor(b, h, route, pair, allowance)}

----------------------------------------------------------------------------
(* entry and keeper: where the keeper is when a layer begins, and at a     *)
(* node; the flood there, with every box in place.                         *)
Entry(job, k) == IF k = 0 THEN job.player ELSE job.events[k].from

KeeperAt(job, node) ==
  IF node.tag = << >> THEN Entry(job, node.k)
  ELSE Beyond(node.at[node.tag[1]], Back(node.tag[2]))

FloodAt(b, job, node) ==
  Flood(b, KeeperAt(job, node), job.others[node.k] \cup ToSet(node.at))

Arrived(job, at) == at = job.goals \/ (job.swap /\ at = Reverse(job.goals))

(* pushes and estimate: the lower bounds, Inf for none.                    *)
PushesLeft(h, job, at) ==
  LET sum(columns) == FoldLeft(LAMBDA n, j : Smaller(Inf, n + h.distance[<<at[j], "any">>][columns[j]]),
                               0, [j \in DOMAIN at |-> j])
  IN  Min({sum(job.columns)} \cup IF job.swap THEN {sum(Reverse(job.columns))} ELSE {})

Estimated(h, job, k, at, q) ==
  LET kept == Len(job.events) - k
      Over(pushes) ==
        IF pushes >= Inf THEN Inf
        ELSE IF kept = 0 THEN pushes
        ELSE IF q \notin DOMAIN job.walks[k + 1] THEN Inf
        ELSE kept + Max({pushes, job.walks[k + 1][q] + job.tails[k + 1]})
  IN  Over(PushesLeft(h, job, at))

----------------------------------------------------------------------------
(* relax: a node's cost, unless it cannot beat the bound or is no lower,   *)
(* in a store that doubles and a queue that grows within the allowance.    *)
HeldBytes(job) == job.fixed + NodeCost * job.store + job.room

Spare(job) == Max({0, job.allowance - HeldBytes(job)})

Failing(job) == [job EXCEPT !.is = "failed"]

Stored(job, node, cost) ==
  LET full == Len(job.keys) = job.store
      new  == [job EXCEPT !.keys = Append(@, node), !.costs = Append(@, cost),
                          !.store = IF full THEN 2 * @ ELSE @]
  IN  IF full /\ NodeCost * 2 * job.store > Spare(job) THEN Failing(job) ELSE new

Queued(job, entry) ==
  LET full  == Cardinality(job.heap) = job.room
      extra == IF full THEN Smaller(job.room, Max({0, Spare(job) - job.room})) ELSE 0
  IN  IF job.is = "failed" THEN job
      ELSE IF full /\ extra = 0 THEN Failing(job)
      ELSE [job EXCEPT !.heap = @ \cup {entry}, !.room = @ + extra]

\* Faulty: takes nodes that differ in the keeper's place for one.
IdsOfBoxes(job, node) ==
  {id \in DOMAIN job.keys : job.keys[id].k = node.k /\ job.keys[id].at = node.at}

IdsOf(job, node) == {id \in DOMAIN job.keys : job.keys[id] = node}

Relax(job, move) ==
  LET cost  == [g |-> move.g, par |-> move.par]
      ids   == IdsOf(job, move.node)
      At(id) == [f |-> move.g + move.h, h |-> move.h, id |-> id]
  IN  IF \/ job.is # "running" \/ move.g + move.h >= job.bound
         \/ \E id \in ids : job.costs[id].g <= move.g
        THEN job
      ELSE IF ids = {} THEN Queued(Stored(job, move.node, cost), At(Len(job.keys) + 1))
      ELSE Queued([job EXCEPT !.costs[Min(ids)] = cost], At(Min(ids)))

(* The moves from a node, in order: the next kept push, unless a freed box *)
(* is in its way, then each freed box's own, after the walks to their      *)
(* stands; q is where the keeper ends.                                     *)
MoveTo(h, job, node, g, par, q) ==
  [node |-> node, g |-> g, h |-> Estimated(h, job, node.k, node.at, q), par |-> par]

KeptMoves(h, job, node, g, flood) ==
  LET event == job.events[node.k + 1]
  IN  IF node.k = Len(job.events) \/ event.to \in ToSet(node.at) \/ ~Reaches(flood, event.stand)
        THEN << >>
      ELSE <<MoveTo(h, job, [node EXCEPT !.k = @ + 1, !.tag = << >>],
                    g + flood.at[event.stand] + 1, node.tag, event.from)>>

OwnMoves(b, h, job, node, g, flood) ==
  LET all    == [n \in 1 .. 4 * Len(node.at) |-> <<1 + (n - 1) \div 4, DirOrder[1 + ((n - 1) % 4)]>>]
      Stand(p) == Beyond(node.at[p[1]], Back(p[2]))
      legal  == SelectSeq(all, LAMBDA p :
                  /\ Beyond(node.at[p[1]], p[2]) \in b.open \ (job.others[node.k] \cup ToSet(node.at))
                  /\ Reaches(flood, Stand(p)))
      To(p)  == MoveTo(h, job, [node EXCEPT !.at[p[1]] = Beyond(@, p[2]), !.tag = p],
                       g + flood.at[Stand(p)] + 1, node.tag, node.at[p[1]])
  IN  [n \in DOMAIN legal |-> To(legal[n])]

(* rebuild: the route to a node, each step back through the tag of the     *)
(* node it was reached from.                                               *)
Previous(job, node, par) ==
  IF node.tag = << >> THEN [node EXCEPT !.k = @ - 1, !.tag = par]
  ELSE [node EXCEPT !.at[node.tag[1]] = Beyond(@, Back(node.tag[2])), !.tag = par]

LegTo(b, job, node, before) ==
  LET d == IF node.tag = << >> THEN job.events[node.k].dir ELSE node.tag[2]
      stand == IF node.tag = << >> THEN job.events[node.k].stand
               ELSE Beyond(before.at[node.tag[1]], Back(d))
  IN  Append(Walk(FloodAt(b, job, before), stand), d)

RECURSIVE Rebuilt(_, _, _)
Rebuilt(b, job, id) ==
  LET node == job.keys[id]
      Over(before) == Rebuilt(b, job, Min(IdsOf(job, before))) \o LegTo(b, job, node, before)
  IN  IF node.k = 0 /\ node.tag = << >> THEN << >>
      ELSE Over(Previous(job, node, job.costs[id].par))

----------------------------------------------------------------------------
(* step: one unit of a job.  First the walk layers, from the last, each    *)
(* with its tail, then the root is queued.                                 *)
Layer(b, job, k) ==
  LET Over(walks) ==
        IF Entry(job, k - 1) \notin DOMAIN walks THEN Failing(job)
        ELSE [job EXCEPT !.walks = (k :> walks) @@ @,
                         !.tails = (k - 1 :> @[k] + walks[Entry(job, k - 1)]) @@ @]
  IN  Over(Flood(b, job.events[k].stand, job.others[k - 1]).at)

Root(h, job) ==
  LET left == Estimated(h, job, 0, job.root, job.player)
  IN  IF left >= Inf THEN Failing(job)
      ELSE Relax(job, [node |-> [k |-> 0, at |-> job.root, tag |-> << >>], g |-> 0, h |-> left,
                       par |-> << >>])

Prepared(b, h, job) ==
  LET Now(next) == IF next.pending = 0 THEN Root(h, next) ELSE Layer(b, next, next.pending)
  IN  Now([job EXCEPT !.pending = @ - 1])

(* Then the pops: the lowest f, of these the lowest h, then the last       *)
(* reached.                                                                *)
Sooner(e, o) ==
  \/ e.f < o.f
  \/ e.f = o.f /\ (e.h < o.h \/ (e.h = o.h /\ e.id >= o.id))

TopOf(job) == CHOOSE e \in job.heap : \A o \in job.heap : Sooner(e, o)

Stale(job, e) == job.costs[e.id].g # e.f - e.h

GoalAt(job, e) ==
  job.keys[e.id].k = Len(job.events) /\ Arrived(job, job.keys[e.id].at)

ExpandedFrom(b, h, job, e) ==
  LET node == job.keys[e.id]
      Over(flood) == FoldLeft(Relax, job, KeptMoves(h, job, node, e.f - e.h, flood)
                                            \o OwnMoves(b, h, job, node, e.f - e.h, flood))
  IN  Over(FloodAt(b, job, node))

Popped(b, h, job, e) ==
  LET rest  == [job EXCEPT !.heap = @ \ {e}]
      spent == [rest EXCEPT !.pops = IF Len(job.freed) = 1 THEN @ ELSE @ - 1]
  IN  IF Stale(job, e) THEN rest
      ELSE IF Len(job.freed) = 2 /\ job.pops = 0 THEN Failing(rest)
      ELSE IF GoalAt(job, e) THEN [spent EXCEPT !.is = "found", !.found = Rebuilt(b, job, e.id)]
      ELSE ExpandedFrom(b, h, spent, e)

JobStep(b, h, job) ==
  IF job.pending > 0 THEN Prepared(b, h, job)
  ELSE IF job.heap = {} THEN Failing(job)
  ELSE Popped(b, h, job, TopOf(job))

----------------------------------------------------------------------------
(* What a job's answer is checked against, by the rules alone: the fewest  *)
(* moves, up to a limit, that make the kept pushes in their order and any  *)
(* of the freed boxes'.                                                    *)
Rescheduled(b, job) ==
  LET own  == ToSet(job.freed)
      Done(s, k) == k = Len(job.events) /\ Arrived(job, [j \in DOMAIN job.freed |-> s.boxes[job.freed[j]]])
      Kept(s, k, p, d) ==
        k < Len(job.events) /\ job.events[k + 1].from = p.state.player /\ job.events[k + 1].dir = d
      Next(s, k, d) ==
        {<<p.state, IF p.pushed \subseteq own THEN k ELSE k + 1>> :
           p \in {q \in Steps(b, s, d) : q.pushed \subseteq own \/ Kept(s, k, q, d)}}
      Wave(r, n) ==
        LET more == UNION {Next(x[1], x[2], d) : x \in r.new, d \in Dirs} \ r.all
        IN  [all |-> r.all \cup more, new |-> more,
             done |-> IF \E x \in more : Done(x[1], x[2]) THEN Smaller(r.done, n) ELSE r.done]
      start == {<<b.start, 0>>}
  IN  FoldLeft(Wave, [all |-> start, new |-> start, done |-> Inf],
               [n \in 1 .. job.bound - 1 |-> n]).done

=============================================================================
