---------------------------- MODULE SearchProofs ----------------------------
(***************************************************************************)
(* Proof that the engine implements, in every mode, the contract of a      *)
(* search (Search): KeepsPromise.  It rests on EngineProofs' invariants    *)
(* and on three of its own: of the route reported, of the counters, and    *)
(* of what the store still holds when a mode that prunes gives up.         *)
(***************************************************************************)
EXTENDS EngineProofs

-----------------------------------------------------------------------------
(* The route reported only gets shorter and is never shorter than the      *)
(* optimum, and once there is one there always is.                         *)

Routed == incumbent # NoId \/ polish # NoPolish

Best == Lesser(Inf, BestMoves)

(* A polish ends as it was told to, of a search that polishes and has a    *)
(* route, and finds nothing shorter than the optimum.                      *)
JobOk ==
  /\ polish.best \in Nat /\ board.opt <= polish.best
  /\ polish.ending \in {"none", "running", "solved", "state_limit", "memory_limit"}
  /\ polish # NoPolish => P.polish
  /\ polish.ending = "running" => incumbent # NoId

PolishedOk == polished \in Nat /\ board.opt <= polished

BestOk == JobOk /\ PolishedOk

(* What a step does to the route.                                          *)
Shortens ==
  /\ Best' \in board.opt .. Best
  /\ Routed \/ Best' < Best => Routed'

(* No record is nearer to the start than a shortest solution leaves room   *)
(* for: take the oldest that is.                                           *)
LEMMA RealAtLeast ==
  ASSUME NEW b \in Boards, NEW a, Sound(b, a), NEW i \in 1 .. Len(a.recs)
  PROVE  a.recs[i].g + b.dist[a.recs[i].st] >= b.opt
<1> DEFINE S == {k \in 1 .. Len(a.recs) : ~(a.recs[k].g + b.dist[a.recs[k].st] >= b.opt)}
<1>1. /\ b.opt = b.dist[Start] /\ Start \in States /\ b.dist[Start] \in Nat
  BY BoardAssumption, ShortestFacts
<1>2. a.recs \in Seq(Records) /\ Len(a.recs) \in Nat
  BY SoundUpward, ArenaFields
<1>3. SUFFICES ASSUME S # {} PROVE FALSE
  OBVIOUS
<1>4. PICK m \in S : \A k \in S : m <= k
  <2>1. S \in SUBSET Nat
    OBVIOUS
  <2> HIDE DEF S
  <2> QED
    BY <1>3, <2>1, LeastNumber
<1>5. /\ m \in 1 .. Len(a.recs) /\ Reached(b, a, a.recs[m]) /\ a.recs[m].par < m
      /\ a.recs[m].st \in States /\ a.recs[m].g \in Nat
  BY <1>2, RecordFields DEF Sound, Real
<1>6. CASE a.recs[m].par = NoId
  BY <1>1, <1>5, <1>6 DEF Reached
<1>7. CASE a.recs[m].par # NoId
  <2>1. PICK p \in 1 .. Len(a.recs) : p = a.recs[m].par /\ Follows(b, a.recs[p], a.recs[m])
    BY Zenon, <1>5, <1>7 DEF Reached
  <2>2. PICK e \in Range1(b.succ[a.recs[p].st]) :
          e.to = a.recs[m].st /\ a.recs[m].g = a.recs[p].g + e.cost
    BY <2>1 DEF Follows
  <2>3. a.recs[p].st \in States /\ a.recs[p].g \in Nat
    BY <1>2, RecordFields
  <2>4. /\ b.dist[a.recs[p].st] \in Nat /\ b.dist[e.to] \in Nat /\ e.cost \in Nat
        /\ b.dist[a.recs[p].st] <= e.cost + b.dist[e.to]
    BY <2>3, ShortestFacts, EdgeFacts
  <2>5. a.recs[p].g + b.dist[a.recs[p].st] >= b.opt
    BY <1>4, <1>5, <2>1
  <2>6. PICK x \in Nat, y \in Nat, g \in Nat, c \in Nat :
          x = b.dist[a.recs[p].st] /\ y = b.dist[e.to] /\ g = a.recs[p].g /\ c = e.cost
    BY <2>3, <2>4
  <2>7. ~(g + c + y >= b.opt)
    <3>1. ~(a.recs[m].g + b.dist[a.recs[m].st] >= b.opt)
      BY <1>4
    <3>2. a.recs[m].g = g + c /\ b.dist[a.recs[m].st] = y
      BY <2>2, <2>6
    <3> QED
      BY <3>1, <3>2
  <2>8. g + x >= b.opt /\ x <= c + y /\ b.opt \in Nat
    BY <1>1, <2>4, <2>5, <2>6
  <2>9. PICK o \in Nat : o = b.opt
    BY <2>8
  <2>10. ~(g + c + y >= o) /\ g + x >= o /\ x <= c + y
    BY <2>7, <2>8, <2>9
  <2> QED
    BY <2>10
<1> QED
  BY <1>6, <1>7

(* So a route is never shorter than the optimum.                           *)
LEMMA MovesAtLeast ==
  ASSUME NEW b \in Boards, NEW a, Sound(b, a), NEW id, SolvedId(a, id)
  PROVE  MovesOf(a, id) \in Nat /\ b.opt <= MovesOf(a, id)
<1>1. /\ b.opt = b.dist[Start] /\ b.dist[Start] \in Nat /\ b.dist[Start] <= Inf
  BY BoardAssumption, ShortestFacts
<1>2. MovesOf(a, id) \in Nat /\ (id # NoId => id \in 1 .. Len(a.recs))
  BY MovesFacts
<1>3. CASE id = NoId
  BY <1>1, <1>2, <1>3 DEF MovesOf
<1>4. CASE id # NoId
  <2>1. a.recs[id].st \in States
    BY <1>2, <1>4, SoundUpward, ArenaFields, RecordFields
  <2>2. b.dist[a.recs[id].st] = 0
    BY <1>4, <2>1, ShortestFacts DEF SolvedId, Solved
  <2>3. a.recs[id].g + b.dist[a.recs[id].st] >= b.opt
    BY <1>2, <1>4, RealAtLeast
  <2> QED
    BY <1>1, <1>2, <1>4, <2>2, <2>3 DEF MovesOf
<1> QED
  BY <1>3, <1>4

LEMMA BestFacts ==
  ASSUME IInv, BestOk
  PROVE  /\ Best \in Nat /\ board.opt \in Nat /\ board.opt <= Best /\ Best <= Inf /\ Inf \in Nat
         /\ IncumbentMoves \in Nat /\ polished \in Nat /\ polish.best \in Nat
<1>1. board \in Boards /\ Sound(board, arena) /\ SolvedId(arena, incumbent)
  BY DEF IInv, Given
<1>2. board.opt \in Nat /\ board.opt <= Inf /\ Inf \in Nat
  BY <1>1, BoardAssumption, ShortestFacts
<1>3. IncumbentMoves \in Nat /\ board.opt <= IncumbentMoves
  BY <1>1, MovesAtLeast DEF IncumbentMoves
<1>4. /\ polished \in Nat /\ board.opt <= polished
      /\ polish.best \in Nat /\ board.opt <= polish.best
  BY DEF BestOk, PolishedOk, JobOk
<1>5. Best = Lesser(Inf, Lesser(polish.best, Lesser(polished, IncumbentMoves)))
  BY DEF Best, BestMoves
<1> QED
  BY <1>2, <1>3, <1>4, <1>5 DEF Lesser

LEMMA BestNext ==
  ASSUME IInv', BestOk', board' = board
  PROVE  /\ Best' \in Nat /\ board.opt <= Best' /\ Best' <= Inf
         /\ IncumbentMoves' \in Nat /\ polished' \in Nat /\ polish'.best \in Nat
<1>1. (IInv /\ BestOk => /\ Best \in Nat /\ board.opt <= Best /\ Best <= Inf
                         /\ IncumbentMoves \in Nat /\ polished \in Nat /\ polish.best \in Nat)'
  BY BestFacts, PTL
<1> QED
  BY <1>1

(* Only the rest of the search moves.                                      *)
LEMMA QuietBest ==
  ASSUME IInv, BestOk, board' = board, policy' = policy, polish' = polish,
         polished' = polished, incumbent' = incumbent,
         incumbent # NoId => arena'.recs[incumbent].g = arena.recs[incumbent].g
  PROVE  Shortens /\ BestOk'
<1>1. IncumbentMoves' = IncumbentMoves
  BY DEF IncumbentMoves, MovesOf
<1>2. Best' = Best /\ Routed' = Routed
  BY <1>1 DEF Best, BestMoves, Routed
<1>3. BestOk'
  BY DEF BestOk, JobOk, PolishedOk, P
<1>4. Best \in board.opt .. Best
  BY BestFacts
<1>5. ~(Best < Best)
  BY BestFacts
<1> QED
  BY <1>2, <1>3, <1>4, <1>5 DEF Shortens

(* The search now has a route of n moves, or has none still.               *)
Landed(n, r) ==
  /\ Lesser(Inf, Lesser(polish'.best, IncumbentMoves')) = Lesser(Inf, n)
  /\ Routed' = r

(* The route it had, or a shorter one, for which an episode's may be       *)
(* dropped.                                                                *)
LEMMA LandedShortens ==
  ASSUME IInv, IInv', BestOk, BestOk', board' = board, polish = NoPolish,
         NEW n \in Nat, NEW r \in BOOLEAN, Landed(n, r),
         \/ polished' = polished /\ n = IncumbentMoves /\ r = (incumbent # NoId)
         \/ /\ polished' = polished \/ polished' = IF polished < n THEN polished ELSE Inf
            /\ r /\ (IncumbentMoves < Inf => n < IncumbentMoves)
  PROVE  Shortens
<1>1. /\ Best \in Nat /\ board.opt \in Nat /\ Best <= Inf /\ Inf \in Nat
      /\ IncumbentMoves \in Nat /\ polished \in Nat
  BY BestFacts
<1>2. /\ Best' \in Nat /\ board.opt <= Best'
      /\ IncumbentMoves' \in Nat /\ polished' \in Nat /\ polish'.best \in Nat
  BY BestNext
<1>3. Best = Lesser(Inf, Lesser(Inf, Lesser(polished, IncumbentMoves)))
  BY DEF Best, BestMoves, NoPolish
<1>4. PICK i \in Nat, o \in Nat, o1 \in Nat, b1 \in Nat, i1 \in Nat, c \in Nat :
        /\ i = IncumbentMoves /\ o = polished /\ o1 = polished' /\ b1 = polish'.best
        /\ i1 = IncumbentMoves' /\ c = Inf
  BY <1>1, <1>2
<1>5. Best' = Lesser(c, Lesser(b1, Lesser(o1, i1)))
  BY <1>4 DEF Best, BestMoves
<1>6. Lesser(c, Lesser(b1, i1)) = Lesser(c, n) /\ Routed' = r
  BY <1>4 DEF Landed
<1>7. Best' = Lesser(c, Lesser(o1, n))
  BY <1>5, <1>6 DEF Lesser
<1>8. Best = Lesser(c, Lesser(o, i))
  BY <1>3, <1>4 DEF Lesser
<1>9. \/ o1 = o /\ n = i /\ r = (incumbent # NoId)
      \/ (o1 = o \/ o1 = IF o < n THEN o ELSE c) /\ r /\ (i < c => n < i)
  BY <1>4
<1>10. Best' <= Best /\ (r \/ Best' = Best)
  BY <1>7, <1>8, <1>9 DEF Lesser
<1>11. Routed = (incumbent # NoId)
  BY DEF Routed
<1>12. r \/ ~Routed
  BY <1>9, <1>11
<1>13. Best' < Best => r
  BY <1>1, <1>10
<1>14. Best' \in board.opt .. Best
  BY <1>1, <1>2, <1>10
<1> QED
  BY <1>6, <1>12, <1>13, <1>14 DEF Shortens

LEMMA EndLands ==
  ASSUME board \in Boards, board' = board, polish = NoPolish,
         NEW st, NEW a, NEW id, NEW p, NEW cut, End(st, a, id, p, cut),
         Sound(board, a), SolvedId(a, id),
         st \in {"solved", "state_limit", "memory_limit"} \/ id = NoId
  PROVE  /\ MovesOf(a, id) \in Nat /\ Landed(MovesOf(a, id), id # NoId) /\ JobOk'
         /\ arena'.recs = a.recs
<1>1. PICK n \in Nat : n = MovesOf(a, id) /\ board.opt <= n
  BY MovesAtLeast
<1>2. policy' = p /\ board.opt \in Nat /\ board.opt <= Inf /\ Inf \in Nat
  BY BoardAssumption, ShortestFacts DEF End
<1>3. CASE Policies[p].polish /\ id # NoId
  <2>1. /\ polish' = [ending |-> st, best |-> n] /\ incumbent' = NoId
        /\ arena' = Release(a)
    BY <1>1, <1>3 DEF End
  <2>2. polish'.best = n /\ polish'.ending = st
    BY <2>1
  <2>8. polish' # NoPolish
    <3>1. NoPolish.ending = "none"
      BY DEF NoPolish
    <3>2. st # "none"
      BY <1>3
    <3> QED
      BY <2>2, <3>1, <3>2
  <2>3. IncumbentMoves' = Inf
    BY <2>1 DEF IncumbentMoves, MovesOf
  <2>4. Routed' = (id # NoId)
    BY <1>3, <2>8 DEF Routed
  <2>5. Lesser(Inf, Lesser(polish'.best, IncumbentMoves')) = Lesser(Inf, n)
    BY <1>2, <2>2, <2>3 DEF Lesser
  <2>9. Landed(n, id # NoId)
    BY <2>4, <2>5 DEF Landed
  <2>6. JobOk'
    BY <1>1, <1>2, <1>3, <2>2, <2>8 DEF JobOk, P
  <2>7. arena'.recs = a.recs
    BY <2>1, ReleaseFacts DEF Sound
  <2> QED
    BY <1>1, <2>6, <2>7, <2>9
<1>4. CASE ~(Policies[p].polish /\ id # NoId)
  <2>1. incumbent' = id /\ arena' = a /\ polish' = NoPolish
    BY <1>4 DEF End
  <2>2. IncumbentMoves' = n /\ polish'.best = Inf /\ polish'.ending = "none"
    BY <1>1, <2>1 DEF IncumbentMoves, NoPolish
  <2>3. Landed(n, id # NoId)
    BY <1>2, <2>1, <2>2 DEF Landed, Routed, Lesser
  <2>4. JobOk'
    BY <1>2, <2>1, <2>2 DEF JobOk
  <2> QED
    BY <1>1, <2>1, <2>3, <2>4
<1> QED
  BY <1>3, <1>4

(* In an arena whose records are those of a, the incumbent's is id's.      *)
LEMMA HeldLands ==
  ASSUME board \in Boards, board' = board, polish = NoPolish, polish' = polish,
         NEW a, NEW id, Sound(board, a), SolvedId(a, id),
         arena'.recs = a.recs, incumbent' = id
  PROVE  MovesOf(a, id) \in Nat /\ Landed(MovesOf(a, id), id # NoId) /\ JobOk'
<1>1. PICK n \in Nat : n = MovesOf(a, id)
  BY MovesAtLeast
<1>2. board.opt \in Nat /\ board.opt <= Inf /\ Inf \in Nat
  BY BoardAssumption, ShortestFacts
<1>3. IncumbentMoves' = n /\ polish'.best = Inf /\ polish'.ending = "none"
  BY <1>1 DEF IncumbentMoves, MovesOf, NoPolish
<1>4. Landed(n, id # NoId)
  BY <1>2, <1>3 DEF Landed, Routed, Lesser
<1>5. JobOk'
  BY <1>2, <1>3 DEF JobOk
<1> QED
  BY <1>1, <1>4, <1>5

LEMMA NextPhaseLands ==
  ASSUME board \in Boards, board' = board, polish = NoPolish, policy \in DOMAIN Policies,
         NEW a, NEW id, NextPhaseOrEnd(a, id), Sound(board, a), SolvedId(a, id)
  PROVE  /\ MovesOf(a, id) \in Nat /\ Landed(MovesOf(a, id), id # NoId) /\ JobOk'
         /\ arena'.recs = a.recs
<1>1. CASE P.next = "none"
  <2>1. End("solved", a, id, policy, interrupted)
    BY <1>1 DEF NextPhaseOrEnd
  <2>2. "solved" \in {"solved", "state_limit", "memory_limit"}
    OBVIOUS
  <2> QED
    BY <2>1, <2>2, EndLands
<1>2. CASE P.next # "none"
  <2>1. arena' = Reweight(a, Policies[P.next].weight) /\ incumbent' = id /\ polish' = polish
    BY <1>2 DEF NextPhaseOrEnd
  <2>2. Policies[P.next].weight \in Nat
    BY <1>2, PolicyFacts DEF P, Sane
  <2>3. arena'.recs = a.recs
    BY <2>1, <2>2, ReweightSound
  <2> QED
    BY <2>1, <2>3, HeldLands
<1> QED
  BY <1>1, <1>2

-----------------------------------------------------------------------------
(* The records, whatever the buffers.                                      *)

(* Arena c has the records of a and a fresh one for node n.                *)
Extends(a, c, n) ==
  LET l == Len(a.recs) IN
  /\ Len(c.recs) = l + 1
  /\ \A i \in 1 .. l : Alike(c.recs[i], a.recs[i]) /\ c.recs[i].closed = a.recs[i].closed
  /\ Alike(c.recs[l + 1], n) /\ ~c.recs[l + 1].closed /\ ~c.recs[l + 1].sup

LEMMA InsertRecords ==
  ASSUME NEW a \in Arenas, a.index \subseteq 1 .. Len(a.recs), NEW n \in Nodes, NEW ok
  PROVE  LET c == Insert(a, n, ok)
         IN  /\ Extends(a, c, n) /\ c.queue = a.queue
             /\ \A i \in 1 .. Len(a.recs) : Kept(c.recs[i], a.recs[i], i, Find(a, n.st))
<1> DEFINE b == Append1(a, n)
           c == Insert(a, n, ok)
           l == Len(a.recs)
<1>1. /\ Len(b.recs) = l + 1
      /\ b.recs[l + 1] = [st |-> n.st, g |-> n.g, h |-> n.h, par |-> n.par,
                          closed |-> FALSE, sup |-> FALSE]
      /\ \A i \in 1 .. l : Kept(b.recs[i], a.recs[i], i, Find(a, n.st))
  BY AppendRecords
<1>2. b.queue = a.queue /\ {"recs", "queue"} \subseteq DOMAIN b
  BY DEF Append1, Arenas
<1> HIDE DEF b
<1>3. \A d : {"recs", "queue"} \subseteq DOMAIN d =>
        /\ GrowTable(d, ok.table).recs = d.recs /\ GrowTable(d, ok.table).queue = d.queue
        /\ {"recs", "queue"} \subseteq DOMAIN GrowTable(d, ok.table)
        /\ GrowChunk(d, ok.chunk).recs = d.recs /\ GrowChunk(d, ok.chunk).queue = d.queue
  BY DEF GrowTable, GrowChunk
<1>4. Grow(b, ok).recs = b.recs /\ Grow(b, ok).queue = b.queue
  BY <1>2, <1>3 DEF Grow
<1>5. c.recs = b.recs /\ c.queue = b.queue
  BY <1>4 DEF Insert, b
<1> HIDE DEF c
<1>6. Alike(b.recs[l + 1], n) /\ ~b.recs[l + 1].closed /\ ~b.recs[l + 1].sup
  BY <1>1 DEF Alike
<1>7. Extends(a, c, n)
  BY <1>1, <1>5, <1>6 DEF Extends, Kept
<1> QED
  BY <1>1, <1>2, <1>5, <1>7 DEF c

(* The start's record, queued if it has an assignment.                     *)
LEMMA SeedRecords ==
  ASSUME board \in Boards, NEW k \in Arenas, k.index = {}, k.queue = {},
         NEW w, NEW h, NEW ok, NEW c, c = Seed(k, w, h, ok)
  PROVE  /\ Extends(k, c, [st |-> Start, g |-> 0, h |-> board.est[Start], par |-> NoId])
         /\ \A i \in 1 .. Len(k.recs) : c.recs[i].sup = k.recs[i].sup
         /\ board.est[Start] # Inf => \E q \in c.queue : q.id = Len(k.recs) + 1
<1> DEFINE n == [st |-> Start, g |-> 0, h |-> board.est[Start], par |-> NoId]
           b == Insert(k, n, ok)
           l == Len(k.recs)
<1>1. n \in Nodes /\ n.st = Start
  BY BoardFacts DEF Nodes, NoId
<1>2. c = IF board.est[Start] = Inf THEN b ELSE Enqueue(b, w * h, h, Len(b.recs))
  BY DEF Seed
<1> HIDE DEF n
<1>3. k.index \subseteq 1 .. l /\ Find(k, n.st) = NoId /\ NoId \notin 1 .. l
  BY DEF Find, NoId, Arenas
<1>4. /\ Extends(k, b, n)
      /\ \A i \in 1 .. l : Kept(b.recs[i], k.recs[i], i, Find(k, n.st))
  BY <1>1, <1>3, InsertRecords
<1>5. \A i \in 1 .. l : b.recs[i].sup = k.recs[i].sup
  <2>1. k.recs \in Seq(Records)
    BY ArenaFields
  <2>2. \A i \in 1 .. l : k.recs[i].sup \in BOOLEAN
    BY <2>1, RecordFields
  <2> QED
    BY <1>3, <1>4, <2>2 DEF Kept
<1> HIDE DEF b
<1>6. Len(b.recs) = l + 1
  BY <1>4 DEF Extends
<1>7. CASE board.est[Start] = Inf
  BY <1>2, <1>4, <1>5, <1>7 DEF n
<1>8. CASE board.est[Start] # Inf
  <2>1. c = Enqueue(b, w * h, h, l + 1)
    BY <1>2, <1>6, <1>8
  <2>2. {"recs", "queue"} \subseteq DOMAIN b
    <3>1. \A d : {"recs", "queue"} \subseteq DOMAIN d =>
            /\ {"recs", "queue"} \subseteq DOMAIN GrowTable(d, ok.table)
            /\ {"recs", "queue"} \subseteq DOMAIN GrowChunk(d, ok.chunk)
      BY DEF GrowTable, GrowChunk
    <3>2. {"recs", "queue"} \subseteq DOMAIN Append1(k, n)
      BY DEF Append1, Arenas
    <3> QED
      BY <3>1, <3>2 DEF b, Insert, Grow
  <2>3. c.recs = b.recs
    BY <2>1, <2>2 DEF Enqueue
  <2>4. [f |-> w * h, h |-> h, id |-> l + 1] \in c.queue
    BY <2>1, <2>2 DEF Enqueue
  <2>5. Extends(k, c, n)
    BY <1>4, <2>3 DEF Extends
  <2>6. \E q \in c.queue : q.id = l + 1
    BY <2>4
  <2> QED
    BY <1>5, <2>3, <2>5, <2>6 DEF n
<1> QED
  BY <1>7, <1>8

(* What an arena has not opened.                                           *)
OpenIds(a) == {i \in 1 .. Len(a.recs) : ~a.recs[i].closed}

LEMMA OpenFinite ==
  ASSUME NEW a, Len(a.recs) \in Nat
  PROVE  /\ IsFiniteSet(OpenIds(a)) /\ Cardinality(OpenIds(a)) \in Nat
         /\ Cardinality(OpenIds(a)) <= Len(a.recs)
<1>1. IsFiniteSet(1 .. Len(a.recs)) /\ Cardinality(1 .. Len(a.recs)) = Len(a.recs)
  BY FS_Interval
<1>2. OpenIds(a) \in SUBSET (1 .. Len(a.recs))
  BY DEF OpenIds
<1> QED
  BY <1>1, <1>2, FS_Subset, FS_CardinalityType

(* A kept path ends with the record it was kept for, and has no more to    *)
(* open than there was.                                                    *)
LEMMA KeptRecords ==
  ASSUME NEW b, NEW a, Sound(b, a), NEW i \in 1 .. Len(a.recs),
         NEW k, k = ClearKeeping(a, i)
  PROVE  /\ k \in Arenas /\ k.index = {} /\ k.queue = {}
         /\ Len(k.recs) = Cardinality(Path(a, i))
         /\ Len(k.recs) \in 1 .. Len(a.recs)
         /\ k.recs[Len(k.recs)].st = a.recs[i].st /\ k.recs[Len(k.recs)].g = a.recs[i].g
         /\ \A j \in 1 .. Len(k.recs) : k.recs[j].sup
         /\ Cardinality(OpenIds(k)) <= Cardinality(OpenIds(a))
<1> DEFINE path == Path(a, i)
           n == Cardinality(path)
           old(j) == Nth(path, j)
<1>1. a \in Arenas /\ Upward(a) /\ Len(a.recs) \in Nat
  BY SoundUpward
<1>2. /\ Consistent(k) /\ n \in Nat \ {0} /\ Len(k.recs) = n
      /\ \A j \in 1 .. n : /\ k.recs[j].st = a.recs[Nth(path, j)].st
                           /\ k.recs[j].g = a.recs[Nth(path, j)].g
                           /\ k.recs[j].sup = TRUE
      /\ k.queue = {} /\ k.index = {}
  <2> DEFINE kk == ClearKeeping(a, i)
  <2>1. /\ Consistent(kk) /\ n \in Nat \ {0}
        /\ kk.queue = {} /\ kk.index = {}
    BY <1>1, KeepFacts
  <2>3. /\ Len(kk.recs) = n
        /\ \A j \in 1 .. n : /\ Nth(path, j) \in path
                             /\ kk.recs[j].st = a.recs[Nth(path, j)].st
                             /\ kk.recs[j].g = a.recs[Nth(path, j)].g
                             /\ kk.recs[j].h = a.recs[Nth(path, j)].h
                             /\ kk.recs[j].par = j - 1
                             /\ kk.recs[j].sup = TRUE
    BY <1>1, KeepFacts
  <2>2. k = kk
    OBVIOUS
  <2> HIDE DEF kk, n, path
  <2> QED
    BY <2>1, <2>2, <2>3
<1>3. n <= Len(a.recs)
  BY <1>1, PathFacts
<1>4. old(n) = i
  BY <1>1, PathChain
<1>5. \A j \in 1 .. n : old(j) \in 1 .. Len(a.recs) /\ Cardinality(Path(a, old(j))) = j
  BY <1>1, PathNth
<1>6. \A j \in 1 .. n : k.recs[j].closed = a.recs[old(j)].closed
  <2> SUFFICES ASSUME NEW j \in 1 .. n PROVE k.recs[j].closed = a.recs[old(j)].closed
    OBVIOUS
  <2>1. a.recs[old(j)] \in Records
    BY <1>1, <1>5, RecordFields, ArenaFields
  <2> DEFINE kept == [m \in 1 .. n |-> [a.recs[old(m)] EXCEPT !.par = m - 1, !.sup = TRUE]]
  <2>2. k.recs = kept
    BY <1>1 DEF ClearKeeping, Arenas
  <2>3. k.recs[j] = [a.recs[old(j)] EXCEPT !.par = j - 1, !.sup = TRUE]
    BY <2>2
  <2> HIDE DEF old, kept
  <2> QED
    BY <2>1, <2>3 DEF Records
<1> HIDE DEF n, old
<1>7. k.recs[n].st = a.recs[i].st /\ k.recs[n].g = a.recs[i].g
  BY <1>2, <1>4 DEF old
<1>8. Cardinality(OpenIds(k)) <= Cardinality(OpenIds(a))
  <2> DEFINE f == [j \in OpenIds(k) |-> old(j)]
  <2>1. f \in [OpenIds(k) -> OpenIds(a)]
    BY <1>2, <1>5, <1>6 DEF OpenIds
  <2>2. \A j, m \in OpenIds(k) : f[j] = f[m] => j = m
    <3> SUFFICES ASSUME NEW j \in OpenIds(k), NEW m \in OpenIds(k), f[j] = f[m] PROVE j = m
      OBVIOUS
    <3>1. j \in 1 .. n /\ m \in 1 .. n /\ old(j) = old(m)
      BY <1>2 DEF OpenIds
    <3> QED
      BY <1>5, <3>1
  <2>3. f \in Injection(OpenIds(k), OpenIds(a))
    BY <2>1, <2>2 DEF Injection, IsInjective
  <2>4. IsFiniteSet(OpenIds(a))
    BY <1>1, OpenFinite
  <2> HIDE DEF f
  <2> QED
    BY <2>3, <2>4, FS_Injection
<1>9. n \in 1 .. Len(a.recs)
  BY <1>1, <1>2, <1>3
<1> QED
  BY <1>2, <1>7, <1>8, <1>9 DEF Consistent, n

(* The same after one more.                                                *)
LEMMA OpenExtends ==
  ASSUME NEW a, NEW c, NEW n, Extends(a, c, n), Len(a.recs) \in Nat
  PROVE  /\ Cardinality(OpenIds(c)) = Cardinality(OpenIds(a)) + 1
         /\ Len(c.recs) = Len(a.recs) + 1
<1> DEFINE l == Len(a.recs)
<1>1. OpenIds(c) = OpenIds(a) \cup {l + 1} /\ l + 1 \notin OpenIds(a)
  BY DEF Extends, OpenIds
<1> QED
  BY ZenonT(60), <1>1, OpenFinite, FS_AddElement DEF Extends

(* Starting over: the kept path, then the start, open and live.            *)
LEMMA StartOverRecords ==
  ASSUME board \in Boards, board' = board, NEW a, Sound(board, a), NEW id, SolvedId(a, id),
         NEW p, StartOver(a, id, p)
  PROVE  /\ id = NoId => incumbent' = NoId
         /\ id # NoId => /\ incumbent' # NoId /\ incumbent' \in 1 .. Len(arena'.recs)
                         /\ arena'.recs[incumbent'].g = a.recs[id].g
         /\ incumbent' \in Nat /\ incumbent' <= Len(a.recs)
         /\ Len(arena'.recs) = incumbent' + 1
         /\ discarded' = discarded + Len(a.recs) - incumbent'
         /\ Cardinality(OpenIds(arena')) <= Cardinality(OpenIds(a)) + 1
         /\ \A i \in 1 .. incumbent' : arena'.recs[i].sup
         /\ arena'.recs[incumbent' + 1].st = Start
         /\ arena'.recs[incumbent' + 1].g = 0
         /\ ~arena'.recs[incumbent' + 1].closed /\ ~arena'.recs[incumbent' + 1].sup
         /\ board.est[Start] # Inf => \E q \in arena'.queue : q.id = incumbent' + 1
         /\ policy' = p /\ ladder' = NoLadder
         /\ UNCHANGED <<status, polish, interrupted, sealed>>
<1>0. PICK k : k = IF id # NoId THEN ClearKeeping(a, id) ELSE Clear(a)
  OBVIOUS
<1>1. PICK ok \in Grant :
        /\ arena' = Seed(k, Policies[p].weight, RootH, ok)
        /\ incumbent' = Len(k.recs)
        /\ discarded' = discarded + Len(a.recs) - Len(k.recs)
        /\ policy' = p /\ ladder' = NoLadder
        /\ UNCHANGED <<status, polish, interrupted, sealed>>
  BY <1>0 DEF StartOver
<1>2. a \in Arenas /\ Len(a.recs) \in Nat
  BY SoundUpward
<1>3. /\ k \in Arenas /\ k.index = {} /\ k.queue = {}
      /\ Len(k.recs) \in Nat /\ Len(k.recs) <= Len(a.recs)
      /\ \A j \in 1 .. Len(k.recs) : k.recs[j].sup
      /\ Cardinality(OpenIds(k)) <= Cardinality(OpenIds(a))
      /\ id = NoId => Len(k.recs) = 0
      /\ id # NoId => Len(k.recs) # 0 /\ k.recs[Len(k.recs)].g = a.recs[id].g
  <2>1. CASE id = NoId
    <3>1. k = Clear(a)
      BY <1>0, <2>1
    <3>2. k \in Arenas /\ Len(k.recs) = 0 /\ k.queue = {} /\ k.index = {}
      BY <1>2, <3>1, ClearFacts DEF Consistent
    <3>3. Cardinality(OpenIds(k)) <= Cardinality(OpenIds(a))
      BY <1>2, <3>2, OpenFinite
    <3> QED
      BY <1>2, <2>1, <3>2, <3>3
  <2>2. CASE id # NoId
    <3>1. k = ClearKeeping(a, id) /\ id \in 1 .. Len(a.recs)
      BY <1>0, <1>2, <2>2 DEF SolvedId, NoId
    <3>2. /\ k \in Arenas /\ k.index = {} /\ k.queue = {}
          /\ Len(k.recs) \in 1 .. Len(a.recs)
          /\ k.recs[Len(k.recs)].g = a.recs[id].g
          /\ \A j \in 1 .. Len(k.recs) : k.recs[j].sup
          /\ Cardinality(OpenIds(k)) <= Cardinality(OpenIds(a))
      BY <3>1, KeptRecords
    <3> QED
      BY <1>2, <2>2, <3>2
  <2> QED
    BY <2>1, <2>2
<1> DEFINE n == [st |-> Start, g |-> 0, h |-> board.est[Start], par |-> NoId]
<1>4. /\ Extends(k, arena', n)
      /\ \A i \in 1 .. Len(k.recs) : arena'.recs[i].sup = k.recs[i].sup
      /\ board.est[Start] # Inf => \E q \in arena'.queue : q.id = Len(k.recs) + 1
  BY <1>1, <1>3, SeedRecords
<1>5. n.st = Start /\ n.g = 0
  OBVIOUS
<1> HIDE DEF n
<1>6. PICK l \in Nat : l = Len(k.recs)
  BY <1>3
<1>7. /\ Len(arena'.recs) = l + 1
      /\ \A i \in 1 .. l : Alike(arena'.recs[i], k.recs[i])
      /\ arena'.recs[l + 1].st = Start /\ arena'.recs[l + 1].g = 0
      /\ ~arena'.recs[l + 1].closed /\ ~arena'.recs[l + 1].sup
  BY <1>4, <1>5, <1>6 DEF Extends, Alike
<1>8. Cardinality(OpenIds(arena')) <= Cardinality(OpenIds(a)) + 1
  <2>1. Cardinality(OpenIds(arena')) = Cardinality(OpenIds(k)) + 1
    BY <1>3, <1>4, OpenExtends
  <2>2. Cardinality(OpenIds(k)) \in Nat /\ Cardinality(OpenIds(a)) \in Nat
    BY <1>2, <1>3, OpenFinite
  <2> QED
    BY <1>3, <2>1, <2>2
<1>9. id # NoId => l \in 1 .. l /\ arena'.recs[l].g = a.recs[id].g
  BY <1>3, <1>6, <1>7 DEF Alike
<1>10. \A i \in 1 .. l : arena'.recs[i].sup
  BY <1>3, <1>4, <1>6
<1>11. /\ id = NoId => incumbent' = NoId
       /\ id # NoId => incumbent' # NoId /\ incumbent' \in 1 .. Len(arena'.recs)
       /\ incumbent' = l
  BY <1>1, <1>3, <1>6, <1>7 DEF NoId
<1> QED
  BY <1>1, <1>3, <1>4, <1>6, <1>7, <1>8, <1>9, <1>10, <1>11

-----------------------------------------------------------------------------
(* Each step shortens the route, or keeps it.                              *)

LEMMA StartLands ==
  ASSUME board \in Boards, board' = board, polish = NoPolish, NEW a, Sound(board, a),
         NEW id, SolvedId(a, id), NEW p, StartOver(a, id, p)
  PROVE  MovesOf(a, id) \in Nat /\ Landed(MovesOf(a, id), id # NoId) /\ JobOk'
<1>1. PICK n \in Nat : n = MovesOf(a, id)
  BY MovesAtLeast
<1>2. /\ id = NoId => incumbent' = NoId
      /\ id # NoId => incumbent' # NoId /\ arena'.recs[incumbent'].g = a.recs[id].g
      /\ polish' = polish
  BY StartOverRecords
<1>3. board.opt \in Nat /\ board.opt <= Inf /\ Inf \in Nat
  BY BoardAssumption, ShortestFacts
<1>4. IncumbentMoves' = n /\ polish' = NoPolish
  BY <1>1, <1>2 DEF IncumbentMoves, MovesOf
<1>5. polish'.best = Inf /\ polish'.ending = "none"
  BY <1>4 DEF NoPolish
<1>6. Lesser(Inf, Lesser(polish'.best, IncumbentMoves')) = Lesser(Inf, n)
  BY <1>3, <1>4, <1>5 DEF Lesser
<1>7. Routed' = (id # NoId)
  BY <1>2, <1>4 DEF Routed
<1>8. JobOk'
  BY <1>3, <1>4, <1>5 DEF JobOk
<1> QED
  BY <1>1, <1>6, <1>7, <1>8 DEF Landed

LEMMA Lands ==
  ASSUME IInv, IInv', BestOk, board' = board, polish = NoPolish,
         NEW n \in Nat, NEW r \in BOOLEAN, Landed(n, r), JobOk',
         \/ polished' = polished /\ n = IncumbentMoves /\ r = (incumbent # NoId)
         \/ /\ polished' = polished \/ polished' = IF polished < n THEN polished ELSE Inf
            /\ r /\ (IncumbentMoves < Inf => n < IncumbentMoves)
  PROVE  Shortens /\ BestOk'
<1>1. polished \in Nat /\ board.opt <= polished /\ board.opt <= Inf /\ Inf \in Nat
  BY BestFacts DEF BestOk, PolishedOk
<1>2. PolishedOk'
  BY <1>1 DEF PolishedOk
<1>3. BestOk'
  BY <1>2 DEF BestOk
<1> QED
  BY <1>3, LandedShortens

(* The incumbent stays.                                                    *)
LEMMA SameLands ==
  ASSUME IInv, IInv', BestOk, board' = board, polish = NoPolish, polished' = polished,
         NEW a, a.recs = arena.recs,
         Landed(MovesOf(a, incumbent), incumbent # NoId), JobOk'
  PROVE  Shortens /\ BestOk'
<1>1. PICK n : n = MovesOf(a, incumbent)
  OBVIOUS
<1>2. n = IncumbentMoves
  BY <1>1 DEF IncumbentMoves, MovesOf
<1>3. n \in Nat
  BY <1>2, BestFacts
<1>4. (incumbent # NoId) \in BOOLEAN
  OBVIOUS
<1>5. PICK r \in BOOLEAN : r = (incumbent # NoId)
  BY <1>4
<1>6. Landed(n, r)
  BY <1>1, <1>5
<1> QED
  BY <1>2, <1>3, <1>5, <1>6, Lands

(* A route of g moves takes its place, shorter than it.                    *)
LEMMA FoundLands ==
  ASSUME IInv, IInv', BestOk, board' = board, polish = NoPolish, NEW g, Schedule(g),
         NEW a, NEW id, id # NoId, g = MovesOf(a, id), g \in Nat,
         IncumbentMoves < Inf => g < IncumbentMoves,
         Landed(MovesOf(a, id), id # NoId), JobOk'
  PROVE  Shortens /\ BestOk'
<1>1. polished' = polished \/ polished' = IF polished < g THEN polished ELSE Inf
  BY DEF Schedule
<1>2. Landed(g, TRUE)
  BY DEF Landed
<1> QED
  BY <1>1, <1>2, Lands

LEMMA EmptyBest == IInv /\ IInv' /\ BestOk /\ PopEmpty => Shortens /\ BestOk'
<1> SUFFICES ASSUME IInv, IInv', BestOk, PopEmpty PROVE Shortens /\ BestOk'
  OBVIOUS
<1>1. PICK st : /\ st = IF incumbent # NoId THEN "solved" ELSE "exhausted"
                /\ End(st, arena, incumbent, policy, interrupted)
  BY DEF PopEmpty
<1>2. polish = NoPolish /\ board' = board /\ polished' = polished
  BY DEF PopEmpty, Ready, KeepSchedule
<1>3. board \in Boards /\ Sound(board, arena) /\ SolvedId(arena, incumbent)
  BY DEF IInv, Given
<1>4. st \in {"solved", "state_limit", "memory_limit"} \/ incumbent = NoId
  BY <1>1
<1>5. Landed(MovesOf(arena, incumbent), incumbent # NoId) /\ JobOk'
  BY <1>1, <1>2, <1>3, <1>4, EndLands
<1> QED
  BY <1>2, <1>5, SameLands

LEMMA SolvedBest == IInv /\ IInv' /\ BestOk /\ PopSolved => Shortens /\ BestOk'
<1> SUFFICES ASSUME IInv, IInv', BestOk, PopSolved PROVE Shortens /\ BestOk'
  OBVIOUS
<1> DEFINE a  == Dequeue(arena)
           g  == arena.recs[Popped.id].g
           id == IF g < IncumbentMoves THEN Popped.id ELSE incumbent
<1>1. /\ Ready /\ arena.queue # {} /\ PoppedSolved /\ board' = board
  BY DEF PopSolved, PoppedLive
<1>2. polish = NoPolish /\ board \in Boards /\ policy \in DOMAIN Policies
  BY <1>1 DEF Ready, IInv, Given
<1>3. Sound(board, a) /\ a.recs = arena.recs
  BY DequeueSound DEF IInv
<1>4. /\ Popped.id \in 1 .. Len(arena.recs) /\ Solved(arena.recs[Popped.id].st)
      /\ Len(arena.recs) \in Nat
  BY <1>1, PoppedFacts, SoundUpward DEF PoppedSolved, IInv
<1>5. SolvedId(a, id)
  <2>1. SolvedId(arena, incumbent)
    BY DEF IInv
  <2> QED
    BY <1>3, <1>4, <2>1 DEF SolvedId
<1>6. Landed(MovesOf(a, id), id # NoId) /\ JobOk'
  <2>1. CASE P.goalPop
    <3>1. NextPhaseOrEnd(a, id)
      BY <2>1 DEF PopSolved
    <3> HIDE DEF a, id
    <3> QED
      BY <1>1, <1>2, <1>3, <1>5, <3>1, NextPhaseLands
  <2>2. CASE ~P.goalPop
    <3>1. arena' = a /\ incumbent' = id /\ polish' = polish
      BY <2>2 DEF PopSolved
    <3> HIDE DEF a, id
    <3> QED
      BY <1>1, <1>2, <1>3, <1>5, <3>1, HeldLands
  <2> QED
    BY <2>1, <2>2
<1>7. CASE g < IncumbentMoves
  <2>1. Schedule(g) /\ id = Popped.id /\ id # NoId
    BY <1>4, <1>7 DEF PopSolved, NoId
  <2>2. g = MovesOf(a, id)
    BY <1>3, <2>1 DEF MovesOf
  <2>3. g \in Nat
    BY <1>4, SoundUpward, ArenaFields, RecordFields DEF IInv
  <2> HIDE DEF a, id, g
  <2> QED
    BY <1>1, <1>2, <1>6, <1>7, <2>1, <2>2, <2>3, FoundLands
<1>8. CASE ~(g < IncumbentMoves)
  <2>1. polished' = polished /\ id = incumbent
    BY <1>8 DEF PopSolved, KeepSchedule
  <2> HIDE DEF a, id, g
  <2> QED
    BY <1>1, <1>2, <1>3, <1>6, <2>1, SameLands
<1> QED
  BY <1>7, <1>8

(* A stored child that is solved is a shorter route.                       *)
LEMMA ChildShorter ==
  ASSUME IInv, BestOk, Expanding, cur.todo # << >>, Admitted
  PROVE  /\ Child.g \in Nat
         /\ IncumbentMoves < Inf => Child.g < IncumbentMoves
<1>1. Child.g \in Nat /\ ChildH \in Nat
  BY PushFacts DEF Nodes
<1>2. IncumbentMoves < Inf => Child.g + ChildH < IncumbentMoves
  BY DEF Admitted
<1>3. IncumbentMoves \in Nat
  BY BestFacts
<1>4. PICK x \in Nat, y \in Nat, m \in Nat : x = Child.g /\ y = ChildH /\ m = IncumbentMoves
  BY <1>1, <1>3
<1>5. m < Inf => x + y < m
  BY <1>2, <1>4
<1>6. m < Inf => x < m
  BY <1>4, <1>5
<1> QED
  BY <1>4, <1>6

(* The table of an arena that can grow binds what is live.                 *)
LEMMA GrowsIndex ==
  ASSUME NEW b, NEW a, Sound(b, a), Grows(a), ~a.starved
  PROVE  /\ a \in Arenas /\ a.index = Live(a) /\ a.index \subseteq 1 .. Len(a.recs)
         /\ OneLive(a)
BY DEF Sound, Consistent, Bound, Grows, Live

LEMMA StoredBest == IInv /\ IInv' /\ BestOk /\ PushStored => Shortens /\ BestOk'
<1> SUFFICES ASSUME IInv, IInv', BestOk, PushStored PROVE Shortens /\ BestOk'
  OBVIOUS
<1> DEFINE handsOver == IsGoal /\ P.goalPush
           l == Len(arena.recs)
           best == IF IsGoal THEN l + 1 ELSE incumbent
           p == IF handsOver THEN P.next ELSE policy
           c(ok) == Enqueue(Insert(arena, Child, ok), Child.g + P.weight * ChildH, ChildH, l + 1)
<1>1. PICK ok \in Grant :
        /\ IF handsOver /\ P.next = "none"
           THEN NextPhaseOrEnd(c(ok), best)
           ELSE IF c(ok).starved
           THEN StopAtLimit(IF handsOver THEN Reweight(c(ok), Policies[p].weight) ELSE c(ok),
                            best, p, LimitF)
           ELSE /\ cur' = Tried
                /\ IF handsOver THEN NextPhaseOrEnd(c(ok), best)
                   ELSE /\ arena' = c(ok) /\ incumbent' = best
                        /\ UNCHANGED <<ladder, policy, status, interrupted, staging,
                                       polish, sealed>>
  BY DEF PushStored
<1>2. PICK b : b = c(ok)
  OBVIOUS
<1>3. /\ Expanding /\ cur.todo # << >> /\ ~IsFull(arena) /\ board' = board /\ Admitted
      /\ IF IsGoal THEN Schedule(Child.g) ELSE KeepSchedule
  BY DEF PushStored, ToStore
<1>4. /\ polish = NoPolish /\ l \in Nat /\ board \in Boards /\ policy \in DOMAIN Policies
      /\ Sane(policy, P)
  BY <1>3, PushFacts, PolicyFacts DEF IInv, Given, P
<1>5. ok \in Grants
  BY EngineAssumption
<1>6. /\ Sound(board, b) /\ Len(b.recs) = l + 1
      /\ \A i \in 1 .. l : Alike(b.recs[i], arena.recs[i])
      /\ b.recs[l + 1].st = Child.st
  BY <1>2, <1>3, <1>5, StoredSound
<1>7. SolvedId(b, best)
  <2>1. CASE IsGoal
    BY <1>4, <1>6, <2>1 DEF SolvedId, IsGoal
  <2>2. CASE ~IsGoal
    BY <1>4, <1>6, <2>2, SolvedOn DEF IInv
  <2> QED
    BY <2>1, <2>2
<1>8. b.recs[l + 1].g = Child.g
  <2>1. Child \in Nodes /\ arena \in Arenas /\ arena.index \subseteq 1 .. l
    <3>1. Child \in Nodes /\ Grows(arena) /\ ~arena.starved
      BY <1>3, PushFacts
    <3> QED
      BY <3>1, GrowsIndex DEF IInv
  <2>2. PICK d : d = Insert(arena, Child, ok)
    OBVIOUS
  <2>3. Extends(arena, d, Child)
    BY <2>1, <2>2, InsertRecords
  <2>4. b.recs = d.recs
    <3>1. d \in Arenas
      <4>1. Grows(arena) /\ Sound(board, arena) /\ Reached(board, arena, Child)
        BY <1>3, PushFacts DEF IInv
      <4>2. Sound(board, d)
        BY <1>3, <1>5, <2>1, <2>2, <4>1, StoreSound
      <4> QED
        BY <4>2, SoundUpward
    <3> QED
      BY <1>2, <2>2, <3>1 DEF Enqueue, Arenas
  <2> QED
    BY <2>3, <2>4 DEF Extends, Alike
<1> HIDE DEF c
<1>9. Landed(MovesOf(b, best), best # NoId) /\ JobOk'
  <2>1. CASE handsOver /\ (P.next = "none" \/ ~b.starved)
    <3>1. NextPhaseOrEnd(b, best)
      BY <1>1, <1>2, <2>1
    <3> HIDE DEF best
    <3> QED
      BY <1>3, <1>4, <1>6, <1>7, <3>1, NextPhaseLands
  <2>2. CASE b.starved /\ ~(handsOver /\ P.next = "none")
    <3>1. PICK d : d = IF handsOver THEN Reweight(b, Policies[p].weight) ELSE b
      OBVIOUS
    <3>2. End(LimitStatus(d), d, best, p, LimitF)
      BY <1>1, <1>2, <2>2, <3>1 DEF StopAtLimit
    <3>3. Sound(board, d) /\ d.recs = b.recs
      <4>1. CASE handsOver
        <5>1. p \in DOMAIN Policies
          BY <1>4, <2>2, <4>1 DEF Sane
        <5>2. Policies[p].weight \in Nat
          BY <5>1, PolicyFacts DEF Sane
        <5> QED
          BY <1>6, <3>1, <4>1, <5>2, ReweightSound
      <4>2. CASE ~handsOver
        BY <1>6, <3>1, <4>2
      <4> QED
        BY <4>1, <4>2
    <3>4. SolvedId(d, best)
      BY <1>7, <3>3 DEF SolvedId
    <3>5. LimitStatus(d) \in {"solved", "state_limit", "memory_limit"}
      BY DEF LimitStatus
    <3>6. MovesOf(d, best) = MovesOf(b, best)
      BY <3>3 DEF MovesOf
    <3> HIDE DEF best, p
    <3>7. Landed(MovesOf(d, best), best # NoId) /\ JobOk'
      BY <1>3, <1>4, <3>2, <3>3, <3>4, <3>5, EndLands
    <3> QED
      BY <3>6, <3>7
  <2>3. CASE ~b.starved /\ ~handsOver
    <3>1. arena' = b /\ incumbent' = best /\ polish' = polish
      BY <1>1, <1>2, <2>3
    <3> HIDE DEF best
    <3> QED
      BY <1>3, <1>4, <1>6, <1>7, <3>1, HeldLands
  <2> QED
    BY <2>1, <2>2, <2>3
<1>10. CASE IsGoal
  <2>1. Schedule(Child.g) /\ best # NoId /\ MovesOf(b, best) = Child.g
    BY <1>3, <1>4, <1>8, <1>10 DEF MovesOf, NoId
  <2>2. Child.g \in Nat /\ (IncumbentMoves < Inf => Child.g < IncumbentMoves)
    BY <1>3, ChildShorter
  <2>3. PICK g : g = Child.g
    OBVIOUS
  <2> HIDE DEF best
  <2> QED
    BY <1>3, <1>4, <1>9, <2>1, <2>2, <2>3, FoundLands
<1>11. CASE ~IsGoal
  <2>1. polished' = polished /\ best = incumbent
    BY <1>3, <1>11 DEF KeepSchedule
  <2>2. PICK d : d = arena
    OBVIOUS
  <2>3. MovesOf(b, incumbent) = MovesOf(d, incumbent)
    <3>1. incumbent # NoId => incumbent \in 1 .. l
      BY <1>4 DEF IInv, SolvedId, NoId
    <3> QED
      BY <1>6, <2>2, <3>1 DEF MovesOf, Alike
  <2>4. Landed(MovesOf(d, incumbent), incumbent # NoId)
    BY <1>9, <2>1, <2>3
  <2> QED
    BY <1>3, <1>4, <1>9, <2>1, <2>2, <2>4, SameLands
<1> QED
  BY <1>10, <1>11

LEMMA AtLimitBest == IInv /\ IInv' /\ BestOk /\ PushAtLimit => Shortens /\ BestOk'
<1> SUFFICES ASSUME IInv, IInv', BestOk, PushAtLimit PROVE Shortens /\ BestOk'
  OBVIOUS
<1> DEFINE l == Len(arena.recs)
<1>1. PICK ok \in Grant :
        LET a  == IF IsGoal THEN Insert(arena, Child, ok) ELSE arena
            id == IF IsGoal THEN Len(a.recs) ELSE incumbent
        IN  IF MayStartOver(a, id, P.restart)
            THEN StartOver(a, id, P.restart)
            ELSE StopAtLimit(a, id, policy, LimitF)
  BY DEF PushAtLimit
<1>2. PICK a : a = IF IsGoal THEN Insert(arena, Child, ok) ELSE arena
  OBVIOUS
<1>3. PICK id : id = IF IsGoal THEN Len(a.recs) ELSE incumbent
  OBVIOUS
<1>4. /\ Expanding /\ cur.todo # << >> /\ IsFull(arena) /\ board' = board /\ Admitted
      /\ IF IsGoal THEN Schedule(Child.g) ELSE KeepSchedule
  BY DEF PushAtLimit, ToStore
<1>5. /\ polish = NoPolish /\ l \in Nat /\ board \in Boards
      /\ Grows(arena) /\ ~arena.starved /\ Child \in Nodes /\ Reached(board, arena, Child)
      /\ Sound(board, arena) /\ SolvedId(arena, incumbent)
  BY <1>4, PushFacts DEF IInv, Given
<1>6. Sound(board, a) /\ SolvedId(a, id) /\ (IsGoal => id # NoId /\ MovesOf(a, id) = Child.g)
  <2>1. CASE IsGoal
    <3>1. a = Insert(arena, Child, ok) /\ id = Len(a.recs) /\ ok \in Grants
      BY <1>2, <1>3, <2>1, EngineAssumption
    <3>2. /\ Sound(board, a) /\ Len(a.recs) = l + 1 /\ Alike(a.recs[l + 1], Child)
      BY <1>4, <1>5, <3>1, SpareSound
    <3> QED
      BY <1>5, <2>1, <3>1, <3>2 DEF SolvedId, IsGoal, Alike, MovesOf, NoId
  <2>2. CASE ~IsGoal
    BY <1>2, <1>3, <1>5, <2>2
  <2> QED
    BY <2>1, <2>2
<1>7. Landed(MovesOf(a, id), id # NoId) /\ JobOk'
  <2>1. CASE MayStartOver(a, id, P.restart)
    <3>1. StartOver(a, id, P.restart)
      BY <1>1, <1>2, <1>3, <2>1
    <3> QED
      BY <1>4, <1>5, <1>6, <3>1, StartLands
  <2>2. CASE ~MayStartOver(a, id, P.restart)
    <3>1. End(LimitStatus(a), a, id, policy, LimitF)
      BY <1>1, <1>2, <1>3, <2>2 DEF StopAtLimit
    <3>2. LimitStatus(a) \in {"solved", "state_limit", "memory_limit"}
      BY DEF LimitStatus
    <3> QED
      BY <1>4, <1>5, <1>6, <3>1, <3>2, EndLands
  <2> QED
    BY <2>1, <2>2
<1>8. CASE IsGoal
  <2>1. Schedule(Child.g) /\ id # NoId /\ MovesOf(a, id) = Child.g
    BY <1>4, <1>6, <1>8
  <2>2. Child.g \in Nat /\ (IncumbentMoves < Inf => Child.g < IncumbentMoves)
    BY <1>4, ChildShorter
  <2>3. PICK g : g = Child.g
    OBVIOUS
  <2> QED
    BY <1>4, <1>5, <1>7, <2>1, <2>2, <2>3, FoundLands
<1>9. CASE ~IsGoal
  <2>1. polished' = polished /\ id = incumbent /\ a = arena
    BY <1>2, <1>3, <1>4, <1>9 DEF KeepSchedule
  <2> QED
    BY <1>4, <1>5, <1>7, <2>1, SameLands
<1> QED
  BY <1>8, <1>9

LEMMA StageSolvedBest == IInv /\ IInv' /\ BestOk /\ StageSolved => Shortens /\ BestOk'
<1> SUFFICES ASSUME IInv, IInv', BestOk, StageSolved PROVE Shortens /\ BestOk'
  OBVIOUS
<1>1. ladder.phase = "solved" /\ board' = board
  BY DEF StageSolved
<1>2. PICK id : id = ladder.at
  OBVIOUS
<1>3. /\ polish = NoPolish /\ Sound(board, arena) /\ Len(arena.recs) \in Nat
      /\ policy \in DOMAIN Policies /\ Sane(policy, P) /\ board \in Boards
  BY <1>1, EndedFacts DEF IInv, Given
<1>4. /\ SolvedId(arena, id) /\ id \in 1 .. Len(arena.recs) /\ id # NoId
  BY <1>1, <1>2, RouteShort DEF NoId
<1>5. incumbent = NoId /\ IncumbentMoves = Inf
  BY <1>1, EmptyValues DEF IInv, LadderOk, IncumbentMoves, MovesOf
<1>6. Inf \in Nat /\ ~(IncumbentMoves < Inf)
  BY <1>5, BoardAssumption
<1>7. Landed(MovesOf(arena, id), id # NoId) /\ JobOk'
  <2>1. CASE ~arena.starved /\ MayStartOver(arena, id, P.restart)
    <3>1. StartOver(arena, id, P.restart)
      BY <1>2, <2>1 DEF StageSolved
    <3> QED
      BY <1>1, <1>3, <1>4, <3>1, StartLands
  <2>2. CASE ~(~arena.starved /\ MayStartOver(arena, id, P.restart)) /\ P.next = "none"
    <3>1. End("solved", arena, id, policy, interrupted)
      BY <1>2, <2>2 DEF StageSolved
    <3>2. "solved" \in {"solved", "state_limit", "memory_limit"}
      OBVIOUS
    <3> QED
      BY <1>1, <1>3, <1>4, <3>1, <3>2, EndLands
  <2>3. CASE ~(~arena.starved /\ MayStartOver(arena, id, P.restart)) /\ P.next # "none"
    <3>1. PICK a : a = Reweight(arena, Policies[P.next].weight)
      OBVIOUS
    <3>2. IF arena.starved
          THEN StopAtLimit(a, id, P.next, staging.trigger)
          ELSE arena' = a /\ incumbent' = id /\ polish' = polish
      BY <1>2, <2>3, <3>1 DEF StageSolved
    <3>3. Policies[P.next].weight \in Nat
      BY <1>3, <2>3, PolicyFacts DEF Sane
    <3>4. Sound(board, a) /\ a.recs = arena.recs
      BY <1>3, <3>1, <3>3, ReweightSound
    <3>5. SolvedId(a, id) /\ MovesOf(a, id) = MovesOf(arena, id)
      BY <1>4, <3>4 DEF SolvedId, MovesOf
    <3>6. CASE arena.starved
      <4>1. End(LimitStatus(a), a, id, P.next, staging.trigger)
        BY <3>2, <3>6 DEF StopAtLimit
      <4>2. LimitStatus(a) \in {"solved", "state_limit", "memory_limit"}
        BY DEF LimitStatus
      <4>3. Landed(MovesOf(a, id), id # NoId) /\ JobOk'
        BY <1>1, <1>3, <3>4, <3>5, <4>1, <4>2, EndLands
      <4> QED
        BY <3>5, <4>3
    <3>7. CASE ~arena.starved
      <4>1. arena' = a /\ incumbent' = id /\ polish' = polish
        BY <3>2, <3>7
      <4>2. Landed(MovesOf(a, id), id # NoId) /\ JobOk'
        BY <1>1, <1>3, <3>4, <3>5, <4>1, HeldLands
      <4> QED
        BY <3>5, <4>2
    <3> QED
      BY <3>6, <3>7
  <2> QED
    BY <2>1, <2>2, <2>3
<1>8. PICK g : g = arena.recs[id].g
  OBVIOUS
<1>9. Schedule(g) /\ g = MovesOf(arena, id) /\ g \in Nat
  <2>1. g \in Nat
    BY <1>3, <1>4, <1>8, SoundUpward, ArenaFields, RecordFields
  <2> QED
    BY <1>2, <1>4, <1>8, <2>1 DEF StageSolved, MovesOf
<1> QED
  BY <1>1, <1>3, <1>4, <1>6, <1>7, <1>9, FoundLands

LEMMA GaveUpBest == IInv /\ IInv' /\ BestOk /\ StageGaveUp => Shortens /\ BestOk'
<1> SUFFICES ASSUME IInv, IInv', BestOk, StageGaveUp PROVE Shortens /\ BestOk'
  OBVIOUS
<1>1. ladder.phase = "gaveup" /\ board' = board /\ polished' = polished
  BY DEF StageGaveUp, KeepSchedule
<1>2. /\ polish = NoPolish /\ Sound(board, arena) /\ board \in Boards
  BY <1>1, EndedFacts DEF IInv, Given
<1>3. incumbent = NoId /\ SolvedId(arena, incumbent)
  BY <1>1, EmptyValues DEF IInv, LadderOk
<1>4. Landed(MovesOf(arena, incumbent), incumbent # NoId) /\ JobOk'
  <2>1. CASE \E p : StartOver(arena, NoId, p)
    <3>1. PICK p : StartOver(arena, incumbent, p)
      BY <1>3, <2>1
    <3> QED
      BY <1>1, <1>2, <1>3, <3>1, StartLands
  <2>2. CASE ~ \E p : StartOver(arena, NoId, p)
    <3>1. PICK st, cut : End(st, arena, incumbent, policy, cut)
      BY <1>3, <2>2 DEF StageGaveUp, StopAtLimit
    <3> QED
      BY <1>1, <1>2, <1>3, <3>1, EndLands
  <2> QED
    BY <2>1, <2>2
<1> QED
  BY <1>1, <1>2, <1>4, SameLands

(* An episode begins from the incumbent.                                   *)
LEMMA FinishBest == IInv /\ IInv' /\ BestOk /\ FinishExpansion => Shortens /\ BestOk'
<1> SUFFICES ASSUME IInv, IInv', BestOk, FinishExpansion PROVE Shortens /\ BestOk'
  OBVIOUS
<1>1. /\ Expanding /\ UNCHANGED <<board, policy, incumbent, polished>>
      /\ \/ polish' = polish
         \/ P.polish /\ incumbent # NoId
            /\ polish' = [ending |-> "running", best |-> IncumbentMoves]
      /\ arena' = arena \/ \E f, h : arena' = Enqueue(arena, f, h, cur.id)
  BY DEF FinishExpansion
<1>2. arena \in Arenas /\ polish = NoPolish
  BY <1>1, SoundUpward, LadderRuns DEF IInv, Expanding
<1>3. arena'.recs = arena.recs
  BY <1>1, <1>2 DEF Enqueue, Arenas
<1>4. CASE polish' = polish
  BY <1>1, <1>3, <1>4, QuietBest
<1>5. CASE /\ P.polish /\ incumbent # NoId
           /\ polish' = [ending |-> "running", best |-> IncumbentMoves]
  <2>1. IncumbentMoves' = IncumbentMoves
    BY <1>1, <1>3 DEF IncumbentMoves, MovesOf
  <2>2. /\ Best \in Nat /\ board.opt \in Nat /\ board.opt <= Best
        /\ IncumbentMoves \in Nat /\ polished \in Nat /\ Inf \in Nat
    BY BestFacts
  <2>3. board.opt <= IncumbentMoves
    BY MovesAtLeast DEF IInv, Given, IncumbentMoves
  <2>4. polish'.best = IncumbentMoves /\ polish'.ending = "running" /\ polish.best = Inf
    BY <1>2, <1>5 DEF NoPolish
  <2>5. Best' = Best
    <3>1. PICK m \in Nat, o \in Nat, c \in Nat : m = IncumbentMoves /\ o = polished /\ c = Inf
      BY <2>2
    <3>2. Best = Lesser(c, Lesser(c, Lesser(o, m))) /\ Best' = Lesser(c, Lesser(m, Lesser(o, m)))
      BY <1>1, <2>1, <2>4, <3>1 DEF Best, BestMoves
    <3> QED
      BY <3>1, <3>2 DEF Lesser
  <2>6. Routed'
    BY <1>1, <1>5 DEF Routed
  <2>7. BestOk'
    <3>1. JobOk'
      BY <1>1, <1>5, <2>2, <2>3, <2>4 DEF JobOk, P
    <3>2. PolishedOk'
      BY <1>1 DEF BestOk, PolishedOk
    <3> QED
      BY <3>1, <3>2 DEF BestOk
  <2>8. Best' \in board.opt .. Best
    BY <2>2, <2>5
  <2> QED
    BY <2>6, <2>7, <2>8 DEF Shortens
<1> QED
  BY <1>1, <1>4, <1>5

(* What a polish finds, and what is kept of it.                            *)
LEMMA PolishUnitBest == IInv /\ IInv' /\ BestOk /\ PolishUnit => Shortens /\ BestOk'
<1> SUFFICES ASSUME IInv, IInv', BestOk, PolishUnit PROVE Shortens /\ BestOk'
  OBVIOUS
<1>1. PICK n \in board.opt .. polish.best - 1 : polish' = [polish EXCEPT !.best = n]
  BY DEF PolishUnit
<1>2. polish # NoPolish /\ UNCHANGED <<arena, board, policy, incumbent, polished>>
  BY DEF PolishUnit, Polishing
<1>3. /\ Best \in Nat /\ board.opt \in Nat /\ board.opt <= Best /\ Inf \in Nat
      /\ IncumbentMoves \in Nat /\ polished \in Nat /\ polish.best \in Nat
  BY BestFacts
<1>4. /\ polish = [ending |-> polish.ending, best |-> polish.best]
      /\ polish.ending = "none" => polish = NoPolish
  BY DEF IInv, PolishOk
<1>5. /\ polish'.ending = polish.ending /\ polish'.best = n /\ polish' # NoPolish
      /\ n \in Nat /\ board.opt <= n /\ n < polish.best
  <2>1. polish' = [ending |-> polish.ending, best |-> n]
    BY <1>1, <1>4
  <2>2. NoPolish.ending = "none"
    BY DEF NoPolish
  <2>3. n \in Nat /\ board.opt <= n /\ n < polish.best
    BY <1>1, <1>3
  <2> QED
    BY <1>2, <1>4, <2>1, <2>2, <2>3
<1>6. JobOk' /\ PolishedOk'
  BY <1>2, <1>5 DEF BestOk, JobOk, PolishedOk, P
<1>7. IncumbentMoves' = IncumbentMoves
  BY <1>2 DEF IncumbentMoves, MovesOf
<1>8. Best' <= Best
  <2>1. PICK m \in Nat, o \in Nat, c \in Nat, b \in Nat :
          m = IncumbentMoves /\ o = polished /\ c = Inf /\ b = polish.best
    BY <1>3
  <2>2. /\ Best = Lesser(c, Lesser(b, Lesser(o, m)))
        /\ Best' = Lesser(c, Lesser(n, Lesser(o, m)))
        /\ n \in Nat /\ n < b
    BY <1>2, <1>5, <1>7, <2>1 DEF Best, BestMoves
  <2> QED
    BY <2>1, <2>2 DEF Lesser
<1>9. BestOk'
  BY <1>6 DEF BestOk
<1>10. Best' \in Nat /\ board.opt <= Best'
  BY <1>2, <1>9, BestNext
<1>11. Routed'
  BY <1>5 DEF Routed
<1> QED
  BY <1>3, <1>8, <1>9, <1>10, <1>11 DEF Shortens

LEMMA PolishDoneBest == IInv /\ IInv' /\ BestOk /\ PolishDone => Shortens /\ BestOk'
<1> SUFFICES ASSUME IInv, IInv', BestOk, PolishDone PROVE Shortens /\ BestOk'
  OBVIOUS
<1>1. UNCHANGED <<arena, board, policy, incumbent>>
  BY DEF PolishDone
<1>2. CASE polish.ending # "running"
  <2>1. polish' = polish /\ polished' = polished
    BY <1>2 DEF PolishDone
  <2> QED
    BY <1>1, <2>1, QuietBest
<1>3. CASE polish.ending = "running"
  <2>1. /\ polish' = NoPolish
        /\ polished' = IF polish.best < Lesser(polished, IncumbentMoves) THEN polish.best
                       ELSE polished
    BY <1>3 DEF PolishDone
  <2>2. /\ Best \in Nat /\ board.opt \in Nat /\ board.opt <= Best /\ Inf \in Nat
        /\ IncumbentMoves \in Nat /\ polished \in Nat /\ polish.best \in Nat
        /\ board.opt <= Inf
    BY BestFacts
  <2>3. board.opt <= polish.best /\ board.opt <= polished /\ incumbent # NoId
    BY <1>3 DEF BestOk, JobOk, PolishedOk
  <2>4. polish'.best = Inf /\ polish'.ending = "none"
    BY <2>1 DEF NoPolish
  <2>5. JobOk'
    BY <1>1, <2>1, <2>2, <2>4 DEF JobOk
  <2>6. PolishedOk'
    BY <1>1, <2>1, <2>2, <2>3 DEF PolishedOk
  <2>7. IncumbentMoves' = IncumbentMoves
    BY <1>1 DEF IncumbentMoves, MovesOf
  <2>8. Best' = Best
    <3>1. PICK m \in Nat, o \in Nat, c \in Nat, b \in Nat :
            m = IncumbentMoves /\ o = polished /\ c = Inf /\ b = polish.best
      BY <2>2
    <3>2. PICK o1 : o1 = polished' /\ o1 = IF b < Lesser(o, m) THEN b ELSE o
      BY <2>1, <3>1
    <3>3. /\ Best = Lesser(c, Lesser(b, Lesser(o, m)))
          /\ Best' = Lesser(c, Lesser(c, Lesser(o1, m)))
      BY <2>4, <2>7, <3>1, <3>2 DEF Best, BestMoves
    <3> QED
      BY <3>1, <3>2, <3>3 DEF Lesser
  <2>9. Routed'
    BY <1>1, <2>3 DEF Routed
  <2>10. BestOk'
    BY <2>5, <2>6 DEF BestOk
  <2>11. Best' \in board.opt .. Best
    BY <2>2, <2>8
  <2> QED
    BY <2>9, <2>10, <2>11 DEF Shortens
<1> QED
  BY <1>2, <1>3

(* A ladder runs in a search without a route.                              *)
LEMMA LadderRouteless ==
  ASSUME IInv, ladder # NoLadder
  PROVE  incumbent = NoId
BY DEF IInv, LadderOk

LEMMA UnitLadder ==
  ASSUME LadderUnit
  PROVE  ladder # NoLadder
<1>1. ladder.phase \in {"select", "search", "accept", "commit", "fail"}
  BY Zenon DEF LadderUnit, OutOfChecks, SelectUnit, SearchPop, SearchSkip, SearchChild, SearchDone,
     AcceptUnit, Commit, FailUnit, Unit
<1>2. NoLadder.phase = "none"
  BY EmptyValues
<1> QED
  BY Zenon, <1>1, <1>2

LEMMA StageBest ==
  IInv /\ IInv' /\ BestOk /\ (StageUnit \/ StageEarly \/ StageFull) => Shortens /\ BestOk'
<1> SUFFICES ASSUME IInv, IInv', BestOk, StageUnit \/ StageEarly \/ StageFull
             PROVE Shortens /\ BestOk'
  OBVIOUS
<1>1. CASE StageUnit
  <2>1. /\ incumbent = NoId
        /\ UNCHANGED <<board, policy, polish, polished, incumbent>>
    BY <1>1, UnitLadder, LadderRouteless DEF StageUnit, Rest
  <2> QED
    BY <2>1, QuietBest
<1>2. CASE StageEarly \/ StageFull
  <2>1. StartStaging
    BY <1>2 DEF StageEarly, StageFull
  <2>2. UNCHANGED <<board, policy, polish, polished, incumbent>> /\ ladder'.phase = "select"
    BY <2>1 DEF StartStaging, KeepSchedule, Begin
  <2>3. (IInv /\ ladder # NoLadder => incumbent = NoId)'
    BY LadderRouteless, PTL
  <2>4. ladder' # NoLadder
    BY <2>2, EmptyValues
  <2>5. incumbent = NoId
    BY <2>2, <2>3, <2>4
  <2> QED
    BY <2>2, <2>5, QuietBest
<1> QED
  BY <1>1, <1>2

LEMMA BuildRecords ==
  ASSUME IInv, BuildDone
  PROVE  arena'.recs = arena.recs
<1>1. arena \in Arenas
  BY SoundUpward DEF IInv
<1>2. CASE arena' = arena
  BY <1>2
<1>3. CASE arena' # arena
  <2>1. PICK limit, a, f, h, i :
          /\ a = Dequeue(Recharge(arena, limit))
          /\ arena' = a \/ arena' = Enqueue(a, f, h, i)
    BY <1>3 DEF BuildDone
  <2>2. {"recs", "queue"} \subseteq DOMAIN a /\ a.recs = arena.recs
    BY <1>1, <2>1 DEF Recharge, Dequeue, Arenas
  <2> QED
    BY <2>1, <2>2 DEF Enqueue
<1> QED
  BY <1>2, <1>3

(* The rest leaves the route alone.                                        *)
LEMMA RestBest ==
  ASSUME IInv, IInv', BestOk,
         \/ PopStale \/ PopPruned \/ PopExpand \/ PushDropped \/ BuildDone \/ WalkDone
         \/ \E reason \in {"time_limit", "cancelled"} : Stop(reason)
         \/ UNCHANGED vars
  PROVE  Shortens /\ BestOk'
<1>1. UNCHANGED <<board, policy, polish, polished, incumbent>>
  BY DEF PopStale, PopPruned, PopExpand, PushDropped, BuildDone, WalkDone, Stop, vars
<1>2. incumbent # NoId => incumbent \in 1 .. Len(arena.recs)
  <2>1. Len(arena.recs) \in Nat /\ SolvedId(arena, incumbent)
    BY SoundUpward DEF IInv
  <2> QED
    BY <2>1 DEF SolvedId, NoId
<1>3. \A i \in 1 .. Len(arena.recs) : arena'.recs[i].g = arena.recs[i].g
  <2>1. CASE PopStale \/ PopPruned
    <3>1. arena'.recs = arena.recs
      BY <2>1, DequeueSound DEF PopStale, PopPruned, IInv
    <3> QED
      BY <3>1
  <2>2. CASE PopExpand
    <3>1. arena' = Close(Dequeue(arena), Popped.id) /\ Popped.id \in 1 .. Len(arena.recs)
      BY <2>2, PoppedFacts DEF PopExpand, PoppedLive, Opened
    <3>2. SameButQueue(arena, arena')
      BY <3>1, OpenSound DEF IInv
    <3> QED
      BY <3>2 DEF SameButQueue, Alike
  <2>3. CASE BuildDone
    BY <2>3, BuildRecords
  <2>4. CASE arena' = arena
    BY <2>4
  <2> QED
    BY <2>1, <2>2, <2>3, <2>4 DEF PushDropped, WalkDone, Stop, vars
<1> QED
  BY <1>1, <1>2, <1>3, QuietBest

LEMMA BestStep == IInv /\ IInv' /\ BestOk /\ [Next]_vars => Shortens /\ BestOk'
BY EmptyBest, SolvedBest, StoredBest, AtLimitBest, StageSolvedBest, GaveUpBest, FinishBest,
   PolishUnitBest, PolishDoneBest, StageBest, RestBest DEF Next, Advance, Terminated

LEMMA BestStart == Init => BestOk /\ Best = Inf /\ ~Routed
<1> SUFFICES ASSUME Init PROVE BestOk /\ Best = Inf /\ ~Routed
  OBVIOUS
<1>1. board \in Boards /\ incumbent = NoId /\ polish = NoPolish /\ polished = Inf
  BY DEF Init
<1>2. board.opt \in Nat /\ board.opt <= Inf /\ Inf \in Nat
  BY <1>1, BoardAssumption, ShortestFacts
<1>3. polish.best = Inf /\ polish.ending = "none" /\ IncumbentMoves = Inf
  BY <1>1 DEF NoPolish, IncumbentMoves, MovesOf
<1> QED
  BY <1>1, <1>2, <1>3 DEF BestOk, JobOk, PolishedOk, Best, BestMoves, Routed, Lesser

-----------------------------------------------------------------------------
(* The counters: every node expanded was generated, since a record that is *)
(* open has not been counted.                                              *)

CountOk ==
  /\ expanded \in Nat /\ discarded \in Nat
  /\ expanded + Cardinality(OpenIds(arena)) <= discarded + Len(arena.recs)

Counts ==
  /\ expanded' \in expanded .. expanded + 1
  /\ Generated' \in Generated .. Generated + 2

LEMMA CountFacts ==
  ASSUME IInv, CountOk
  PROVE  /\ arena \in Arenas /\ Len(arena.recs) \in Nat /\ expanded \in Nat /\ discarded \in Nat
         /\ Generated \in Nat /\ IsFiniteSet(OpenIds(arena))
         /\ Cardinality(OpenIds(arena)) \in Nat
         /\ expanded + Cardinality(OpenIds(arena)) <= Generated
<1>1. arena \in Arenas /\ Len(arena.recs) \in Nat
  BY SoundUpward DEF IInv
<1>2. expanded \in Nat /\ discarded \in Nat
  BY DEF CountOk
<1> QED
  BY <1>1, <1>2, OpenFinite DEF CountOk, Generated

(* What a step adds to the records, to those to open and to the dropped.   *)
LEMMA Tallied ==
  ASSUME IInv, CountOk, NEW x \in {0, 1}, NEW n \in 0 .. 2,
         expanded' = expanded + x, discarded' \in Nat, Len(arena'.recs) \in Nat,
         discarded' + Len(arena'.recs) = Generated + n,
         Cardinality(OpenIds(arena')) + x <= Cardinality(OpenIds(arena)) + n
  PROVE  Counts /\ CountOk'
<1>1. /\ expanded \in Nat /\ Generated \in Nat /\ Cardinality(OpenIds(arena)) \in Nat
      /\ expanded + Cardinality(OpenIds(arena)) <= Generated
  BY CountFacts
<1>2. Cardinality(OpenIds(arena')) \in Nat
  BY OpenFinite
<1>3. PICK c \in Nat, d \in Nat, g \in Nat, e \in Nat, r \in Nat, l \in Nat :
        /\ c = Cardinality(OpenIds(arena)) /\ d = Cardinality(OpenIds(arena'))
        /\ g = Generated /\ e = expanded /\ r = discarded' /\ l = Len(arena'.recs)
  BY <1>1, <1>2
<1>4. /\ e + c <= g /\ r + l = g + n /\ d + x <= c + n /\ expanded' = e + x
  BY <1>1, <1>3
<1>5. Generated' = g + n
  BY <1>3, <1>4 DEF Generated
<1>6. (e + x) + d <= r + l
  BY <1>4
<1>7. CountOk'
  BY <1>3, <1>4, <1>6 DEF CountOk
<1>8. e + x \in e .. e + 1 /\ g + n \in g .. g + 2
  OBVIOUS
<1>9. Counts
  BY <1>3, <1>4, <1>5, <1>8 DEF Counts
<1> QED
  BY <1>7, <1>9

(* The records and what they are closed to stay.                           *)
LEMMA SameCounts ==
  ASSUME IInv, CountOk, expanded' = expanded, discarded' = discarded,
         Len(arena'.recs) = Len(arena.recs),
         \A i \in 1 .. Len(arena.recs) : arena'.recs[i].closed = arena.recs[i].closed
  PROVE  Counts /\ CountOk'
<1>1. OpenIds(arena') = OpenIds(arena)
  BY DEF OpenIds
<1>2. /\ Len(arena.recs) \in Nat /\ expanded \in Nat /\ discarded \in Nat
      /\ Cardinality(OpenIds(arena)) \in Nat /\ Generated \in Nat
  BY CountFacts
<1>3. discarded' + Len(arena'.recs) = Generated + 0
  BY <1>2 DEF Generated
<1>4. Cardinality(OpenIds(arena')) + 0 <= Cardinality(OpenIds(arena)) + 0
  BY <1>1, <1>2
<1>5. expanded' = expanded + 0
  BY <1>2
<1> QED
  BY <1>2, <1>3, <1>4, <1>5, Tallied

(* A node is opened, and counted if it was not before.                     *)
LEMMA OpenedCounts ==
  ASSUME IInv, CountOk, NEW q, q.id \in 1 .. Len(arena.recs), arena' = Opened(q), Count(q),
         discarded' = discarded
  PROVE  Counts /\ CountOk'
<1>1. PICK i \in 1 .. Len(arena.recs) : i = q.id
  OBVIOUS
<1>2. PICK d : d = Dequeue(arena)
  OBVIOUS
<1>3. /\ d \in Arenas /\ d.recs = arena.recs
  BY <1>2, CountFacts, DequeueFacts DEF SameButQueue
<1>4. arena' = Close(d, i)
  BY <1>1, <1>2 DEF Opened
<1>5. /\ Len(arena'.recs) = Len(arena.recs)
      /\ \A j \in 1 .. Len(arena.recs) : arena'.recs[j].closed = (arena.recs[j].closed \/ j = i)
  BY <1>3, <1>4, CloseFacts DEF SameButQueue
<1>6. OpenIds(arena') = OpenIds(arena) \ {i}
  BY <1>5 DEF OpenIds
<1>7. expanded' = IF arena.recs[i].closed THEN expanded ELSE expanded + 1
  BY <1>1 DEF Count
<1>8. /\ Len(arena.recs) \in Nat /\ expanded \in Nat /\ discarded \in Nat
      /\ IsFiniteSet(OpenIds(arena))
      /\ Cardinality(OpenIds(arena)) \in Nat /\ Generated \in Nat
  BY CountFacts
<1>9. discarded' + Len(arena'.recs) = Generated + 0
  BY <1>5, <1>8 DEF Generated
<1>10. CASE arena.recs[i].closed
  <2>1. arena.recs[i].closed = TRUE
    <3>1. arena.recs[i].closed \in BOOLEAN
      BY CountFacts, ArenaFields, RecordFields
    <3> QED
      BY <1>10, <3>1
  <2>2. \A j \in 1 .. Len(arena.recs) : arena'.recs[j].closed = arena.recs[j].closed
    <3>1. \A j \in 1 .. Len(arena.recs) : arena.recs[j].closed \in BOOLEAN
      BY CountFacts, ArenaFields, RecordFields
    <3> QED
      BY <1>5, <2>1, <3>1
  <2> QED
    BY <1>5, <1>7, <1>10, <2>2, SameCounts
<1>11. CASE ~arena.recs[i].closed
  <2>1. i \in OpenIds(arena)
    BY <1>11 DEF OpenIds
  <2>2. Cardinality(OpenIds(arena')) = Cardinality(OpenIds(arena)) - 1
    BY <1>6, <1>8, <2>1, FS_RemoveElement
  <2>3. Cardinality(OpenIds(arena')) + 1 <= Cardinality(OpenIds(arena)) + 0
    BY <1>8, <2>2
  <2>4. expanded' = expanded + 1
    BY <1>7, <1>11
  <2> QED
    BY <1>5, <1>8, <1>9, <2>3, <2>4, Tallied
<1> QED
  BY <1>10, <1>11

(* A record is stored.                                                     *)
LEMMA StoredCounts ==
  ASSUME IInv, CountOk, expanded' = expanded, discarded' = discarded,
         NEW c, NEW n, Extends(arena, c, n), arena'.recs = c.recs
  PROVE  Counts /\ CountOk'
<1>1. /\ Len(arena.recs) \in Nat /\ expanded \in Nat /\ discarded \in Nat
      /\ Cardinality(OpenIds(arena)) \in Nat /\ Generated \in Nat
  BY CountFacts
<1>2. Extends(arena, arena', n)
  BY DEF Extends
<1>3. /\ Cardinality(OpenIds(arena')) = Cardinality(OpenIds(arena)) + 1
      /\ Len(arena'.recs) = Len(arena.recs) + 1
  BY <1>1, <1>2, OpenExtends
<1>4. discarded' + Len(arena'.recs) = Generated + 1
  BY <1>1, <1>3 DEF Generated
<1>5. Cardinality(OpenIds(arena')) + 0 <= Cardinality(OpenIds(arena)) + 1
  BY <1>1, <1>3
<1>6. expanded' = expanded + 0
  BY <1>1
<1> QED
  BY <1>1, <1>3, <1>4, <1>5, <1>6, Tallied

(* The search starts over, with what it had or one record more.            *)
LEMMA OverCounts ==
  ASSUME IInv, CountOk, expanded' = expanded, board' = board,
         NEW a, Sound(board, a), a = arena \/ \E n : Extends(arena, a, n),
         NEW id, SolvedId(a, id), NEW p, StartOver(a, id, p)
  PROVE  Counts /\ CountOk'
<1>1. /\ Len(arena.recs) \in Nat /\ expanded \in Nat /\ discarded \in Nat
      /\ Cardinality(OpenIds(arena)) \in Nat /\ Generated \in Nat
      /\ Generated = discarded + Len(arena.recs)
  BY CountFacts DEF Generated
<1>2. PICK m \in {0, 1} : /\ Len(a.recs) = Len(arena.recs) + m
                          /\ Cardinality(OpenIds(a)) = Cardinality(OpenIds(arena)) + m
  <2>1. CASE a = arena
    <3>1. /\ Len(a.recs) = Len(arena.recs) + 0
          /\ Cardinality(OpenIds(a)) = Cardinality(OpenIds(arena)) + 0
      BY <1>1, <2>1
    <3> QED
      BY <3>1
  <2>2. CASE \E n : Extends(arena, a, n)
    BY <1>1, <2>2, OpenExtends
  <2> QED
    BY <2>1, <2>2
<1>3. board \in Boards /\ Len(a.recs) \in Nat
  BY SoundUpward DEF IInv, Given
<1>4. /\ incumbent' \in Nat /\ incumbent' <= Len(a.recs)
      /\ Len(arena'.recs) = incumbent' + 1
      /\ discarded' = discarded + Len(a.recs) - incumbent'
      /\ Cardinality(OpenIds(arena')) <= Cardinality(OpenIds(a)) + 1
  BY <1>3, StartOverRecords
<1>5. Len(arena'.recs) \in Nat
  <2>1. PICK i \in Nat : i = incumbent'
    BY <1>4
  <2>2. Len(arena'.recs) = i + 1
    BY <1>4, <2>1
  <2> QED
    BY <2>2
<1>6. Cardinality(OpenIds(arena')) \in Nat
  BY <1>5, OpenFinite
<1>7. PICK i \in Nat, d \in Nat, l \in Nat, c \in Nat, k \in Nat, g \in Nat :
        /\ i = incumbent' /\ d = discarded /\ l = Len(arena.recs) /\ g = Generated
        /\ c = Cardinality(OpenIds(arena)) /\ k = Cardinality(OpenIds(arena'))
  BY <1>1, <1>4, <1>6
<1>8. /\ i <= l + m /\ discarded' = d + (l + m) - i /\ Len(arena'.recs) = i + 1
      /\ k <= (c + m) + 1 /\ g = d + l
  BY <1>1, <1>2, <1>4, <1>7
<1>9. /\ discarded' \in Nat /\ discarded' + Len(arena'.recs) = g + (m + 1)
      /\ k + 0 <= c + (m + 1) /\ m + 1 \in 0 .. 2
  BY <1>8
<1>10. expanded' = expanded + 0
  BY <1>1
<1>11. PICK n \in 0 .. 2 : n = m + 1
  BY <1>9
<1>12. /\ discarded' + Len(arena'.recs) = Generated + n
       /\ Cardinality(OpenIds(arena')) + 0 <= Cardinality(OpenIds(arena)) + n
  BY <1>7, <1>9, <1>11
<1> QED
  BY <1>5, <1>9, <1>10, <1>12, Tallied

(* A stage begins on a kept path.                                          *)
LEMMA ReseedCounts ==
  ASSUME IInv, CountOk, expanded' = expanded, NEW i \in 1 .. Len(arena.recs), NEW ok,
         arena' = Reseeded(arena, i, ok), discarded' = discarded + Dropped(arena, i)
  PROVE  Counts /\ CountOk'
<1>1. /\ Len(arena.recs) \in Nat /\ expanded \in Nat /\ discarded \in Nat
      /\ Cardinality(OpenIds(arena)) \in Nat /\ Generated \in Nat
      /\ Generated = discarded + Len(arena.recs)
  BY CountFacts DEF Generated
<1>2. PICK k : k = ClearKeeping(arena, i)
  OBVIOUS
<1>3. /\ k \in Arenas /\ k.index = {}
      /\ Len(k.recs) = Cardinality(Path(arena, i))
      /\ Len(k.recs) \in 1 .. Len(arena.recs)
      /\ Cardinality(OpenIds(k)) <= Cardinality(OpenIds(arena))
  BY <1>2, KeptRecords DEF IInv
<1>4. PICK r : r = k.recs[Len(k.recs)]
  OBVIOUS
<1>5. PICK n : n = [st |-> r.st, g |-> r.g, h |-> r.h, par |-> r.par]
  OBVIOUS
<1>6. n \in Nodes
  <2>1. r \in Records
    BY <1>1, <1>3, <1>4, ArenaFields, RecordFields
  <2> QED
    BY <1>5, <2>1 DEF Nodes, Records
<1>7. PICK b : b = Insert(k, n, ok)
  OBVIOUS
<1>8. Extends(k, b, n)
  BY <1>3, <1>6, <1>7, InsertRecords
<1>9. arena' = Enqueue(b, r.g + LadderWeight * r.h, r.h, Len(b.recs))
  BY <1>2, <1>4, <1>5, <1>7 DEF Reseeded
<1>10. arena'.recs = b.recs
  <2>1. {"recs", "queue"} \subseteq DOMAIN b
    <3>1. \A d : {"recs", "queue"} \subseteq DOMAIN d =>
            /\ {"recs", "queue"} \subseteq DOMAIN GrowTable(d, ok.table)
            /\ {"recs", "queue"} \subseteq DOMAIN GrowChunk(d, ok.chunk)
      BY DEF GrowTable, GrowChunk
    <3>2. {"recs", "queue"} \subseteq DOMAIN Append1(k, n)
      BY <1>3 DEF Append1, Arenas
    <3> QED
      BY <1>7, <3>1, <3>2 DEF Insert, Grow
  <2> QED
    BY <1>9, <2>1 DEF Enqueue
<1>11. Extends(k, arena', n)
  BY <1>8, <1>10 DEF Extends
<1>12. /\ Cardinality(OpenIds(arena')) = Cardinality(OpenIds(k)) + 1
       /\ Len(arena'.recs) = Len(k.recs) + 1
       /\ Cardinality(OpenIds(k)) \in Nat /\ Len(k.recs) \in Nat
  <2>1. Len(k.recs) \in Nat
    BY <1>1, <1>3
  <2>2. /\ Cardinality(OpenIds(arena')) = Cardinality(OpenIds(k)) + 1
        /\ Len(arena'.recs) = Len(k.recs) + 1
    BY <1>11, <2>1, OpenExtends
  <2> QED
    BY <2>1, <2>2, OpenFinite
<1>13. PICK l \in Nat, m \in Nat, d \in Nat, c \in Nat, j \in Nat :
         /\ l = Len(arena.recs) /\ m = Len(k.recs) /\ d = discarded
         /\ c = Cardinality(OpenIds(arena)) /\ j = Cardinality(OpenIds(k))
  BY <1>1, <1>3, <1>12
<1>14. m <= l /\ j <= c
  BY <1>1, <1>3, <1>13
<1>15. discarded' = d + (l - m) /\ Len(arena'.recs) = m + 1
  BY <1>3, <1>12, <1>13 DEF Dropped
<1>16. /\ discarded' \in Nat /\ Len(arena'.recs) \in Nat
       /\ discarded' + Len(arena'.recs) = Generated + 1
  <2>1. PICK g \in Nat, e \in Nat, q \in Nat :
          g = Generated /\ g = d + l /\ e = d + (l - m) /\ q = m + 1
    <3>1. l - m \in Nat /\ d + l \in Nat /\ m + 1 \in Nat
      BY <1>14
    <3>2. d + (l - m) \in Nat /\ Generated = d + l
      BY <1>1, <1>13, <3>1
    <3> QED
      BY <3>1, <3>2
  <2>2. discarded' = e /\ Len(arena'.recs) = q /\ Generated = g
    BY <1>15, <2>1
  <2>3. e + q = g + 1
    BY <1>14, <2>1
  <2> QED
    BY <2>2, <2>3
<1>17. Cardinality(OpenIds(arena')) + 0 <= Cardinality(OpenIds(arena)) + 1
  BY <1>12, <1>13, <1>14
<1>18. expanded' = expanded + 0
  BY <1>1
<1> QED
  BY <1>16, <1>17, <1>18, Tallied

-----------------------------------------------------------------------------
(* What the searches' ends do to the records: nothing.                     *)

LEMMA EndRecords ==
  ASSUME NEW b, NEW a, Sound(b, a), NEW st, NEW id, NEW p, NEW cut, End(st, a, id, p, cut)
  PROVE  arena'.recs = a.recs
<1>1. a \in Arenas
  BY SoundUpward
<1>2. arena' = a \/ arena' = Release(a)
  BY DEF End
<1> QED
  BY <1>1, <1>2 DEF Release, Arenas

LEMMA PhaseRecords ==
  ASSUME NEW b, NEW a, Sound(b, a), NEW id, NextPhaseOrEnd(a, id)
  PROVE  arena'.recs = a.recs
<1>1. a \in Arenas
  BY SoundUpward
<1>2. CASE P.next = "none"
  <2>1. End("solved", a, id, policy, interrupted)
    BY <1>2 DEF NextPhaseOrEnd
  <2> QED
    BY <2>1, EndRecords
<1>3. CASE P.next # "none"
  <2>1. PICK w : arena' = Reweight(a, w)
    BY <1>3 DEF NextPhaseOrEnd
  <2> QED
    BY <1>1, <2>1 DEF Reweight, Arenas
<1> QED
  BY <1>2, <1>3

(* A child, stored and queued.                                             *)
LEMMA StoredRecords ==
  ASSUME IInv, Expanding, cur.todo # << >>, ~IsFull(arena), NEW ok \in Grants,
         NEW b, b = Enqueue(Insert(arena, Child, ok), Child.g + P.weight * ChildH, ChildH,
                            Len(arena.recs) + 1)
  PROVE  /\ Extends(arena, b, Child)
         /\ \A i \in 1 .. Len(arena.recs) :
              Kept(b.recs[i], arena.recs[i], i, Find(arena, Child.st))
         /\ b.queue = arena.queue \cup {[f |-> Child.g + P.weight * ChildH, h |-> ChildH,
                                         id |-> Len(arena.recs) + 1]}
<1>1. /\ Child \in Nodes /\ Grows(arena) /\ ~arena.starved
      /\ Sound(board, arena) /\ Reached(board, arena, Child)
  BY PushFacts DEF IInv
<1>2. arena \in Arenas /\ arena.index \subseteq 1 .. Len(arena.recs)
  BY <1>1, GrowsIndex
<1>3. PICK d : d = Insert(arena, Child, ok)
  OBVIOUS
<1>4. /\ Extends(arena, d, Child) /\ d.queue = arena.queue
      /\ \A i \in 1 .. Len(arena.recs) :
           Kept(d.recs[i], arena.recs[i], i, Find(arena, Child.st))
  BY <1>1, <1>2, <1>3, InsertRecords
<1>5. Sound(board, d)
  BY <1>1, <1>3, StoreSound
<1>6. d \in Arenas
  BY <1>5, SoundUpward
<1>7. PICK f : f = Child.g + P.weight * ChildH
  OBVIOUS
<1>8. b = Enqueue(d, f, ChildH, Len(arena.recs) + 1)
  BY <1>3, <1>7
<1>9. /\ b.recs = d.recs
      /\ b.queue = d.queue \cup {[f |-> f, h |-> ChildH, id |-> Len(arena.recs) + 1]}
  BY <1>6, <1>8 DEF Enqueue, Arenas
<1>10. Extends(arena, b, Child)
  BY <1>4, <1>9 DEF Extends
<1> QED
  BY <1>4, <1>7, <1>9, <1>10

LEMMA PushRecords ==
  ASSUME IInv, PushStored
  PROVE  \E b : Extends(arena, b, Child) /\ arena'.recs = b.recs
<1> DEFINE handsOver == IsGoal /\ P.goalPush
           best == IF IsGoal THEN Len(arena.recs) + 1 ELSE incumbent
           p == IF handsOver THEN P.next ELSE policy
           c(ok) == Enqueue(Insert(arena, Child, ok), Child.g + P.weight * ChildH, ChildH,
                            Len(arena.recs) + 1)
<1>1. PICK ok \in Grant :
        /\ IF handsOver /\ P.next = "none"
           THEN NextPhaseOrEnd(c(ok), best)
           ELSE IF c(ok).starved
           THEN StopAtLimit(IF handsOver THEN Reweight(c(ok), Policies[p].weight) ELSE c(ok),
                            best, p, LimitF)
           ELSE /\ cur' = Tried
                /\ IF handsOver THEN NextPhaseOrEnd(c(ok), best)
                   ELSE /\ arena' = c(ok) /\ incumbent' = best
                        /\ UNCHANGED <<ladder, policy, status, interrupted, staging,
                                       polish, sealed>>
  BY DEF PushStored
<1>2. PICK b : b = c(ok)
  OBVIOUS
<1>3. Expanding /\ cur.todo # << >> /\ ~IsFull(arena) /\ ok \in Grants
  BY EngineAssumption DEF PushStored, ToStore
<1>4. Extends(arena, b, Child) /\ Sound(board, b)
  BY <1>2, <1>3, StoredRecords, StoredSound
<1> HIDE DEF c, best
<1>5. CASE NextPhaseOrEnd(b, best)
  BY <1>4, <1>5, PhaseRecords
<1>6. CASE handsOver /\ P.next # "none"
           /\ StopAtLimit(Reweight(b, Policies[p].weight), best, p, LimitF)
  <2>1. PICK d : d = Reweight(b, Policies[p].weight)
    OBVIOUS
  <2>2. Policies[p].weight \in Nat
    BY <1>6, PolicyFacts DEF IInv, Given, P, Sane
  <2>3. Sound(board, d) /\ d.recs = b.recs
    BY <1>4, <2>1, <2>2, ReweightSound
  <2>4. End(LimitStatus(d), d, best, p, LimitF)
    BY <1>6, <2>1 DEF StopAtLimit
  <2>5. arena'.recs = d.recs
    BY <2>3, <2>4, EndRecords
  <2> QED
    BY <1>4, <2>3, <2>5
<1>7. CASE StopAtLimit(b, best, p, LimitF)
  <2>1. End(LimitStatus(b), b, best, p, LimitF)
    BY <1>7 DEF StopAtLimit
  <2>2. arena'.recs = b.recs
    BY <1>4, <2>1, EndRecords
  <2> QED
    BY <1>4, <2>2
<1>8. CASE arena' = b
  BY <1>4, <1>8
<1> HIDE DEF handsOver, p
<1> QED
  BY <1>1, <1>2, <1>5, <1>6, <1>7, <1>8

-----------------------------------------------------------------------------
(* Each step's counts.                                                     *)

LEMMA PushCounts == IInv /\ CountOk /\ PushStored => Counts /\ CountOk'
<1> SUFFICES ASSUME IInv, CountOk, PushStored PROVE Counts /\ CountOk'
  OBVIOUS
<1>1. PICK b : Extends(arena, b, Child) /\ arena'.recs = b.recs
  BY PushRecords
<1>2. expanded' = expanded /\ discarded' = discarded
  BY DEF PushStored
<1> QED
  BY <1>1, <1>2, StoredCounts

LEMMA AtLimitCounts == IInv /\ CountOk /\ PushAtLimit => Counts /\ CountOk'
<1> SUFFICES ASSUME IInv, CountOk, PushAtLimit PROVE Counts /\ CountOk'
  OBVIOUS
<1> DEFINE l == Len(arena.recs)
<1>1. PICK ok \in Grant :
        LET a  == IF IsGoal THEN Insert(arena, Child, ok) ELSE arena
            id == IF IsGoal THEN Len(a.recs) ELSE incumbent
        IN  IF MayStartOver(a, id, P.restart)
            THEN StartOver(a, id, P.restart)
            ELSE StopAtLimit(a, id, policy, LimitF) /\ UNCHANGED discarded
  BY DEF PushAtLimit
<1>2. PICK a : a = IF IsGoal THEN Insert(arena, Child, ok) ELSE arena
  OBVIOUS
<1>3. PICK id : id = IF IsGoal THEN Len(a.recs) ELSE incumbent
  OBVIOUS
<1>4. /\ Expanding /\ cur.todo # << >> /\ IsFull(arena) /\ board' = board
      /\ expanded' = expanded
  BY DEF PushAtLimit, ToStore
<1>5. /\ l \in Nat /\ Grows(arena) /\ ~arena.starved /\ Child \in Nodes
      /\ Reached(board, arena, Child)
      /\ Sound(board, arena) /\ SolvedId(arena, incumbent)
  BY <1>4, PushFacts DEF IInv
<1>6. /\ Sound(board, a) /\ SolvedId(a, id)
      /\ a = arena \/ \E n : Extends(arena, a, n)
  <2>1. CASE IsGoal
    <3>1. a = Insert(arena, Child, ok) /\ id = Len(a.recs) /\ ok \in Grants
      BY <1>2, <1>3, <2>1, EngineAssumption
    <3>2. /\ Sound(board, a) /\ Len(a.recs) = l + 1 /\ Alike(a.recs[l + 1], Child)
      BY <1>4, <1>5, <3>1, SpareSound
    <3>3. arena \in Arenas /\ arena.index \subseteq 1 .. Len(arena.recs)
      BY <1>5, GrowsIndex
    <3>4. Extends(arena, a, Child)
      BY <1>5, <3>1, <3>3, InsertRecords
    <3> QED
      BY <1>5, <2>1, <3>1, <3>2, <3>4 DEF SolvedId, IsGoal, Alike
  <2>2. CASE ~IsGoal
    BY <1>2, <1>3, <1>5, <2>2
  <2> QED
    BY <2>1, <2>2
<1>7. CASE MayStartOver(a, id, P.restart)
  <2>1. StartOver(a, id, P.restart)
    BY <1>1, <1>2, <1>3, <1>7
  <2> QED
    BY <1>4, <1>6, <2>1, OverCounts
<1>8. CASE ~MayStartOver(a, id, P.restart)
  <2>1. End(LimitStatus(a), a, id, policy, LimitF) /\ discarded' = discarded
    BY <1>1, <1>2, <1>3, <1>8 DEF StopAtLimit
  <2>2. arena'.recs = a.recs
    BY <1>6, <2>1, EndRecords
  <2>3. CASE a = arena
    BY <1>4, <2>1, <2>2, <2>3, SameCounts
  <2>4. CASE \E n : Extends(arena, a, n)
    BY <1>4, <2>1, <2>2, <2>4, StoredCounts
  <2> QED
    BY <1>6, <2>3, <2>4
<1> QED
  BY <1>7, <1>8

LEMMA StageSolvedCounts == IInv /\ CountOk /\ StageSolved => Counts /\ CountOk'
<1> SUFFICES ASSUME IInv, CountOk, StageSolved PROVE Counts /\ CountOk'
  OBVIOUS
<1>1. ladder.phase = "solved" /\ board' = board /\ expanded' = expanded
  BY DEF StageSolved
<1>2. PICK id : id = ladder.at
  OBVIOUS
<1>3. Sound(board, arena) /\ SolvedId(arena, id)
  BY <1>1, <1>2, RouteShort DEF IInv
<1>4. CASE ~arena.starved /\ MayStartOver(arena, id, P.restart)
  <2>1. StartOver(arena, id, P.restart)
    BY <1>2, <1>4 DEF StageSolved
  <2> QED
    BY <1>1, <1>3, <2>1, OverCounts
<1>5. CASE ~(~arena.starved /\ MayStartOver(arena, id, P.restart))
  <2>1. discarded' = discarded
    BY <1>2, <1>5 DEF StageSolved
  <2>2. arena'.recs = arena.recs
    <3>1. CASE P.next = "none"
      <4>1. End("solved", arena, id, policy, interrupted)
        BY <1>2, <1>5, <3>1 DEF StageSolved
      <4> QED
        BY <1>3, <4>1, EndRecords
    <3>2. CASE P.next # "none"
      <4>1. PICK a : a = Reweight(arena, Policies[P.next].weight)
        OBVIOUS
      <4>2. Policies[P.next].weight \in Nat
        BY <3>2, PolicyFacts DEF IInv, Given, P, Sane
      <4>3. Sound(board, a) /\ a.recs = arena.recs
        BY <1>3, <4>1, <4>2, ReweightSound
      <4>4. arena' = a \/ End(LimitStatus(a), a, id, P.next, staging.trigger)
        BY <1>2, <1>5, <3>2, <4>1 DEF StageSolved, StopAtLimit
      <4> QED
        BY <4>3, <4>4, EndRecords
    <3> QED
      BY <3>1, <3>2
  <2> QED
    BY <1>1, <2>1, <2>2, SameCounts
<1> QED
  BY <1>4, <1>5

LEMMA GaveUpCounts == IInv /\ CountOk /\ StageGaveUp => Counts /\ CountOk'
<1> SUFFICES ASSUME IInv, CountOk, StageGaveUp PROVE Counts /\ CountOk'
  OBVIOUS
<1>1. ladder.phase = "gaveup" /\ board' = board /\ expanded' = expanded
  BY DEF StageGaveUp
<1>2. Sound(board, arena) /\ SolvedId(arena, NoId)
  BY <1>1, EndedFacts
<1>3. CASE \E p : StartOver(arena, NoId, p)
  BY <1>1, <1>2, <1>3, OverCounts
<1>4. CASE ~ \E p : StartOver(arena, NoId, p)
  <2>1. PICK st, cut : End(st, arena, NoId, policy, cut)
    BY <1>4 DEF StageGaveUp, StopAtLimit
  <2>2. discarded' = discarded
    BY <1>4 DEF StageGaveUp
  <2>3. arena'.recs = arena.recs
    BY <1>2, <2>1, EndRecords
  <2> QED
    BY <1>1, <2>2, <2>3, SameCounts
<1> QED
  BY <1>3, <1>4

(* The steps that store and open nothing.                                  *)
LEMMA StillCounts ==
  ASSUME IInv, CountOk,
         \/ PopEmpty \/ PopStale \/ PopSolved \/ PopPruned \/ PushDropped \/ FinishExpansion
         \/ BuildDone \/ WalkDone \/ PolishUnit \/ PolishDone
         \/ \E reason \in {"time_limit", "cancelled"} : Stop(reason)
         \/ UNCHANGED vars
  PROVE  Counts /\ CountOk'
<1>1. expanded' = expanded /\ discarded' = discarded
  BY DEF PopEmpty, PopStale, PopSolved, PopPruned, PushDropped, FinishExpansion, BuildDone,
     WalkDone, PolishUnit, PolishDone, Stop, vars
<1>2. Sound(board, arena) /\ arena \in Arenas
  BY SoundUpward DEF IInv
<1>3. PICK d : d = Dequeue(arena)
  OBVIOUS
<1>4. Sound(board, d) /\ d.recs = arena.recs
  BY <1>2, <1>3, DequeueSound
<1>5. arena'.recs = arena.recs
  <2>1. CASE PopEmpty
    <3>1. PICK st : End(st, arena, incumbent, policy, interrupted)
      BY <2>1 DEF PopEmpty
    <3> QED
      BY <1>2, <3>1, EndRecords
  <2>2. CASE PopSolved
    <3>1. PICK id : arena' = d \/ NextPhaseOrEnd(d, id)
      BY <1>3, <2>2 DEF PopSolved
    <3> QED
      BY <1>4, <3>1, PhaseRecords
  <2>3. CASE PopStale \/ PopPruned
    <3>1. arena' = d
      BY <1>3, <2>3 DEF PopStale, PopPruned
    <3> QED
      BY <1>4, <3>1
  <2>4. CASE FinishExpansion
    <3>1. arena' = arena \/ \E f, h : arena' = Enqueue(arena, f, h, cur.id)
      BY <2>4 DEF FinishExpansion
    <3> QED
      BY <1>2, <3>1 DEF Enqueue, Arenas
  <2>5. CASE BuildDone
    BY <2>5, BuildRecords
  <2>6. CASE arena' = arena
    BY <2>6
  <2> QED
    BY <2>1, <2>2, <2>3, <2>4, <2>5, <2>6
       DEF PushDropped, WalkDone, PolishUnit, PolishDone, Stop, vars
<1> QED
  BY <1>1, <1>5, SameCounts

LEMMA ExpandCounts == IInv /\ CountOk /\ PopExpand => Counts /\ CountOk'
<1> SUFFICES ASSUME IInv, CountOk, PopExpand PROVE Counts /\ CountOk'
  OBVIOUS
<1>1. /\ arena' = Opened(Popped) /\ Count(Popped) /\ discarded' = discarded
  BY DEF PopExpand
<1>2. Popped.id \in 1 .. Len(arena.recs)
  BY PoppedFacts DEF PopExpand, PoppedLive
<1> QED
  BY <1>1, <1>2, OpenedCounts

LEMMA BeginCounts ==
  IInv /\ CountOk /\ (StageEarly \/ StageFull) => Counts /\ CountOk'
<1> SUFFICES ASSUME IInv, CountOk, StageEarly \/ StageFull PROVE Counts /\ CountOk'
  OBVIOUS
<1>1. StartStaging /\ Expanding /\ cur.todo # << >>
  BY DEF StageEarly, StageFull, ToStore
<1>2. /\ expanded' = expanded
      /\ \E ok : arena' = Reseeded(arena, 1, ok)
      /\ discarded' = discarded + Dropped(arena, 1)
  BY <1>1 DEF StartStaging, Begin
<1>3. 1 \in 1 .. Len(arena.recs)
  BY <1>1, PushFacts
<1> QED
  BY <1>2, <1>3, ReseedCounts

LEMMA StillUnitCounts ==
  ASSUME IInv, CountOk, arena' = arena, expanded' = expanded, discarded' = discarded
  PROVE  Counts /\ CountOk'
BY SameCounts

LEMMA SearchPopCounts == IInv /\ CountOk /\ SearchPop => Counts /\ CountOk'
<1> SUFFICES ASSUME IInv, CountOk, SearchPop PROVE Counts /\ CountOk'
  OBVIOUS
<1>1. discarded' = discarded
  BY DEF SearchPop
<1>2. CASE arena' = arena /\ expanded' = expanded
  BY <1>1, <1>2, StillUnitCounts
<1>3. CASE arena' = Dequeue(arena) /\ expanded' = expanded
  <2>1. arena'.recs = arena.recs
    BY <1>3, DequeueSound DEF IInv
  <2> QED
    BY <1>1, <1>3, <2>1, SameCounts
<1>4. CASE arena.queue # {} /\ arena' = Opened(Popped) /\ Count(Popped)
  BY <1>1, <1>4, PoppedFacts, OpenedCounts
<1> QED
  BY <1>2, <1>3, <1>4 DEF SearchPop, Popped

LEMMA SearchChildCounts == IInv /\ CountOk /\ SearchChild => Counts /\ CountOk'
<1> SUFFICES ASSUME IInv, CountOk, SearchChild PROVE Counts /\ CountOk'
  OBVIOUS
<1>1. /\ ladder.phase = "search" /\ cur # Idle /\ cur.todo # << >> /\ Running
      /\ expanded' = expanded /\ discarded' = discarded
  BY DEF SearchChild, Running
<1>2. PICK c : c = ChildOf(cur.id, Push)
  OBVIOUS
<1>3. CASE arena' = arena
  BY <1>1, <1>3, StillUnitCounts
<1>4. CASE arena' # arena
  <2>1. PICK ok, b :
          /\ ok \in Grant /\ b = Insert(arena, c, ok) /\ ~IsFull(arena)
          /\ arena' = b \/ \E f, h, i : arena' = Enqueue(b, f, h, i)
    BY <1>2, <1>4 DEF SearchChild
  <2>2. ok \in Grants
    BY <2>1, EngineAssumption
  <2>3. c \in Nodes /\ Reached(board, arena, c)
    BY <1>1, <1>2, ChildFacts
  <2>4. Sound(board, arena) /\ Grows(arena) /\ ~arena.starved
    BY <1>1, UnitFacts
  <2>5. arena \in Arenas /\ arena.index \subseteq 1 .. Len(arena.recs)
    BY <2>4, GrowsIndex
  <2>6. Extends(arena, b, c)
    BY <2>1, <2>3, <2>5, InsertRecords
  <2>7. b \in Arenas
    <3>1. Sound(board, b)
      BY <2>1, <2>2, <2>3, <2>4, StoreSound
    <3> QED
      BY <3>1, SoundUpward
  <2>8. arena'.recs = b.recs
    BY <2>1, <2>7 DEF Enqueue, Arenas
  <2> QED
    BY <1>1, <2>6, <2>8, StoredCounts
<1> QED
  BY <1>3, <1>4

LEMMA CommitCounts == IInv /\ CountOk /\ Commit => Counts /\ CountOk'
<1> SUFFICES ASSUME IInv, CountOk, Commit PROVE Counts /\ CountOk'
  OBVIOUS
<1> DEFINE i == Head(ladder.rises)
<1>1. /\ Running /\ ladder.phase = "commit" /\ expanded' = expanded
  BY DEF Commit, Unit, Running
<1>2. /\ ladder \in Ladders /\ ladder.rises # << >>
      /\ ladder.base \in 2 .. Len(arena.recs)
      /\ \A k \in 1 .. Len(ladder.rises) : ladder.rises[k] \in ladder.base .. Len(arena.recs)
  BY <1>1, PhaseFacts, UnitFacts DEF Climbing
<1>3. i \in 1 .. Len(arena.recs)
  <2>1. ladder.rises \in Seq(Nat) /\ Len(ladder.rises) \in Nat \ {0}
    BY <1>2, EmptySeq DEF Ladders
  <2>2. i = ladder.rises[1] /\ 1 \in 1 .. Len(ladder.rises)
    BY <1>2, <2>1
  <2>3. i \in ladder.base .. Len(arena.recs)
    BY <1>2, <2>2
  <2> QED
    BY <1>2, <2>3
<1>4. CASE Keepable(arena, i)
  <2>1. \E ok : arena' = Reseeded(arena, i, ok)
    BY <1>4 DEF Commit
  <2>2. discarded' = discarded + Dropped(arena, i)
    BY <1>4 DEF Commit
  <2> HIDE DEF i
  <2> QED
    BY <1>1, <1>3, <2>1, <2>2, ReseedCounts
<1>5. CASE ~Keepable(arena, i)
  <2>1. arena' = arena /\ discarded' = discarded
    BY <1>5 DEF Commit
  <2> QED
    BY <1>1, <2>1, StillUnitCounts
<1> QED
  BY <1>4, <1>5

LEMMA RestageCounts ==
  ASSUME IInv, CountOk, Running, expanded' = expanded,
         NEW frames, NEW k \in 1 .. Len(ladder.frames), Len(frames) = k,
         frames[k].depth = ladder.frames[k].depth, NEW back, Restage(frames, back)
  PROVE  Counts /\ CountOk'
<1>1. PICK i : i = frames[Len(frames)].depth
  OBVIOUS
<1>2. i \in 1 .. ladder.base - 1
  BY <1>1, PhaseFacts DEF Nested
<1>3. i \in 1 .. Len(arena.recs)
  BY <1>2, PhaseFacts, UnitFacts
<1>4. CASE Keepable(arena, i)
  <2>1. \E ok : arena' = Reseeded(arena, i, ok)
    BY <1>1, <1>4 DEF Restage
  <2>2. discarded' = discarded + Dropped(arena, i)
    BY <1>1, <1>4 DEF Restage
  <2> QED
    BY <1>3, <2>1, <2>2, ReseedCounts
<1>5. CASE ~Keepable(arena, i)
  <2>1. arena' = arena /\ discarded' = discarded
    BY <1>1, <1>5 DEF Restage
  <2> QED
    BY <2>1, StillUnitCounts
<1> QED
  BY <1>4, <1>5

LEMMA FailUnitCounts == IInv /\ CountOk /\ FailUnit => Counts /\ CountOk'
<1> SUFFICES ASSUME IInv, CountOk, FailUnit PROVE Counts /\ CountOk'
  OBVIOUS
<1> DEFINE top == Len(ladder.frames)
<1>1. Running /\ ladder.phase = "fail" /\ expanded' = expanded
  BY Zenon DEF FailUnit, Unit, Running
<1>2. ladder.frames \in Seq(FrameSet) /\ top \in Nat \ {0} /\ Len(Caps) \in Nat
  <2>1. ladder.frames \in Seq(FrameSet) /\ ladder.frames # << >>
    BY <1>1, PhaseFacts DEF Nested, Ladders
  <2> QED
    BY <2>1, EmptySeq, EngineAssumption
<1>3. \/ arena' = arena /\ discarded' = discarded
      \/ Restage([ladder.frames EXCEPT ![top].rung = @ + 1], 0)
      \/ \E q \in 1 .. top - 1 : Restage(Banned(ladder.frames, q, 1), 1)
  BY Zenon, <1>1 DEF FailUnit, Banned
<1>4. CASE arena' = arena /\ discarded' = discarded
  BY <1>1, <1>4, StillUnitCounts
<1>5. CASE Restage([ladder.frames EXCEPT ![top].rung = @ + 1], 0)
  <2> DEFINE f == [ladder.frames[top] EXCEPT !.rung = ladder.frames[top].rung + 1]
  <2>1. PICK g : g = [ladder.frames EXCEPT ![top].rung = @ + 1]
    OBVIOUS
  <2>2. g = [ladder.frames EXCEPT ![top] = f]
    BY <2>1
  <2>3. top \in 1 .. Len(ladder.frames)
    BY <1>2
  <2>4. f \in FrameSet /\ f.depth = ladder.frames[top].depth
    <3>1. ladder.frames[top] \in FrameSet
      BY <1>2, <2>3, ElementOfSeq
    <3>2. ladder.frames[top].rung + 1 \in Nat
      BY <3>1 DEF FrameSet
    <3> QED
      BY <3>1, <3>2, FrameFacts
  <2> HIDE DEF f
  <2>5. /\ Len(g) = Len(ladder.frames)
        /\ \A k \in 1 .. Len(g) : g[k].depth = ladder.frames[k].depth
    BY <1>2, <2>2, <2>3, <2>4, FrameEdits
  <2>6. Restage(g, 0)
    BY <1>5, <2>1
  <2>7. Len(g) = top /\ g[top].depth = ladder.frames[top].depth
    BY <2>3, <2>5
  <2> QED
    BY <1>1, <2>3, <2>6, <2>7, RestageCounts
<1>6. ASSUME NEW q \in 1 .. top - 1, Restage(Banned(ladder.frames, q, 1), 1)
      PROVE  Counts /\ CountOk'
  <2>1. PICK fs \in Seq(FrameSet) : fs = ladder.frames
    BY <1>2
  <2>2. q \in 1 .. Len(fs) /\ 1 \in Nat /\ q \in 1 .. Len(ladder.frames)
    BY <1>2, <2>1
  <2>3. PICK g : g = Banned(fs, q, 1)
    OBVIOUS
  <2>4. Len(g) = q /\ \A k \in 1 .. q : g[k].depth = fs[k].depth
    BY <2>2, <2>3, BannedFrames
  <2>5. Restage(g, 1) /\ g[q].depth = ladder.frames[q].depth
    BY <1>6, <2>1, <2>2, <2>3, <2>4
  <2> QED
    BY <1>1, <2>2, <2>4, <2>5, RestageCounts
<1> QED
  BY Zenon, <1>3, <1>4, <1>5, <1>6

LEMMA UnitCounts == IInv /\ CountOk /\ StageUnit => Counts /\ CountOk'
<1> SUFFICES ASSUME IInv, CountOk, StageUnit PROVE Counts /\ CountOk'
  OBVIOUS
<1>1. CASE OutOfChecks \/ SelectUnit \/ SearchSkip \/ SearchDone \/ AcceptUnit
  <2>1. arena' = arena /\ expanded' = expanded /\ discarded' = discarded
    BY <1>1 DEF OutOfChecks, SelectUnit, SearchSkip, SearchDone, AcceptUnit
  <2> QED
    BY <2>1, StillUnitCounts
<1> QED
  BY <1>1, SearchPopCounts, SearchChildCounts, CommitCounts, FailUnitCounts
     DEF StageUnit, LadderUnit

LEMMA CountStep == IInv /\ CountOk /\ [Next]_vars => Counts /\ CountOk'
BY StillCounts, ExpandCounts, PushCounts, AtLimitCounts, BeginCounts, UnitCounts,
   StageSolvedCounts, GaveUpCounts DEF Next, Advance, Terminated

LEMMA CountStart == Init => CountOk /\ expanded = 0 /\ Generated = 1
<1> SUFFICES ASSUME Init PROVE CountOk /\ expanded = 0 /\ Generated = 1
  OBVIOUS
<1>1. PICK limit \in Limits, ok \in Grant :
        arena = Seed(NewArena(limit, limit < MaxLimit), P.weight, RootH, ok)
  BY DEF Init
<1>a. (limit < MaxLimit) \in BOOLEAN
  OBVIOUS
<1>b. PICK k : k = NewArena(limit, limit < MaxLimit)
  OBVIOUS
<1>c. arena = Seed(k, P.weight, RootH, ok)
  BY <1>1, <1>b
<1>2. board \in Boards /\ expanded = 0 /\ discarded = 0
  BY DEF Init
<1>3. Emptied(board, k) /\ Len(k.recs) = 0 /\ Len(k.recs) \in Nat
  <2>1. limit \in Limits
    OBVIOUS
  <2>2. Emptied(board, k) /\ k.limit = limit /\ Len(k.recs) = 0 /\ limit \in Nat \ {0}
    BY <2>1, <1>a, <1>b, NewArenaEmptied
  <2> QED
    BY <2>2
<1>4. k \in Arenas /\ k.index = {} /\ k.queue = {}
  BY <1>3, SoundUpward DEF Emptied
<1>5. PICK n : Extends(k, arena, n)
  BY <1>c, <1>2, <1>4, SeedRecords
<1>6. /\ Cardinality(OpenIds(arena)) = Cardinality(OpenIds(k)) + 1
      /\ Len(arena.recs) = Len(k.recs) + 1
  BY <1>3, <1>5, OpenExtends
<1>7. Cardinality(OpenIds(k)) = 0
  BY <1>3, OpenFinite
<1> QED
  BY <1>2, <1>3, <1>6, <1>7 DEF CountOk, Generated

(* Nothing is expanded that was not generated.                             *)
LEMMA CountNext ==
  ASSUME IInv', CountOk'
  PROVE  expanded' <= Generated'
<1>1. (IInv /\ CountOk => /\ expanded \in Nat /\ Generated \in Nat
                          /\ Cardinality(OpenIds(arena)) \in Nat
                          /\ expanded + Cardinality(OpenIds(arena)) <= Generated)'
  BY CountFacts, PTL
<1>2. PICK e \in Nat, g \in Nat, c \in Nat :
        e = expanded' /\ g = Generated' /\ c = Cardinality(OpenIds(arena'))
  BY <1>1
<1>3. e + c <= g
  BY <1>1, <1>2
<1> QED
  BY <1>2, <1>3

-----------------------------------------------------------------------------
(* The weighted searches' verdict: without a route, whatever has one is    *)
(* spread before the search.                                               *)

(* A search that is not Optimal's, has no route and is not staging.        *)
Unfound ==
  /\ status = "running" /\ policy # "exact" /\ incumbent = NoId
  /\ ladder = NoLadder /\ polish = NoPolish

Held(s) == \E i \in 1 .. Len(arena.recs) : ~arena.recs[i].sup /\ arena.recs[i].st = s

InQueue(i) == \E q \in arena.queue : q.id = i

(* Live record i: solved, it is the start; with a route, it is queued, or  *)
(* every next position that has one is held or about to be tried.          *)
Ahead(i) ==
  LET r == arena.recs[i] IN
  /\ Solved(r.st) => r.g = 0 /\ ~r.closed
  /\ board.dist[r.st] < Inf =>
       IF r.closed
       THEN \A e \in Edges(i) : board.dist[e.to] < Inf =>
              Held(e.to) \/ (i = cur.id /\ e \in Range1(cur.todo))
       ELSE InQueue(i)

Spread ==
  /\ Held(Start)
  /\ \A i \in 1 .. Len(arena.recs) : ~arena.recs[i].sup => Ahead(i)

SpreadOk == Unfound => Spread

LEMMA EmptyTodo == Range1(<< >>) = {}
<1>1. Len(<< >>) = 0 /\ 1 .. 0 = {}
  BY EmptySeq
<1> QED
  BY <1>1 DEF Range1

(* With nothing queued and nothing to try, no held position has a route.   *)
LEMMA SpreadEmpty ==
  ASSUME IInv, Spread, arena.queue = {}, cur = Idle
  PROVE  board.opt >= Inf
<1> SUFFICES ASSUME ~(board.opt >= Inf) PROVE FALSE
  OBVIOUS
<1>1. /\ board \in Boards /\ board.opt = board.dist[Start] /\ Start \in States
      /\ board.dist[Start] \in Nat /\ Inf \in Nat
  BY BoardAssumption, ShortestFacts DEF IInv, Given
<1> DEFINE Ids == 1 .. Len(arena.recs)
           Near(k) == ~arena.recs[k].sup /\ board.dist[arena.recs[k].st] < Inf
           S == {board.dist[arena.recs[k].st] : k \in {j \in Ids : Near(j)}}
<1>2. \A k \in Ids : arena.recs[k].st \in States /\ board.dist[arena.recs[k].st] \in Nat
  BY RecordFacts
<1>3. S \in SUBSET Nat /\ S # {}
  <2>1. \E k \in Ids : Near(k)
    BY <1>1 DEF Spread, Held
  <2> QED
    BY <1>2, <2>1
<1> HIDE DEF S
<1>4. PICK m \in S : \A n \in S : m <= n
  BY <1>3, LeastNumber
<1>5. PICK k \in Ids : Near(k) /\ m = board.dist[arena.recs[k].st]
  BY <1>4 DEF S
<1>6. \A j \in Ids : Near(j) => board.dist[arena.recs[k].st] <= board.dist[arena.recs[j].st]
  BY <1>4, <1>5 DEF S
<1>7. PICK s \in States : s = arena.recs[k].st
  BY <1>2
<1>8. Ahead(k) /\ ~InQueue(k) /\ board.dist[s] < Inf
  BY <1>5, <1>7 DEF Spread, InQueue
<1>9. arena.recs[k].closed /\ s \notin Goals
  BY <1>7, <1>8 DEF Ahead, Solved
<1>10. PICK e \in Range1(board.succ[s]) : board.dist[s] = e.cost + board.dist[e.to]
  BY <1>1, <1>8, <1>9, ShortestFacts
<1>11. e.to \in States /\ e.cost \in Nat /\ e.cost >= 1 /\ board.dist[e.to] \in Nat
  <2>1. e.to \in States /\ e.cost \in Nat /\ e.cost >= 1
    BY <1>1, <1>10, EstimateFacts
  <2> QED
    BY <1>1, <2>1, ShortestFacts
<1>12. board.dist[e.to] < board.dist[s] /\ board.dist[e.to] < Inf
  <2>1. PICK c \in Nat, d \in Nat, x \in Nat :
          c = e.cost /\ d = board.dist[e.to] /\ x = board.dist[s]
    BY <1>1, <1>7, <1>11, ShortestFacts
  <2>2. d < x /\ d < Inf
    BY <1>1, <1>8, <1>10, <1>11, <2>1
  <2> QED
    BY <2>1, <2>2
<1>13. Held(e.to)
  <2>1. e \in Edges(k)
    BY <1>7, <1>10 DEF Edges
  <2>2. e \notin Range1(cur.todo)
    BY EmptyValues, EmptyTodo
  <2> QED
    BY <1>7, <1>8, <1>9, <1>12, <2>1, <2>2 DEF Ahead
<1>14. PICK j \in Ids : Near(j) /\ arena.recs[j].st = e.to
  BY <1>12, <1>13 DEF Held
<1>15. board.dist[s] <= board.dist[e.to]
  BY <1>6, <1>7, <1>14
<1> QED
  BY <1>2, <1>5, <1>7, <1>11, <1>12, <1>15

(* A live solved record is the start itself, a route of no moves.          *)
LEMMA SolvedStart ==
  ASSUME IInv, Spread, NEW i \in 1 .. Len(arena.recs), ~arena.recs[i].sup,
         Solved(arena.recs[i].st)
  PROVE  arena.recs[i].g = 0 /\ ~arena.recs[i].closed
BY DEF Spread, Ahead

-----------------------------------------------------------------------------
(* What keeps it spread.                                                   *)

(* A step that drops only dead entries from the queue.                     *)
LEMMA SpreadSame ==
  ASSUME IInv, Spread, board' = board, arena'.recs = arena.recs,
         \A i \in 1 .. Len(arena.recs) : ~arena.recs[i].sup /\ InQueue(i) => InQueue(i)',
         \A i \in 1 .. Len(arena.recs) : \A e :
           i = cur.id /\ e \in Range1(cur.todo) =>
             Held(e.to) \/ (i = cur'.id /\ e \in Range1(cur'.todo))
             \/ ~(board.dist[e.to] < Inf)
  PROVE  Spread'
<1>1. \A s : Held(s)' = Held(s)
  BY DEF Held
<1>2. ASSUME NEW i \in 1 .. Len(arena.recs), ~arena.recs[i].sup PROVE Ahead(i)'
  <2>1. Ahead(i) /\ Edges(i)' = Edges(i)
    BY <1>2 DEF Spread, Edges
  <2>2. CASE board.dist[arena.recs[i].st] < Inf
    <3>1. CASE arena.recs[i].closed
      <4>1. ASSUME NEW e \in Edges(i), board.dist[e.to] < Inf
            PROVE  Held(e.to) \/ (i = cur'.id /\ e \in Range1(cur'.todo))
        BY <2>1, <2>2, <3>1, <4>1 DEF Ahead
      <4> QED
        BY <1>1, <2>1, <2>2, <3>1, <4>1 DEF Ahead
    <3>2. CASE ~arena.recs[i].closed
      BY <1>2, <2>1, <2>2, <3>2 DEF Ahead
    <3> QED
      BY <3>1, <3>2
  <2>3. CASE ~(board.dist[arena.recs[i].st] < Inf)
    BY <2>1, <2>3 DEF Ahead
  <2> QED
    BY <2>2, <2>3
<1> QED
  BY <1>1, <1>2 DEF Spread
(* Starting over with no route to keep.                                    *)
LEMMA OverSpreads ==
  ASSUME board \in Boards, board' = board, NEW a, Sound(board, a), NEW p,
         StartOver(a, NoId, p), cur'.todo = << >>
  PROVE  Spread'
<1>1. SolvedId(a, NoId)
  BY SoundUpward DEF SolvedId, NoId
<1>2. /\ incumbent' = 0 /\ Len(arena'.recs) = 1
      /\ arena'.recs[1].st = Start /\ arena'.recs[1].g = 0
      /\ ~arena'.recs[1].closed /\ ~arena'.recs[1].sup
      /\ board.est[Start] # Inf => \E q \in arena'.queue : q.id = 1
  <2>1. /\ incumbent' = NoId /\ Len(arena'.recs) = incumbent' + 1
        /\ arena'.recs[incumbent' + 1].st = Start /\ arena'.recs[incumbent' + 1].g = 0
        /\ ~arena'.recs[incumbent' + 1].closed /\ ~arena'.recs[incumbent' + 1].sup
        /\ board.est[Start] # Inf => \E q \in arena'.queue : q.id = incumbent' + 1
    BY <1>1, StartOverRecords
  <2>2. incumbent' = 0 /\ incumbent' + 1 = 1
    BY <2>1 DEF NoId
  <2> QED
    BY <2>1, <2>2
<1>3. board.dist[Start] < Inf => board.est[Start] # Inf
  BY BoardFacts, ShortestFacts
<1>4. Ahead(1)'
  BY <1>2, <1>3 DEF Ahead, InQueue
<1>5. Held(Start)'
  BY <1>2 DEF Held
<1> QED
  BY <1>2, <1>4, <1>5 DEF Spread

LEMMA NoRoute == incumbent = NoId => IncumbentMoves = Inf
BY DEF IncumbentMoves, MovesOf

(* A search that ends, or hands its route over, is not without one.        *)
LEMMA EndFound ==
  ASSUME NEW st \in Kinds \ {"running"}, NEW a, NEW id, NEW p, NEW cut,
         End(st, a, id, p, cut)
  PROVE  ~Unfound'
<1>1. CASE polish' = [ending |-> st, best |-> MovesOf(a, id)]
  <2>1. polish'.ending # NoPolish.ending
    BY <1>1 DEF NoPolish, Kinds
  <2> QED
    BY <2>1 DEF Unfound
<1>2. CASE status' = st
  BY <1>2 DEF Unfound
<1> QED
  BY <1>1, <1>2 DEF End

LEMMA LimitFound ==
  ASSUME NEW a, NEW id, NEW p, NEW f, StopAtLimit(a, id, p, f)
  PROVE  ~Unfound'
<1>1. LimitStatus(a) \in Kinds \ {"running"}
  BY DEF LimitStatus, Kinds
<1> QED
  BY <1>1, EndFound DEF StopAtLimit

LEMMA PhaseFound ==
  ASSUME NEW a, NEW id, id # NoId, NextPhaseOrEnd(a, id)
  PROVE  ~Unfound'
<1>1. CASE P.next = "none"
  <2>1. "solved" \in Kinds \ {"running"}
    BY DEF Kinds
  <2> QED
    BY <1>1, <2>1, EndFound DEF NextPhaseOrEnd
<1>2. CASE P.next # "none"
  BY <1>2 DEF NextPhaseOrEnd, Unfound
<1> QED
  BY <1>1, <1>2

LEMMA EmptySpreads == PopEmpty => ~Unfound'
<1> SUFFICES ASSUME PopEmpty PROVE ~Unfound'
  OBVIOUS
<1>1. PICK st : /\ st = IF incumbent # NoId THEN "solved" ELSE "exhausted"
                /\ End(st, arena, incumbent, policy, interrupted)
  BY DEF PopEmpty
<1>2. st \in Kinds \ {"running"}
  BY <1>1 DEF Kinds
<1> QED
  BY <1>1, <1>2, EndFound

LEMMA StaleSpreads == IInv /\ SpreadOk /\ PopStale => SpreadOk'
<1> SUFFICES ASSUME IInv, SpreadOk, PopStale, Unfound' PROVE Spread'
  BY DEF SpreadOk
<1>1. /\ Ready /\ arena.queue # {} /\ arena.recs[Popped.id].sup
      /\ arena' = Dequeue(arena)
      /\ UNCHANGED <<board, cur, ladder, policy, status, incumbent, polish>>
  BY DEF PopStale, Stale
<1>2. Spread
  BY <1>1 DEF SpreadOk, Unfound
<1>3. arena'.recs = arena.recs /\ arena'.queue = arena.queue \ {Popped}
  BY <1>1 DEF Dequeue, Popped
<1>4. ASSUME NEW i \in 1 .. Len(arena.recs), ~arena.recs[i].sup, InQueue(i)
      PROVE  InQueue(i)'
  BY <1>1, <1>3, <1>4 DEF InQueue
<1> QED
  BY <1>1, <1>2, <1>3, <1>4, SpreadSame

LEMMA PrunedSpreads == PopPruned => ~Unfound'
<1> SUFFICES ASSUME PopPruned, Unfound' PROVE FALSE
  OBVIOUS
<1>1. incumbent = NoId /\ IncumbentMoves < Inf
  BY DEF PopPruned, Unfound, PoppedDominated
<1>2. Inf < Inf
  BY <1>1, NoRoute
<1> QED
  BY <1>2, BoardAssumption

(* A solved pop is a route, and of no moves.                               *)
LEMMA PoppedRoute ==
  ASSUME IInv, PopSolved, Unfound => Spread, Unfound
  PROVE  /\ Popped.id # NoId
         /\ arena.recs[Popped.id].g < IncumbentMoves
<1>1. /\ arena.queue # {} /\ ~arena.recs[Popped.id].sup /\ Solved(arena.recs[Popped.id].st)
  BY DEF PopSolved, PoppedLive, PoppedSolved, Stale
<1>2. Popped.id \in 1 .. Len(arena.recs)
  BY <1>1, PoppedFacts
<1>3. arena.recs[Popped.id].g = 0
  BY <1>1, <1>2, SolvedStart
<1>4. IncumbentMoves = Inf /\ Inf \in Nat \ {0}
  BY NoRoute, BoardAssumption DEF Unfound
<1> QED
  BY <1>2, <1>3, <1>4 DEF NoId

LEMMA SolvedSpreads == IInv /\ SpreadOk /\ PopSolved => ~Unfound'
<1> SUFFICES ASSUME IInv, SpreadOk, PopSolved, Unfound' PROVE FALSE
  OBVIOUS
<1> DEFINE id == IF arena.recs[Popped.id].g < IncumbentMoves THEN Popped.id ELSE incumbent
<1>1. /\ status = "running" /\ ladder = NoLadder /\ polish = NoPolish
      /\ arena.queue # {} /\ policy \in DOMAIN Policies
  BY ReadyFacts DEF PopSolved, PoppedLive, IInv, Given
<1>2. policy' # "exact"
  BY DEF Unfound
<1>5. ASSUME policy # "exact" PROVE id # NoId
  <2>1. Popped.id \in 1 .. Len(arena.recs)
    BY <1>1, PoppedFacts
  <2>2. Popped.id # NoId
    BY <2>1 DEF NoId
  <2>3. CASE incumbent = NoId
    <3>1. Unfound
      BY <1>1, <1>5, <2>3 DEF Unfound
    <3>2. arena.recs[Popped.id].g < IncumbentMoves
      BY <3>1, PoppedRoute DEF SpreadOk
    <3> QED
      BY <2>2, <3>2
  <2> QED
    BY <2>2, <2>3
<1>3. CASE P.goalPop
  <2>1. NextPhaseOrEnd(Dequeue(arena), id)
    BY <1>3 DEF PopSolved
  <2>2. policy # "exact"
    <3>1. policy' = policy \/ (P.next # "none" /\ policy' = P.next)
      BY <2>1 DEF NextPhaseOrEnd, End
    <3>2. policy = "exact" => P.next = "none"
      BY ExactPolicy
    <3> QED
      BY <1>2, <3>1, <3>2
  <2>3. id # NoId
    BY <1>5, <2>2
  <2> HIDE DEF id
  <2> QED
    BY <2>1, <2>3, PhaseFound
<1>4. CASE ~P.goalPop
  <2>1. incumbent' = id /\ policy' = policy
    BY <1>4 DEF PopSolved
  <2>2. id # NoId
    BY <1>2, <1>5, <2>1
  <2> QED
    BY <2>1, <2>2 DEF Unfound
<1> QED
  BY <1>3, <1>4

LEMMA ExpandSpreads == IInv /\ SpreadOk /\ PopExpand => SpreadOk'
<1> SUFFICES ASSUME IInv, SpreadOk, PopExpand, Unfound' PROVE Spread'
  BY DEF SpreadOk
<1>p. PICK p : p = Popped.id
  OBVIOUS
<1>1. /\ Ready /\ arena.queue # {} /\ ~arena.recs[p].sup
      /\ ~(Popped.h = 0 /\ Solved(arena.recs[p].st))
      /\ arena' = Close(Dequeue(arena), p) /\ cur' = Expansion(p, Popped.h, Partial(p))
      /\ UNCHANGED <<board, ladder, policy, status, incumbent, polish>>
  BY <1>p DEF PopExpand, PoppedLive, Stale, PoppedSolved, Opened
<1>2. Spread /\ policy # "exact" /\ cur = Idle
  BY <1>1 DEF SpreadOk, Unfound, Ready
<1>3. /\ Popped \in arena.queue /\ p \in 1 .. Len(arena.recs) /\ Popped.h \in Nat
      /\ board \in Boards
  BY <1>1, <1>p, PoppedFacts DEF IInv, Given
<1>4. /\ Len(arena'.recs) = Len(arena.recs)
      /\ \A i \in 1 .. Len(arena.recs) :
           /\ arena'.recs[i].st = arena.recs[i].st /\ arena'.recs[i].g = arena.recs[i].g
           /\ arena'.recs[i].sup = arena.recs[i].sup
  <2>1. SameButQueue(arena, arena')
    BY <1>1, <1>3, OpenSound DEF IInv
  <2> QED
    BY <2>1 DEF SameButQueue, Alike
<1>5. \A i \in 1 .. Len(arena.recs) : arena'.recs[i].closed = (arena.recs[i].closed \/ i = p)
  <2>1. PICK d : d = Dequeue(arena)
    OBVIOUS
  <2>2. d \in Arenas /\ d.recs = arena.recs
    BY <2>1, SoundUpward, DequeueFacts DEF IInv, SameButQueue
  <2>3. arena' = Close(d, p)
    BY <1>1, <2>1
  <2> QED
    BY <1>3, <2>2, <2>3, CloseFacts DEF SameButQueue
<1>6. arena'.queue = arena.queue \ {Popped}
  BY <1>1 DEF Close, Dequeue, Popped
<1>7. ~Solved(arena.recs[p].st)
  <2> SUFFICES ASSUME Solved(arena.recs[p].st) PROVE FALSE
    OBVIOUS
  <2>1. Popped.h <= board.dist[arena.recs[p].st]
    BY <1>2, <1>3, <1>p DEF IInv, LowOk, Low
  <2>2. board.dist[arena.recs[p].st] = 0
    BY <1>3, RecordFacts, ShortestFacts DEF Solved
  <2> QED
    BY <1>1, <1>3, <2>1, <2>2
<1>8. \A s : Held(s)' = Held(s)
  BY <1>4 DEF Held
<1>9. \A i \in 1 .. Len(arena.recs) : i # p /\ InQueue(i) => InQueue(i)'
  BY <1>6, <1>p DEF InQueue
<1>10. \A i \in 1 .. Len(arena.recs) : Edges(i)' = Edges(i)
  BY <1>1, <1>4 DEF Edges
<1>11. Ahead(p)'
  <2> SUFFICES ASSUME board.dist[arena.recs[p].st] < Inf, NEW e \in Edges(p)
               PROVE  p = cur'.id /\ e \in Range1(cur'.todo)
    <3>1. arena'.recs[p].closed /\ ~Solved(arena'.recs[p].st) /\ board' = board
      BY <1>1, <1>3, <1>4, <1>5, <1>7
    <3>2. arena'.recs[p].st = arena.recs[p].st /\ Edges(p)' = Edges(p)
      BY <1>3, <1>4, <1>10
    <3> QED
      BY <3>1, <3>2 DEF Ahead
  <2>1. arena.recs[p].st \notin board.corral
    <3>1. PICK s \in States : s = arena.recs[p].st
      BY <1>3, RecordFacts
    <3>2. s \in board.corral => board.dist[s] = Inf
      BY <1>3, <3>1, EstimateFacts
    <3> QED
      BY <1>3, <3>1, <3>2, ShortestFacts
  <2> QED
    BY <1>1, <2>1 DEF Expansion, Edges
<1>12. ASSUME NEW i \in 1 .. Len(arena.recs), ~arena.recs[i].sup, i # p
       PROVE  Ahead(i)'
  <2>1. Ahead(i) /\ arena'.recs[i].closed = arena.recs[i].closed
    <3>1. arena.recs[i].closed \in BOOLEAN
      BY RecordFacts
    <3> QED
      BY <1>2, <1>5, <1>12, <3>1 DEF Spread
  <2>2. \A e : e \notin Range1(cur.todo)
    BY <1>2, EmptyValues, EmptyTodo
  <2> QED
    BY <1>1, <1>4, <1>8, <1>9, <1>10, <1>12, <2>1, <2>2 DEF Ahead
<1>13. ASSUME NEW i \in 1 .. Len(arena.recs), ~arena.recs[i].sup PROVE Ahead(i)'
  BY <1>11, <1>12, <1>13
<1> QED
  BY <1>2, <1>4, <1>8, <1>13 DEF Spread
(* Optimal stays Optimal: it has no policy to hand over to.                *)
LEMMA ExactStays == IInv /\ ExactInv /\ [Next]_vars /\ policy = "exact" => policy' = "exact"
<1> SUFFICES ASSUME IInv, ExactInv, [Next]_vars, policy = "exact" PROVE policy' = policy
  OBVIOUS
<1>1. /\ P.next = "none" /\ P.restart = "none" /\ ~P.goalPush
      /\ ~StageEarly /\ ~StageFull /\ ~StageUnit /\ ~StageSolved /\ ~StageGaveUp
  BY ExactPolicy, ExactNever DEF ExactInv
<1>2. \A st, a, id, cut : End(st, a, id, policy, cut) => policy' = policy
  BY DEF End
<1>3. \A a, id, f : StopAtLimit(a, id, policy, f) => policy' = policy
  BY <1>2 DEF StopAtLimit
<1>4. \A a, id : NextPhaseOrEnd(a, id) => policy' = policy
  BY <1>1, <1>2 DEF NextPhaseOrEnd
<1>5. PopEmpty => policy' = policy
  BY <1>2 DEF PopEmpty
<1>6. PopSolved => policy' = policy
  BY <1>4 DEF PopSolved
<1>7. PushStored => policy' = policy
  BY <1>1, <1>3 DEF PushStored
<1>8. PushAtLimit => policy' = policy
  BY <1>1, <1>3 DEF PushAtLimit, MayStartOver
<1>9. PopStale \/ PopPruned \/ PopExpand \/ PushDropped \/ FinishExpansion => policy' = policy
  BY DEF PopStale, PopPruned, PopExpand, PushDropped, FinishExpansion
<1>10. BuildDone \/ WalkDone \/ PolishUnit \/ PolishDone => policy' = policy
  BY DEF BuildDone, WalkDone, PolishUnit, PolishDone
<1>11. (\E reason \in {"time_limit", "cancelled"} : Stop(reason)) => policy' = policy
  BY DEF Stop
<1>12. UNCHANGED vars => policy' = policy
  BY DEF vars
<1> QED
  BY <1>1, <1>5, <1>6, <1>7, <1>8, <1>9, <1>10, <1>11, <1>12 DEF Next, Advance, Terminated

(* The pushes left to try are the first and the rest.                      *)
LEMMA TodoRest ==
  ASSUME IInv, Expanding, cur.todo # << >>, NEW e \in Range1(cur.todo), e # Push
  PROVE  e \in Range1(Tail(cur.todo))
<1>1. cur.todo \in Seq(Range1(board.succ[arena.recs[cur.id].st])) /\ cur.todo # << >>
  BY DEF IInv, CurOk, Fits
<1>2. /\ Len(cur.todo) \in Nat /\ Len(Tail(cur.todo)) = Len(cur.todo) - 1
      /\ \A m \in 1 .. Len(Tail(cur.todo)) : Tail(cur.todo)[m] = cur.todo[m + 1]
      /\ Push = cur.todo[1]
  BY <1>1, HeadTailProperties, LenProperties DEF Push
<1>3. PICK n \in 1 .. Len(cur.todo) : e = cur.todo[n]
  BY DEF Range1
<1>4. n # 1
  BY <1>2, <1>3
<1>5. n - 1 \in 1 .. Len(Tail(cur.todo)) /\ cur.todo[n] = Tail(cur.todo)[n - 1]
  BY <1>2, <1>3, <1>4
<1> QED
  BY <1>3, <1>5 DEF Range1

(* A push that is dropped leads nowhere, or to a position that is held.    *)
LEMMA DroppedSpreads == IInv /\ SpreadOk /\ PushDropped => SpreadOk'
<1> SUFFICES ASSUME IInv, SpreadOk, PushDropped, Unfound' PROVE Spread'
  BY DEF SpreadOk
<1>1. /\ Expanding /\ cur.todo # << >>
      /\ UNCHANGED <<arena, board, ladder, policy, status, incumbent, polish>>
  BY DEF PushDropped
<1>2. Spread /\ policy # "exact" /\ incumbent = NoId /\ room = "off"
  BY <1>1 DEF SpreadOk, Unfound, IInv, RoomOk
<1>3. ~cur.partial
  BY <1>2 DEF IInv, CurOk, Fits
<1>4. ~Admitted /\ cur' = Tried
  BY <1>3 DEF PushDropped, LeftUnbuilt, LeftBuilt
<1>5. /\ board \in Boards /\ Child \in Nodes /\ Grows(arena) /\ ~arena.starved
      /\ Child.h <= board.dist[Child.st] /\ Child.st = Push.to
      /\ Child.st \in States /\ Child.h \in Nat
  BY <1>1, PushFacts DEF IInv, Given, Child, ChildOf, Nodes
<1>6. ~Admits(cur.id, Push, P.reopen, IncumbentMoves)
  <2>1. RoomH(Child.st) < Inf /\ ~(IncumbentMoves < Inf)
    BY <1>2, NoRoute, BoardAssumption DEF RoomH
  <2> QED
    BY <1>4, <2>1 DEF Admitted
<1>7. board.dist[Child.st] < Inf => Held(Child.st)
  <2> SUFFICES ASSUME board.dist[Child.st] < Inf PROVE Held(Child.st)
    OBVIOUS
  <2>1. Child.h < Inf
    BY <1>5, ShortestFacts
  <2>2. ~(IncumbentMoves < Inf)
    BY <1>2, NoRoute, BoardAssumption
  <2>3. Find(arena, Child.st) # NoId
    BY <1>6, <2>1, <2>2 DEF Admits, Child
  <2>4. arena \in Arenas /\ arena.index = Live(arena) /\ arena.index \subseteq 1 .. Len(arena.recs)
    BY <1>5, GrowsIndex DEF IInv
  <2>5. \E i \in arena.index : arena.recs[i].st = Child.st
    BY <2>3 DEF Find
  <2> QED
    BY <2>4, <2>5 DEF Live, Held
<1>8. cur'.id = cur.id /\ cur'.todo = Tail(cur.todo)
  BY <1>1, <1>4, TriedFacts
<1>9. \A e \in Range1(cur.todo) : e = Push \/ e \in Range1(cur'.todo)
  BY <1>1, <1>8, TodoRest
<1>10. ASSUME NEW i \in 1 .. Len(arena.recs), NEW e, i = cur.id, e \in Range1(cur.todo)
       PROVE  \/ Held(e.to) \/ (i = cur'.id /\ e \in Range1(cur'.todo))
              \/ ~(board.dist[e.to] < Inf)
  BY <1>5, <1>7, <1>8, <1>9, <1>10
<1>11. \A i \in 1 .. Len(arena.recs) : ~arena.recs[i].sup /\ InQueue(i) => InQueue(i)'
  BY <1>1 DEF InQueue
<1> QED
  BY <1>1, <1>2, <1>10, <1>11, SpreadSame
(* A stored child that is no route is queued, and its position held.       *)
LEMMA StoredAhead ==
  ASSUME IInv, Spread, policy # "exact", Expanding, cur.todo # << >>, ~IsFull(arena), ~IsGoal,
         board' = board, cur' = Tried, NEW ok \in Grants,
         arena' = Enqueue(Insert(arena, Child, ok), Child.g + P.weight * ChildH, ChildH,
                          Len(arena.recs) + 1)
  PROVE  Spread'
<1>0. PICK l : l = Len(arena.recs)
  OBVIOUS
<1>1. PICK b : b = arena'
  OBVIOUS
<1>2. /\ Child \in Nodes /\ ChildH = Child.h /\ Grows(arena) /\ ~arena.starved
      /\ l \in Nat /\ board \in Boards /\ cur.id \in 1 .. l
      /\ Reached(board, arena, Child) /\ Child.st = Push.to
  BY <1>0, PushFacts DEF IInv, Given, Child, ChildOf
<1>3. /\ arena.index = Live(arena) /\ arena.index \subseteq 1 .. l
      /\ arena \in Arenas
  BY <1>0, <1>2, GrowsIndex DEF IInv
<1>4. /\ Extends(arena, b, Child)
      /\ \A i \in 1 .. l : Kept(b.recs[i], arena.recs[i], i, Find(arena, Child.st))
      /\ b.queue = arena.queue \cup {[f |-> Child.g + P.weight * ChildH, h |-> ChildH,
                                      id |-> l + 1]}
  BY <1>0, <1>1, StoredRecords
<1>5. /\ Len(b.recs) = l + 1
      /\ b.recs[l + 1].st = Child.st /\ b.recs[l + 1].g = Child.g
      /\ ~b.recs[l + 1].closed /\ ~b.recs[l + 1].sup
  BY <1>0, <1>4 DEF Extends, Alike
<1>6. ASSUME NEW i \in 1 .. l
      PROVE  /\ b.recs[i].st = arena.recs[i].st /\ b.recs[i].g = arena.recs[i].g
             /\ b.recs[i].closed = arena.recs[i].closed
             /\ ~b.recs[i].sup => ~arena.recs[i].sup
             /\ ~arena.recs[i].sup /\ b.recs[i].sup => arena.recs[i].st = Child.st
             /\ InQueue(i) => \E q \in b.queue : q.id = i
  <2>1. Kept(b.recs[i], arena.recs[i], i, Find(arena, Child.st))
    BY <1>4
  <2>2. i = Find(arena, Child.st) => arena.recs[i].st = Child.st
    <3>1. i # NoId
      BY DEF NoId
    <3> QED
      BY <1>0, <1>3, <3>1, FindFacts
  <2>3. b.recs[i].sup = (arena.recs[i].sup \/ i = Find(arena, Child.st))
    BY <2>1 DEF Kept
  <2>4. InQueue(i) => \E q \in b.queue : q.id = i
    BY <1>4 DEF InQueue
  <2> QED
    BY <2>1, <2>2, <2>3, <2>4 DEF Kept, Alike
<1>c. PICK t : t = Child.st
  OBVIOUS
<1>7. Held(t)'
  <2>1. l + 1 \in 1 .. Len(b.recs) /\ ~b.recs[l + 1].sup /\ b.recs[l + 1].st = t
    BY <1>2, <1>5, <1>c
  <2> QED
    BY <1>1, <2>1 DEF Held
<1>8. ASSUME NEW s, Held(s) PROVE Held(s)'
  <2>1. PICK i \in 1 .. l : ~arena.recs[i].sup /\ arena.recs[i].st = s
    BY <1>0, <1>8 DEF Held
  <2>2. CASE b.recs[i].sup
    BY <1>6, <1>7, <1>c, <2>1, <2>2
  <2>3. CASE ~b.recs[i].sup
    <3>1. i \in 1 .. Len(b.recs) /\ b.recs[i].st = s
      BY <1>2, <1>5, <1>6, <2>1
    <3> QED
      BY <1>1, <2>3, <3>1 DEF Held
  <2> QED
    BY <2>2, <2>3
<1>9. ~Solved(t)
  <2>1. RoomH(Child.st) = 0
    BY DEF IInv, RoomOk, RoomH
  <2>2. Solved(Child.st) => ChildH = 0
    <3>1. Child.h = board.est[Child.st] /\ Child.st \in States
      BY <1>2 DEF Reached, Nodes
    <3> QED
      BY <1>2, <3>1, EstimateFacts DEF Solved
  <2> QED
    BY <1>c, <2>2 DEF IsGoal
<1>10. ASSUME NEW n, n = l + 1 PROVE Ahead(n)'
  <2>1. \E q \in b.queue : q.id = n
    <3>1. PICK q : q = [f |-> Child.g + P.weight * ChildH, h |-> ChildH, id |-> l + 1]
      OBVIOUS
    <3>2. q \in b.queue /\ q.id = l + 1
      BY <1>4, <3>1
    <3> QED
      BY <1>10, <3>2
  <2>2. InQueue(n)' /\ ~Solved(b.recs[n].st) /\ ~b.recs[n].closed
    BY <1>1, <1>5, <1>9, <1>10, <1>c, <2>1 DEF InQueue
  <2> QED
    BY <1>1, <2>2 DEF Ahead
<1>11. cur'.id = cur.id /\ \A e \in Range1(cur.todo) : e = Push \/ e \in Range1(cur'.todo)
  BY TriedFacts, TodoRest
<1>12. ASSUME NEW i \in 1 .. l, ~b.recs[i].sup PROVE Ahead(i)'
  <2>1. Ahead(i)
    BY <1>0, <1>6, <1>12 DEF Spread
  <2>2. /\ b.recs[i].st = arena.recs[i].st /\ b.recs[i].g = arena.recs[i].g
        /\ b.recs[i].closed = arena.recs[i].closed
        /\ InQueue(i) => InQueue(i)'
    BY <1>1, <1>6 DEF InQueue
  <2>3. Edges(i)' = Edges(i)
    BY <1>1, <2>2 DEF Edges
  <2>4. ASSUME NEW e \in Edges(i), Held(e.to) \/ (i = cur.id /\ e \in Range1(cur.todo))
        PROVE  Held(e.to)' \/ (i = cur'.id /\ e \in Range1(cur'.todo))
    <3>1. PICK s : s = e.to
      OBVIOUS
    <3>2. e = Push => s = t
      BY <1>2, <1>c, <3>1
    <3>3. CASE Held(s)
      BY <1>8, <3>1, <3>3
    <3>4. CASE e = Push
      BY <1>7, <3>1, <3>2, <3>4
    <3>5. CASE ~Held(s) /\ e # Push
      BY <1>11, <2>4, <3>1, <3>5
    <3> QED
      BY <3>3, <3>4, <3>5
  <2> QED
    BY <1>1, <2>1, <2>2, <2>3, <2>4 DEF Ahead
<1>13. \A i \in 1 .. Len(b.recs) : i \in 1 .. l \/ i = l + 1
  BY <1>2, <1>5
<1>14. Held(Start)'
  BY <1>8 DEF Spread
<1> QED
  BY <1>1, <1>10, <1>12, <1>13, <1>14 DEF Spread

LEMMA StoredSpreads == IInv /\ policy # "exact" /\ SpreadOk /\ PushStored => SpreadOk'
<1> SUFFICES ASSUME IInv, policy # "exact", SpreadOk, PushStored, Unfound' PROVE Spread'
  BY DEF SpreadOk
<1> DEFINE handsOver == IsGoal /\ P.goalPush
           best == IF IsGoal THEN Len(arena.recs) + 1 ELSE incumbent
           p == IF handsOver THEN P.next ELSE policy
           c(ok) == Enqueue(Insert(arena, Child, ok), Child.g + P.weight * ChildH, ChildH,
                            Len(arena.recs) + 1)
<1>1. PICK ok \in Grant :
        /\ IF handsOver /\ P.next = "none"
           THEN NextPhaseOrEnd(c(ok), best)
           ELSE IF c(ok).starved
           THEN StopAtLimit(IF handsOver THEN Reweight(c(ok), Policies[p].weight) ELSE c(ok),
                            best, p, LimitF)
           ELSE /\ cur' = Tried
                /\ IF handsOver THEN NextPhaseOrEnd(c(ok), best)
                   ELSE /\ arena' = c(ok) /\ incumbent' = best
                        /\ UNCHANGED <<ladder, policy, status, interrupted, staging,
                                       polish, sealed>>
  BY DEF PushStored
<1>2. /\ Expanding /\ cur.todo # << >> /\ ~IsFull(arena) /\ board' = board
  BY DEF PushStored, ToStore
<1>3. Len(arena.recs) \in Nat /\ ok \in Grants
  BY <1>2, PushFacts, EngineAssumption
<1> HIDE DEF c
<1>4. CASE IsGoal
  <2>1. best # NoId
    BY <1>3, <1>4 DEF NoId
  <2> HIDE DEF best
  <2>2. CASE handsOver /\ P.next = "none"
    BY <1>1, <2>1, <2>2, PhaseFound
  <2>3. CASE c(ok).starved /\ ~(handsOver /\ P.next = "none")
    BY <1>1, <2>3, LimitFound
  <2>4. CASE ~c(ok).starved /\ handsOver
    BY <1>1, <2>1, <2>4, PhaseFound
  <2>5. CASE ~c(ok).starved /\ ~handsOver
    BY <1>1, <2>1, <2>5 DEF Unfound
  <2> QED
    BY <2>2, <2>3, <2>4, <2>5
<1>5. CASE ~IsGoal
  <2>1. CASE c(ok).starved
    BY <1>1, <1>5, <2>1, LimitFound
  <2>2. CASE ~c(ok).starved
    <3>1. /\ cur' = Tried /\ arena' = c(ok) /\ incumbent' = incumbent
          /\ UNCHANGED <<ladder, policy, status, polish>>
      BY <1>1, <1>5, <2>2
    <3>2. Spread
      BY <3>1 DEF SpreadOk, Unfound
    <3> QED
      BY <1>2, <1>3, <1>5, <3>1, <3>2, StoredAhead DEF c
  <2> QED
    BY <2>1, <2>2
<1> QED
  BY <1>4, <1>5

LEMMA AtLimitSpreads == IInv /\ policy # "exact" /\ SpreadOk /\ PushAtLimit => SpreadOk'
<1> SUFFICES ASSUME IInv, PushAtLimit, Unfound' PROVE Spread'
  BY DEF SpreadOk
<1>1. PICK ok \in Grant :
        LET a  == IF IsGoal THEN Insert(arena, Child, ok) ELSE arena
            id == IF IsGoal THEN Len(a.recs) ELSE incumbent
        IN  IF MayStartOver(a, id, P.restart)
            THEN /\ StartOver(a, id, P.restart)
                 /\ cur' = [Tried EXCEPT !.todo = << >>]
            ELSE StopAtLimit(a, id, policy, LimitF)
  BY DEF PushAtLimit
<1>2. PICK a : a = IF IsGoal THEN Insert(arena, Child, ok) ELSE arena
  OBVIOUS
<1>3. PICK id : id = IF IsGoal THEN Len(a.recs) ELSE incumbent
  OBVIOUS
<1>4. /\ Expanding /\ cur.todo # << >> /\ IsFull(arena) /\ board' = board
  BY DEF PushAtLimit, ToStore
<1>5. /\ Len(arena.recs) \in Nat /\ board \in Boards
      /\ Grows(arena) /\ ~arena.starved /\ Child \in Nodes /\ Reached(board, arena, Child)
      /\ Sound(board, arena) /\ SolvedId(arena, incumbent)
  BY <1>4, PushFacts DEF IInv, Given
<1>6. Sound(board, a) /\ SolvedId(a, id) /\ (IsGoal => id # NoId)
  <2>1. CASE IsGoal
    <3>1. a = Insert(arena, Child, ok) /\ id = Len(a.recs) /\ ok \in Grants
      BY <1>2, <1>3, <2>1, EngineAssumption
    <3>2. /\ Sound(board, a) /\ Len(a.recs) = Len(arena.recs) + 1
          /\ Alike(a.recs[Len(arena.recs) + 1], Child)
      BY <1>4, <1>5, <3>1, SpareSound
    <3> QED
      BY <1>5, <2>1, <3>1, <3>2 DEF SolvedId, IsGoal, Alike, NoId
  <2>2. CASE ~IsGoal
    BY <1>2, <1>3, <1>5, <2>2
  <2> QED
    BY <2>1, <2>2
<1>7. StartOver(a, id, P.restart) /\ cur' = [Tried EXCEPT !.todo = << >>]
  <2>1. ~StopAtLimit(a, id, policy, LimitF)
    BY LimitFound
  <2> QED
    BY <1>1, <1>2, <1>3, <2>1
<1>8. id = NoId
  <2>1. id # NoId => incumbent' # NoId
    BY <1>4, <1>5, <1>6, <1>7, StartOverRecords
  <2> QED
    BY <2>1 DEF Unfound
<1>9. cur'.todo = << >>
  BY <1>4, <1>7 DEF Tried, IInv, CurOk, Fits
<1> QED
  BY <1>4, <1>5, <1>6, <1>7, <1>8, <1>9, OverSpreads

LEMMA FinishSpreads == IInv /\ policy # "exact" /\ SpreadOk /\ FinishExpansion => SpreadOk'
<1> SUFFICES ASSUME IInv, policy # "exact", SpreadOk, FinishExpansion, Unfound' PROVE Spread'
  BY DEF SpreadOk
<1>1. /\ cur.todo = << >> /\ cur' = Idle /\ Expanding
      /\ UNCHANGED <<board, ladder, policy, status, incumbent>>
  BY DEF FinishExpansion
<1>2. cur.deferred = Inf /\ polish = NoPolish
  BY <1>1, LadderRuns DEF IInv, CurOk, Fits, Expanding
<1>3. arena' = arena
  BY <1>2 DEF FinishExpansion
<1>4. Spread
  BY <1>1, <1>2 DEF SpreadOk, Unfound
<1>5. \A e : e \notin Range1(cur.todo)
  BY <1>1, EmptyTodo
<1>6. \A i \in 1 .. Len(arena.recs) : ~arena.recs[i].sup /\ InQueue(i) => InQueue(i)'
  BY <1>3 DEF InQueue
<1> QED
  BY <1>1, <1>3, <1>4, <1>5, <1>6, SpreadSame
LEMMA GaveUpSpreads == IInv /\ StageGaveUp => SpreadOk'
<1> SUFFICES ASSUME IInv, StageGaveUp, Unfound' PROVE Spread'
  BY DEF SpreadOk
<1>1. ladder # NoLadder /\ ladder.phase = "gaveup" /\ board' = board
  BY EmptyValues DEF StageGaveUp
<1>2. cur = Idle
  BY <1>1 DEF IInv, LadderOk, Climbing
<1>3. board \in Boards /\ Sound(board, arena)
  BY DEF IInv, Given
<1>4. ~StopAtLimit(arena, NoId, policy, staging.trigger)
  BY LimitFound
<1>5. PICK p : StartOver(arena, NoId, p) /\ UNCHANGED cur
  BY <1>4 DEF StageGaveUp
<1>6. cur'.todo = << >>
  BY <1>2, <1>5, EmptyValues
<1> QED
  BY <1>1, <1>3, <1>5, <1>6, OverSpreads

LEMMA StageSolvedSpreads == IInv /\ StageSolved => ~Unfound'
<1> SUFFICES ASSUME IInv, StageSolved PROVE ~Unfound'
  OBVIOUS
<1>1. /\ ladder # NoLadder /\ ladder.phase = "solved" /\ board' = board
      /\ board \in Boards /\ Sound(board, arena)
  BY EmptyValues DEF StageSolved, IInv, Given
<1>2. PICK id : id = ladder.at
  OBVIOUS
<1>3. id \in 1 .. Len(arena.recs) /\ Solved(arena.recs[id].st)
  BY <1>1, <1>2 DEF IInv, LadderOk, Climbing, Seeded
<1>4. SolvedId(arena, id) /\ id # NoId
  BY <1>3 DEF SolvedId, NoId
<1>5. CASE \E p : StartOver(arena, id, p)
  BY <1>1, <1>4, <1>5, StartOverRecords DEF Unfound
<1>6. CASE \E a, p, f : StopAtLimit(a, id, p, f)
  BY <1>6, LimitFound
<1>7. CASE incumbent' = id
  BY <1>4, <1>7 DEF Unfound
<1>8. CASE End("solved", arena, id, policy, interrupted)
  <2>1. "solved" \in Kinds \ {"running"}
    BY DEF Kinds
  <2> QED
    BY <1>8, <2>1, EndFound
<1> QED
  BY <1>2, <1>5, <1>6, <1>7, <1>8 DEF StageSolved

(* Has every field of a ladder.                                            *)
Shaped(l) ==
  l = [phase |-> l.phase, frames |-> l.frames, rises |-> l.rises, at |-> l.at,
       base |-> l.base, work |-> l.work, checks |-> l.checks, backtracks |-> l.backtracks]

(* A ladder only ends where its end is taken up.                           *)
LEMMA UnitStays == IInv /\ LadderUnit => ladder' # NoLadder
<1> SUFFICES ASSUME IInv, LadderUnit PROVE ladder'.phase # "none"
  BY EmptyValues
<1>1. ladder # NoLadder
  BY UnitLadder
<1>2. ladder \in Ladders /\ ladder.phase # "none"
  BY <1>1 DEF IInv, LadderOk, Climbing
<1>3. \A how, i : Ended(how, i).phase = how
  BY <1>2 DEF Ended, Ladders
<1>4. Fails.phase = "fail"
  BY <1>2 DEF Fails, Ladders
<1>5. \A l : Shaped(l) => Charged(l).phase = l.phase
  BY DEF Charged, Shaped
<1>16. Shaped(ladder) /\ \A how, i : Shaped(Ended(how, i))
  <2>1. Shaped(ladder)
    BY <1>2 DEF Shaped, Ladders
  <2>2. ASSUME NEW how, NEW i PROVE Shaped(Ended(how, i))
    <3>1. PICK l : l = Ended(how, i)
      OBVIOUS
    <3>2. Shaped(l)
      BY <1>2, <3>1 DEF Shaped, Ladders, Ended
    <3> QED
      BY <3>1, <3>2
  <2> QED
    BY <2>1, <2>2
<1>6. \A rises : Enter(rises).phase \in {"search", "accept"}
  BY <1>2 DEF Enter, Ladders
<1>7. OutOfChecks => ladder'.phase # "none"
  BY <1>3 DEF OutOfChecks
<1>8. SearchSkip => ladder'.phase # "none"
  BY <1>2 DEF SearchSkip
<1>9. SearchDone => ladder'.phase # "none"
  BY <1>6 DEF SearchDone
<1>10. SearchPop => ladder'.phase # "none"
  <2> SUFFICES ASSUME SearchPop PROVE ladder'.phase # "none"
    OBVIOUS
  <2>1. [ladder EXCEPT !.rises = << >>].phase = ladder.phase
    BY <1>2 DEF Ladders
  <2>2. \/ ladder' = Fails
        \/ ladder' = ladder
        \/ \E i : ladder' = Ended("solved", i)
        \/ ladder' = [ladder EXCEPT !.rises = << >>]
    BY Zenon DEF SearchPop
  <2>3. \A i : ladder' = Ended("solved", i) => ladder'.phase = "solved"
    BY <1>3
  <2>4. ladder' = Fails => ladder'.phase = "fail"
    BY <1>4
  <2>5. \/ ladder'.phase = "fail" \/ ladder'.phase = ladder.phase \/ ladder'.phase = "solved"
    BY <2>1, <2>2, <2>3, <2>4, Zenon
  <2> QED
    BY <1>2, <2>5
<1>11. SelectUnit => ladder'.phase # "none"
  <2> SUFFICES ASSUME SelectUnit PROVE ladder'.phase # "none"
    OBVIOUS
  <2>1. PICK phase \in {"select", "search"} : ladder' = Charged([ladder EXCEPT !.phase = phase])
    BY DEF SelectUnit
  <2>2. PICK l : l = [ladder EXCEPT !.phase = phase]
    OBVIOUS
  <2>3. Shaped(l) /\ l.phase = phase
    BY <1>2, <2>1, <2>2 DEF Ladders, Shaped
  <2> QED
    BY <1>5, <2>1, <2>2, <2>3
<1>12. SearchChild => ladder'.phase # "none"
  <2> SUFFICES ASSUME SearchChild PROVE ladder'.phase # "none"
    OBVIOUS
  <2> DEFINE spent == [ladder EXCEPT !.work = @ - 1]
  <2>1. /\ spent.phase = ladder.phase
        /\ \A rises : [spent EXCEPT !.rises = rises].phase = ladder.phase
        /\ \A how, i : [Ended(how, i) EXCEPT !.work = @ - 1].phase = how
    BY <1>2 DEF Ended, Ladders
  <2>2. \/ ladder' = Fails
        \/ ladder' = spent
        \/ \E rises : ladder' = [spent EXCEPT !.rises = rises]
        \/ \E how, i : ladder' = [Ended(how, i) EXCEPT !.work = @ - 1] /\ how \in {"solved", "gaveup"}
    BY Zenon DEF SearchChild
  <2> HIDE DEF spent
  <2> QED
    BY <1>2, <1>4, <2>1, <2>2
<1>13. AcceptUnit => ladder'.phase # "none"
  <2> SUFFICES ASSUME AcceptUnit PROVE ladder'.phase # "none"
    OBVIOUS
  <2>1. Shaped([ladder EXCEPT !.phase = "commit"])
    BY <1>2 DEF Shaped, Ladders
  <2>2. [ladder EXCEPT !.phase = "commit"].phase = "commit"
    BY <1>2 DEF Ladders
  <2>3. \A rises : Shaped(Enter(rises))
    BY <1>2 DEF Shaped, Ladders, Enter
  <2>4. CASE ladder' = Charged(ladder)
    BY <1>2, <1>5, <1>16, <2>4
  <2>5. CASE ladder' = Charged([ladder EXCEPT !.phase = "commit"])
    BY <1>5, <2>1, <2>2, <2>5
  <2>6. CASE ladder' = Charged(Enter(Tail(ladder.rises)))
    BY <1>5, <1>6, <2>3, <2>6
  <2> QED
    BY <2>4, <2>5, <2>6 DEF AcceptUnit
<1>14. Commit => ladder'.phase # "none"
  <2> SUFFICES ASSUME Commit PROVE ladder'.phase # "none"
    OBVIOUS
  <2> DEFINE Onward(i, k) == [ladder EXCEPT !.phase = "select", !.rises = << >>, !.base = k + 1,
                              !.frames = Append(@, Frame(k, arena.recs[i].st))]
  <2>1. \A i, k : Shaped(Onward(i, k)) /\ Onward(i, k).phase = "select"
    <3> SUFFICES ASSUME NEW i, NEW k PROVE Shaped(Onward(i, k)) /\ Onward(i, k).phase = "select"
      OBVIOUS
    <3>1. PICK l : l = Onward(i, k)
      OBVIOUS
    <3>2. Shaped(l)
      BY <1>2, <3>1 DEF Shaped, Ladders
    <3>3. l.phase = "select"
      BY <1>2, <3>1 DEF Ladders
    <3> QED
      BY <3>1, <3>2, <3>3
  <2>2. PICK i : i = Head(ladder.rises)
    OBVIOUS
  <2>3. PICK k : k = Cardinality(Path(arena, i))
    OBVIOUS
  <2>4. ladder' = Charged(Onward(i, k)) \/ ladder' = Charged(Ended("gaveup", NoId))
    <3>1. CASE Keepable(arena, i)
      BY <2>2, <2>3, <3>1 DEF Commit
    <3>2. CASE ~Keepable(arena, i)
      BY <2>2, <3>2 DEF Commit
    <3> QED
      BY <3>1, <3>2
  <2> HIDE DEF Onward
  <2> QED
    BY <1>3, <1>5, <1>16, <2>1, <2>4
<1>17. \A frames, back : Restage(frames, back) => ladder'.phase # "none"
  <2> SUFFICES ASSUME NEW frames, NEW back, Restage(frames, back) PROVE ladder'.phase # "none"
    OBVIOUS
  <2> DEFINE Again(k) == [ladder EXCEPT !.phase = "select", !.frames = frames,
                            !.backtracks = @ - back, !.base = k + 1]
  <2>1. \A k : Shaped(Again(k)) /\ Again(k).phase = "select"
    <3> SUFFICES ASSUME NEW k PROVE Shaped(Again(k)) /\ Again(k).phase = "select"
      OBVIOUS
    <3>1. PICK l : l = Again(k)
      OBVIOUS
    <3>2. Shaped(l)
      BY <1>2, <3>1 DEF Shaped, Ladders
    <3>3. l.phase = "select"
      BY <1>2, <3>1 DEF Ladders
    <3> QED
      BY <3>1, <3>2, <3>3
  <2>2. PICK i : i = frames[Len(frames)].depth
    OBVIOUS
  <2>3. PICK k : k = Cardinality(Path(arena, i))
    OBVIOUS
  <2>4. ladder' = Charged(Again(k)) \/ ladder' = Charged(Ended("gaveup", NoId))
    <3>1. CASE Keepable(arena, i)
      BY <2>2, <2>3, <3>1 DEF Restage
    <3>2. CASE ~Keepable(arena, i)
      BY <2>2, <3>2 DEF Restage
    <3> QED
      BY <3>1, <3>2
  <2> HIDE DEF Again
  <2> QED
    BY <1>3, <1>5, <1>16, <2>1, <2>4
<1>15. FailUnit => ladder'.phase # "none"
  <2> SUFFICES ASSUME FailUnit PROVE ladder'.phase # "none"
    OBVIOUS
  <2> DEFINE Jumped(frames) == [ladder EXCEPT !.backtracks = @ - 1, !.frames = frames]
  <2>1. \A frames : Shaped(Jumped(frames)) /\ Jumped(frames).phase = ladder.phase
    <3> SUFFICES ASSUME NEW frames PROVE Shaped(Jumped(frames)) /\ Jumped(frames).phase = ladder.phase
      OBVIOUS
    <3>1. PICK l : l = Jumped(frames)
      OBVIOUS
    <3>2. Shaped(l)
      BY <1>2, <3>1 DEF Shaped, Ladders
    <3>3. l.phase = ladder.phase
      BY <1>2, <3>1 DEF Ladders
    <3> QED
      BY <3>1, <3>2, <3>3
  <2>2. \/ \E frames, back : Restage(frames, back)
        \/ \E frames : ladder' = Charged(Jumped(frames))
        \/ ladder' = Charged(Ended("gaveup", NoId))
    <3>1. CASE ladder.work = 0 \/ ladder.backtracks = 0
      BY Zenon, <3>1 DEF FailUnit
    <3>2. CASE ~(ladder.work = 0 \/ ladder.backtracks = 0) /\ TopFrame.rung < Len(Caps)
      BY <3>2, Zenon DEF FailUnit
    <3>3. CASE ~(ladder.work = 0 \/ ladder.backtracks = 0) /\ ~(TopFrame.rung < Len(Caps))
      BY <3>3, Zenon DEF FailUnit
    <3> QED
      BY <3>1, <3>2, <3>3
  <2> HIDE DEF Jumped
  <2> QED
    BY <1>2, <1>3, <1>5, <1>16, <1>17, <2>1, <2>2
<1> QED
  BY <1>7, <1>8, <1>9, <1>10, <1>11, <1>12, <1>13, <1>14, <1>15 DEF LadderUnit

(* The units and ends that leave a search without a route in a ladder, or  *)
(* at an end.                                                              *)
LEMMA ElseFound ==
  IInv /\ JobOk /\ policy # "exact"
    /\ (StageEarly \/ StageFull \/ StageUnit \/ BuildDone \/ WalkDone \/ PolishUnit
        \/ PolishDone \/ \E reason \in {"time_limit", "cancelled"} : Stop(reason))
  => ~Unfound'
<1> SUFFICES ASSUME IInv, JobOk, policy # "exact" PROVE
      (StageEarly \/ StageFull \/ StageUnit \/ BuildDone \/ WalkDone \/ PolishUnit
        \/ PolishDone \/ \E reason \in {"time_limit", "cancelled"} : Stop(reason)) => ~Unfound'
  OBVIOUS
<1>1. StageEarly \/ StageFull => ~Unfound'
  <2> SUFFICES ASSUME StartStaging PROVE ladder' # NoLadder
    BY DEF StageEarly, StageFull, Unfound
  <2>1. ladder'.phase = "select"
    BY DEF StartStaging, Begin
  <2> QED
    BY <2>1, EmptyValues
<1>2. StageUnit => ~Unfound'
  BY UnitStays DEF StageUnit, Unfound
<1>3. ~BuildDone /\ ~WalkDone
  BY DEF IInv, RoomOk, BuildDone, WalkDone
<1>4. NoPolish.ending = "none"
  BY DEF NoPolish
<1>5. polish # NoPolish => polish.ending # "none"
  BY DEF IInv, PolishOk
<1>6. PolishUnit => ~Unfound'
  <2> SUFFICES ASSUME PolishUnit PROVE polish' # NoPolish
    BY DEF Unfound
  <2>1. PICK best : polish' = [polish EXCEPT !.best = best]
    BY DEF PolishUnit
  <2>2. polish'.ending = polish.ending
    BY <2>1 DEF IInv, PolishOk
  <2> QED
    BY <1>4, <1>5, <2>2 DEF PolishUnit, Polishing
<1>7. PolishDone => ~Unfound'
  BY <1>5 DEF PolishDone, Polishing, JobOk, Unfound
<1>8. \A reason \in {"time_limit", "cancelled"} : Stop(reason) => ~Unfound'
  BY DEF Stop, Unfound
<1> QED
  BY <1>1, <1>2, <1>3, <1>6, <1>7, <1>8

LEMMA SpreadStep == IInv /\ ExactInv /\ BestOk /\ SpreadOk /\ [Next]_vars => SpreadOk'
<1> SUFFICES ASSUME IInv, ExactInv, BestOk, SpreadOk, [Next]_vars PROVE SpreadOk'
  OBVIOUS
<1>1. CASE policy = "exact"
  BY <1>1, ExactStays DEF SpreadOk, Unfound
<1>2. CASE policy # "exact" /\ Advance
  <2>1. CASE \/ PopEmpty \/ PopStale \/ PopSolved \/ PopPruned \/ PopExpand
    BY <2>1, EmptySpreads, StaleSpreads, SolvedSpreads, PrunedSpreads, ExpandSpreads
       DEF SpreadOk
  <2>2. CASE \/ PushDropped \/ PushStored \/ PushAtLimit \/ FinishExpansion
    BY <1>2, <2>2, DroppedSpreads, StoredSpreads, AtLimitSpreads, FinishSpreads
  <2>3. CASE StageSolved \/ StageGaveUp
    BY <2>3, StageSolvedSpreads, GaveUpSpreads DEF SpreadOk
  <2>4. CASE \/ StageEarly \/ StageFull \/ StageUnit \/ BuildDone \/ WalkDone
             \/ PolishUnit \/ PolishDone
    BY <1>2, <2>4, ElseFound DEF SpreadOk, BestOk
  <2> QED
    BY <1>2, <2>1, <2>2, <2>3, <2>4 DEF Advance
<1>3. CASE policy # "exact" /\ \E reason \in {"time_limit", "cancelled"} : Stop(reason)
  BY <1>3, ElseFound DEF SpreadOk, BestOk
<1>4. CASE UNCHANGED vars
  <2>1. UNCHANGED <<arena, board, cur, incumbent, ladder, policy, polish, status>>
    BY <1>4 DEF vars
  <2>2. CASE Unfound'
    <3>1. Unfound
      BY <2>1, <2>2 DEF Unfound
    <3>2. Spread
      BY <3>1 DEF SpreadOk
    <3>3. \A i \in 1 .. Len(arena.recs) : ~arena.recs[i].sup /\ InQueue(i) => InQueue(i)'
      BY <2>1 DEF InQueue
    <3>4. Spread'
      BY <2>1, <3>2, <3>3, SpreadSame
    <3> QED
      BY <3>4 DEF SpreadOk
  <2> QED
    BY <2>2 DEF SpreadOk
<1> QED
  BY <1>1, <1>2, <1>3, <1>4 DEF Next, Terminated

LEMMA SpreadStart == Init => SpreadOk
<1> SUFFICES ASSUME Init PROVE Spread
  BY DEF SpreadOk
<1>1. PICK limit \in Limits, ok \in Grant :
        arena = Seed(NewArena(limit, limit < MaxLimit), P.weight, RootH, ok)
  BY DEF Init
<1>2. (limit < MaxLimit) \in BOOLEAN
  OBVIOUS
<1>3. PICK k : k = NewArena(limit, limit < MaxLimit)
  OBVIOUS
<1>4. arena = Seed(k, P.weight, RootH, ok)
  BY <1>1, <1>3
<1>5. board \in Boards /\ board.est[Start] \in Nat
  BY BoardFacts DEF Init
<1>6. Emptied(board, k) /\ Len(k.recs) = 0
  <2>1. limit \in Limits
    OBVIOUS
  <2> QED
    BY <2>1, <1>2, <1>3, NewArenaEmptied
<1>7. k \in Arenas /\ k.index = {} /\ k.queue = {}
  BY <1>6, SoundUpward DEF Emptied
<1>8. PICK n : n = [st |-> Start, g |-> 0, h |-> board.est[Start], par |-> NoId]
  OBVIOUS
<1>9. /\ Extends(k, arena, n)
      /\ board.est[Start] # Inf => \E q \in arena.queue : q.id = Len(k.recs) + 1
  BY <1>4, <1>5, <1>7, <1>8, SeedRecords
<1>10. /\ Len(arena.recs) = 1 /\ arena.recs[1].st = Start /\ arena.recs[1].g = 0
       /\ ~arena.recs[1].closed /\ ~arena.recs[1].sup
       /\ board.est[Start] # Inf => \E q \in arena.queue : q.id = 1
  BY <1>6, <1>8, <1>9 DEF Extends, Alike
<1>11. board.dist[Start] < Inf => board.est[Start] # Inf
  BY <1>5, BoardFacts, ShortestFacts
<1>12. Ahead(1)
  BY <1>10, <1>11 DEF Ahead, InQueue
<1>13. Held(Start)
  BY <1>10 DEF Held
<1> QED
  BY <1>10, <1>12, <1>13 DEF Spread
-----------------------------------------------------------------------------
(* What a search says of itself as it ends is so.                          *)

Told ==
  /\ status = "solved" => Routed
  /\ status = "exhausted" => ~Routed /\ board.opt >= Inf

Shortest1 == policy = "exact" /\ status = "solved" /\ Best < Inf => Best = board.opt

LEMMA ExactTold == IInv /\ ExactInv /\ policy = "exact" => Told
BY DEF ExactInv, Exact, Ends, Plain, Told, Routed

LEMMA ExactShortest == IInv /\ ExactInv => Shortest1
<1> SUFFICES ASSUME IInv, ExactInv, policy = "exact", status = "solved", Best < Inf
             PROVE  Best = board.opt
  BY DEF Shortest1
<1>1. /\ polish = NoPolish /\ polished = Inf /\ incumbent # NoId
      /\ IncumbentMoves < Inf => Proof.kind = "optimal"
      /\ Proof.kind = "optimal" => Proof.moves = board.opt
  BY ProofHolds DEF ProofSound, ExactInv, Exact, Plain
<1>2. Inf \in Nat /\ IncumbentMoves \in Nat
  BY BoardAssumption, MovesFacts DEF IInv, IncumbentMoves
<1>3. BestMoves = Lesser(Inf, Lesser(Inf, IncumbentMoves))
  BY <1>1 DEF BestMoves, NoPolish
<1>4. PICK m \in Nat : m = IncumbentMoves
  BY <1>2
<1>5. Best = Lesser(Inf, Lesser(Inf, Lesser(Inf, m)))
  BY <1>3, <1>4 DEF Best
<1>6. m < Inf /\ Best = m /\ BestMoves = m
  BY <1>2, <1>3, <1>4, <1>5 DEF Lesser
<1>7. Proof.kind = "optimal" => Proof.moves = BestMoves
  BY DEF Proof
<1> QED
  BY <1>1, <1>4, <1>6, <1>7

LEMMA EndTold ==
  ASSUME NEW st, NEW a, NEW id, NEW p, NEW cut, End(st, a, id, p, cut),
         status = "running", st # "exhausted", st = "solved" => id # NoId
  PROVE  Told'
<1>1. CASE status' = status
  BY <1>1 DEF Told
<1>2. CASE status' = st /\ incumbent' = id
  BY <1>2 DEF Told, Routed
<1> QED
  BY <1>1, <1>2 DEF End

LEMMA LimitTold ==
  ASSUME NEW a, NEW id, NEW p, NEW f, StopAtLimit(a, id, p, f), status = "running"
  PROVE  Told'
<1>1. LimitStatus(a) \notin {"solved", "exhausted"}
  BY DEF LimitStatus
<1> QED
  BY <1>1, EndTold DEF StopAtLimit

LEMMA PhaseTold ==
  ASSUME NEW a, NEW id, id # NoId, NextPhaseOrEnd(a, id), status = "running"
  PROVE  Told'
<1>1. CASE P.next = "none"
  BY <1>1, EndTold DEF NextPhaseOrEnd
<1>2. CASE P.next # "none"
  BY <1>2 DEF NextPhaseOrEnd, Told
<1> QED
  BY <1>1, <1>2

LEMMA OverTold ==
  ASSUME NEW a, NEW id, NEW p, StartOver(a, id, p), status = "running"
  PROVE  Told'
BY DEF StartOver, Told

LEMMA EmptyTold == IInv /\ SpreadOk /\ policy # "exact" /\ PopEmpty => Told'
<1> SUFFICES ASSUME IInv, SpreadOk, policy # "exact", PopEmpty PROVE Told'
  OBVIOUS
<1>1. PICK st : /\ st = IF incumbent # NoId THEN "solved" ELSE "exhausted"
                /\ End(st, arena, incumbent, policy, interrupted)
  BY DEF PopEmpty
<1>2. /\ status = "running" /\ cur = Idle /\ ladder = NoLadder /\ polish = NoPolish
      /\ arena.queue = {} /\ board' = board
  BY DEF PopEmpty, Ready
<1>3. CASE incumbent # NoId
  BY <1>1, <1>2, <1>3, EndTold
<1>4. CASE incumbent = NoId
  <2>1. board.opt >= Inf
    BY <1>2, <1>4, SpreadEmpty DEF SpreadOk, Unfound
  <2>2. status' = "exhausted" /\ incumbent' = NoId /\ polish' = NoPolish
    BY <1>1, <1>2, <1>4 DEF End
  <2> QED
    BY <1>2, <2>1, <2>2 DEF Told, Routed
<1> QED
  BY <1>3, <1>4

LEMMA SolvedTold == IInv /\ SpreadOk /\ policy # "exact" /\ PopSolved => Told'
<1> SUFFICES ASSUME IInv, SpreadOk, policy # "exact", PopSolved PROVE Told'
  OBVIOUS
<1> DEFINE id == IF arena.recs[Popped.id].g < IncumbentMoves THEN Popped.id ELSE incumbent
<1>1. /\ status = "running" /\ ladder = NoLadder /\ polish = NoPolish /\ arena.queue # {}
  BY ReadyFacts DEF PopSolved, PoppedLive
<1>2. id # NoId
  <2>1. Popped.id # NoId
    BY <1>1, PoppedFacts DEF NoId
  <2>2. CASE incumbent = NoId
    <3>1. Unfound
      BY <1>1, <2>2 DEF Unfound
    <3> QED
      BY <2>1, <3>1, PoppedRoute DEF SpreadOk
  <2> QED
    BY <2>1, <2>2
<1>3. P.goalPop => NextPhaseOrEnd(Dequeue(arena), id)
  BY DEF PopSolved
<1>4. ~P.goalPop => status' = status
  BY DEF PopSolved
<1> HIDE DEF id
<1>5. CASE P.goalPop
  BY <1>1, <1>2, <1>3, <1>5, PhaseTold
<1> QED
  BY <1>1, <1>4, <1>5 DEF Told

LEMMA StoredTold == IInv /\ PushStored => Told'
<1> SUFFICES ASSUME IInv, PushStored PROVE Told'
  OBVIOUS
<1> DEFINE handsOver == IsGoal /\ P.goalPush
           best == IF IsGoal THEN Len(arena.recs) + 1 ELSE incumbent
           p == IF handsOver THEN P.next ELSE policy
           c(ok) == Enqueue(Insert(arena, Child, ok), Child.g + P.weight * ChildH, ChildH,
                            Len(arena.recs) + 1)
<1>1. PICK ok \in Grant :
        IF handsOver /\ P.next = "none"
        THEN NextPhaseOrEnd(c(ok), best)
        ELSE IF c(ok).starved
        THEN StopAtLimit(IF handsOver THEN Reweight(c(ok), Policies[p].weight) ELSE c(ok),
                         best, p, LimitF)
        ELSE IF handsOver THEN NextPhaseOrEnd(c(ok), best) ELSE UNCHANGED status
  BY DEF PushStored
<1>2. Expanding /\ cur.todo # << >> /\ status = "running"
  BY DEF PushStored, ToStore, Expanding
<1>3. Len(arena.recs) \in Nat
  BY <1>2, PushFacts
<1>4. handsOver => best # NoId
  BY <1>3 DEF NoId
<1> HIDE DEF c, best, handsOver, p
<1>5. CASE handsOver /\ NextPhaseOrEnd(c(ok), best)
  BY <1>2, <1>4, <1>5, PhaseTold
<1>6. CASE \E a, q : StopAtLimit(a, best, q, LimitF)
  BY <1>2, <1>6, LimitTold
<1>7. CASE UNCHANGED status
  BY <1>2, <1>7 DEF Told
<1> QED
  BY <1>1, <1>5, <1>6, <1>7

LEMMA AtLimitTold == PushAtLimit => Told'
<1> SUFFICES ASSUME PushAtLimit PROVE Told'
  OBVIOUS
<1>1. status = "running"
  BY DEF PushAtLimit, ToStore, Expanding
<1>2. (\E a, id, p : StartOver(a, id, p)) \/ (\E a, id, p, f : StopAtLimit(a, id, p, f))
  BY Zenon DEF PushAtLimit
<1> QED
  BY <1>1, <1>2, LimitTold, OverTold

LEMMA StageSolvedTold == IInv /\ StageSolved => Told'
<1> SUFFICES ASSUME IInv, StageSolved PROVE Told'
  OBVIOUS
<1>1. ladder.phase = "solved" /\ ladder # NoLadder
  BY EmptyValues DEF StageSolved
<1>2. status = "running"
  BY <1>1, EndedFacts
<1>3. PICK id : id = ladder.at
  OBVIOUS
<1>4. id # NoId
  BY <1>1, <1>3 DEF IInv, LadderOk, Climbing, Seeded, NoId
<1>5. CASE \E p : StartOver(arena, id, p)
  BY <1>2, <1>5, OverTold
<1>6. CASE \E a, p, f : StopAtLimit(a, id, p, f)
  BY <1>2, <1>6, LimitTold
<1>7. CASE UNCHANGED status
  BY <1>2, <1>7 DEF Told
<1>8. CASE End("solved", arena, id, policy, interrupted)
  BY <1>2, <1>4, <1>8, EndTold
<1> QED
  BY <1>3, <1>5, <1>6, <1>7, <1>8 DEF StageSolved

LEMMA GaveUpTold == IInv /\ StageGaveUp => Told'
<1> SUFFICES ASSUME IInv, StageGaveUp PROVE Told'
  OBVIOUS
<1>1. status = "running"
  BY EndedFacts DEF StageGaveUp
<1>2. (\E p : StartOver(arena, NoId, p)) \/ (\E p, f : StopAtLimit(arena, NoId, p, f))
  BY Zenon DEF StageGaveUp
<1> QED
  BY <1>1, <1>2, LimitTold, OverTold

(* The step that ends a search tells what is so.                           *)
LEMMA ToldNext ==
  IInv /\ IInv' /\ ExactInv /\ ExactInv' /\ BestOk /\ SpreadOk /\ Advance => Told'
<1> SUFFICES ASSUME IInv, IInv', ExactInv, ExactInv', BestOk, SpreadOk, Advance PROVE Told'
  OBVIOUS
<1>1. CASE policy = "exact"
  <2>1. policy' = "exact"
    BY <1>1, ExactStays DEF Next
  <2>2. (IInv /\ ExactInv /\ policy = "exact" => Told)'
    BY ExactTold, PTL
  <2> QED
    BY <2>1, <2>2
<1>2. CASE policy # "exact"
  <2>1. CASE PopEmpty \/ PopSolved \/ PushStored \/ PushAtLimit \/ StageSolved \/ StageGaveUp
    BY <1>2, <2>1, EmptyTold, SolvedTold, StoredTold, AtLimitTold, StageSolvedTold, GaveUpTold
  <2>2. CASE PopStale \/ PopPruned \/ PopExpand \/ PushDropped \/ FinishExpansion
    <3>1. status = "running" /\ status' = status
      BY <2>2 DEF PopStale, PopPruned, PopExpand, PushDropped, FinishExpansion, PoppedLive,
                  Ready, Expanding
    <3> QED
      BY <3>1 DEF Told
  <2>3. CASE StageEarly \/ StageFull \/ StageUnit
    <3>1. StageUnit => status = "running"
      BY UnitLadder, LadderRuns DEF StageUnit
    <3>2. status = "running" /\ status' = status
      BY <2>3, <3>1 DEF StageEarly, StageFull, StageUnit, StartStaging, ToStore, Expanding, Rest
    <3> QED
      BY <3>2 DEF Told
  <2>4. ~BuildDone /\ ~WalkDone
    BY <1>2 DEF IInv, RoomOk, BuildDone, WalkDone
  <2>5. CASE PolishUnit
    BY <2>5 DEF PolishUnit, Polishing, Told
  <2>6. CASE PolishDone
    BY <2>6 DEF PolishDone, Polishing, BestOk, JobOk, Told, Routed, IInv, PolishOk
  <2> QED
    BY <2>1, <2>2, <2>3, <2>4, <2>5, <2>6 DEF Advance
<1> QED
  BY <1>1, <1>2
-----------------------------------------------------------------------------
(* The engine keeps the promise of a search.                               *)

Own == {"running", "solved", "exhausted", "state_limit", "memory_limit"}

LEMMA EndOwn ==
  status = "running" =>
    /\ \A st \in Own : \A a, id, p, cut : End(st, a, id, p, cut) => status' \in Own
    /\ \A a, id, p, f : StopAtLimit(a, id, p, f) => status' \in Own
    /\ \A a, id : NextPhaseOrEnd(a, id) => status' \in Own
    /\ \A a, id, p : StartOver(a, id, p) => status' \in Own
<1> SUFFICES ASSUME status = "running"
             PROVE  /\ \A st \in Own : \A a, id, p, cut : End(st, a, id, p, cut) => status' \in Own
                    /\ \A a, id, p, f : StopAtLimit(a, id, p, f) => status' \in Own
                    /\ \A a, id : NextPhaseOrEnd(a, id) => status' \in Own
                    /\ \A a, id, p : StartOver(a, id, p) => status' \in Own
  OBVIOUS
<1>1. {"running", "solved"} \subseteq Own /\ \A a : LimitStatus(a) \in Own
  BY DEF Own, LimitStatus
<1>2. \A st \in Own : \A a, id, p, cut : End(st, a, id, p, cut) => status' \in Own
  BY <1>1 DEF End
<1>3. \A a, id, p, f : StopAtLimit(a, id, p, f) => status' \in Own
  BY <1>1, <1>2 DEF StopAtLimit
<1>4. \A a, id : NextPhaseOrEnd(a, id) => status' \in Own
  BY <1>1, <1>2 DEF NextPhaseOrEnd
<1>5. \A a, id, p : StartOver(a, id, p) => status' \in Own
  BY <1>1 DEF StartOver
<1> QED
  BY <1>2, <1>3, <1>4, <1>5

(* Only a running search advances, and it ends only as one of its own.     *)
LEMMA AdvanceOwn == IInv /\ JobOk /\ Advance => status = "running" /\ status' \in Own
<1> SUFFICES ASSUME IInv, JobOk, Advance PROVE status = "running" /\ status' \in Own
  OBVIOUS
<1>1. {"running", "solved", "exhausted"} \subseteq Own
  BY DEF Own
<1>2. CASE PopEmpty
  <2>1. PICK st \in Own : End(st, arena, incumbent, policy, interrupted)
    BY <1>1, <1>2 DEF PopEmpty
  <2>2. status = "running"
    BY <1>2 DEF PopEmpty, Ready
  <2> QED
    BY <2>1, <2>2, EndOwn
<1>3. CASE PopSolved
  <2>1. status = "running"
    BY <1>3 DEF PopSolved, PoppedLive, Ready
  <2>2. (\E a, id : NextPhaseOrEnd(a, id)) \/ status' = status
    BY <1>3, Zenon DEF PopSolved
  <2> QED
    BY <1>1, <2>1, <2>2, EndOwn
<1>4. CASE PushStored
  <2>1. status = "running"
    BY <1>4 DEF PushStored, ToStore, Expanding
  <2>2. \/ \E a, id : NextPhaseOrEnd(a, id)
        \/ \E a, id, p, f : StopAtLimit(a, id, p, f)
        \/ status' = status
    BY <1>4, Zenon DEF PushStored
  <2> QED
    BY <1>1, <2>1, <2>2, EndOwn
<1>5. CASE PushAtLimit
  <2>1. status = "running"
    BY <1>5 DEF PushAtLimit, ToStore, Expanding
  <2>2. (\E a, id, p : StartOver(a, id, p)) \/ (\E a, id, p, f : StopAtLimit(a, id, p, f))
    BY <1>5, Zenon DEF PushAtLimit
  <2> QED
    BY <2>1, <2>2, EndOwn
<1>6. CASE StageSolved
  <2>1. status = "running"
    BY <1>6, EndedFacts DEF StageSolved
  <2>2. \/ \E a, id, p : StartOver(a, id, p)
        \/ \E a, id, p, f : StopAtLimit(a, id, p, f)
        \/ status' = status
        \/ End("solved", arena, ladder.at, policy, interrupted)
    BY <1>6, Zenon DEF StageSolved
  <2> QED
    BY <1>1, <2>1, <2>2, EndOwn
<1>7. CASE StageGaveUp
  <2>1. status = "running"
    BY <1>7, EndedFacts DEF StageGaveUp
  <2>2. (\E a, id, p : StartOver(a, id, p)) \/ (\E a, id, p, f : StopAtLimit(a, id, p, f))
    BY <1>7, Zenon DEF StageGaveUp
  <2> QED
    BY <2>1, <2>2, EndOwn
<1>8. CASE PopStale \/ PopPruned \/ PopExpand \/ PushDropped \/ FinishExpansion
  BY <1>1, <1>8 DEF PopStale, PopPruned, PopExpand, PushDropped, FinishExpansion, PoppedLive,
                    Ready, Expanding
<1>9. CASE StageEarly \/ StageFull \/ StageUnit
  <2>1. StageUnit => status = "running"
    BY UnitLadder, LadderRuns DEF StageUnit
  <2> QED
    BY <1>1, <1>9, <2>1 DEF StageEarly, StageFull, StageUnit, StartStaging, ToStore, Expanding,
                            Rest
<1>10. CASE BuildDone \/ WalkDone
  BY <1>1, <1>10 DEF BuildDone, WalkDone
<1>11. CASE PolishUnit
  BY <1>1, <1>11 DEF PolishUnit, Polishing
<1>12. CASE PolishDone
  BY <1>12 DEF PolishDone, Polishing, JobOk, IInv, PolishOk, Own
<1> QED
  BY <1>2, <1>3, <1>4, <1>5, <1>6, <1>7, <1>8, <1>9, <1>10, <1>11, <1>12 DEF Advance

PromiseInv == IInv /\ ExactInv /\ BestOk /\ CountOk /\ SpreadOk

LEMMA PromiseStep == PromiseInv /\ [Next]_vars => PromiseInv'
BY StepKeeps, ExactStep, BestStep, CountStep, SpreadStep DEF PromiseInv

LEMMA BoardStays == [Next]_vars => board' = board
<1> SUFFICES ASSUME [Next]_vars PROVE board' = board
  OBVIOUS
<1>1. CASE Advance
  BY <1>1, Zenon DEF Advance, PopEmpty, PopStale, PopSolved, PopPruned, PopExpand, PushDropped,
     StageEarly, StageFull, StartStaging, PushStored, PushAtLimit, FinishExpansion, StageUnit,
     Rest, StageSolved, StageGaveUp, BuildDone, WalkDone, PolishUnit, PolishDone
<1>2. CASE \E reason \in {"time_limit", "cancelled"} : Stop(reason)
  BY <1>2 DEF Stop
<1>3. CASE UNCHANGED vars
  BY <1>3 DEF vars
<1> QED
  BY <1>1, <1>2, <1>3 DEF Next, Terminated

LEMMA ModeStays == PromiseInv /\ [Next]_vars => (policy' = "exact") = (policy = "exact")
BY ExactFromStart, ExactStays DEF PromiseInv

LEMMA AdvanceWorks == PromiseInv /\ Advance => Contract!Work
<1> SUFFICES ASSUME PromiseInv, Advance PROVE Contract!Work
  OBVIOUS
<1>1. [Next]_vars
  BY DEF Next
<1>2. PromiseInv'
  BY <1>1, PromiseStep
<1>3. /\ board' = board /\ (policy' = "exact") = (policy = "exact")
      /\ status = "running" /\ status' \in Own
  BY <1>1, BoardStays, ModeStays, AdvanceOwn DEF PromiseInv, BestOk
<1>4. Told' /\ Shortest1'
  <2>1. (IInv /\ ExactInv => Shortest1)'
    BY ExactShortest, PTL
  <2> QED
    BY <1>2, <2>1, ToldNext DEF PromiseInv
<1>5. Shortens /\ Counts /\ expanded' <= Generated'
  BY <1>1, <1>2, BestStep, CountStep, CountNext DEF PromiseInv
<1>6. board.opt \in Nat /\ board.opt <= Inf /\ Inf \in Nat
  BY ShortestFacts, BoardAssumption DEF PromiseInv, IInv, Given
<1>7. Contract!Verdict(status')
  BY <1>3, <1>4, <1>6 DEF Contract!Verdict, Told, Shortest1, Best, Routed
<1>8. Own = {"running"} \cup Contract!OwnEnds
  BY DEF Own, Contract!OwnEnds
<1>9. (incumbent # NoId \/ polish # NoPolish)' \in BOOLEAN
  OBVIOUS
<1> QED
  BY <1>3, <1>5, <1>7, <1>8, <1>9 DEF Contract!Work, Shortens, Counts, Best, Routed

LEMMA StopStops ==
  ASSUME NEW reason \in {"time_limit", "cancelled"}, Stop(reason)
  PROVE  Contract!StopFor(reason)
<1>1. /\ status = "running" /\ status' = reason
      /\ UNCHANGED <<arena, board, expanded, discarded, policy, incumbent, polish, polished>>
  BY DEF Stop
<1> QED
  BY <1>1 DEF Contract!StopFor, BestMoves, IncumbentMoves, MovesOf, Generated

LEMMA KeepsNext == PromiseInv /\ [Next]_vars => [Contract!Keeps]_(Contract!promised)
<1> SUFFICES ASSUME PromiseInv, [Next]_vars PROVE [Contract!Keeps]_(Contract!promised)
  OBVIOUS
<1>1. CASE Advance
  BY <1>1, AdvanceWorks DEF Contract!Keeps
<1>2. ASSUME NEW reason \in {"time_limit", "cancelled"}, Stop(reason)
      PROVE  Contract!Keeps
  BY <1>2, StopStops DEF Contract!Keeps, Contract!StopReasons
<1>3. CASE UNCHANGED vars
  <2>1. UNCHANGED <<arena, board, expanded, discarded, policy, status, incumbent, polish,
                    polished>>
    BY <1>3 DEF vars
  <2> QED
    BY <2>1 DEF Contract!promised, BestMoves, IncumbentMoves, MovesOf, Generated
<1> QED
  BY <1>1, <1>2, <1>3 DEF Next, Terminated

LEMMA PromiseBegins == Init => Contract!Begins
<1> SUFFICES ASSUME Init PROVE Contract!Begins
  OBVIOUS
<1>1. board \in Boards
  BY DEF Init
<1>2. board.opt \in Nat /\ board.opt <= Inf /\ Inf \in Nat
  BY <1>1, ShortestFacts, BoardAssumption
<1>3. Best = Inf /\ ~Routed /\ expanded = 0 /\ Generated = 1
  BY BestStart, CountStart
<1>4. status = "running" \/ (status = "exhausted" /\ board.opt = Inf)
  BY <1>1, <1>2, BoardFacts, ShortestFacts, BoardAssumption DEF Init
<1>5. (policy = "exact") \in BOOLEAN
  OBVIOUS
<1> QED
  BY <1>2, <1>3, <1>4, <1>5 DEF Contract!Begins, Best, Routed

(* The engine implements the contract of a search, in every mode: what it  *)
(* has found never worsens and is never better than the optimum, what a    *)
(* limit or a stop ends keeps it, Optimal's solved is the optimum, and no  *)
(* mode gives up on a puzzle that has a solution (lib.rs 223-287,          *)
(* 585-662).                                                               *)
THEOREM SearchKeepsPromise == Spec => KeepsPromise
<1>1. Init => PromiseInv
  BY InitHolds, ExactStart, BestStart, CountStart, SpreadStart DEF PromiseInv
<1>2. Init => Contract!Begins
  BY PromiseBegins
<1>3. PromiseInv /\ [Next]_vars => PromiseInv' /\ [Contract!Keeps]_(Contract!promised)
  BY PromiseStep, KeepsNext
<1> QED
  BY <1>1, <1>2, <1>3, PTL DEF Spec, KeepsPromise, Contract!Promise

=============================================================================
