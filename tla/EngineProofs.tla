---------------------------- MODULE EngineProofs ----------------------------
(***************************************************************************)
(* Proofs about the search, for every board with admissible estimates,     *)
(* every limit and whatever the allocator answers.  First, that its arena  *)
(* stays sound through every phase, stage and restart: RouteReal,          *)
(* PrunesSound, GrowthAhead.  Then, on that, that Optimal's certificates   *)
(* are true: FrontierComplete, LowerBoundSound, ProofSound.                *)
(***************************************************************************)
EXTENDS Engine, ArenaLemmas

-----------------------------------------------------------------------------
(* The policies.                                                           *)

Sane(p, r) ==
  /\ r.weight \in Nat /\ r.goalPop \in BOOLEAN /\ r.goalPush \in BOOLEAN
  /\ r.next = "none" \/ r.next \in DOMAIN Policies \ {"exact"}
  /\ r.restart = "none" \/ r.restart \in DOMAIN Policies \ {"exact"}
  /\ r.stage => r.goalPop /\ r.goalPush
  /\ r.partial \/ r.rooms => p = "exact"
  /\ p = "exact" => r.next = "none" /\ r.restart = "none" /\ ~r.prunePopped

LEMMA PolicyFacts ==
  /\ "none" \notin DOMAIN Policies /\ "fast" \in DOMAIN Policies
  /\ \A p \in DOMAIN Policies : Sane(p, Policies[p])
<1>1. DOMAIN Policies = {"exact", "fast", "quality", "quality_restart",
                         "fast_then_quality_restart"}
  BY DEF Policies
<1>2. Sane("exact", Policies["exact"])
  BY <1>1 DEF Policies, Sane
<1>3. Sane("fast", Policies["fast"])
  BY <1>1 DEF Policies, Sane
<1>4. Sane("quality", Policies["quality"])
  BY <1>1 DEF Policies, Sane
<1>5. Sane("quality_restart", Policies["quality_restart"])
  BY <1>1 DEF Policies, Sane
<1>6. Sane("fast_then_quality_restart", Policies["fast_then_quality_restart"])
  BY <1>1 DEF Policies, Sane
<1> QED
  BY <1>1, <1>2, <1>3, <1>4, <1>5, <1>6

-----------------------------------------------------------------------------
(* The boards.                                                             *)

LEMMA BoardFacts ==
  ASSUME NEW b \in Boards
  PROVE  /\ Start \in States
         /\ b.first \in Nat /\ b.est[Start] + b.first <= b.dist[Start]
         /\ b.level \in [States -> Nat]
         /\ \A s \in States :
              /\ b.succ[s] \in Seq([to : States, cost : Nat, charge : Nat, ahead : Nat])
              /\ b.est[s] \in Nat /\ b.room[s] \in Nat /\ b.term[s] \in Nat
              /\ b.dist[s] \in Nat /\ b.est[s] <= b.dist[s]
<1>1. Typed(b) /\ Start \in States
  BY BoardAssumption
<1>2. Admissible(b)
  BY BoardAssumption
<1>3. /\ b.est[Start] + b.first <= b.dist[Start]
      /\ \A s \in States : b.est[s] <= b.dist[s]
  BY <1>1, <1>2 DEF Admissible
<1>4. 0 .. Inf \subseteq Nat
  BY BoardAssumption
<1>5. \A f \in {b.est, b.room, b.term, b.dist} : \A s \in States : f[s] \in Nat
  BY <1>1, <1>4 DEF Typed
<1>6. /\ b.first \in Nat /\ b.level \in [States -> Nat]
      /\ \A s \in States : b.succ[s] \in Seq([to : States, cost : Nat, charge : Nat, ahead : Nat])
  BY <1>1 DEF Typed
<1> QED
  BY <1>1, <1>3, <1>5, <1>6

(* A push leads to a position, at a cost above what the estimate charges   *)
(* for its walk.                                                           *)
LEMMA EdgeFacts ==
  ASSUME NEW b \in Boards, NEW s \in States, NEW e \in Range1(b.succ[s])
  PROVE  /\ e.to \in States /\ e.cost \in Nat /\ e.charge \in Nat /\ e.ahead \in Nat
         /\ e.charge + 1 <= e.cost
<1>1. b.succ[s] \in Seq([to : States, cost : Nat, charge : Nat, ahead : Nat])
  BY BoardFacts
<1>2. PICK k \in 1 .. Len(b.succ[s]) : e = b.succ[s][k]
  BY DEF Range1
<1>3. e \in [to : States, cost : Nat, charge : Nat, ahead : Nat]
  BY <1>1, <1>2, ElementOfSeq
<1>4. Admissible(b)
  BY BoardAssumption
<1>5. e.cost >= 1 /\ e.charge \in 0 .. e.cost - 1
  BY <1>4 DEF Admissible
<1> QED
  BY <1>3, <1>5

-----------------------------------------------------------------------------
(* What the search keeps of its arena: every record is reached by the      *)
(* pushes its parents name, the queue names stored records, and the chunks *)
(* hold the records.                                                       *)

(* Record r is one push on from record p.                                  *)
Follows(b, p, r) == \E e \in Range1(b.succ[p.st]) : e.to = r.st /\ r.g = p.g + e.cost

(* Node n is the start, or one push on from a record.                      *)
Reached(b, a, n) ==
  /\ n.h = b.est[n.st]
  /\ n.par = NoId => n.st = Start /\ n.g = 0
  /\ n.par # NoId => n.par \in 1 .. Len(a.recs) /\ Follows(b, a.recs[n.par], n)

Real(b, a) ==
  \A i \in 1 .. Len(a.recs) : Reached(b, a, a.recs[i]) /\ a.recs[i].par < i

Queued(a) == \A q \in a.queue : q.id \in 1 .. Len(a.recs)

Housed(a) == Len(a.recs) <= Room(a) \/ a.reserved = 0

Sound(b, a) == Consistent(a) /\ Real(b, a) /\ Queued(a) /\ Housed(a)

(* Growth has run ahead of the next insert.                                *)
Grows(a) ==
  /\ Buffered(a, FALSE) /\ Len(a.recs) <= a.limit
  /\ ~a.starved => a.table # 0

(* No entry is queued above the distance from its record.                  *)
Low(b, a) == \A q \in a.queue : q.h <= b.dist[a.recs[q.id].st]

LEMMA BufferedHoused ==
  ASSUME NEW a \in Arenas, NEW spare, Buffered(a, spare)
  PROVE  Housed(a)
BY ArenaFields DEF Buffered, Housed, Room, Lesser

LEMMA SoundUpward ==
  ASSUME NEW b, NEW a, Sound(b, a)
  PROVE  Upward(a) /\ a \in Arenas /\ Len(a.recs) \in Nat
<1>1. a \in Arenas
  BY DEF Sound, Consistent
<1>2. a.recs \in Seq(Records) /\ Len(a.recs) \in Nat
  BY <1>1, ArenaFields
<1>3. \A i \in 1 .. Len(a.recs) : a.recs[i].par \in Nat
  BY <1>2, RecordFields
<1> QED
  BY <1>1, <1>2, <1>3 DEF Sound, Real, Upward

LEMMA SoundSame ==
  ASSUME NEW b, NEW a, NEW c, Sound(b, a), SameButQueue(a, c), Queued(c)
  PROVE  Sound(b, c) /\ (Grows(a) => Grows(c))
<1>1. Consistent(c) /\ \A spare : Buffered(a, spare) => Buffered(c, spare)
  BY SameKeeps DEF Sound
<1>2. Len(c.recs) = Len(a.recs) /\ \A i \in 1 .. Len(a.recs) : Alike(c.recs[i], a.recs[i])
  BY DEF SameButQueue
<1>3. Real(b, c)
  <2> SUFFICES ASSUME NEW i \in 1 .. Len(a.recs)
               PROVE  Reached(b, c, c.recs[i]) /\ c.recs[i].par < i
    BY <1>2 DEF Real
  <2>1. Reached(b, a, a.recs[i]) /\ a.recs[i].par < i
    BY DEF Sound, Real
  <2>2. /\ c.recs[i].st = a.recs[i].st /\ c.recs[i].g = a.recs[i].g
        /\ c.recs[i].h = a.recs[i].h /\ c.recs[i].par = a.recs[i].par
    BY Zenon, <1>2 DEF Alike
  <2>3. ASSUME a.recs[i].par # NoId PROVE Follows(b, c.recs[c.recs[i].par], c.recs[i])
    <3>1. a.recs[i].par \in 1 .. Len(a.recs) /\ Follows(b, a.recs[a.recs[i].par], a.recs[i])
      BY <2>1, <2>3 DEF Reached
    <3> QED
      BY Zenon, <1>2, <2>2, <3>1 DEF Alike, Follows
  <2> QED
    BY <1>2, <2>1, <2>2, <2>3 DEF Reached
<1>4. Housed(c)
  BY <1>2 DEF Sound, SameButQueue, Housed, Room
<1>5. Grows(a) => Grows(c)
  BY <1>1, <1>2 DEF Grows, SameButQueue
<1> QED
  BY <1>1, <1>3, <1>4, <1>5 DEF Sound

LEMMA LowSame ==
  ASSUME NEW b, NEW a, NEW c, Low(b, a), Queued(a), SameButQueue(a, c),
         \A q \in c.queue : q \in a.queue \/
           (q.id \in 1 .. Len(a.recs) /\ q.h <= b.dist[a.recs[q.id].st])
  PROVE  Low(b, c)
<1> SUFFICES ASSUME NEW q \in c.queue PROVE q.h <= b.dist[c.recs[q.id].st]
  BY DEF Low
<1>1. q.id \in 1 .. Len(a.recs) /\ q.h <= b.dist[a.recs[q.id].st]
  BY DEF Low, Queued
<1>2. c.recs[q.id].st = a.recs[q.id].st
  BY <1>1 DEF SameButQueue, Alike
<1> QED
  BY <1>1, <1>2

(* A reached node appended to real records leaves them real.               *)
LEMMA RealAppend ==
  ASSUME NEW b, NEW a, NEW c, NEW n, Real(b, a), Len(a.recs) \in Nat,
         Len(c.recs) = Len(a.recs) + 1,
         \A i \in 1 .. Len(a.recs) : Alike(c.recs[i], a.recs[i]),
         Alike(c.recs[Len(a.recs) + 1], n), Reached(b, a, n)
  PROVE  Real(b, c)
<1> DEFINE l == Len(a.recs)
<1>1. ASSUME NEW r, Reached(b, a, r), NEW s, Alike(s, r) PROVE Reached(b, c, s)
  <2>1. s.st = r.st /\ s.g = r.g /\ s.h = r.h /\ s.par = r.par
    BY <1>1 DEF Alike
  <2>2. ASSUME s.par # NoId PROVE s.par \in 1 .. Len(c.recs) /\ Follows(b, c.recs[s.par], s)
    <3>1. r.par \in 1 .. l /\ Follows(b, a.recs[r.par], r)
      BY <1>1, <2>1, <2>2 DEF Reached
    <3>2. Alike(c.recs[r.par], a.recs[r.par]) /\ r.par \in 1 .. Len(c.recs)
      BY <3>1
    <3> QED
      BY <2>1, <3>1, <3>2 DEF Alike, Follows
  <2> QED
    BY <1>1, <2>1, <2>2 DEF Reached
<1>2. ASSUME NEW i \in 1 .. l PROVE Reached(b, c, c.recs[i]) /\ c.recs[i].par < i
  <2>1. Reached(b, a, a.recs[i]) /\ a.recs[i].par < i /\ Alike(c.recs[i], a.recs[i])
    BY DEF Real
  <2> QED
    BY <1>1, <2>1 DEF Alike
<1>3. Reached(b, c, c.recs[l + 1]) /\ c.recs[l + 1].par < l + 1
  <2>1. c.recs[l + 1].par = n.par
    BY DEF Alike
  <2>2. n.par < l + 1
    BY DEF Reached, NoId
  <2> QED
    BY <1>1, <2>1, <2>2
<1>4. \A i \in 1 .. l + 1 : i \in 1 .. l \/ i = l + 1
  OBVIOUS
<1> QED
  BY <1>2, <1>3, <1>4 DEF Real

-----------------------------------------------------------------------------
(* Storing nodes.                                                          *)

(* A stored node, below the limit.                                         *)
LEMMA StoreSound ==
  ASSUME NEW b, NEW a, Sound(b, a), Grows(a), ~IsFull(a),
         NEW n \in Nodes, Reached(b, a, n), NEW ok \in Grants
  PROVE  LET c == Insert(a, n, ok)
             l == Len(a.recs)
         IN  /\ Sound(b, c) /\ Grows(c)
             /\ Len(c.recs) = l + 1 /\ Alike(c.recs[l + 1], n)
             /\ ~c.recs[l + 1].sup /\ ~c.recs[l + 1].closed
             /\ \A i \in 1 .. l : Kept(c.recs[i], a.recs[i], i, Find(a, n.st))
             /\ c.queue = a.queue /\ c.limit = a.limit
<1> DEFINE c == Insert(a, n, ok)
           l == Len(a.recs)
<1>1. Consistent(a) /\ Buffered(a, FALSE) /\ l <= a.limit /\ Upward(a) /\ a \in Arenas
  BY SoundUpward DEF Sound, Grows
<1>2. /\ l \in Nat /\ a.limit \in Nat /\ a.starved \in BOOLEAN /\ a.table \in Nat
  BY <1>1, ArenaFields
<1>3. a.table # 0 /\ ~a.starved /\ l < a.limit /\ IsFull(a) = FALSE
  BY <1>2 DEF IsFull, Grows
<1>4. a.table >= 4
  BY <1>1, <1>3 DEF Buffered
<1>5. /\ Consistent(c) /\ Len(c.recs) = l + 1 /\ c.queue = a.queue /\ c.limit = a.limit
      /\ c.recs[l + 1] = [st |-> n.st, g |-> n.g, h |-> n.h, par |-> n.par,
                          closed |-> FALSE, sup |-> FALSE]
  BY <1>1, <1>4, InsertFacts
<1>6. \A i \in 1 .. l : Kept(c.recs[i], a.recs[i], i, Find(a, n.st))
  BY <1>1, <1>4, InsertFacts
<1>7. Buffered(c, IsFull(a)) /\ (~c.starved => c.table # 0)
  <2>1. FALSE \in BOOLEAN /\ (IsFull(a) => ~FALSE)
    OBVIOUS
  <2> QED
    BY <1>1, <1>3, <2>1, InsertBuffered, Zenon
<1> HIDE DEF c
<1>8. Alike(c.recs[l + 1], n) /\ ~c.recs[l + 1].sup /\ ~c.recs[l + 1].closed
  BY <1>5 DEF Alike
<1>9. Real(b, c)
  <2>1. \A i \in 1 .. l : Alike(c.recs[i], a.recs[i])
    BY <1>6 DEF Kept
  <2> QED
    BY <1>2, <1>5, <1>8, <2>1, RealAppend DEF Sound
<1>10. Buffered(c, FALSE) /\ Grows(c)
  <2>1. Buffered(c, FALSE)
    BY <1>3, <1>7
  <2>2. Len(c.recs) <= c.limit
    BY <1>2, <1>3, <1>5
  <2> QED
    BY <1>7, <2>1, <2>2 DEF Grows
<1>11. Housed(c) /\ Queued(c)
  <2>1. Housed(c)
    BY <1>5, <1>10, BufferedHoused DEF Consistent
  <2>2. Queued(c)
    BY <1>2, <1>5 DEF Sound, Queued
  <2> QED
    BY <2>1, <2>2
<1>12. Sound(b, c)
  BY <1>5, <1>9, <1>11 DEF Sound
<1> QED
  BY <1>5, <1>6, <1>8, <1>10, <1>12 DEF c

(* A solved node kept in the spare slot of a full arena.                   *)
LEMMA SpareSound ==
  ASSUME NEW b, NEW a, Sound(b, a), Grows(a), ~a.starved, IsFull(a),
         NEW n \in Nodes, Reached(b, a, n), NEW ok \in Grants
  PROVE  LET c == Insert(a, n, ok)
             l == Len(a.recs)
         IN  /\ Sound(b, c) /\ Buffered(c, TRUE)
             /\ Len(c.recs) = l + 1 /\ Alike(c.recs[l + 1], n)
             /\ \A i \in 1 .. l : Kept(c.recs[i], a.recs[i], i, Find(a, n.st))
             /\ c.queue = a.queue /\ c.limit = a.limit
             /\ ~c.starved /\ c.table # 0 /\ c.reserved > c.limit
<1> DEFINE c == Insert(a, n, ok)
           l == Len(a.recs)
<1>1. Consistent(a) /\ Buffered(a, FALSE) /\ l <= a.limit /\ Upward(a) /\ a \in Arenas
  BY SoundUpward DEF Sound, Grows
<1>2. /\ l \in Nat /\ a.limit \in Nat /\ a.starved \in BOOLEAN /\ a.table \in Nat
      /\ a.reserved \in Nat
  BY <1>1, ArenaFields
<1>3. a.table # 0 /\ l >= a.limit /\ IsFull(a) = TRUE
  BY <1>2 DEF IsFull, Grows
<1>4. a.table >= 4 /\ a.reserved > a.limit
  <2>1. l + 1 < a.reserved \/ a.reserved > a.limit
    BY <1>1, <1>2, <1>3 DEF Buffered
  <2> QED
    BY <1>1, <1>2, <1>3, <2>1 DEF Buffered
<1>5. /\ Consistent(c) /\ Len(c.recs) = l + 1 /\ c.queue = a.queue /\ c.limit = a.limit
      /\ c.recs[l + 1] = [st |-> n.st, g |-> n.g, h |-> n.h, par |-> n.par,
                          closed |-> FALSE, sup |-> FALSE]
  BY <1>1, <1>4, InsertFacts
<1>6. \A i \in 1 .. l : Kept(c.recs[i], a.recs[i], i, Find(a, n.st))
  BY <1>1, <1>4, InsertFacts
<1>7. Buffered(c, IsFull(a)) /\ (IsFull(a) => c = Append1(a, n))
  <2>1. FALSE \in BOOLEAN /\ (IsFull(a) => ~FALSE)
    OBVIOUS
  <2> QED
    BY <1>1, <1>3, <2>1, InsertBuffered, Zenon
<1>8. c = Append1(a, n)
  BY <1>7
<1>9. c.starved = a.starved /\ c.reserved = a.reserved /\ c.table = a.table
  BY <1>1, <1>3, <1>8, AppendFacts
<1> HIDE DEF c
<1>10. Alike(c.recs[l + 1], n)
  BY <1>5 DEF Alike
<1>11. Real(b, c)
  <2>1. \A i \in 1 .. l : Alike(c.recs[i], a.recs[i])
    BY <1>6 DEF Kept
  <2> QED
    BY <1>2, <1>5, <1>10, <2>1, RealAppend DEF Sound
<1>12. Buffered(c, TRUE)
  BY <1>3, <1>7
<1>13. Housed(c) /\ Queued(c)
  <2>1. Housed(c)
    BY <1>5, <1>12, BufferedHoused DEF Consistent
  <2>2. Queued(c)
    BY <1>2, <1>5 DEF Sound, Queued
  <2> QED
    BY <2>1, <2>2
<1>14. Sound(b, c)
  BY <1>5, <1>11, <1>13 DEF Sound
<1> QED
  BY <1>3, <1>4, <1>5, <1>6, <1>9, <1>10, <1>12, <1>14 DEF c

-----------------------------------------------------------------------------
(* Keeping a path, and starting on it or on nothing.                       *)

(* The kept path is as real as it was, renumbered.                         *)
LEMMA KeepReal ==
  ASSUME NEW b, NEW a, Sound(b, a), NEW i \in 1 .. Len(a.recs)
  PROVE  LET k == ClearKeeping(a, i)
             n == Cardinality(Path(a, i))
         IN  /\ Real(b, k)
             /\ n \in 1 .. i /\ Len(k.recs) = n
             /\ k.recs[n].st = a.recs[i].st
             /\ \A j \in 1 .. n : k.recs[j].par = j - 1
<1> DEFINE k == ClearKeeping(a, i)
           path == Path(a, i)
           n == Cardinality(path)
           old(j) == Nth(path, j)
<1>1. a \in Arenas /\ Upward(a) /\ i \in Nat
  BY SoundUpward
<1>2. n \in 1 .. i
  BY <1>1, PathLength
<1>3. /\ Len(k.recs) = n
      /\ \A j \in 1 .. n : /\ Nth(path, j) \in path
                           /\ k.recs[j].st = a.recs[Nth(path, j)].st
                           /\ k.recs[j].g = a.recs[Nth(path, j)].g
                           /\ k.recs[j].h = a.recs[Nth(path, j)].h
                           /\ k.recs[j].par = j - 1
                           /\ k.recs[j].sup = TRUE
  BY <1>1, KeepFacts
<1>4. \A j \in 1 .. n : old(j) \in 1 .. Len(a.recs)
  BY <1>1, PathNth
<1>5. /\ old(n) = i
      /\ a.recs[old(1)].par = NoId
      /\ \A j \in 2 .. n : a.recs[old(j)].par = old(j - 1)
  BY <1>1, PathChain
<1> HIDE DEF k, n, old
<1>6. \A j \in 1 .. n : /\ k.recs[j].st = a.recs[old(j)].st
                        /\ k.recs[j].g = a.recs[old(j)].g
                        /\ k.recs[j].h = a.recs[old(j)].h
                        /\ k.recs[j].par = j - 1
  BY <1>3 DEF old
<1>7. ASSUME NEW j \in 1 .. n PROVE Reached(b, k, k.recs[j]) /\ k.recs[j].par < j
  <2>0. j \in Nat /\ n \in Nat /\ k.recs[j].par = j - 1
    BY <1>2, <1>6
  <2>1. Reached(b, a, a.recs[old(j)])
    BY <1>4 DEF Sound, Real
  <2>2. k.recs[j].h = b.est[k.recs[j].st]
    BY <1>6, <2>1 DEF Reached
  <2>3. CASE j = 1
    <3>1. k.recs[j].par = NoId
      BY <2>0, <2>3 DEF NoId
    <3>2. a.recs[old(j)].par = NoId
      BY <1>5, <2>3
    <3>3. k.recs[j].st = Start /\ k.recs[j].g = 0
      BY <1>6, <2>1, <3>2 DEF Reached
    <3> QED
      BY <2>0, <2>2, <3>1, <3>3 DEF Reached
  <2>4. CASE j # 1
    <3>1. j \in 2 .. n /\ j - 1 \in 1 .. n /\ j - 1 # NoId
      BY <2>0, <2>4 DEF NoId
    <3>2. a.recs[old(j)].par = old(j - 1) /\ old(j - 1) \in 1 .. Len(a.recs)
      BY <1>4, <1>5, <3>1
    <3>3. old(j - 1) # NoId
      BY <3>2 DEF NoId
    <3>4. Follows(b, a.recs[old(j - 1)], a.recs[old(j)])
      BY <2>1, <3>2, <3>3 DEF Reached
    <3>5. Follows(b, k.recs[j - 1], k.recs[j])
      <4>1. /\ k.recs[j - 1].st = a.recs[old(j - 1)].st /\ k.recs[j - 1].g = a.recs[old(j - 1)].g
            /\ k.recs[j].st = a.recs[old(j)].st /\ k.recs[j].g = a.recs[old(j)].g
        BY <1>6, <3>1
      <4> QED
        BY <3>4, <4>1 DEF Follows
    <3>6. k.recs[j].par \in 1 .. Len(k.recs) /\ k.recs[j].par # NoId
      BY <1>3, <2>0, <3>1
    <3> QED
      BY <2>0, <2>2, <3>5, <3>6 DEF Reached
  <2> QED
    BY <2>3, <2>4
<1>8. Real(b, k)
  BY <1>3, <1>7 DEF Real
<1>9. k.recs[n].st = a.recs[i].st
  <2>1. n \in 1 .. n
    BY <1>2
  <2> QED
    BY <1>5, <1>6, <2>1
<1> QED
  BY <1>2, <1>3, <1>6, <1>8, <1>9 DEF k, n, old
(* An entry for a stored record.                                           *)
LEMMA EnqueueSound ==
  ASSUME NEW b, NEW a, Sound(b, a), NEW f, NEW h, NEW i,
         i \in 1 .. Len(a.recs), [f |-> f, h |-> h, id |-> i] \in Keys
  PROVE  /\ Sound(b, Enqueue(a, f, h, i))
         /\ SameButQueue(a, Enqueue(a, f, h, i))
         /\ Enqueue(a, f, h, i).recs = a.recs
         /\ Enqueue(a, f, h, i).queue = a.queue \cup {[f |-> f, h |-> h, id |-> i]}
         /\ Grows(a) => Grows(Enqueue(a, f, h, i))
         /\ Low(b, a) /\ h <= b.dist[a.recs[i].st] => Low(b, Enqueue(a, f, h, i))
<1> DEFINE c == Enqueue(a, f, h, i)
           key == [f |-> f, h |-> h, id |-> i]
<1>1. a \in Arenas
  BY SoundUpward
<1>3. SameButQueue(a, c) /\ c.recs = a.recs /\ c.queue = a.queue \cup {key}
  BY <1>1, EnqueueFacts
<1>4. key.id = i /\ key.h = h
  OBVIOUS
<1> HIDE DEF c, key
<1>5. Queued(c)
  BY <1>3, <1>4 DEF Sound, Queued
<1>6. Sound(b, c) /\ (Grows(a) => Grows(c))
  BY <1>3, <1>5, SoundSame
<1>7. ASSUME Low(b, a), h <= b.dist[a.recs[i].st] PROVE Low(b, c)
  BY <1>3, <1>4, <1>7 DEF Low
<1> QED
  BY <1>3, <1>6, <1>7 DEF c, key

(* An arena just emptied, but for a kept path, with room for two inserts.  *)
Emptied(b, k) ==
  /\ Sound(b, k) /\ Buffered(k, FALSE)
  /\ k.index = {} /\ k.resident = 0 /\ k.queue = {} /\ k.table # 0 /\ ~k.starved
  /\ Len(k.recs) < k.limit
  /\ Len(k.recs) + 2 < k.reserved \/ k.reserved > k.limit

(* The start, inserted into an emptied arena.                              *)
LEMMA SeedSound ==
  ASSUME board \in Boards, NEW k, Emptied(board, k),
         NEW w \in Nat, NEW ok \in Grants, NEW c, c = Seed(k, w, RootH, ok)
  PROVE  /\ Sound(board, c) /\ Grows(c) /\ Low(board, c)
         /\ ~c.starved /\ c.limit = k.limit /\ Len(c.recs) = Len(k.recs) + 1
         /\ \A i \in 1 .. Len(k.recs) : c.recs[i].st = k.recs[i].st
         /\ board.est[Start] # Inf => c.queue # {}
<1> DEFINE n == [st |-> Start, g |-> 0, h |-> board.est[Start], par |-> NoId]
           b == Insert(k, n, ok)
           l == Len(k.recs)
<1>1. /\ Start \in States /\ board.est[Start] \in Nat /\ RootH \in Nat
      /\ RootH <= board.dist[Start]
  BY BoardFacts DEF RootH
<1>2. n \in Nodes /\ n.st = Start /\ Reached(board, k, n)
  BY <1>1 DEF Nodes, NoId, Reached
<1>3. Consistent(k) /\ k \in Arenas /\ l \in Nat /\ k.limit \in Nat
  BY SoundUpward, ArenaFields DEF Sound, Emptied
<1> HIDE DEF n
<1>4. /\ Consistent(b) /\ Buffered(b, FALSE)
      /\ Len(b.recs) = l + 1
      /\ b.recs[l + 1] = [st |-> n.st, g |-> n.g, h |-> n.h, par |-> n.par,
                          closed |-> FALSE, sup |-> FALSE]
      /\ \A i \in 1 .. l : Alike(b.recs[i], k.recs[i])
      /\ b.queue = k.queue /\ b.limit = k.limit /\ ~b.starved
      /\ b.table = k.table
  BY <1>2, <1>3, FirstInsert DEF Emptied
<1>5. c = IF board.est[Start] = Inf THEN b ELSE Enqueue(b, w * RootH, RootH, Len(b.recs))
  BY DEF Seed, n
<1> HIDE DEF b
<1>6. Alike(b.recs[l + 1], n)
  BY <1>4 DEF Alike
<1>7. Real(board, b)
  BY <1>2, <1>3, <1>4, <1>6, RealAppend DEF Sound, Emptied
<1>8. Sound(board, b) /\ Grows(b) /\ Low(board, b)
  <2>1. Housed(b)
    BY <1>4, BufferedHoused DEF Consistent
  <2>2. Queued(b) /\ Low(board, b)
    BY <1>4 DEF Queued, Low, Emptied
  <2>3. Len(b.recs) <= b.limit
    BY <1>3, <1>4 DEF Emptied
  <2>4. b.table # 0
    BY <1>4 DEF Emptied
  <2> QED
    BY <1>4, <1>7, <2>1, <2>2, <2>3, <2>4 DEF Sound, Grows
<1>9. \A i \in 1 .. l : b.recs[i].st = k.recs[i].st
  BY <1>4 DEF Alike
<1>10. CASE board.est[Start] = Inf
  BY <1>4, <1>5, <1>8, <1>9, <1>10
<1>11. CASE board.est[Start] # Inf
  <2>1. l + 1 \in 1 .. Len(b.recs) /\ b.recs[l + 1].st = Start
    BY <1>2, <1>3, <1>4, <1>6 DEF Alike
  <2> DEFINE f == w * RootH
             key == [f |-> f, h |-> RootH, id |-> l + 1]
  <2>2. 0 + w * RootH = w * RootH /\ l + 1 \in Nat \ {0}
    BY <1>1, <1>3
  <2>3. key \in Keys
    <3>1. 0 \in Nat
      OBVIOUS
    <3> QED
      BY <1>1, <2>2, <3>1, KeyFacts
  <2>4. c = Enqueue(b, f, RootH, l + 1)
    BY <1>4, <1>5, <1>11
  <2> HIDE DEF f
  <2>5. /\ Sound(board, c) /\ SameButQueue(b, c) /\ c.recs = b.recs
        /\ Grows(b) => Grows(c)
        /\ c.queue = b.queue \cup {key}
        /\ Low(board, b) /\ RootH <= board.dist[b.recs[l + 1].st] => Low(board, c)
    BY <1>8, <2>1, <2>3, <2>4, EnqueueSound
  <2> HIDE DEF key
  <2>6. Grows(c) /\ Low(board, c)
    BY <1>1, <1>8, <2>1, <2>5
  <2>7. c.queue # {}
    BY <2>5
  <2> QED
    BY <1>4, <1>9, <2>5, <2>6, <2>7 DEF SameButQueue
<1> QED
  BY <1>10, <1>11

(* A kept path and a queued copy of its last record.                       *)
LEMMA ReseedSound ==
  ASSUME board \in Boards, NEW a, Sound(board, a), Grows(a), ~a.starved,
         NEW i \in 1 .. Len(a.recs), Keepable(a, i),
         Cardinality(Path(a, i)) < Len(a.recs), NEW ok \in Grants
  PROVE  LET c == Reseeded(a, i, ok)
             n == Cardinality(Path(a, i))
         IN  /\ Sound(board, c) /\ Grows(c) /\ Low(board, c)
             /\ ~c.starved /\ c.limit = a.limit
             /\ n \in 1 .. i /\ Len(c.recs) = n + 1
             /\ \A j \in 1 .. n : c.recs[j].par = j - 1
             /\ c.recs[n + 1].par = n - 1
             /\ \A q \in c.queue : q.id = n + 1
<1> DEFINE k == ClearKeeping(a, i)
           n == Cardinality(Path(a, i))
           r == k.recs[Len(k.recs)]
           m == [st |-> r.st, g |-> r.g, h |-> r.h, par |-> r.par]
           b == Insert(k, m, ok)
           c == Reseeded(a, i, ok)
<1>1. /\ Consistent(a) /\ a \in Arenas /\ Len(a.recs) \in Nat /\ a.limit \in Nat
      /\ a.table \in Nat /\ a.reserved \in Nat
      /\ Buffered(a, FALSE) /\ Len(a.recs) <= a.limit /\ a.table # 0
  BY SoundUpward, ArenaFields DEF Sound, Grows
<1>2. /\ Real(board, k)
      /\ n \in 1 .. i /\ Len(k.recs) = n
      /\ \A j \in 1 .. n : k.recs[j].par = j - 1
  BY KeepReal
<1>3. /\ Consistent(k) /\ k.queue = {} /\ k.index = {} /\ k.resident = 0
      /\ k.starved = FALSE /\ k.limit = a.limit
      /\ k.table = a.table /\ k.reserved = a.reserved
  BY <1>1, KeepFacts
<1>4. Buffered(k, FALSE)
  BY <1>1, KeepBuffered
<1>5. n < a.limit /\ n \in Nat /\ n >= 1
  BY <1>2 DEF Keepable
<1>6. n + 2 < k.reserved \/ k.reserved > k.limit
  <2>1. Len(a.recs) + 1 < a.reserved \/ a.reserved > a.limit
    BY <1>1 DEF Buffered
  <2> QED
    BY <1>1, <1>3, <1>5, <2>1
<1> HIDE DEF k, n
<1>7. /\ r \in Records /\ Reached(board, k, r) /\ r.par = n - 1
  <2>1. k.recs \in Seq(Records) /\ n \in 1 .. Len(k.recs)
    BY <1>2, <1>3, <1>5, ArenaFields DEF Consistent
  <2>2. r = k.recs[n]
    BY <1>2
  <2>3. r \in Records /\ Reached(board, k, r)
    BY <1>2, <2>1, <2>2, RecordFields DEF Real
  <2> QED
    BY <1>2, <1>5, <2>1, <2>2, <2>3
<1> HIDE DEF r
<1>8. m \in Nodes /\ Alike(m, r) /\ r.g \in Nat /\ r.h \in Nat
  BY <1>7 DEF Nodes, Records, Alike
<1>9. Reached(board, k, m)
  BY <1>7, <1>8 DEF Alike, Reached, Follows
<1>0. c = Enqueue(b, r.g + LadderWeight * r.h, r.h, Len(b.recs))
  BY DEF Reseeded, r, k
<1> HIDE DEF m
<1>10. /\ Consistent(b) /\ Buffered(b, FALSE)
       /\ Len(b.recs) = n + 1
       /\ b.recs[n + 1] = [st |-> m.st, g |-> m.g, h |-> m.h, par |-> m.par,
                           closed |-> FALSE, sup |-> FALSE]
       /\ \A j \in 1 .. n : Alike(b.recs[j], k.recs[j])
       /\ b.queue = k.queue /\ b.limit = k.limit /\ ~b.starved
       /\ b.table = k.table
  <2>1. Len(k.recs) + 2 < k.reserved \/ k.reserved > k.limit
    BY <1>2, <1>6
  <2>2. /\ k.table # 0 /\ ~k.starved /\ Len(k.recs) < k.limit
    BY <1>1, <1>2, <1>3, <1>5
  <2> QED
    BY ZenonT(60), <1>2, <1>3, <1>4, <1>8, <2>1, <2>2, FirstInsert
<1> HIDE DEF b, c
<1>11. Alike(b.recs[n + 1], m)
  BY <1>10 DEF Alike
<1>12. Real(board, b)
  BY <1>2, <1>5, <1>9, <1>10, <1>11, RealAppend
<1>13. Sound(board, b) /\ Grows(b) /\ Low(board, b)
  <2>1. Housed(b)
    BY <1>10, BufferedHoused DEF Consistent
  <2>2. Queued(b) /\ Low(board, b)
    BY <1>3, <1>10 DEF Queued, Low
  <2>3. Len(b.recs) <= b.limit
    BY <1>1, <1>3, <1>5, <1>10
  <2> QED
    BY <1>1, <1>3, <1>10, <1>12, <2>1, <2>2, <2>3 DEF Sound, Grows
<1>14. /\ n + 1 \in 1 .. Len(b.recs) /\ b.recs[n + 1].st = r.st
       /\ r.h <= board.dist[r.st]
  <2>1. n + 1 \in 1 .. Len(b.recs)
    BY <1>5, <1>10
  <2>2. b.recs[n + 1].st = r.st
    BY <1>8, <1>11 DEF Alike
  <2>3. r.h = board.est[r.st] /\ r.st \in States
    BY <1>7 DEF Reached, Records
  <2>4. board.est[r.st] <= board.dist[r.st]
    BY <2>3, BoardFacts
  <2> QED
    BY <2>1, <2>2, <2>3, <2>4
<1>15. LadderWeight \in Nat
  BY PolicyFacts DEF LadderWeight, Sane
<1> DEFINE f == r.g + LadderWeight * r.h
           key == [f |-> f, h |-> r.h, id |-> n + 1]
<1>16. /\ Sound(board, c) /\ SameButQueue(b, c) /\ c.recs = b.recs
       /\ Grows(b) => Grows(c)
       /\ c.queue = b.queue \cup {key}
       /\ Low(board, b) /\ r.h <= board.dist[b.recs[n + 1].st] => Low(board, c)
  <2>1. c = Enqueue(b, f, r.h, n + 1)
    BY <1>0, <1>10
  <2>2. key \in Keys
    <3>1. n + 1 \in Nat \ {0}
      BY <1>5
    <3> QED
      BY <1>8, <1>15, <3>1, KeyFacts
  <2> HIDE DEF f
  <2> QED
    BY <1>13, <1>14, <2>1, <2>2, EnqueueSound
<1>17. Grows(c) /\ Low(board, c)
  BY <1>13, <1>14, <1>16
<1>18. \A q \in c.queue : q.id = n + 1
  BY <1>3, <1>10, <1>16
<1>19. ~c.starved /\ c.limit = a.limit /\ Len(c.recs) = n + 1
  BY <1>3, <1>10, <1>16 DEF SameButQueue
<1>20. /\ \A j \in 1 .. n : c.recs[j].par = j - 1
       /\ c.recs[n + 1].par = n - 1
  BY <1>2, <1>7, <1>8, <1>10, <1>11, <1>16 DEF Alike
<1> QED
  BY <1>2, <1>16, <1>17, <1>18, <1>19, <1>20 DEF n, c

-----------------------------------------------------------------------------
(* Changing the queue, opening a node, releasing the buffers.              *)

LEMMA DequeueSound ==
  ASSUME NEW b, NEW a, Sound(b, a)
  PROVE  /\ Sound(b, Dequeue(a)) /\ SameButQueue(a, Dequeue(a))
         /\ Grows(a) => Grows(Dequeue(a))
         /\ Low(b, a) => Low(b, Dequeue(a))
         /\ Dequeue(a).queue \subseteq a.queue /\ Dequeue(a).recs = a.recs
<1>1. a \in Arenas
  BY SoundUpward
<1>2. /\ SameButQueue(a, Dequeue(a)) /\ Dequeue(a).recs = a.recs
      /\ Dequeue(a).queue \subseteq a.queue
  BY <1>1, DequeueFacts
<1>3. Queued(Dequeue(a))
  BY <1>2 DEF Sound, Queued
<1>4. Low(b, a) => Low(b, Dequeue(a))
  BY <1>2 DEF Low
<1> QED
  BY <1>2, <1>3, <1>4, SoundSame

LEMMA CloseSound ==
  ASSUME NEW b, NEW a, Sound(b, a), NEW i \in 1 .. Len(a.recs)
  PROVE  /\ Sound(b, Close(a, i)) /\ SameButQueue(a, Close(a, i))
         /\ Grows(a) => Grows(Close(a, i))
         /\ Low(b, a) => Low(b, Close(a, i))
         /\ Close(a, i).queue = a.queue
<1>1. a \in Arenas
  BY SoundUpward
<1>2. SameButQueue(a, Close(a, i)) /\ Close(a, i).queue = a.queue
  BY <1>1, CloseFacts
<1>3. Queued(Close(a, i))
  BY <1>2 DEF Sound, Queued, SameButQueue
<1>4. Low(b, a) => Low(b, Close(a, i))
  BY <1>2, LowSame DEF Sound
<1> QED
  BY <1>2, <1>3, <1>4, SoundSame

(* A popped node is opened.                                                *)
LEMMA OpenSound ==
  ASSUME NEW b, NEW a, Sound(b, a), NEW i \in 1 .. Len(a.recs)
  PROVE  LET c == Close(Dequeue(a), i)
         IN  /\ Sound(b, c) /\ SameButQueue(a, c)
             /\ Grows(a) => Grows(c)
             /\ Low(b, a) => Low(b, c)
             /\ c.queue \subseteq a.queue
<1> DEFINE d == Dequeue(a)
<1>1. /\ Sound(b, d) /\ SameButQueue(a, d) /\ (Grows(a) => Grows(d))
      /\ (Low(b, a) => Low(b, d)) /\ d.queue \subseteq a.queue /\ d.recs = a.recs
  BY DequeueSound
<1> HIDE DEF d
<1>2. i \in 1 .. Len(d.recs)
  BY <1>1
<1>3. /\ Sound(b, Close(d, i)) /\ SameButQueue(d, Close(d, i))
      /\ (Grows(d) => Grows(Close(d, i))) /\ (Low(b, d) => Low(b, Close(d, i)))
      /\ Close(d, i).queue = d.queue
  BY <1>1, <1>2, CloseSound
<1>4. SameButQueue(a, Close(d, i))
  BY <1>1, <1>3, SameTransitive
<1> QED
  BY <1>1, <1>3, <1>4 DEF d

LEMMA ReweightSound ==
  ASSUME NEW b, NEW a, Sound(b, a), NEW w \in Nat
  PROVE  /\ Sound(b, Reweight(a, w)) /\ SameButQueue(a, Reweight(a, w))
         /\ Reweight(a, w).recs = a.recs
         /\ Grows(a) => Grows(Reweight(a, w))
         /\ Low(b, a) => Low(b, Reweight(a, w))
<1> DEFINE c == Reweight(a, w)
           key(q) == [f |-> a.recs[q.id].g + w * q.h, h |-> q.h, id |-> q.id]
<1>1. a \in Arenas /\ \A q \in a.queue : q.id \in 1 .. Len(a.recs)
  BY SoundUpward DEF Sound, Queued
<1>2. SameButQueue(a, c) /\ c.recs = a.recs /\ c.queue = {key(q) : q \in a.queue}
  BY <1>1, ReweightFacts
<1>3. \A q \in a.queue : key(q).id = q.id /\ key(q).h = q.h
  OBVIOUS
<1> HIDE DEF c, key
<1>4. Queued(c)
  BY <1>1, <1>2, <1>3 DEF Queued
<1>5. Low(b, a) => Low(b, c)
  BY <1>2, <1>3 DEF Low
<1>6. Sound(b, c) /\ (Grows(a) => Grows(c))
  BY <1>2, <1>4, SoundSame
<1> QED
  BY <1>2, <1>5, <1>6 DEF c

LEMMA ReleaseSound ==
  ASSUME NEW b, NEW a, Sound(b, a)
  PROVE  Sound(b, Release(a)) /\ Low(b, Release(a))
<1>1. /\ Consistent(Release(a)) /\ Release(a).recs = a.recs
      /\ Release(a).queue = {} /\ Release(a).reserved = 0
  BY ReleaseFacts DEF Sound
<1>2. Real(b, Release(a))
  BY <1>1 DEF Sound, Real, Reached
<1> QED
  BY <1>1, <1>2 DEF Sound, Queued, Housed, Low

-----------------------------------------------------------------------------
(* The inductive invariant.                                                *)

Searching == status = "running" /\ polish.ending \in {"none", "running"}

Given == board \in Boards /\ policy \in DOMAIN Policies

SolvedId(a, id) ==
  id \in 0 .. Len(a.recs) /\ (id # NoId => Solved(a.recs[id].st))

(* Only the exact search queues above the estimates, at what it deferred   *)
(* and at what the room bound adds.                                        *)
LowOk == policy # "exact" => Low(board, arena)

PolishOk ==
  /\ polish = [ending |-> polish.ending, best |-> polish.best]
  /\ polish.ending = "none" => polish = NoPolish
  /\ status # "running" \/ polish # NoPolish => cur = Idle /\ ladder = NoLadder

GrowOk ==
  Searching => /\ Grows(arena)
               /\ arena.starved => ladder.phase \in {"solved", "gaveup"}

(* The stage point lies below the limit only while a stage may begin.      *)
FillOk ==
  /\ fillAt \in Nat
  /\ Searching /\ fillAt < arena.limit => P.stage /\ incumbent = NoId

(* The expansion c fits arena a and policy p; a restart leaves one of a    *)
(* dropped record, with nothing to try.                                    *)
Fits(b, a, p, c) ==
  /\ c = [id |-> c.id, h |-> c.h, todo |-> c.todo, deferred |-> c.deferred,
          partial |-> c.partial]
  /\ c.h \in Nat
  /\ c.partial \/ c.deferred # Inf => p = "exact"
  /\ \/ c.todo = << >> /\ c.deferred = Inf
     \/ /\ c.id \in 1 .. Len(a.recs)
        /\ c.todo \in Seq(Range1(b.succ[a.recs[c.id].st]))
        /\ c.deferred \in Nat
        /\ c.deferred = Inf \/ c.deferred >= a.recs[c.id].g

CurOk == Fits(board, arena, policy, cur)

RoomOk ==
  /\ policy # "exact" => room = "off"
  /\ room = "building" => /\ cur = Idle /\ ladder = NoLadder /\ polish = NoPolish
                          /\ Len(arena.recs) = 1 /\ arena.queue # {}

FrameSet == [depth : Nat, level : Nat, rung : Nat, bans : Nat]

Ladders ==
  [phase : {"none", "select", "search", "accept", "commit", "fail", "solved", "gaveup"},
   frames : Seq(FrameSet), rises : Seq(Nat), at : Nat, base : Nat, work : Nat,
   checks : Nat, backtracks : Nat]

(* Records 1 to m - 1 of a are a kept path, m a copy of its last, and the  *)
(* others were found from the copy.                                        *)
Seeded(a, m) ==
  /\ m \in 2 .. Len(a.recs)
  /\ \A k \in 1 .. m - 1 : a.recs[k].par = k - 1
  /\ a.recs[m].par = m - 2
  /\ \A k \in m + 1 .. Len(a.recs) : a.recs[k].par >= m
  /\ \A q \in a.queue : q.id >= m

(* The frames' roots lie along the kept path, in order.                    *)
Nested(frames, m) ==
  /\ frames # << >>
  /\ \A k \in 1 .. Len(frames) : frames[k].depth \in 1 .. m - 1
  /\ \A j, k \in 1 .. Len(frames) : j <= k => frames[j].depth <= frames[k].depth

(* Ladder l fits arena a and the expansion c under way.                    *)
Climbing(l, a, c) ==
  /\ l \in Ladders /\ l.phase # "none"
  /\ Seeded(a, l.base)
  /\ Nested(l.frames, l.base)
  /\ c = Idle \/ (l.phase = "search" /\ c.id >= l.base)
  /\ \A k \in 1 .. Len(l.rises) : l.rises[k] \in l.base .. Len(a.recs)
  /\ l.phase \in {"accept", "commit"} => l.rises # << >>
  /\ l.phase = "fail" => l.rises = << >>
  /\ l.phase = "solved" => /\ l.at \in l.base .. Len(a.recs)
                           /\ Solved(a.recs[l.at].st)

LadderOk == ladder = NoLadder \/ (incumbent = NoId /\ Climbing(ladder, arena, cur))

IInv ==
  /\ Given /\ Sound(board, arena) /\ SolvedId(arena, incumbent)
  /\ LowOk /\ PolishOk /\ GrowOk /\ FillOk /\ CurOk /\ RoomOk /\ LadderOk
-----------------------------------------------------------------------------
(* Parts of the inductive invariant that hold of the empty values.         *)

LEMMA EmptyValues ==
  /\ Idle.todo = << >> /\ Idle.deferred = Inf /\ Idle.h \in Nat /\ ~Idle.partial
  /\ Idle = [id |-> Idle.id, h |-> Idle.h, todo |-> Idle.todo, deferred |-> Idle.deferred,
             partial |-> Idle.partial]
  /\ NoLadder \in Ladders /\ NoLadder.phase = "none"
  /\ NoPolish = [ending |-> NoPolish.ending, best |-> NoPolish.best]
  /\ NoPolish.ending = "none"
<1>1. << >> \in Seq(FrameSet) /\ << >> \in Seq(Nat)
  BY EmptySeq
<1>2. NoLadder \in Ladders
  BY <1>1 DEF NoLadder, Ladders, NoId
<1> QED
  BY <1>2 DEF Idle, NoLadder, NoPolish

LEMMA IdleOk == cur' = Idle => CurOk'
BY EmptyValues DEF CurOk, Fits

LEMMA NoLadderOk == ladder' = NoLadder => LadderOk'
BY EmptyValues DEF LadderOk

(* A ladder runs in a search that neither ended nor polishes.              *)
LEMMA LadderRuns ==
  ASSUME IInv, ladder # NoLadder \/ cur # Idle
  PROVE  /\ status = "running" /\ polish = NoPolish /\ Searching
         /\ Grows(arena) /\ room # "building"
<1>1. status = "running" /\ polish = NoPolish
  BY DEF IInv, PolishOk
<1>2. Searching
  BY <1>1, EmptyValues DEF Searching
<1> QED
  BY <1>1, <1>2 DEF IInv, GrowOk, RoomOk

(* An expansion goes on fitting an arena whose records stay.               *)
LEMMA FitsOn ==
  ASSUME NEW b, NEW a, NEW d, NEW p, NEW c, Fits(b, a, p, c),
         Len(a.recs) \in Nat, Len(d.recs) \in Nat, Len(a.recs) <= Len(d.recs),
         \A i \in 1 .. Len(a.recs) : Alike(d.recs[i], a.recs[i])
  PROVE  Fits(b, d, p, c)
<1>1. ASSUME c.id \in 1 .. Len(a.recs)
      PROVE  /\ c.id \in 1 .. Len(d.recs)
             /\ d.recs[c.id].st = a.recs[c.id].st /\ d.recs[c.id].g = a.recs[c.id].g
  BY <1>1 DEF Alike
<1> QED
  BY <1>1 DEF Fits

LEMMA FitsTail ==
  ASSUME NEW b, NEW a, NEW p, NEW c, Fits(b, a, p, c), c.todo # << >>
  PROVE  /\ Fits(b, a, p, [c EXCEPT !.todo = Tail(@)])
         /\ c.id \in 1 .. Len(a.recs)
         /\ Head(c.todo) \in Range1(b.succ[a.recs[c.id].st])
<1>1. /\ c.id \in 1 .. Len(a.recs) /\ c.todo \in Seq(Range1(b.succ[a.recs[c.id].st]))
      /\ c.deferred \in Nat /\ (c.deferred = Inf \/ c.deferred >= a.recs[c.id].g)
  BY DEF Fits
<1>2. /\ Tail(c.todo) \in Seq(Range1(b.succ[a.recs[c.id].st]))
      /\ Head(c.todo) \in Range1(b.succ[a.recs[c.id].st])
  BY <1>1, HeadTailProperties
<1>3. [c EXCEPT !.todo = Tail(@)] =
        [id |-> c.id, h |-> c.h, todo |-> Tail(c.todo), deferred |-> c.deferred,
         partial |-> c.partial]
  BY DEF Fits
<1> QED
  BY <1>1, <1>2, <1>3 DEF Fits

LEMMA CurKeeps ==
  ASSUME IInv, SameButQueue(arena, arena'), board' = board, policy' = policy, cur' = cur
  PROVE  CurOk'
<1>1. Len(arena.recs) \in Nat /\ Len(arena'.recs) = Len(arena.recs)
  BY SoundUpward DEF IInv, SameButQueue
<1>2. \A i \in 1 .. Len(arena.recs) : Alike(arena'.recs[i], arena.recs[i])
  BY DEF SameButQueue
<1> QED
  BY <1>1, <1>2, FitsOn DEF IInv, CurOk

-----------------------------------------------------------------------------
(* The ways a search step ends.                                            *)

(* Only the queue, the expansion and the ladder move.                      *)
LEMMA QuietStep ==
  ASSUME IInv, SameButQueue(arena, arena'), Queued(arena'), LowOk',
         board' = board, policy' = policy, incumbent' = incumbent, fillAt' = fillAt,
         Searching' => Searching /\ (arena.starved => ladder'.phase \in {"solved", "gaveup"}),
         PolishOk', CurOk', RoomOk', LadderOk'
  PROVE  IInv'
<1>1. Sound(board, arena') /\ (Grows(arena) => Grows(arena'))
  BY SoundSame DEF IInv
<1>2. SolvedId(arena', incumbent)
  BY DEF IInv, SolvedId, SameButQueue, Alike, NoId
<1>3. Given' /\ FillOk'
  BY DEF IInv, Given, FillOk, SameButQueue, P
<1>4. GrowOk'
  BY <1>1 DEF IInv, GrowOk, SameButQueue
<1> QED
  BY <1>1, <1>2, <1>3, <1>4 DEF IInv

(* The search ends, or hands its route to the end polish.                  *)
LEMMA EndKeeps ==
  ASSUME IInv, NEW a, NEW id, NEW p, NEW st, NEW cut, End(st, a, id, p, cut),
         st \in Kinds \ {"running"}, Sound(board, a), SolvedId(a, id),
         p \in DOMAIN Policies,
         p # "exact" => Low(board, a) /\ room = "off",
         board' = board, room' = room, room # "building", fillAt' \in Nat
  PROVE  IInv'
<1>1. policy' = p /\ cur' = Idle /\ ladder' = NoLadder
  BY DEF End
<1>2. Given' /\ CurOk' /\ LadderOk' /\ RoomOk'
  BY <1>1, IdleOk, NoLadderOk DEF IInv, Given, RoomOk
<1>3. /\ Sound(board, arena') /\ SolvedId(arena', incumbent') /\ LowOk'
      /\ PolishOk' /\ ~Searching'
  <2>1. CASE Policies[p].polish /\ id # NoId
    <3>1. /\ polish' = [ending |-> st, best |-> MovesOf(a, id)]
          /\ incumbent' = NoId /\ arena' = Release(a)
      BY <2>1 DEF End
    <3>2. Sound(board, arena') /\ Low(board, arena')
      BY <3>1, ReleaseSound
    <3>3. SolvedId(arena', incumbent')
      <4>1. Len(arena'.recs) \in Nat
        BY <3>2, SoundUpward
      <4> QED
        BY <3>1, <4>1 DEF SolvedId, NoId
    <3>4. PolishOk' /\ ~Searching'
      BY <1>1, <3>1 DEF PolishOk, Searching, Kinds
    <3> QED
      BY <1>1, <3>2, <3>3, <3>4 DEF LowOk
  <2>2. CASE ~(Policies[p].polish /\ id # NoId)
    <3>1. status' = st /\ incumbent' = id /\ arena' = a /\ polish' = polish
      BY <2>2 DEF End
    <3> QED
      BY <1>1, <3>1 DEF LowOk, IInv, PolishOk, Searching
  <2> QED
    BY <2>1, <2>2
<1>4. GrowOk' /\ FillOk'
  BY <1>3 DEF GrowOk, FillOk
<1> QED
  BY <1>2, <1>3, <1>4 DEF IInv

(* The next phase takes over in the same arena.                            *)
LEMMA PhaseKeeps ==
  ASSUME IInv, NEW a, NEW id, Sound(board, a), Grows(a), ~a.starved, a.limit = arena.limit,
         SolvedId(a, id), policy # "exact" => Low(board, a),
         P.next # "none", arena' = Reweight(a, Policies[P.next].weight),
         incumbent' = id, policy' = P.next, fillAt' = arena.limit, ladder' = NoLadder,
         status' = status, polish' = polish, board' = board, room' = room,
         status = "running", polish = NoPolish, room # "building", CurOk'
  PROVE  IInv'
<1>1. policy # "exact" /\ P.next \in DOMAIN Policies \ {"exact"}
  BY PolicyFacts DEF IInv, Given, P, Sane
<1>2. Policies[P.next].weight \in Nat
  BY <1>1, PolicyFacts DEF Sane
<1>3. /\ Sound(board, arena') /\ SameButQueue(a, arena') /\ arena'.recs = a.recs
      /\ Grows(arena') /\ Low(board, arena')
  BY <1>1, <1>2, ReweightSound
<1>4. ~arena'.starved /\ arena'.limit = arena.limit
  BY <1>3 DEF SameButQueue
<1>5. SolvedId(arena', incumbent')
  BY <1>3 DEF SolvedId
<1>6. Given' /\ LowOk' /\ RoomOk' /\ LadderOk'
  BY <1>1, <1>3, NoLadderOk DEF IInv, Given, LowOk, RoomOk
<1>7. PolishOk' /\ GrowOk'
  BY <1>3, <1>4 DEF IInv, PolishOk, GrowOk
<1>8. FillOk'
  <2>1. arena.limit \in Nat
    BY ArenaFields, SoundUpward DEF IInv
  <2> QED
    BY <1>4, <2>1 DEF FillOk
<1> QED
  BY <1>3, <1>5, <1>6, <1>7, <1>8 DEF IInv

LEMMA NextPhaseKeeps ==
  ASSUME IInv, NEW a, NEW id, NextPhaseOrEnd(a, id), Sound(board, a), Grows(a),
         P.next # "none" => ~a.starved /\ fillAt' = arena.limit /\ CurOk',
         a.limit = arena.limit, SolvedId(a, id), policy # "exact" => Low(board, a),
         status = "running", polish = NoPolish, ladder = NoLadder, room # "building",
         board' = board, room' = room, fillAt' \in Nat
  PROVE  IInv'
<1>1. CASE P.next = "none"
  <2>1. End("solved", a, id, policy, interrupted)
    BY <1>1 DEF NextPhaseOrEnd
  <2>2. policy \in DOMAIN Policies /\ (policy # "exact" => room = "off")
    BY DEF IInv, Given, RoomOk
  <2>3. "solved" \in Kinds \ {"running"}
    BY DEF Kinds
  <2> QED
    BY <2>1, <2>2, <2>3, EndKeeps
<1>2. CASE P.next # "none"
  <2>1. /\ arena' = Reweight(a, Policies[P.next].weight)
        /\ incumbent' = id /\ policy' = P.next
        /\ status' = status /\ polish' = polish /\ ladder' = NoLadder
    BY <1>2 DEF NextPhaseOrEnd
  <2> QED
    BY <1>2, <2>1, PhaseKeeps
<1> QED
  BY <1>1, <1>2

(* The search starts over on the kept path of id, or on nothing.           *)
LEMMA StartOverKeeps ==
  ASSUME IInv, NEW a, NEW id, NEW p, StartOver(a, id, p),
         Sound(board, a), NEW spare \in BOOLEAN, Buffered(a, spare), ~a.starved, a.table # 0,
         a.limit = arena.limit, SolvedId(a, id), id # NoId => Keepable(a, id),
         a.reserved > a.limit \/
           /\ 1 <= Len(a.recs) /\ Len(a.recs) + 1 < a.reserved
           /\ id # NoId => Cardinality(Path(a, id)) < Len(a.recs),
         p \in DOMAIN Policies, p # "exact" => room = "off",
         status = "running", polish = NoPolish, room # "building",
         board' = board, room' = room, CurOk'
  PROVE  IInv'
<1>0. PICK k : k = IF id # NoId THEN ClearKeeping(a, id) ELSE Clear(a)
  OBVIOUS
<1>1. PICK ok \in Grants :
        /\ arena' = Seed(k, Policies[p].weight, RootH, ok)
        /\ incumbent' = Len(k.recs)
        /\ policy' = p /\ ladder' = NoLadder /\ fillAt' = arena.limit
        /\ status' = status /\ polish' = polish
  BY <1>0, EngineAssumption DEF StartOver, SpendStage
<1>2. /\ a \in Arenas /\ Len(a.recs) \in Nat /\ a.limit \in Nat \ {0} /\ a.reserved \in Nat
      /\ a.table \in Nat
  BY SoundUpward, ArenaFields
<1>3. Emptied(board, k) /\ SolvedId(k, Len(k.recs)) /\ k.limit = a.limit
  <2>1. CASE id = NoId
    <3>1. k = Clear(a)
      BY <1>0, <2>1
    <3>2. /\ Consistent(k) /\ Len(k.recs) = 0 /\ k.queue = {} /\ k.index = {}
          /\ k.resident = 0 /\ k.starved = (a.table = 0) /\ k.limit = a.limit
          /\ k.table = a.table /\ k.reserved = a.reserved
      BY <1>2, <3>1, ClearFacts
    <3>3. Buffered(k, FALSE)
      BY <1>2, <3>1, ClearBuffered
    <3>4. Sound(board, k) /\ ~k.starved
      <4>1. 1 .. Len(k.recs) = {}
        BY <3>2
      <4>2. Real(board, k) /\ Queued(k)
        BY <3>2, <4>1 DEF Real, Queued
      <4>3. Housed(k)
        BY <3>2, <3>3, BufferedHoused DEF Consistent
      <4> QED
        BY <3>2, <4>2, <4>3 DEF Sound
    <3>5. SolvedId(k, Len(k.recs))
      BY <3>2 DEF SolvedId, NoId
    <3>6. Len(k.recs) + 2 < k.reserved \/ k.reserved > k.limit
      BY <1>2, <2>1, <3>2
    <3>7. Len(k.recs) < k.limit /\ k.table # 0
      BY <1>2, <3>2
    <3> QED
      BY <3>2, <3>3, <3>4, <3>5, <3>6, <3>7 DEF Emptied
  <2>2. CASE id # NoId
    <3> DEFINE n == Cardinality(Path(a, id))
    <3>1. k = ClearKeeping(a, id)
      BY <1>0, <2>2
    <3>2. id \in 1 .. Len(a.recs) /\ Solved(a.recs[id].st) /\ Keepable(a, id)
      BY <1>2, <2>2 DEF SolvedId, NoId
    <3>3. /\ Consistent(k) /\ k.queue = {} /\ k.index = {}
          /\ k.resident = 0 /\ k.starved = FALSE /\ k.limit = a.limit
          /\ k.table = a.table /\ k.reserved = a.reserved
      BY <1>2, <3>1, <3>2, KeepFacts
    <3>4. Buffered(k, FALSE)
      BY <1>2, <3>1, <3>2, KeepBuffered
    <3>5. /\ Real(board, k) /\ n \in 1 .. id /\ Len(k.recs) = n
          /\ k.recs[n].st = a.recs[id].st
      BY <3>1, <3>2, KeepReal
    <3>6. n < a.limit
      BY <3>2 DEF Keepable
    <3> HIDE DEF n
    <3>7. Sound(board, k)
      BY <3>3, <3>4, <3>5, BufferedHoused DEF Sound, Consistent, Queued
    <3>8. SolvedId(k, Len(k.recs))
      <4>1. n \in Nat /\ n \in 0 .. n
        BY <3>5
      <4> QED
        BY <3>2, <3>5, <4>1 DEF SolvedId
    <3>9. Len(k.recs) + 2 < k.reserved \/ k.reserved > k.limit
      <4>1. a.reserved > a.limit \/ (n < Len(a.recs) /\ Len(a.recs) + 1 < a.reserved)
        BY <2>2 DEF n
      <4>2. n \in Nat
        BY <3>5
      <4> QED
        BY <1>2, <3>3, <3>5, <4>1, <4>2
    <3> QED
      BY <3>3, <3>4, <3>5, <3>6, <3>7, <3>8, <3>9 DEF Emptied
  <2> QED
    BY <2>1, <2>2
<1>4. Policies[p].weight \in Nat
  BY PolicyFacts DEF Sane
<1>5. board \in Boards
  BY DEF IInv, Given
<1>6. /\ Sound(board, arena') /\ Grows(arena') /\ Low(board, arena')
      /\ ~arena'.starved /\ arena'.limit = k.limit
      /\ Len(arena'.recs) = Len(k.recs) + 1
      /\ \A i \in 1 .. Len(k.recs) : arena'.recs[i].st = k.recs[i].st
  BY <1>1, <1>3, <1>4, <1>5, SeedSound
<1>7. SolvedId(arena', incumbent')
  <2>1. Len(k.recs) \in Nat
    BY <1>3, SoundUpward DEF Emptied
  <2>2. /\ incumbent' \in 0 .. Len(arena'.recs)
        /\ incumbent' # NoId => incumbent' \in 1 .. Len(k.recs)
    BY <1>1, <1>6, <2>1 DEF NoId
  <2> QED
    BY <1>1, <1>3, <1>6, <2>2 DEF SolvedId
<1>8. Given' /\ LowOk' /\ RoomOk' /\ LadderOk'
  BY <1>1, <1>5, <1>6, NoLadderOk DEF Given, LowOk, RoomOk
<1>9. PolishOk' /\ GrowOk'
  BY <1>1, <1>6 DEF IInv, PolishOk, GrowOk
<1>10. FillOk'
  BY <1>1, <1>2, <1>3, <1>6 DEF FillOk
<1> QED
  BY <1>6, <1>7, <1>8, <1>9, <1>10 DEF IInv
-----------------------------------------------------------------------------
(* Pops.                                                                   *)

LEMMA ReadyFacts ==
  ASSUME IInv, Ready
  PROVE  /\ status = "running" /\ Searching /\ cur = Idle /\ ladder = NoLadder
         /\ polish = NoPolish /\ room # "building"
         /\ Grows(arena) /\ ~arena.starved
<1>1. Searching
  BY EmptyValues DEF Ready, Searching
<1> QED
  BY <1>1, EmptyValues DEF Ready, IInv, GrowOk

LEMMA PoppedFacts ==
  ASSUME IInv, arena.queue # {}
  PROVE  /\ Popped \in arena.queue /\ Popped.id \in 1 .. Len(arena.recs)
         /\ Popped.h \in Nat
<1>1. arena \in Arenas
  BY SoundUpward DEF IInv
<1>2. Popped \in arena.queue /\ Popped \in Keys
  BY <1>1, TopFacts, ArenaFields DEF Popped
<1> QED
  BY <1>2 DEF IInv, Sound, Queued, Keys

LEMMA PopEmptyKeeps == IInv /\ PopEmpty => IInv'
<1> SUFFICES ASSUME IInv, PopEmpty PROVE IInv'
  OBVIOUS
<1> DEFINE st == IF incumbent # NoId THEN "solved" ELSE "exhausted"
<1>1. Ready /\ End(st, arena, incumbent, policy, interrupted)
  BY DEF PopEmpty
<1>2. st \in Kinds \ {"running"}
  BY DEF Kinds
<1>3. board' = board /\ room' = room /\ fillAt' = fillAt
  BY DEF PopEmpty, KeepStage
<1>4. /\ Sound(board, arena) /\ SolvedId(arena, incumbent) /\ policy \in DOMAIN Policies
      /\ policy # "exact" => Low(board, arena) /\ room = "off"
      /\ fillAt \in Nat /\ room # "building"
  BY <1>1, ReadyFacts DEF IInv, Given, LowOk, RoomOk, FillOk
<1> HIDE DEF st
<1> QED
  BY <1>1, <1>2, <1>3, <1>4, EndKeeps

(* A pop that opens nothing.                                               *)
LEMMA DroppedKeeps ==
  ASSUME IInv, Ready, arena' = Dequeue(arena),
         UNCHANGED <<board, cur, ladder, policy, status, incumbent, fillAt, polish, room>>
  PROVE  IInv'
<1>1. /\ SameButQueue(arena, arena') /\ Sound(board, arena')
      /\ Low(board, arena) => Low(board, arena')
  BY DequeueSound DEF IInv
<1>2. Queued(arena') /\ LowOk'
  BY <1>1 DEF IInv, Sound, LowOk
<1>3. CurOk'
  BY <1>1, CurKeeps
<1>4. PolishOk' /\ LadderOk' /\ RoomOk' /\ (Searching' => Searching) /\ ~arena.starved
  BY ReadyFacts, NoLadderOk DEF IInv, PolishOk, RoomOk, Searching
<1> QED
  BY <1>1, <1>2, <1>3, <1>4, QuietStep

LEMMA PopStaleKeeps == IInv /\ PopStale => IInv'
BY DroppedKeeps DEF PopStale

LEMMA PopPrunedKeeps == IInv /\ PopPruned => IInv'
BY DroppedKeeps DEF PopPruned, PoppedLive

LEMMA PopSolvedKeeps == IInv /\ PopSolved => IInv'
<1> SUFFICES ASSUME IInv, PopSolved PROVE IInv'
  OBVIOUS
<1> DEFINE a  == Dequeue(arena)
           id == IF arena.recs[Popped.id].g < IncumbentMoves THEN Popped.id ELSE incumbent
<1>1. /\ Ready /\ arena.queue # {} /\ PoppedSolved
      /\ board' = board /\ room' = room
  BY DEF PopSolved, PoppedLive
<1>2. /\ status = "running" /\ polish = NoPolish /\ ladder = NoLadder /\ cur = Idle
      /\ room # "building" /\ Grows(arena) /\ ~arena.starved /\ Searching
  BY <1>1, ReadyFacts
<1>3. /\ Sound(board, a) /\ SameButQueue(arena, a) /\ a.recs = arena.recs
      /\ Grows(a) /\ ~a.starved /\ a.limit = arena.limit
      /\ policy # "exact" => Low(board, a)
  BY ZenonT(60), <1>2, DequeueSound DEF IInv, LowOk, SameButQueue
<1>4. SolvedId(a, id)
  <2>1. Popped.id \in 1 .. Len(arena.recs) /\ Solved(arena.recs[Popped.id].st)
    BY <1>1, PoppedFacts DEF PoppedSolved
  <2>2. SolvedId(arena, incumbent)
    BY DEF IInv
  <2> QED
    BY <1>3, <2>1, <2>2 DEF SolvedId
<1>5. fillAt \in Nat /\ arena.limit \in Nat
  BY ArenaFields, SoundUpward DEF IInv, FillOk
<1>6. CASE P.goalPop
  <2>1. /\ NextPhaseOrEnd(a, id) /\ cur' = Idle
        /\ IF P.next # "none" THEN SpendStage ELSE KeepStage
    BY <1>6 DEF PopSolved
  <2>2. /\ P.next # "none" => fillAt' = arena.limit
        /\ fillAt' \in Nat
    BY <1>5, <2>1 DEF SpendStage, KeepStage
  <2>3. CurOk'
    BY <2>1, IdleOk
  <2> HIDE DEF a, id
  <2> QED
    BY <1>1, <1>2, <1>3, <1>4, <2>1, <2>2, <2>3, NextPhaseKeeps
<1>7. CASE ~P.goalPop
  <2>1. /\ arena' = a /\ incumbent' = id /\ fillAt' = fillAt
        /\ UNCHANGED <<cur, ladder, policy, status, polish>>
    BY <1>7 DEF PopSolved, KeepStage
  <2>2. ~P.stage
    BY <1>7, PolicyFacts DEF IInv, Given, P, Sane
  <2>3. FillOk'
    BY <1>1, <1>2, <1>3, <2>1, <2>2 DEF IInv, FillOk
  <2>4. Given' /\ LowOk' /\ RoomOk'
    BY <1>1, <1>2, <1>3, <2>1 DEF IInv, Given, LowOk, RoomOk
  <2>5. CurOk' /\ LadderOk'
    BY <1>2, <2>1, IdleOk, NoLadderOk
  <2>6. PolishOk' /\ GrowOk'
    BY <1>2, <1>3, <2>1 DEF IInv, PolishOk, GrowOk
  <2> QED
    BY <1>1, <1>3, <1>4, <2>1, <2>3, <2>4, <2>5, <2>6 DEF IInv
<1> QED
  BY <1>6, <1>7

(* A fresh expansion of record i fits.                                     *)
LEMMA ExpansionFits ==
  ASSUME IInv, NEW i \in 1 .. Len(arena.recs), NEW h \in Nat, NEW partial,
         partial => policy = "exact"
  PROVE  Fits(board, arena, policy, Expansion(i, h, partial))
<1> DEFINE c == Expansion(i, h, partial)
           todo == IF arena.recs[i].st \in board.corral THEN << >>
                   ELSE board.succ[arena.recs[i].st]
<1>1. /\ c = [id |-> i, h |-> h, deferred |-> Inf, partial |-> partial, todo |-> todo]
      /\ c.id = i /\ c.h = h /\ c.deferred = Inf /\ c.partial = partial /\ c.todo = todo
  BY DEF Expansion
<1>2. arena.recs[i].st \in States
  BY SoundUpward, ArenaFields, RecordFields DEF IInv
<1>3. board.succ[arena.recs[i].st] \in Seq([to : States, cost : Nat, charge : Nat, ahead : Nat])
  BY <1>2, BoardFacts DEF IInv, Given
<1>4. \A q, S : q \in Seq(S) => q \in Seq(Range1(q))
  <2> SUFFICES ASSUME NEW q, NEW S, q \in Seq(S) PROVE q \in Seq(Range1(q))
    OBVIOUS
  <2>1. Len(q) \in Nat /\ DOMAIN q = 1 .. Len(q) /\ q = [k \in 1 .. Len(q) |-> q[k]]
    BY LenProperties
  <2>2. \A k \in 1 .. Len(q) : q[k] \in Range1(q)
    BY DEF Range1
  <2> QED
    BY <2>1, <2>2, SeqDef
<1>5. todo \in Seq(Range1(board.succ[arena.recs[i].st]))
  BY <1>3, <1>4, EmptySeq
<1>6. Inf \in Nat
  BY BoardAssumption
<1> HIDE DEF c, todo
<1> QED
  BY <1>1, <1>5, <1>6 DEF Fits, c

LEMMA PopExpandKeeps == IInv /\ PopExpand => IInv'
<1> SUFFICES ASSUME IInv, PopExpand PROVE IInv'
  OBVIOUS
<1>1. /\ Ready /\ arena.queue # {}
      /\ arena' = Close(Dequeue(arena), Popped.id)
      /\ cur' = Expansion(Popped.id, Popped.h, Partial(Popped.id))
      /\ UNCHANGED <<board, ladder, policy, status, incumbent, fillAt, polish, room>>
  BY DEF PopExpand, PoppedLive, Opened
<1>2. Popped.id \in 1 .. Len(arena.recs) /\ Popped.h \in Nat
  BY <1>1, PoppedFacts
<1>3. /\ SameButQueue(arena, arena') /\ Sound(board, arena')
      /\ Low(board, arena) => Low(board, arena')
  BY <1>1, <1>2, OpenSound DEF IInv
<1>4. Queued(arena') /\ LowOk'
  BY <1>1, <1>3 DEF IInv, Sound, LowOk
<1>5. CurOk'
  <2>1. Partial(Popped.id) => policy = "exact"
    BY PolicyFacts DEF IInv, Given, Partial, P, Sane
  <2>2. Fits(board, arena, policy, cur')
    BY <1>1, <1>2, <2>1, ExpansionFits
  <2>3. Len(arena.recs) \in Nat /\ Len(arena'.recs) = Len(arena.recs)
    BY <1>3, SoundUpward DEF SameButQueue, IInv
  <2>4. \A i \in 1 .. Len(arena.recs) : Alike(arena'.recs[i], arena.recs[i])
    BY <1>3 DEF SameButQueue
  <2> QED
    BY <1>1, <2>2, <2>3, <2>4, FitsOn DEF CurOk
<1>6. PolishOk' /\ LadderOk' /\ RoomOk' /\ (Searching' => Searching) /\ ~arena.starved
  <2>1. /\ status = "running" /\ polish = NoPolish /\ ladder' = NoLadder
        /\ room # "building" /\ ~arena.starved
    BY <1>1, ReadyFacts
  <2> QED
    BY <1>1, <2>1, NoLadderOk DEF IInv, PolishOk, RoomOk, Searching
<1> QED
  BY <1>1, <1>3, <1>4, <1>5, <1>6, QuietStep
-----------------------------------------------------------------------------
(* Pushes.                                                                 *)

LEMMA PushFacts ==
  ASSUME IInv, Expanding, cur.todo # << >>
  PROVE  /\ status = "running" /\ Searching /\ polish = NoPolish /\ ladder = NoLadder
         /\ room # "building" /\ Grows(arena) /\ ~arena.starved
         /\ Len(arena.recs) \in Nat /\ arena.limit \in Nat \ {0}
         /\ cur.id \in 1 .. Len(arena.recs) /\ arena.recs[cur.id].g \in Nat
         /\ Fits(board, arena, policy, Tried)
         /\ Child \in Nodes /\ Reached(board, arena, Child)
         /\ ChildH \in Nat /\ Child.h <= board.dist[Child.st]
         /\ policy # "exact" => ChildH = Child.h
<1>1. /\ status = "running" /\ polish = NoPolish /\ Searching
      /\ Grows(arena) /\ room # "building" /\ ladder = NoLadder
  BY LadderRuns DEF Expanding
<1>2. ~arena.starved
  BY <1>1, EmptyValues DEF IInv, GrowOk
<1>3. /\ Fits(board, arena, policy, Tried) /\ cur.id \in 1 .. Len(arena.recs)
      /\ Push \in Range1(board.succ[arena.recs[cur.id].st])
  BY FitsTail DEF IInv, CurOk, Tried, Push
<1>4. /\ arena \in Arenas /\ Len(arena.recs) \in Nat /\ arena.limit \in Nat \ {0}
      /\ arena.recs \in Seq(Records)
  BY SoundUpward, ArenaFields DEF IInv
<1>5. arena.recs[cur.id].st \in States /\ arena.recs[cur.id].g \in Nat
  BY <1>3, <1>4, RecordFields
<1>6. /\ Push.to \in States /\ Push.cost \in Nat
      /\ board.est[Push.to] \in Nat /\ board.est[Push.to] <= board.dist[Push.to]
      /\ board.room[Push.to] \in Nat /\ board.term[Push.to] \in Nat
  BY <1>3, <1>5, EdgeFacts, BoardFacts DEF IInv, Given
<1>7. /\ Child.st = Push.to /\ Child.g = arena.recs[cur.id].g + Push.cost
      /\ Child.h = board.est[Push.to] /\ Child.par = cur.id
      /\ Child = [st |-> Child.st, g |-> Child.g, h |-> Child.h, par |-> Child.par]
  BY DEF Child, ChildOf
<1>8. Child \in Nodes
  BY <1>3, <1>4, <1>5, <1>6, <1>7 DEF Nodes
<1>9. Reached(board, arena, Child)
  <2>1. cur.id # NoId
    BY <1>3, <1>4 DEF NoId
  <2> QED
    BY <1>3, <1>7, <2>1 DEF Reached, Follows
<1>10. RoomH(Child.st) \in Nat /\ (room = "off" => RoomH(Child.st) = 0)
  BY <1>6, <1>7 DEF RoomH
<1>11. ChildH \in Nat /\ (policy # "exact" => ChildH = Child.h)
  BY <1>6, <1>7, <1>10 DEF ChildH, IInv, RoomOk
<1> QED
  BY <1>1, <1>2, <1>3, <1>4, <1>5, <1>6, <1>7, <1>8, <1>9, <1>11

(* An expansion that leaves a push for later still fits.                   *)
LEMMA FitsLeaving ==
  ASSUME NEW b, NEW a, NEW p, NEW c, Fits(b, a, p, c), p = "exact",
         c.id \in 1 .. Len(a.recs), c.todo \in Seq(Range1(b.succ[a.recs[c.id].st])),
         NEW f \in Nat, a.recs[c.id].g \in Nat, f >= a.recs[c.id].g
  PROVE  Fits(b, a, p, [c EXCEPT !.deferred = Lesser(@, f)])
<1>1. c.deferred \in Nat /\ (c.deferred = Inf \/ c.deferred >= a.recs[c.id].g)
  BY BoardAssumption DEF Fits
<1>2. /\ Lesser(c.deferred, f) \in Nat
      /\ Lesser(c.deferred, f) = Inf \/ Lesser(c.deferred, f) >= a.recs[c.id].g
  BY <1>1 DEF Lesser
<1>3. [c EXCEPT !.deferred = Lesser(@, f)] =
        [id |-> c.id, h |-> c.h, todo |-> c.todo, deferred |-> Lesser(c.deferred, f),
         partial |-> c.partial]
  BY DEF Fits
<1> QED
  BY <1>2, <1>3 DEF Fits

LEMMA PushDroppedKeeps == IInv /\ PushDropped => IInv'
<1> SUFFICES ASSUME IInv, PushDropped PROVE IInv'
  OBVIOUS
<1>1. /\ Expanding /\ cur.todo # << >>
      /\ UNCHANGED <<arena, board, ladder, policy, status, incumbent, fillAt, polish, room>>
  BY DEF PushDropped
<1>2. /\ status = "running" /\ Searching /\ polish = NoPolish /\ ladder = NoLadder
      /\ room # "building" /\ ~arena.starved
      /\ cur.id \in 1 .. Len(arena.recs) /\ arena.recs[cur.id].g \in Nat
      /\ Fits(board, arena, policy, Tried)
      /\ Child \in Nodes /\ ChildH \in Nat
  BY <1>1, PushFacts
<1>3. cur.h \in Nat /\ (cur.partial => policy = "exact")
  BY DEF IInv, CurOk, Fits
<1>4. /\ Tried.id = cur.id
      /\ Tried.todo \in Seq(Range1(board.succ[arena.recs[cur.id].st]))
  <2>1. /\ cur.todo \in Seq(Range1(board.succ[arena.recs[cur.id].st]))
        /\ Tried.id = cur.id /\ Tried.todo = Tail(cur.todo)
    BY <1>1 DEF IInv, CurOk, Fits, Tried
  <2> QED
    BY <1>1, <2>1, HeadTailProperties
<1>5. ASSUME NEW f \in Nat, f >= CurF, policy = "exact", cur' = Leaving(f)
      PROVE  Fits(board, arena, policy, cur')
  <2>1. f >= arena.recs[cur.id].g
    BY <1>2, <1>3, <1>5 DEF CurF
  <2>2. cur' = [Tried EXCEPT !.deferred = Lesser(@, f)]
    BY <1>5 DEF Leaving
  <2> QED
    BY SMTT(40), <1>2, <1>4, <1>5, <2>1, <2>2, FitsLeaving
<1>6. Fits(board, arena, policy, cur')
  <2>0. CurF \in Nat
    BY <1>2, <1>3 DEF CurF
  <2>1. CASE LeftUnbuilt /\ cur' = Leaving(ExcessF(cur.id, Push))
    <3>1. /\ ExcessF(cur.id, Push) \in Nat /\ ExcessF(cur.id, Push) >= CurF
          /\ policy = "exact"
      BY <1>3, <2>0, <2>1, BoardAssumption DEF LeftUnbuilt
    <3> QED
      BY <1>5, <2>1, <3>1
  <2>2. CASE LeftBuilt /\ cur' = Leaving(Child.g + ChildH)
    <3>1. Child.g \in Nat
      BY <1>2 DEF Nodes
    <3>2. Child.g + ChildH \in Nat /\ Child.g + ChildH >= CurF /\ policy = "exact"
      BY <1>2, <1>3, <2>0, <2>2, <3>1 DEF LeftBuilt
    <3> QED
      BY <1>5, <2>2, <3>2
  <2>3. CASE cur' = Tried
    BY <1>2, <2>3
  <2> QED
    BY <2>1, <2>2, <2>3 DEF PushDropped
<1>7. SameButQueue(arena, arena') /\ Queued(arena') /\ LowOk' /\ CurOk'
  <2>1. arena \in Arenas
    BY SoundUpward DEF IInv
  <2> QED
    BY <1>1, <1>6, <2>1 DEF SameButQueue, Alike, IInv, Sound, LowOk, CurOk
<1>8. PolishOk' /\ LadderOk' /\ RoomOk' /\ (Searching' => Searching)
  BY <1>1, <1>2, NoLadderOk DEF IInv, PolishOk, RoomOk
<1> QED
  BY <1>1, <1>2, <1>7, <1>8, QuietStep

(* A child stored and queued, below the limit.                             *)
LEMMA StoredSound ==
  ASSUME IInv, Expanding, cur.todo # << >>, ~IsFull(arena), NEW ok \in Grants,
         NEW b, b = Enqueue(Insert(arena, Child, ok), Child.g + P.weight * ChildH, ChildH,
                            Len(arena.recs) + 1)
  PROVE  /\ Sound(board, b) /\ Grows(b) /\ (policy # "exact" => Low(board, b))
         /\ b.limit = arena.limit /\ Len(b.recs) = Len(arena.recs) + 1
         /\ \A i \in 1 .. Len(arena.recs) : Alike(b.recs[i], arena.recs[i])
         /\ b.recs[Len(arena.recs) + 1].st = Child.st
<1> DEFINE l == Len(arena.recs)
           f == Child.g + P.weight * ChildH
<1>1. PICK c : c = Insert(arena, Child, ok)
  OBVIOUS
<1>2. /\ Grows(arena) /\ l \in Nat /\ Child \in Nodes /\ Reached(board, arena, Child)
      /\ ChildH \in Nat /\ Child.h <= board.dist[Child.st]
      /\ policy # "exact" => ChildH = Child.h
  BY PushFacts
<1>3. Sound(board, arena)
  BY DEF IInv
<1>4. /\ Sound(board, c) /\ Grows(c)
      /\ Len(c.recs) = l + 1 /\ Alike(c.recs[l + 1], Child)
      /\ \A i \in 1 .. l : Kept(c.recs[i], arena.recs[i], i, Find(arena, Child.st))
      /\ c.queue = arena.queue /\ c.limit = arena.limit
  BY <1>1, <1>2, <1>3, StoreSound
<1>5. [f |-> f, h |-> ChildH, id |-> l + 1] \in Keys
  <2>1. P.weight \in Nat /\ Child.g \in Nat /\ l + 1 \in Nat \ {0}
    BY <1>2, PolicyFacts DEF IInv, Given, P, Sane, Nodes
  <2> QED
    BY <1>2, <2>1, KeyFacts
<1>6. b = Enqueue(c, f, ChildH, l + 1)
  BY <1>1
<1> HIDE DEF f
<1>7. l + 1 \in 1 .. Len(c.recs)
  BY <1>2, <1>4
<1>8. /\ Sound(board, b) /\ SameButQueue(c, b) /\ b.recs = c.recs
      /\ Grows(c) => Grows(b)
      /\ Low(board, c) /\ ChildH <= board.dist[c.recs[l + 1].st] => Low(board, b)
  BY <1>4, <1>5, <1>6, <1>7, EnqueueSound
<1>9. ASSUME policy # "exact" PROVE Low(board, b)
  <2>1. Low(board, arena) /\ Queued(arena)
    BY <1>9 DEF IInv, LowOk, Sound
  <2>2. Low(board, c)
    BY <1>4, <2>1 DEF Low, Queued, Kept, Alike
  <2>3. ChildH <= board.dist[c.recs[l + 1].st]
    BY <1>2, <1>4, <1>9 DEF Alike
  <2> QED
    BY <1>8, <2>2, <2>3
<1> QED
  BY <1>4, <1>8, <1>9 DEF SameButQueue, Kept, Alike

LEMMA SolvedOn ==
  ASSUME NEW a, NEW d, NEW id, SolvedId(a, id), Len(a.recs) \in Nat, Len(d.recs) \in Nat,
         Len(a.recs) <= Len(d.recs),
         \A i \in 1 .. Len(a.recs) : Alike(d.recs[i], a.recs[i])
  PROVE  SolvedId(d, id)
BY DEF SolvedId, NoId, Alike

LEMMA PushStoredKeeps == IInv /\ PushStored => IInv'
<1> SUFFICES ASSUME IInv, PushStored PROVE IInv'
  OBVIOUS
<1> DEFINE handsOver == IsGoal /\ P.goalPush
           l == Len(arena.recs)
           best == IF IsGoal THEN l + 1 ELSE incumbent
           p == IF handsOver THEN P.next ELSE policy
           c(ok) == Enqueue(Insert(arena, Child, ok), Child.g + P.weight * ChildH, ChildH, l + 1)
<1>1. PICK ok \in Grant :
        /\ IF AtFill \/ (handsOver /\ P.next # "none") THEN SpendStage ELSE KeepStage
        /\ IF handsOver /\ P.next = "none"
           THEN NextPhaseOrEnd(c(ok), best)
           ELSE IF c(ok).starved
           THEN StopAtLimit(IF handsOver THEN Reweight(c(ok), Policies[p].weight) ELSE c(ok),
                            best, p, LimitF)
           ELSE /\ cur' = Tried
                /\ IF handsOver THEN NextPhaseOrEnd(c(ok), best)
                   ELSE /\ arena' = c(ok) /\ incumbent' = best
                        /\ UNCHANGED <<ladder, policy, status, interrupted, staging,
                                       polish, sealed>>
  BY DEF PushStored
<1>2. PICK b : b = c(ok)
  OBVIOUS
<1>3. /\ Expanding /\ cur.todo # << >> /\ ~IsFull(arena)
      /\ board' = board /\ room' = room
  BY DEF PushStored, ToStore
<1>4. /\ status = "running" /\ Searching /\ polish = NoPolish /\ ladder = NoLadder
      /\ room # "building" /\ l \in Nat /\ arena.limit \in Nat \ {0}
      /\ Fits(board, arena, policy, Tried)
  BY <1>3, PushFacts
<1>5. /\ Sound(board, b) /\ Grows(b) /\ (policy # "exact" => Low(board, b))
      /\ b.limit = arena.limit /\ Len(b.recs) = l + 1
      /\ \A i \in 1 .. l : Alike(b.recs[i], arena.recs[i])
      /\ b.recs[l + 1].st = Child.st
  <2>1. ok \in Grants
    BY EngineAssumption
  <2> QED
    BY <1>2, <1>3, <2>1, StoredSound
<1>6. SolvedId(b, best)
  <2>1. CASE IsGoal
    BY <1>4, <1>5, <2>1 DEF SolvedId, IsGoal
  <2>2. CASE ~IsGoal
    BY <1>4, <1>5, <2>2, SolvedOn DEF IInv
  <2> QED
    BY <2>1, <2>2
<1>7. /\ fillAt \in Nat /\ fillAt' \in Nat
      /\ fillAt' = fillAt \/ fillAt' = arena.limit
      /\ handsOver /\ P.next # "none" => fillAt' = arena.limit
  BY <1>1, <1>4 DEF SpendStage, KeepStage, IInv, FillOk
<1>8. /\ policy \in DOMAIN Policies /\ Sane(policy, P)
      /\ policy # "exact" => room = "off"
  BY PolicyFacts DEF IInv, Given, P, RoomOk
<1>9. LimitStatus(b) \in Kinds \ {"running"} /\ LimitStatus(Reweight(b, Policies[p].weight)) \in Kinds \ {"running"}
  BY DEF LimitStatus, Kinds
<1>10. Fits(board, b, policy, Tried)
  BY <1>4, <1>5, FitsOn
<1> HIDE DEF c
<1>11. CASE handsOver /\ P.next = "none"
  <2>1. NextPhaseOrEnd(b, best)
    BY <1>1, <1>2, <1>11
  <2> HIDE DEF best
  <2> QED
    BY <1>3, <1>4, <1>5, <1>6, <1>7, <1>11, <2>1, NextPhaseKeeps
<1>12. CASE ~(handsOver /\ P.next = "none") /\ b.starved /\ handsOver
  <2>1. End(LimitStatus(Reweight(b, Policies[p].weight)), Reweight(b, Policies[p].weight),
            best, p, LimitF)
    BY <1>1, <1>2, <1>12 DEF StopAtLimit
  <2>2. p \in DOMAIN Policies \ {"exact"} /\ policy # "exact"
    BY <1>8, <1>12 DEF Sane
  <2>3. Policies[p].weight \in Nat
    BY <2>2, PolicyFacts DEF Sane
  <2> DEFINE d == Reweight(b, Policies[p].weight)
  <2>4. Sound(board, d) /\ Low(board, d) /\ d.recs = b.recs
    BY <1>5, <2>2, <2>3, ReweightSound
  <2>5. SolvedId(d, best)
    BY <1>6, <2>4 DEF SolvedId
  <2> HIDE DEF best, p, d
  <2> QED
    BY <1>3, <1>4, <1>7, <1>8, <1>9, <2>1, <2>2, <2>4, <2>5, EndKeeps DEF d
<1>13. CASE ~(handsOver /\ P.next = "none") /\ b.starved /\ ~handsOver
  <2>1. End(LimitStatus(b), b, best, policy, LimitF)
    BY <1>1, <1>2, <1>13 DEF StopAtLimit
  <2> HIDE DEF best
  <2> QED
    BY <1>3, <1>4, <1>5, <1>6, <1>7, <1>8, <1>9, <2>1, EndKeeps
<1>14. CASE P.next # "none" /\ ~b.starved /\ handsOver
  <2>1. cur' = Tried /\ NextPhaseOrEnd(b, best)
    BY <1>1, <1>2, <1>14
  <2>2. CurOk'
    <3>1. policy # "exact" /\ P.goalPush
      BY <1>8, <1>14 DEF Sane
    <3>2. /\ policy' = P.next /\ Sound(board, arena') /\ arena'.recs = b.recs
      <4>1. arena' = Reweight(b, Policies[P.next].weight) /\ policy' = P.next
        BY <1>14, <2>1 DEF NextPhaseOrEnd
      <4>2. Policies[P.next].weight \in Nat
        BY <1>8, <1>14, PolicyFacts DEF Sane
      <4> QED
        BY <1>5, <4>1, <4>2, ReweightSound
    <3> QED
      BY <1>3, <1>10, <2>1, <3>1, <3>2 DEF CurOk, Fits
  <2> HIDE DEF best
  <2> QED
    BY <1>3, <1>4, <1>5, <1>6, <1>7, <1>14, <2>1, <2>2, NextPhaseKeeps
<1>15. CASE ~b.starved /\ ~handsOver
  <2>1. /\ cur' = Tried /\ arena' = b /\ incumbent' = best
        /\ UNCHANGED <<ladder, policy, status, polish>>
    BY <1>1, <1>2, <1>15
  <2>2. CurOk' /\ LadderOk'
    BY <1>3, <1>4, <1>10, <2>1, NoLadderOk DEF CurOk
  <2>3. FillOk'
    <3>1. ASSUME fillAt' < arena.limit, P.stage PROVE best = NoId
      <4>1. fillAt < arena.limit
        BY <1>4, <1>7, <3>1
      <4>2. incumbent = NoId
        BY <1>4, <4>1 DEF IInv, FillOk
      <4>3. ~IsGoal
        BY <1>8, <1>15, <3>1 DEF Sane
      <4> QED
        BY <4>2, <4>3
    <3>2. ASSUME fillAt' < arena.limit PROVE P.stage
      <4>1. fillAt < arena.limit
        BY <1>4, <1>7, <3>2
      <4> QED
        BY <1>4, <4>1 DEF IInv, FillOk
    <3> QED
      BY <1>5, <1>7, <2>1, <3>1, <3>2 DEF FillOk, P
  <2>4. Given' /\ LowOk' /\ RoomOk' /\ PolishOk' /\ GrowOk'
    BY <1>3, <1>4, <1>5, <1>15, <2>1 DEF IInv, Given, LowOk, RoomOk, PolishOk, GrowOk
  <2> QED
    BY <1>3, <1>5, <1>6, <2>1, <2>2, <2>3, <2>4 DEF IInv
<1> QED
  BY <1>11, <1>12, <1>13, <1>14, <1>15
LEMMA PushAtLimitKeeps == IInv /\ PushAtLimit => IInv'
<1> SUFFICES ASSUME IInv, PushAtLimit PROVE IInv'
  OBVIOUS
<1> DEFINE l == Len(arena.recs)
<1>1. PICK ok \in Grant :
        LET a  == IF IsGoal THEN Insert(arena, Child, ok) ELSE arena
            id == IF IsGoal THEN Len(a.recs) ELSE incumbent
        IN  IF MayStartOver(a, id, P.restart)
            THEN /\ StartOver(a, id, P.restart)
                 /\ cur' = [Tried EXCEPT !.todo = << >>]
            ELSE /\ StopAtLimit(a, id, policy, LimitF)
                 /\ SpendStage
  BY DEF PushAtLimit
<1>2. PICK a : a = IF IsGoal THEN Insert(arena, Child, ok) ELSE arena
  OBVIOUS
<1>3. PICK id : id = IF IsGoal THEN Len(a.recs) ELSE incumbent
  OBVIOUS
<1>4. /\ Expanding /\ cur.todo # << >> /\ IsFull(arena)
      /\ board' = board /\ room' = room
  BY DEF PushAtLimit, ToStore
<1>5. /\ status = "running" /\ polish = NoPolish
      /\ room # "building" /\ l \in Nat /\ arena.limit \in Nat \ {0}
      /\ Grows(arena) /\ ~arena.starved
      /\ Child \in Nodes /\ Reached(board, arena, Child)
      /\ Fits(board, arena, policy, Tried)
  BY <1>4, PushFacts
<1>6. /\ Sound(board, arena) /\ SolvedId(arena, incumbent)
      /\ policy \in DOMAIN Policies /\ Sane(policy, P)
      /\ policy # "exact" => Low(board, arena) /\ room = "off"
  BY PolicyFacts DEF IInv, Given, LowOk, RoomOk, P
<1>7. /\ Sound(board, a) /\ (\E spare \in BOOLEAN : Buffered(a, spare))
      /\ ~a.starved /\ a.table # 0 /\ a.limit = arena.limit /\ a.reserved > a.limit
      /\ SolvedId(a, id) /\ (policy # "exact" => Low(board, a))
  <2>1. CASE IsGoal
    <3>1. a = Insert(arena, Child, ok) /\ id = Len(a.recs) /\ ok \in Grants
      BY <1>2, <1>3, <2>1, EngineAssumption
    <3>2. /\ Sound(board, a) /\ Buffered(a, TRUE)
          /\ Len(a.recs) = l + 1 /\ Alike(a.recs[l + 1], Child)
          /\ \A i \in 1 .. l : Kept(a.recs[i], arena.recs[i], i, Find(arena, Child.st))
          /\ a.queue = arena.queue /\ a.limit = arena.limit
          /\ ~a.starved /\ a.table # 0 /\ a.reserved > a.limit
      BY <1>4, <1>5, <1>6, <3>1, SpareSound
    <3>3. SolvedId(a, id)
      BY <1>5, <2>1, <3>1, <3>2 DEF SolvedId, IsGoal, Alike
    <3>4. policy # "exact" => Low(board, a)
      BY <1>6, <3>2 DEF Low, Sound, Queued, Kept, Alike
    <3> QED
      BY <3>2, <3>3, <3>4
  <2>2. CASE ~IsGoal
    <3>1. a = arena /\ id = incumbent
      BY <1>2, <1>3, <2>2
    <3>2. Buffered(a, FALSE) /\ a.table # 0 /\ l <= a.limit /\ l >= a.limit
      BY <1>4, <1>5, <3>1 DEF Grows, IsFull
    <3>3. a.reserved \in Nat
      BY <1>6, <3>1, SoundUpward, ArenaFields
    <3>4. l + 1 < a.reserved \/ a.reserved > a.limit
      BY <1>5, <3>1, <3>2 DEF Buffered
    <3>5. a.reserved > a.limit
      BY <1>5, <3>1, <3>2, <3>3, <3>4
    <3> QED
      BY <1>5, <1>6, <3>1, <3>2, <3>5
  <2> QED
    BY <2>1, <2>2
<1>8. CASE MayStartOver(a, id, P.restart)
  <2>1. StartOver(a, id, P.restart) /\ cur' = [Tried EXCEPT !.todo = << >>]
    BY <1>1, <1>2, <1>3, <1>8
  <2>2. /\ P.restart \in DOMAIN Policies \ {"exact"} /\ policy # "exact"
        /\ id # NoId => Keepable(a, id)
    BY <1>6, <1>8 DEF MayStartOver, Sane
  <2>3. CurOk'
    <3>1. cur' = [id |-> Tried.id, h |-> Tried.h, todo |-> << >>,
                  deferred |-> Tried.deferred, partial |-> Tried.partial]
      BY <1>5, <2>1 DEF Fits
    <3>2. Tried.deferred = Inf /\ ~Tried.partial /\ Tried.h \in Nat
      BY <1>5, <2>2 DEF Fits
    <3> QED
      BY <3>1, <3>2 DEF CurOk, Fits
  <2>4. PICK spare \in BOOLEAN : Buffered(a, spare)
    BY <1>7
  <2> QED
    BY <1>4, <1>5, <1>6, <1>7, <2>1, <2>2, <2>3, <2>4, StartOverKeeps
<1>9. CASE ~MayStartOver(a, id, P.restart)
  <2>1. End(LimitStatus(a), a, id, policy, LimitF) /\ fillAt' = arena.limit
    BY <1>1, <1>2, <1>3, <1>9 DEF StopAtLimit, SpendStage
  <2>2. LimitStatus(a) \in Kinds \ {"running"}
    BY DEF LimitStatus, Kinds
  <2> QED
    BY <1>4, <1>5, <1>6, <1>7, <2>1, <2>2, EndKeeps
<1> QED
  BY <1>8, <1>9

LEMMA FinishExpansionKeeps == IInv /\ FinishExpansion => IInv'
<1> SUFFICES ASSUME IInv, FinishExpansion PROVE IInv'
  OBVIOUS
<1> DEFINE g == arena.recs[cur.id].g
           h == cur.deferred - g
<1>1. /\ Expanding /\ cur # Idle /\ ladder = NoLadder /\ cur' = Idle
      /\ arena' = IF cur.deferred = Inf THEN arena
                  ELSE Enqueue(arena, g + P.weight * h, h, cur.id)
      /\ UNCHANGED <<board, ladder, policy, status, incumbent, fillAt>>
  BY DEF FinishExpansion, Expanding
<1>2. /\ status = "running" /\ polish = NoPolish /\ Searching
      /\ Grows(arena) /\ room # "building" /\ ~arena.starved
  BY <1>1, LadderRuns, EmptyValues DEF IInv, GrowOk
<1>3. arena \in Arenas /\ arena.recs \in Seq(Records) /\ Sound(board, arena)
  BY SoundUpward, ArenaFields DEF IInv
<1>4. /\ SameButQueue(arena, arena') /\ Queued(arena') /\ LowOk'
  <2>1. CASE cur.deferred = Inf
    BY <1>1, <1>3, <2>1 DEF SameButQueue, Alike, IInv, Sound, LowOk
  <2>2. CASE cur.deferred # Inf
    <3>1. /\ cur.id \in 1 .. Len(arena.recs) /\ cur.deferred \in Nat /\ cur.deferred >= g
          /\ policy = "exact"
      BY <2>2 DEF IInv, CurOk, Fits
    <3>2. g \in Nat /\ h \in Nat /\ P.weight \in Nat /\ cur.id \in Nat \ {0}
      BY <1>3, <3>1, RecordFields, PolicyFacts DEF IInv, Given, P, Sane
    <3> DEFINE f == g + P.weight * h
    <3>3. [f |-> f, h |-> h, id |-> cur.id] \in Keys
      BY <3>2, KeyFacts
    <3>4. arena' = Enqueue(arena, f, h, cur.id)
      BY <1>1, <2>2
    <3> HIDE DEF f, g, h
    <3>5. SameButQueue(arena, arena') /\ Sound(board, arena')
      BY <1>3, <3>1, <3>3, <3>4, EnqueueSound
    <3> QED
      BY <1>1, <3>1, <3>5 DEF Sound, LowOk
  <2> QED
    BY <2>1, <2>2
<1>5. CurOk' /\ LadderOk'
  BY <1>1, IdleOk, NoLadderOk
<1>6. PolishOk' /\ (Searching' => Searching)
  <2>1. \/ polish' = NoPolish
        \/ polish' = [ending |-> "running", best |-> IncumbentMoves]
    BY <1>2 DEF FinishExpansion
  <2> QED
    BY <1>1, <1>2, <2>1, EmptyValues DEF PolishOk
<1>7. RoomOk'
  <2>1. room' = room \/ (room = "due" /\ room' \in {"solving", "plain"})
    BY DEF FinishExpansion
  <2> QED
    BY <1>1, <1>2, <2>1 DEF IInv, RoomOk
<1> QED
  BY <1>1, <1>2, <1>4, <1>5, <1>6, <1>7, QuietStep

-----------------------------------------------------------------------------
(* Builds, polishes and stops.                                             *)

LEMMA WalkDoneKeeps == IInv /\ WalkDone => IInv'
<1> SUFFICES ASSUME IInv, WalkDone PROVE IInv'
  OBVIOUS
<1>1. /\ room = "solving" /\ room' \in {"plain", "term"}
      /\ UNCHANGED <<arena, board, cur, ladder, policy, status, incumbent, fillAt, polish>>
  BY DEF WalkDone
<1>2. arena \in Arenas /\ SameButQueue(arena, arena')
  BY <1>1, SoundUpward DEF IInv, SameButQueue, Alike
<1>3. Queued(arena') /\ LowOk' /\ CurOk' /\ PolishOk' /\ RoomOk' /\ (Searching' => Searching)
  BY <1>1 DEF IInv, Sound, LowOk, CurOk, PolishOk, RoomOk, Searching
<1>4. LadderOk'
  BY <1>1 DEF IInv, LadderOk
<1>5. Searching => (arena.starved => ladder'.phase \in {"solved", "gaveup"})
  BY <1>1 DEF IInv, GrowOk
<1> QED
  BY <1>1, <1>2, <1>3, <1>4, <1>5, QuietStep

LEMMA PolishingFacts ==
  ASSUME IInv, Polishing
  PROVE  /\ cur = Idle /\ ladder = NoLadder /\ polish.ending # "none" /\ room # "building"
         /\ polish = [ending |-> polish.ending, best |-> polish.best]
BY DEF Polishing, IInv, PolishOk, RoomOk

(* A polish unit, or the end of a polish.                                  *)
LEMMA PolishStepKeeps ==
  ASSUME IInv, Polishing, PolishOk', Searching' => Searching,
         UNCHANGED <<arena, board, cur, ladder, policy, incumbent, fillAt, room>>
  PROVE  IInv'
<1>1. arena \in Arenas /\ SameButQueue(arena, arena')
  BY SoundUpward DEF IInv, SameButQueue, Alike
<1>2. Queued(arena') /\ LowOk' /\ CurOk'
  BY DEF IInv, Sound, LowOk, CurOk
<1>3. RoomOk' /\ LadderOk'
  BY PolishingFacts, NoLadderOk DEF IInv, RoomOk
<1>4. Searching => (arena.starved => ladder'.phase \in {"solved", "gaveup"})
  BY DEF IInv, GrowOk
<1> QED
  BY <1>1, <1>2, <1>3, <1>4, QuietStep

LEMMA PolishUnitKeeps == IInv /\ PolishUnit => IInv'
<1> SUFFICES ASSUME IInv, PolishUnit PROVE IInv'
  OBVIOUS
<1>1. /\ Polishing
      /\ UNCHANGED <<arena, board, cur, ladder, policy, status, incumbent, fillAt, room>>
  BY DEF PolishUnit
<1>2. PICK best : polish' = [polish EXCEPT !.best = best]
  BY DEF PolishUnit
<1>3. polish' = [ending |-> polish.ending, best |-> best]
  BY <1>1, <1>2, PolishingFacts
<1>4. PolishOk' /\ (Searching' => Searching)
  BY <1>1, <1>3, PolishingFacts DEF PolishOk, Searching
<1> QED
  BY <1>1, <1>4, PolishStepKeeps

LEMMA PolishDoneKeeps == IInv /\ PolishDone => IInv'
<1> SUFFICES ASSUME IInv, PolishDone PROVE IInv'
  OBVIOUS
<1>1. /\ Polishing /\ status = "running"
      /\ UNCHANGED <<arena, board, cur, ladder, policy, incumbent, fillAt, room>>
  BY DEF PolishDone, Polishing
<1>2. CASE polish.ending # "running"
  <2>1. status' = polish.ending /\ polish' = polish
    BY <1>2 DEF PolishDone
  <2>2. PolishOk' /\ ~Searching'
    BY <1>1, <1>2, <2>1, PolishingFacts DEF PolishOk, Searching
  <2> QED
    BY <1>1, <2>2, PolishStepKeeps
<1>3. CASE polish.ending = "running"
  <2>1. status' = status /\ polish' = NoPolish
    BY <1>3 DEF PolishDone
  <2>2. PolishOk' /\ Searching
    BY <1>1, <1>3, <2>1, PolishingFacts, EmptyValues DEF PolishOk, Searching
  <2> QED
    BY <1>1, <2>2, PolishStepKeeps
<1> QED
  BY <1>2, <1>3

LEMMA StopKeeps ==
  ASSUME NEW reason \in {"time_limit", "cancelled"}
  PROVE  IInv /\ Stop(reason) => IInv'
<1> SUFFICES ASSUME IInv, Stop(reason) PROVE IInv'
  OBVIOUS
<1>1. /\ cur = Idle /\ status' = reason /\ ladder' = NoLadder
      /\ room' = IF room = "building" THEN "off" ELSE IF room = "solving" THEN "plain" ELSE room
      /\ UNCHANGED <<arena, board, cur, policy, incumbent, fillAt, polish>>
  BY DEF Stop
<1>2. arena \in Arenas /\ SameButQueue(arena, arena')
  BY <1>1, SoundUpward DEF IInv, SameButQueue, Alike
<1>3. Queued(arena') /\ LowOk' /\ CurOk' /\ PolishOk' /\ RoomOk' /\ LadderOk' /\ ~Searching'
  BY <1>1, NoLadderOk DEF IInv, Sound, LowOk, CurOk, PolishOk, RoomOk, Searching
<1> QED
  BY <1>1, <1>2, <1>3, QuietStep

LEMMA BuildDoneKeeps == IInv /\ BuildDone => IInv'
<1> SUFFICES ASSUME IInv, BuildDone PROVE IInv'
  OBVIOUS
<1>1. /\ status = "running" /\ room = "building"
      /\ UNCHANGED <<board, cur, ladder, policy, incumbent, polish>>
  BY DEF BuildDone
<1>2. /\ cur = Idle /\ ladder = NoLadder /\ polish = NoPolish /\ policy = "exact"
      /\ Len(arena.recs) = 1 /\ arena.queue # {}
  BY <1>1 DEF IInv, RoomOk
<1>3. Searching /\ Grows(arena) /\ ~arena.starved
  BY <1>1, <1>2, EmptyValues DEF Searching, IInv, GrowOk
<1>4. /\ Sound(board, arena) /\ Consistent(arena) /\ arena \in Arenas
      /\ arena.limit \in Nat \ {0} /\ Popped.id \in 1 .. Len(arena.recs) /\ Popped.h \in Nat
  BY <1>2, PoppedFacts, SoundUpward, ArenaFields DEF IInv, Sound
<1>5. CurOk' /\ LadderOk'
  BY <1>1, <1>2, IdleOk, NoLadderOk
<1>6. CASE room' = "off" /\ UNCHANGED <<arena, status, fillAt>>
  <2>1. SameButQueue(arena, arena')
    BY <1>4, <1>6 DEF SameButQueue, Alike
  <2>2. Queued(arena') /\ LowOk' /\ PolishOk' /\ RoomOk' /\ (Searching' => Searching)
    BY <1>1, <1>2, <1>6 DEF IInv, Sound, LowOk, PolishOk, RoomOk, Searching
  <2> QED
    BY <1>1, <1>3, <1>5, <1>6, <2>1, <2>2, QuietStep
<1>7. ASSUME NEW limit \in 1 .. arena.limit, room' \in {"plain", "due"}, fillAt' = limit,
             LET a == Dequeue(Recharge(arena, limit))
                 h == IF board.room[Start] > Popped.h THEN board.room[Start] ELSE Popped.h
             IN  IF board.room[Start] = Inf
                 THEN arena' = a /\ status' = "exhausted"
                 ELSE arena' = Enqueue(a, P.weight * h, h, Popped.id) /\ UNCHANGED status
      PROVE  IInv'
  <2>1. PICK c : c = Recharge(arena, limit)
    OBVIOUS
  <2>2. PICK a : a = Dequeue(c)
    OBVIOUS
  <2>3. PICK h : h = IF board.room[Start] > Popped.h THEN board.room[Start] ELSE Popped.h
    OBVIOUS
  <2>4. /\ Sound(board, c) /\ Grows(c) /\ c.recs = arena.recs /\ c.limit = limit /\ ~c.starved
    <3>0. Buffered(arena, FALSE)
      BY <1>3 DEF Grows
    <3>1. Len(arena.recs) <= limit /\ limit \in Nat
      BY <1>2, <1>4
    <3>2. /\ Consistent(c) /\ c.recs = arena.recs /\ c.queue = arena.queue /\ c.limit = limit
          /\ c.starved = arena.starved /\ c.table = arena.table /\ Buffered(c, FALSE)
      BY <1>4, <2>1, <3>0, <3>1, RechargeFacts
    <3>3. Real(board, c) /\ Queued(c)
      BY <1>4, <3>2 DEF Sound, Real, Reached, Queued
    <3>4. Housed(c)
      BY <3>2, BufferedHoused DEF Consistent
    <3>5. c.table # 0
      BY <1>3, <3>2 DEF Grows
    <3> QED
      BY <1>3, <3>1, <3>2, <3>3, <3>4, <3>5 DEF Sound, Grows
  <2>5. /\ Sound(board, a) /\ Grows(a) /\ a.recs = arena.recs /\ a.limit = limit /\ ~a.starved
    BY <2>2, <2>4, DequeueSound DEF SameButQueue
  <2>6. /\ board.room[Start] \in Nat /\ h \in Nat /\ P.weight \in Nat
    BY <1>4, <2>3, BoardFacts, PolicyFacts DEF IInv, Given, P, Sane
  <2> DEFINE f == P.weight * h
  <2>7. [f |-> f, h |-> h, id |-> Popped.id] \in Keys
    <3>1. 0 + P.weight * h = P.weight * h /\ 0 \in Nat /\ Popped.id \in Nat \ {0}
      BY <1>4, <2>6
    <3> QED
      BY <2>6, <3>1, KeyFacts
  <2>8. \/ arena' = a /\ status' = "exhausted"
        \/ arena' = Enqueue(a, f, h, Popped.id) /\ status' = status
    BY <1>7, <2>1, <2>2, <2>3
  <2> HIDE DEF f
  <2>9. /\ Sound(board, arena') /\ Grows(arena') /\ arena'.recs = arena.recs
        /\ arena'.limit = limit /\ ~arena'.starved
    BY <1>4, <2>5, <2>7, <2>8, EnqueueSound DEF SameButQueue
  <2>10. SolvedId(arena', incumbent') /\ FillOk'
    BY <1>1, <1>4, <1>7, <2>9 DEF IInv, SolvedId, FillOk
  <2>11. Given' /\ LowOk' /\ PolishOk' /\ GrowOk' /\ RoomOk'
    BY <1>1, <1>2, <1>7, <2>9 DEF IInv, Given, LowOk, PolishOk, GrowOk, RoomOk
  <2> QED
    BY <1>1, <1>5, <2>9, <2>10, <2>11 DEF IInv
<1> QED
  BY <1>6, <1>7 DEF BuildDone

-----------------------------------------------------------------------------
(* Staging: the arena a stage works in.                                    *)

LEMMA SeededSame ==
  ASSUME NEW a, NEW c, NEW m, Seeded(a, m), SameButQueue(a, c), \A q \in c.queue : q.id >= m
  PROVE  Seeded(c, m)
<1>1. /\ Len(c.recs) = Len(a.recs)
      /\ \A k \in 1 .. Len(a.recs) : c.recs[k].par = a.recs[k].par
  BY DEF SameButQueue, Alike
<1>2. m \in 2 .. Len(a.recs)
  BY DEF Seeded
<1>3. /\ \A k \in 1 .. m - 1 : k \in 1 .. Len(a.recs)
      /\ \A k \in m .. Len(a.recs) : k \in 1 .. Len(a.recs)
      /\ m \in 1 .. Len(a.recs)
      /\ \A k \in m + 1 .. Len(a.recs) : k \in 1 .. Len(a.recs)
  BY <1>2
<1> QED
  BY <1>1, <1>2, <1>3 DEF Seeded

LEMMA SeededAppend ==
  ASSUME NEW a, NEW c, NEW m, Seeded(a, m), Len(a.recs) \in Nat,
         Len(c.recs) = Len(a.recs) + 1,
         \A k \in 1 .. Len(a.recs) : Alike(c.recs[k], a.recs[k]),
         c.recs[Len(a.recs) + 1].par >= m,
         \A q \in c.queue : q.id >= m
  PROVE  Seeded(c, m)
<1>1. \A k \in 1 .. Len(a.recs) : c.recs[k].par = a.recs[k].par
  BY DEF Alike
<1>2. m \in 2 .. Len(a.recs) /\ m \in 2 .. Len(c.recs)
  BY DEF Seeded
<1>3. /\ \A k \in 1 .. m - 1 : k \in 1 .. Len(a.recs)
      /\ m \in 1 .. Len(a.recs)
      /\ \A k \in m + 1 .. Len(c.recs) :
           k = Len(a.recs) + 1 \/ (k \in m + 1 .. Len(a.recs) /\ k \in 1 .. Len(a.recs))
  BY <1>2
<1> QED
  BY <1>1, <1>2, <1>3 DEF Seeded

(* A kept path of n records and the copy of its last.                      *)
LEMMA SeededFresh ==
  ASSUME NEW a, NEW n \in Nat \ {0}, Len(a.recs) = n + 1,
         \A k \in 1 .. n : a.recs[k].par = k - 1, a.recs[n + 1].par = n - 1,
         \A q \in a.queue : q.id = n + 1
  PROVE  Seeded(a, n + 1)
<1>1. n >= 1 /\ n + 1 \in 2 .. n + 1 /\ n - 1 = n + 1 - 2 /\ n + 1 - 1 = n /\ n + 1 >= n + 1
  OBVIOUS
<1>2. n + 1 + 1 .. n + 1 = {}
  OBVIOUS
<1> QED
  BY <1>1, <1>2 DEF Seeded

LEMMA IdsFinite ==
  ASSUME NEW n \in Nat
  PROVE  IsFiniteSet(1 .. n) /\ Cardinality(1 .. n) = n
BY FS_Interval

(* The paths of a stage's arena: along the kept path, and below its copy,  *)
(* whose path leaves out the record it copies.                             *)
LEMMA SeededPath ==
  ASSUME NEW a, Upward(a), NEW m, Seeded(a, m)
  PROVE  /\ \A i \in 1 .. m - 1 : Cardinality(Path(a, i)) = i
         /\ \A i \in m .. Len(a.recs) :
              Cardinality(Path(a, i)) \in m - 1 .. Len(a.recs) - 1
<1>1. /\ Len(a.recs) \in Nat /\ m \in Nat /\ m >= 2 /\ m <= Len(a.recs)
      /\ \A k \in 1 .. m - 1 : a.recs[k].par = k - 1
      /\ a.recs[m].par = m - 2
      /\ \A k \in m + 1 .. Len(a.recs) : a.recs[k].par >= m
  BY DEF Upward, Seeded
<1> DEFINE size(i) == Cardinality(Path(a, i))
           l == Len(a.recs)
<1>2. \A i \in 1 .. m - 1 : size(i) = i
  <2> SUFFICES ASSUME NEW i \in 1 .. m - 1 PROVE size(i) = i
    OBVIOUS
  <2>1. PICK n \in 0 .. l : n = m - 1
    BY <1>1
  <2>2. i \in 1 .. n /\ \A k \in 1 .. n : a.recs[k].par = k - 1
    BY <1>1, <2>1
  <2> QED
    BY SMTT(40), <2>2, PathOfRun
<1>3. ASSUME NEW i \in m .. l PROVE size(i) >= m - 1
  <2> DEFINE G == {k \in 1 .. l : k >= m => size(k) >= m - 1}
  <2>1. ASSUME NEW k \in 1 .. l, a.recs[k].par # NoId => a.recs[k].par \in G
        PROVE  k \in G
    <3> SUFFICES ASSUME k >= m PROVE size(k) >= m - 1
      OBVIOUS
    <3>1. /\ size(k) \in Nat
          /\ a.recs[k].par # NoId => size(k) = size(a.recs[k].par) + 1
          /\ a.recs[k].par = NoId => size(k) = 1
      <4>1. size(k) \in 1 .. k /\ k \in Nat
        BY PathLength
      <4> QED
        BY <4>1, PathLength
    <3> HIDE DEF size
    <3>2. CASE k = m /\ m = 2
      BY <1>1, <3>1, <3>2 DEF NoId
    <3>3. CASE k = m /\ m # 2
      <4>1. a.recs[k].par # NoId /\ a.recs[k].par = m - 2 /\ m - 2 \in 1 .. m - 1
        BY <1>1, <3>3 DEF NoId
      <4>2. size(m - 2) = m - 2
        BY <1>2, <4>1
      <4> QED
        BY <1>1, <3>1, <4>1, <4>2
    <3>4. CASE k # m
      <4>1. k \in m + 1 .. l /\ a.recs[k].par >= m
        BY <1>1, <3>4
      <4>2. a.recs[k].par # NoId
        BY <1>1, <4>1 DEF NoId
      <4>3. a.recs[k].par \in G
        BY <2>1, <4>2
      <4>4. a.recs[k].par \in 1 .. l /\ size(a.recs[k].par) >= m - 1
        BY <4>1, <4>3
      <4>5. size(a.recs[k].par) \in Nat
        BY <4>4, PathLength DEF size
      <4> QED
        BY <1>1, <3>1, <4>2, <4>4, <4>5
    <3> QED
      BY <3>2, <3>3, <3>4
  <2>2. G \in SUBSET (1 .. l)
    OBVIOUS
  <2> HIDE DEF G
  <2>3. G = 1 .. l
    BY <2>1, <2>2, PathInduction
  <2>4. i \in 1 .. l /\ i >= m
    BY <1>1
  <2> QED
    BY <2>3, <2>4 DEF G
<1>4. ASSUME NEW i \in m .. l PROVE size(i) <= l - 1
  <2> DEFINE S == (1 .. l) \ {m - 1}
  <2>1. ASSUME NEW k \in 1 .. l, k \in S, a.recs[k].par # NoId PROVE a.recs[k].par \in S
    <3>1. a.recs[k].par \in 1 .. l
      BY <2>1 DEF Upward, NoId
    <3>2. a.recs[k].par # m - 1
      <4>1. k \in 1 .. m - 1 \/ k = m \/ k \in m + 1 .. l
        BY <1>1
      <4> QED
        BY <1>1, <2>1, <4>1
    <3> QED
      BY <3>1, <3>2
  <2>2. i \in 1 .. l /\ i \in S
    BY <1>1
  <2>3. IsFiniteSet(1 .. l) /\ Cardinality(1 .. l) = l /\ m - 1 \in 1 .. l
    <3>1. m - 1 \in 1 .. l
      BY <1>1
    <3>2. Len(a.recs) \in Nat
      BY <1>1
    <3>3. IsFiniteSet(1 .. l) /\ Cardinality(1 .. l) = l
      BY <3>2, IdsFinite
    <3> QED
      BY <3>1, <3>3
  <2>4. IsFiniteSet(S) /\ Cardinality(S) = l - 1
    <3>1. Cardinality((1 .. l) \ {m - 1}) = IF m - 1 \in 1 .. l THEN Cardinality(1 .. l) - 1
                                            ELSE Cardinality(1 .. l)
      BY <2>3, FS_RemoveElement, Zenon
    <3>2. IsFiniteSet((1 .. l) \ {m - 1})
      BY <2>3, FS_RemoveElement, Zenon
    <3> QED
      BY <2>3, <3>1, <3>2
  <2> HIDE DEF S
  <2>5. Path(a, i) \subseteq S
    BY <2>1, <2>2, PathWithin
  <2>6. Cardinality(Path(a, i)) <= Cardinality(S)
    BY <2>4, <2>5, FS_Subset
  <2> QED
    BY <2>4, <2>6
<1>5. ASSUME NEW i \in m .. l PROVE size(i) \in Nat
  <2>1. i \in 1 .. l
    BY <1>1
  <2> QED
    BY <2>1, PathLength
<1> HIDE DEF size
<1>6. \A i \in m .. l : size(i) \in m - 1 .. l - 1
  BY <1>1, <1>3, <1>4, <1>5
<1> QED
  BY <1>2, <1>6 DEF size

(* A stage restarted on the path of i.                                     *)
LEMMA RestagedSound ==
  ASSUME board \in Boards, NEW a, Sound(board, a), Grows(a), ~a.starved,
         NEW i \in 1 .. Len(a.recs), Keepable(a, i),
         Cardinality(Path(a, i)) < Len(a.recs), NEW ok \in Grants,
         NEW c, c = Reseeded(a, i, ok)
  PROVE  /\ Sound(board, c) /\ Grows(c) /\ Low(board, c)
         /\ ~c.starved /\ c.limit = a.limit
         /\ Cardinality(Path(a, i)) \in 1 .. i
         /\ Seeded(c, Cardinality(Path(a, i)) + 1)
<1> DEFINE n == Cardinality(Path(a, i))
<1>1. /\ Sound(board, c) /\ Grows(c) /\ Low(board, c)
      /\ ~c.starved /\ c.limit = a.limit
      /\ n \in 1 .. i /\ Len(c.recs) = n + 1
      /\ \A j \in 1 .. n : c.recs[j].par = j - 1
      /\ c.recs[n + 1].par = n - 1
      /\ \A q \in c.queue : q.id = n + 1
  BY ReseedSound
<1> HIDE DEF n
<1>2. n \in Nat \ {0}
  BY <1>1
<1>3. Seeded(c, n + 1)
  BY <1>1, <1>2, SeededFresh
<1> QED
  BY <1>1, <1>3 DEF n

(* A ladder works in an arena it stages.                                   *)
LEMMA LadderKeeps ==
  ASSUME IInv, status = "running", polish = NoPolish, room # "building", incumbent = NoId,
         UNCHANGED <<board, policy, status, incumbent, polish, room>>,
         Sound(board, arena'), Grows(arena'), LowOk', FillOk', CurOk',
         arena'.starved => ladder'.phase \in {"solved", "gaveup"},
         Climbing(ladder', arena', cur')
  PROVE  IInv'
<1>1. Given' /\ LadderOk' /\ PolishOk' /\ GrowOk' /\ RoomOk'
  BY EmptyValues DEF IInv, Given, LadderOk, PolishOk, GrowOk, RoomOk
<1>2. Len(arena'.recs) \in Nat
  BY SoundUpward
<1>3. SolvedId(arena', incumbent')
  BY <1>2 DEF SolvedId, NoId
<1> QED
  BY <1>1, <1>3 DEF IInv

(* The ladder begins on the start.                                         *)
LEMMA StagingKeeps ==
  ASSUME IInv, ToStore, StartStaging, incumbent = NoId
  PROVE  IInv'
<1>1. /\ Expanding /\ cur.todo # << >> /\ MayLadder
      /\ cur' = Idle /\ fillAt' = arena.limit
      /\ UNCHANGED <<board, policy, status, incumbent, polish, room>>
  BY DEF ToStore, StartStaging, SpendStage
<1>2. PICK ok \in Grants :
        /\ arena' = Reseeded(arena, 1, ok)
        /\ ladder' = [phase |-> "select", frames |-> <<Frame(1, Start)>>, rises |-> << >>,
                      at |-> NoId, base |-> 2, work |-> StageWork, checks |-> StageChecks,
                      backtracks |-> Backtracks]
  BY EngineAssumption DEF StartStaging, Begin
<1>3. /\ status = "running" /\ polish = NoPolish /\ room # "building"
      /\ Grows(arena) /\ ~arena.starved
      /\ Len(arena.recs) \in Nat /\ arena.limit \in Nat \ {0}
  BY <1>1, PushFacts
<1>4. board \in Boards /\ Sound(board, arena) /\ arena \in Arenas /\ Upward(arena)
  BY SoundUpward DEF IInv, Given
<1>5. Len(arena.recs) >= 2 /\ Len(arena.recs) <= arena.limit /\ arena.table # 0
  BY <1>1, <1>3, EngineAssumption DEF MayLadder, Grows
<1>6. 1 \in 1 .. Len(arena.recs)
  BY <1>3, <1>5
<1>7. Cardinality(Path(arena, 1)) = 1
  BY <1>4, <1>6, PathLength
<1>8. Keepable(arena, 1) /\ Cardinality(Path(arena, 1)) < Len(arena.recs)
  <2>1. arena.table \in Nat
    BY <1>4, ArenaFields
  <2>2. 1 < arena.limit /\ 1 <= arena.table /\ 1 < Len(arena.recs)
    BY <1>3, <1>5, <2>1
  <2> QED
    BY <1>7, <2>2 DEF Keepable
<1>9. /\ Sound(board, arena') /\ Grows(arena') /\ Low(board, arena')
      /\ ~arena'.starved /\ arena'.limit = arena.limit /\ Seeded(arena', 2)
  BY <1>2, <1>3, <1>4, <1>6, <1>7, <1>8, RestagedSound
<1>10. /\ ladder'.phase = "select" /\ ladder'.frames = <<Frame(1, Start)>>
       /\ ladder'.rises = << >> /\ ladder'.base = 2
  BY <1>2
<1>11. Frame(1, Start) \in FrameSet /\ Frame(1, Start).depth = 1
  BY <1>4, BoardFacts DEF Frame, FrameSet
<1>12. ladder' \in Ladders
  <2>1. <<Frame(1, Start)>> \in Seq(FrameSet) /\ << >> \in Seq(Nat)
    BY <1>11
  <2>2. StageWork \in Nat /\ StageChecks \in Nat /\ Backtracks \in Nat /\ NoId \in Nat /\ 2 \in Nat
    BY EngineAssumption DEF NoId
  <2> HIDE DEF Frame
  <2> QED
    BY <1>2, <2>1, <2>2 DEF Ladders
<1>13. Nested(<<Frame(1, Start)>>, 2)
  BY <1>11 DEF Nested
<1>14. Climbing(ladder', arena', cur')
  BY <1>1, <1>9, <1>10, <1>12, <1>13 DEF Climbing
<1>15. LowOk' /\ FillOk' /\ CurOk'
  BY <1>1, <1>3, <1>9, IdleOk DEF LowOk, FillOk
<1> QED
  BY <1>1, <1>3, <1>9, <1>14, <1>15, LadderKeeps

LEMMA StageEarlyKeeps == IInv /\ StageEarly => IInv'
<1> SUFFICES ASSUME IInv, StageEarly PROVE IInv'
  OBVIOUS
<1>1. ToStore /\ AtFill /\ ~IsFull(arena) /\ StartStaging
  BY DEF StageEarly
<1>2. /\ Searching /\ ~arena.starved
      /\ Len(arena.recs) \in Nat /\ arena.limit \in Nat \ {0}
  BY <1>1, PushFacts DEF ToStore
<1>3. fillAt < arena.limit
  BY <1>1, <1>2 DEF AtFill, IsFull, IInv, FillOk
<1>4. incumbent = NoId
  BY <1>2, <1>3 DEF IInv, FillOk
<1> QED
  BY <1>1, <1>4, StagingKeeps

LEMMA StageFullKeeps == IInv /\ StageFull => IInv'
BY StagingKeeps DEF StageFull

-----------------------------------------------------------------------------
(* Units of the ladder.                                                    *)

LEMMA UnitFacts ==
  ASSUME IInv, Running
  PROVE  /\ Climbing(ladder, arena, cur) /\ incumbent = NoId
         /\ status = "running" /\ polish = NoPolish /\ room # "building" /\ Searching
         /\ Sound(board, arena) /\ Grows(arena) /\ ~arena.starved
         /\ arena \in Arenas /\ Upward(arena) /\ Len(arena.recs) \in Nat
         /\ arena.limit \in Nat \ {0}
         /\ board \in Boards /\ policy \in DOMAIN Policies
<1>1. ladder # NoLadder
  BY EmptyValues DEF Running
<1>2. /\ status = "running" /\ polish = NoPolish /\ Searching
      /\ Grows(arena) /\ room # "building"
  BY <1>1, LadderRuns
<1>3. Climbing(ladder, arena, cur) /\ incumbent = NoId
  BY <1>1 DEF IInv, LadderOk
<1>4. ~arena.starved
  BY <1>2 DEF IInv, GrowOk, Running
<1>5. /\ Sound(board, arena) /\ board \in Boards /\ policy \in DOMAIN Policies
      /\ arena \in Arenas /\ Upward(arena)
  BY SoundUpward DEF IInv, Given
<1>6. Len(arena.recs) \in Nat /\ arena.limit \in Nat \ {0}
  BY <1>5, ArenaFields
<1> QED
  BY <1>2, <1>3, <1>4, <1>5, <1>6

LEMMA UnitKeeps ==
  ASSUME IInv, Running, UNCHANGED Rest, Sound(board, arena'), Grows(arena'),
         arena'.limit = arena.limit, Low(board, arena) => Low(board, arena'), CurOk',
         arena'.starved => ladder'.phase \in {"solved", "gaveup"},
         Climbing(ladder', arena', cur')
  PROVE  IInv'
<1>1. UNCHANGED <<board, policy, status, incumbent, polish, room, fillAt>>
  BY DEF Rest
<1>2. /\ status = "running" /\ polish = NoPolish /\ room # "building"
      /\ incumbent = NoId /\ Searching
  BY UnitFacts
<1>3. LowOk' /\ FillOk'
  BY <1>1, <1>2 DEF IInv, LowOk, FillOk, P
<1> QED
  BY <1>1, <1>2, <1>3, LadderKeeps

LEMMA ClimbingSame ==
  ASSUME NEW a, NEW d, NEW l, NEW c, Climbing(l, a, c), SameButQueue(a, d),
         d.queue \subseteq a.queue
  PROVE  Climbing(l, d, c)
<1>1. Seeded(d, l.base)
  <2>1. PICK m : m = l.base
    OBVIOUS
  <2>2. Seeded(a, m) /\ \A q \in d.queue : q.id >= m
    BY <2>1 DEF Climbing, Seeded
  <2> QED
    BY <2>1, <2>2, SeededSame
<1>2. Len(d.recs) = Len(a.recs) /\ l.base \in 2 .. Len(a.recs)
  BY DEF SameButQueue, Climbing, Seeded
<1>3. ASSUME l.phase = "solved"
      PROVE  l.at \in l.base .. Len(d.recs) /\ Solved(d.recs[l.at].st)
  <2>1. l.at \in 1 .. Len(a.recs) /\ l.at \in l.base .. Len(d.recs) /\ Solved(a.recs[l.at].st)
    BY <1>2, <1>3 DEF Climbing
  <2> QED
    BY <2>1 DEF SameButQueue, Alike
<1> QED
  BY <1>1, <1>2, <1>3 DEF Climbing

(* A unit that stores nothing.                                             *)
LEMMA QuietUnit ==
  ASSUME IInv, Running, UNCHANGED Rest, SameButQueue(arena, arena'), Sound(board, arena'),
         Low(board, arena) => Low(board, arena'), arena'.queue \subseteq arena.queue,
         CurOk', Climbing(ladder', arena, cur')
  PROVE  IInv'
<1>1. Climbing(ladder', arena', cur')
  BY ClimbingSame
<1>2. Grows(arena') /\ arena'.limit = arena.limit /\ ~arena'.starved
  BY UnitFacts, SoundSame DEF SameButQueue, Sound
<1> QED
  BY <1>1, <1>2, UnitKeeps

LEMMA StillUnit ==
  ASSUME IInv, Running, UNCHANGED Rest, arena' = arena, CurOk',
         Climbing(ladder', arena, cur')
  PROVE  IInv'
<1>1. SameButQueue(arena, arena')
  BY UnitFacts DEF SameButQueue, Alike
<1> QED
  BY <1>1, UnitFacts, QuietUnit

(* What the ladder is in each phase.                                       *)
LEMMA PhaseFacts ==
  ASSUME IInv, Running
  PROVE  /\ ladder \in Ladders /\ ladder.phase # "none"
         /\ Seeded(arena, ladder.base) /\ Nested(ladder.frames, ladder.base)
         /\ ladder.base \in 2 .. Len(arena.recs)
         /\ ladder.phase # "search" => cur = Idle
         /\ cur = Idle \/ cur.id >= ladder.base
         /\ \A k \in 1 .. Len(ladder.rises) : ladder.rises[k] \in ladder.base .. Len(arena.recs)
BY UnitFacts DEF Climbing, Seeded

(* A ladder that gives up or fails its stage.                              *)
LEMMA GivenUp ==
  ASSUME IInv, Running, NEW l \in Ladders, l.phase \in {"gaveup", "fail"}, l.rises = << >>,
         l.base = ladder.base, l.frames = ladder.frames
  PROVE  Climbing(l, arena, Idle)
BY PhaseFacts DEF Climbing

LEMMA ChargedFacts ==
  ASSUME NEW l \in Ladders, l.checks > 0
  PROVE  /\ Charged(l) \in Ladders /\ Charged(l).phase = l.phase /\ Charged(l).at = l.at
         /\ Charged(l).rises = l.rises /\ Charged(l).base = l.base
         /\ Charged(l).frames = l.frames
<1>1. l.checks \in Nat /\ l.checks - 1 \in Nat
  BY DEF Ladders
<1> QED
  BY <1>1 DEF Charged, Ladders

LEMMA OutOfChecksKeeps == IInv /\ OutOfChecks /\ UNCHANGED Rest => IInv'
<1> SUFFICES ASSUME IInv, OutOfChecks, UNCHANGED Rest PROVE IInv'
  OBVIOUS
<1>1. /\ ladder' = [ladder EXCEPT !.phase = "gaveup", !.at = NoId, !.rises = << >>]
      /\ arena' = arena /\ cur' = cur /\ Running /\ ladder.phase # "search"
  BY DEF OutOfChecks, Ended, Running
<1>2. ladder \in Ladders /\ cur = Idle
  BY <1>1, PhaseFacts
<1>3. /\ ladder' \in Ladders /\ ladder'.phase = "gaveup" /\ ladder'.rises = << >>
      /\ ladder'.base = ladder.base /\ ladder'.frames = ladder.frames
  <2>1. << >> \in Seq(Nat) /\ NoId \in Nat
    BY EmptySeq DEF NoId
  <2> QED
    BY <1>1, <1>2, <2>1 DEF Ladders
<1>4. Climbing(ladder', arena, cur') /\ CurOk'
  BY <1>1, <1>2, <1>3, GivenUp, IdleOk
<1> QED
  BY <1>1, <1>4, StillUnit

LEMMA SelectUnitKeeps == IInv /\ SelectUnit /\ UNCHANGED Rest => IInv'
<1> SUFFICES ASSUME IInv, SelectUnit, UNCHANGED Rest PROVE IInv'
  OBVIOUS
<1>1. PICK phase \in {"select", "search"} : ladder' = Charged([ladder EXCEPT !.phase = phase])
  BY DEF SelectUnit
<1>2. /\ arena' = arena /\ cur' = cur /\ Running /\ ladder.phase = "select"
      /\ ladder.checks > 0
  BY DEF SelectUnit, Unit, Running
<1>3. ladder \in Ladders /\ cur = Idle
  BY <1>2, PhaseFacts
<1> DEFINE m == [ladder EXCEPT !.phase = phase]
<1>4. /\ m \in Ladders /\ m.phase = phase /\ m.rises = ladder.rises /\ m.base = ladder.base
      /\ m.frames = ladder.frames /\ m.checks = ladder.checks
  BY <1>3 DEF Ladders
<1> HIDE DEF m
<1>5. /\ ladder' \in Ladders /\ ladder'.phase = phase /\ ladder'.rises = ladder.rises
      /\ ladder'.base = ladder.base /\ ladder'.frames = ladder.frames
  BY <1>1, <1>2, <1>4, ChargedFacts DEF m
<1>6. Climbing(ladder', arena, cur') /\ CurOk'
  BY <1>2, <1>3, <1>5, PhaseFacts, IdleOk DEF Climbing
<1> QED
  BY <1>2, <1>6, StillUnit

LEMMA SearchSkipKeeps == IInv /\ SearchSkip /\ UNCHANGED Rest => IInv'
<1> SUFFICES ASSUME IInv, SearchSkip, UNCHANGED Rest PROVE IInv'
  OBVIOUS
<1>1. /\ ladder.phase = "search" /\ cur # Idle /\ cur.todo # << >> /\ Running
      /\ cur' = Tried /\ arena' = arena /\ ladder' = ladder
      /\ board' = board /\ policy' = policy
  BY SMTT(40) DEF SearchSkip, Running, Rest
<1>2. Fits(board, arena, policy, Tried) /\ Tried.id = cur.id
  <2>1. Fits(board, arena, policy, cur)
    BY DEF IInv, CurOk
  <2> QED
    BY <1>1, <2>1, FitsTail DEF Tried, Fits
<1>3. Climbing(ladder', arena, cur') /\ CurOk'
  BY <1>1, <1>2, UnitFacts DEF Climbing, CurOk
<1> QED
  BY <1>1, <1>3, StillUnit

LEMMA SearchPopKeeps == IInv /\ SearchPop /\ UNCHANGED Rest => IInv'
<1> SUFFICES ASSUME IInv, SearchPop, UNCHANGED Rest PROVE IInv'
  OBVIOUS
<1>1. /\ ladder.phase = "search" /\ cur = Idle /\ Running
      /\ board' = board /\ policy' = policy
  BY DEF SearchPop, Running, Rest
<1>2. ladder \in Ladders /\ Climbing(ladder, arena, Idle) /\ Sound(board, arena)
  BY <1>1, PhaseFacts, UnitFacts
<1>3. CASE arena.queue = {}
  <2>1. /\ ladder' = Fails /\ arena' = arena /\ cur' = cur
    BY <1>3 DEF SearchPop
  <2>2. /\ ladder' \in Ladders /\ ladder'.phase = "fail" /\ ladder'.rises = << >>
        /\ ladder'.base = ladder.base /\ ladder'.frames = ladder.frames
    <3>1. << >> \in Seq(Nat)
      BY EmptySeq
    <3> QED
      BY <1>2, <2>1, <3>1 DEF Fails, Ladders
  <2>3. Climbing(ladder', arena, cur') /\ CurOk'
    BY <1>1, <2>1, <2>2, GivenUp, IdleOk
  <2> QED
    BY <1>1, <2>1, <2>3, StillUnit
<1>4. CASE arena.queue # {}
  <2>1. /\ Popped \in arena.queue /\ Popped.id \in 1 .. Len(arena.recs) /\ Popped.h \in Nat
    BY <1>4, PoppedFacts
  <2>2. Popped.id >= ladder.base /\ ladder.base \in 2 .. Len(arena.recs)
    BY <1>1, <2>1, PhaseFacts DEF Seeded
  <2>3. /\ Sound(board, Dequeue(arena)) /\ SameButQueue(arena, Dequeue(arena))
        /\ Low(board, arena) => Low(board, Dequeue(arena))
        /\ Dequeue(arena).queue \subseteq arena.queue
    BY <1>2, DequeueSound
  <2>4. CASE Stale(Popped)
    <3>1. arena' = Dequeue(arena) /\ cur' = cur /\ ladder' = ladder
      BY <1>4, <2>4 DEF SearchPop, Popped
    <3>2. Climbing(ladder', arena, cur') /\ CurOk'
      BY <1>1, <1>2, <3>1, IdleOk
    <3> QED
      BY <1>1, <2>3, <3>1, <3>2, QuietUnit
  <2>5. CASE ~Stale(Popped) /\ Solved(arena.recs[Popped.id].st)
    <3>1. /\ arena' = Dequeue(arena) /\ cur' = cur
          /\ ladder' = [ladder EXCEPT !.phase = "solved", !.at = Popped.id, !.rises = << >>]
      BY <1>4, <2>5 DEF SearchPop, Popped, Ended
    <3>2. /\ ladder' \in Ladders /\ ladder'.phase = "solved" /\ ladder'.rises = << >>
          /\ ladder'.base = ladder.base /\ ladder'.frames = ladder.frames
          /\ ladder'.at = Popped.id
      <4>1. Popped.id \in Nat /\ << >> \in Seq(Nat)
        BY <2>1, EmptySeq
      <4> QED
        BY <1>2, <3>1, <4>1 DEF Ladders
    <3>3. ladder'.at \in ladder.base .. Len(arena.recs)
      BY <2>1, <2>2, <3>2
    <3>4. Climbing(ladder', arena, cur') /\ CurOk'
      BY <1>1, <1>2, <2>5, <3>1, <3>2, <3>3, IdleOk DEF Climbing
    <3> QED
      BY <1>1, <2>3, <3>1, <3>4, QuietUnit
  <2>6. CASE ~Stale(Popped) /\ ~Solved(arena.recs[Popped.id].st)
    <3>1. /\ arena' = Close(Dequeue(arena), Popped.id)
          /\ cur' = Expansion(Popped.id, Popped.h, FALSE)
          /\ ladder' = [ladder EXCEPT !.rises = << >>]
      BY <1>4, <2>6 DEF SearchPop, Popped, Opened
    <3>2. /\ Sound(board, arena') /\ SameButQueue(arena, arena')
          /\ Low(board, arena) => Low(board, arena')
          /\ arena'.queue \subseteq arena.queue
      BY <1>2, <2>1, <3>1, OpenSound
    <3>3. Fits(board, arena, policy, cur') /\ cur'.id = Popped.id
      BY <2>1, <3>1, ExpansionFits DEF Expansion
    <3>4. CurOk'
      <4>1. Len(arena.recs) \in Nat /\ Len(arena'.recs) = Len(arena.recs)
        BY <1>1, <3>2, UnitFacts DEF SameButQueue
      <4>2. \A i \in 1 .. Len(arena.recs) : Alike(arena'.recs[i], arena.recs[i])
        BY <3>2 DEF SameButQueue
      <4> QED
        BY <1>1, <3>3, <4>1, <4>2, FitsOn DEF CurOk
    <3>5. /\ ladder' \in Ladders /\ ladder'.phase = "search" /\ ladder'.rises = << >>
          /\ ladder'.base = ladder.base /\ ladder'.frames = ladder.frames
      <4>1. << >> \in Seq(Nat)
        BY EmptySeq
      <4> QED
        BY <1>1, <1>2, <3>1, <4>1 DEF Ladders
    <3>6. Climbing(ladder', arena, cur')
      BY <1>2, <2>2, <3>3, <3>5 DEF Climbing
    <3> QED
      BY <1>1, <3>2, <3>4, <3>6, QuietUnit
  <2> QED
    BY <2>4, <2>5, <2>6
<1> QED
  BY <1>3, <1>4

(* A child of the expansion under way.                                     *)
LEMMA ChildFacts ==
  ASSUME IInv, cur.todo # << >>, NEW c, c = ChildOf(cur.id, Push)
  PROVE  /\ cur.id \in 1 .. Len(arena.recs) /\ Fits(board, arena, policy, Tried)
         /\ Tried.id = cur.id
         /\ c \in Nodes /\ Reached(board, arena, c) /\ c.par = cur.id
         /\ c.h <= board.dist[c.st]
<1>1. /\ Fits(board, arena, policy, Tried) /\ cur.id \in 1 .. Len(arena.recs)
      /\ Push \in Range1(board.succ[arena.recs[cur.id].st])
      /\ Tried.id = cur.id
  <2>1. Fits(board, arena, policy, cur)
    BY DEF IInv, CurOk
  <2> QED
    BY <2>1, FitsTail DEF Tried, Push, Fits
<1>2. arena \in Arenas /\ Len(arena.recs) \in Nat /\ arena.recs \in Seq(Records)
  BY SoundUpward, ArenaFields DEF IInv
<1>3. arena.recs[cur.id].st \in States /\ arena.recs[cur.id].g \in Nat
  BY <1>1, <1>2, RecordFields
<1>4. /\ Push.to \in States /\ Push.cost \in Nat
      /\ board.est[Push.to] \in Nat /\ board.est[Push.to] <= board.dist[Push.to]
  BY <1>1, <1>3, EdgeFacts, BoardFacts DEF IInv, Given
<1>5. /\ c.st = Push.to /\ c.g = arena.recs[cur.id].g + Push.cost
      /\ c.h = board.est[Push.to] /\ c.par = cur.id
      /\ c = [st |-> c.st, g |-> c.g, h |-> c.h, par |-> c.par]
  BY DEF ChildOf
<1>6. c \in Nodes
  BY <1>1, <1>2, <1>3, <1>4, <1>5 DEF Nodes
<1>7. Reached(board, arena, c)
  <2>1. cur.id # NoId
    BY <1>1, <1>2 DEF NoId
  <2> QED
    BY <1>1, <1>5, <2>1 DEF Reached, Follows
<1> QED
  BY <1>1, <1>4, <1>5, <1>6, <1>7

(* A unit that stores a child of the stage.                                *)
LEMMA StoringUnit ==
  ASSUME IInv, Running, UNCHANGED Rest, ladder.phase = "search", cur # Idle,
         cur.todo # << >>, ~IsFull(arena), NEW c, c = ChildOf(cur.id, Push),
         NEW ok \in Grants, NEW b, b = Insert(arena, c, ok),
         \/ arena' = b
         \/ arena' = Enqueue(b, c.g + LadderWeight * c.h, c.h, Len(arena.recs) + 1),
         cur' = Tried \/ cur' = Idle, cur' = Tried => ladder'.phase = "search",
         ladder' \in Ladders, ladder'.phase \in {"search", "solved", "gaveup"},
         ladder'.base = ladder.base, ladder'.frames = ladder.frames,
         ladder'.phase = "solved" => /\ Solved(c.st) /\ ladder'.at = Len(arena.recs) + 1
                                     /\ cur' = Idle,
         ladder'.phase = "gaveup" => cur' = Idle,
         b.starved => ladder'.phase \in {"solved", "gaveup"},
         \A k \in 1 .. Len(ladder'.rises) :
           ladder'.rises[k] \in ladder.base .. Len(arena.recs) + 1
  PROVE  IInv'
<1> DEFINE l == Len(arena.recs)
<1>1. /\ cur.id \in 1 .. l /\ Fits(board, arena, policy, Tried) /\ Tried.id = cur.id
      /\ c \in Nodes /\ Reached(board, arena, c) /\ c.par = cur.id
      /\ c.h <= board.dist[c.st]
  BY ChildFacts
<1>2. /\ Sound(board, arena) /\ Grows(arena) /\ ~arena.starved
      /\ l \in Nat /\ arena.limit \in Nat \ {0} /\ board \in Boards
  BY UnitFacts
<1>3. /\ Seeded(arena, ladder.base) /\ Nested(ladder.frames, ladder.base)
      /\ ladder.base \in 2 .. l /\ cur.id >= ladder.base
  BY PhaseFacts
<1>4. /\ Sound(board, b) /\ Grows(b)
      /\ Len(b.recs) = l + 1 /\ Alike(b.recs[l + 1], c)
      /\ \A i \in 1 .. l : Kept(b.recs[i], arena.recs[i], i, Find(arena, c.st))
      /\ b.queue = arena.queue /\ b.limit = arena.limit
  BY <1>1, <1>2, StoreSound
<1>5. Low(board, arena) => Low(board, b)
  BY SMTT(40), <1>2, <1>4 DEF Low, Sound, Queued, Kept, Alike
<1>6. /\ Sound(board, arena') /\ Grows(arena') /\ arena'.limit = arena.limit
      /\ Low(board, arena) => Low(board, arena')
      /\ arena'.recs = b.recs /\ arena'.starved = b.starved
      /\ \A q \in arena'.queue : q \in arena.queue \/ q.id = l + 1
  <2>1. CASE arena' = b
    BY <1>4, <1>5, <2>1
  <2>2. CASE arena' = Enqueue(b, c.g + LadderWeight * c.h, c.h, l + 1)
    <3> DEFINE f == c.g + LadderWeight * c.h
               key == [f |-> f, h |-> c.h, id |-> l + 1]
    <3>1. key \in Keys
      <4>1. LadderWeight \in Nat
        BY PolicyFacts DEF LadderWeight, Sane
      <4>2. c.g \in Nat /\ c.h \in Nat /\ l + 1 \in Nat \ {0}
        BY <1>1, <1>2 DEF Nodes
      <4> QED
        BY <4>1, <4>2, KeyFacts
    <3>2. arena' = Enqueue(b, f, c.h, l + 1)
      BY <2>2
    <3> HIDE DEF f
    <3>3. l + 1 \in 1 .. Len(b.recs) /\ b.recs[l + 1].st = c.st
      BY <1>2, <1>4 DEF Alike
    <3>4. /\ Sound(board, arena') /\ SameButQueue(b, arena') /\ arena'.recs = b.recs
          /\ Grows(b) => Grows(arena')
          /\ arena'.queue = b.queue \cup {key}
          /\ Low(board, b) /\ c.h <= board.dist[b.recs[l + 1].st] => Low(board, arena')
      BY <1>4, <3>1, <3>2, <3>3, EnqueueSound
    <3>5. Low(board, arena) => Low(board, arena')
      BY <1>1, <1>5, <3>3, <3>4
    <3>6. arena'.limit = arena.limit /\ arena'.starved = b.starved
      BY <1>4, <3>4 DEF SameButQueue
    <3>7. \A q \in arena'.queue : q \in arena.queue \/ q.id = l + 1
      BY <1>4, <3>4
    <3> QED
      BY <1>4, <3>4, <3>5, <3>6, <3>7
  <2> QED
    BY <2>1, <2>2
<1>7. /\ Len(arena'.recs) = l + 1
      /\ \A i \in 1 .. l : Alike(arena'.recs[i], arena.recs[i])
      /\ arena'.recs[l + 1].par = cur.id /\ arena'.recs[l + 1].st = c.st
  BY <1>1, <1>4, <1>6 DEF Kept, Alike
<1>8. Seeded(arena', ladder.base)
  <2>1. PICK m : m = ladder.base
    OBVIOUS
  <2>2. \A q \in arena'.queue : q.id >= m
    BY <1>2, <1>3, <1>6, <2>1 DEF Seeded
  <2>3. Seeded(arena, m) /\ arena'.recs[l + 1].par >= m
    BY <1>3, <1>7, <2>1
  <2> QED
    BY <1>2, <1>7, <2>1, <2>2, <2>3, SeededAppend
<1>9. CurOk'
  <2>1. board' = board /\ policy' = policy
    BY DEF Rest
  <2>2. Fits(board, arena', policy, Tried)
    BY <1>1, <1>2, <1>7, FitsOn
  <2> QED
    BY <2>1, <2>2, IdleOk DEF CurOk
<1>10. Climbing(ladder', arena', cur')
  <2>1. ladder'.phase = "solved" => ladder'.at \in ladder'.base .. Len(arena'.recs)
                                    /\ Solved(arena'.recs[ladder'.at].st)
    BY <1>2, <1>3, <1>7
  <2>2. cur' = Idle \/ (ladder'.phase = "search" /\ cur'.id >= ladder'.base)
    BY <1>1, <1>3
  <2> QED
    BY <1>3, <1>7, <1>8, <2>1, <2>2 DEF Climbing
<1> QED
  BY <1>6, <1>9, <1>10, UnitKeeps

LEMMA SearchChildKeeps == IInv /\ SearchChild /\ UNCHANGED Rest => IInv'
<1> SUFFICES ASSUME IInv, SearchChild, UNCHANGED Rest PROVE IInv'
  OBVIOUS
<1>1. /\ ladder.phase = "search" /\ cur # Idle /\ cur.todo # << >> /\ Running
  BY DEF SearchChild, Running
<1>2. PICK c : c = ChildOf(cur.id, Push)
  OBVIOUS
<1> DEFINE id == Len(arena.recs) + 1
           rise == Rises(c.st)
           spent == [ladder EXCEPT !.work = @ - 1]
<1>3. /\ ladder \in Ladders /\ ladder.base \in 2 .. Len(arena.recs)
      /\ \A k \in 1 .. Len(ladder.rises) : ladder.rises[k] \in ladder.base .. Len(arena.recs)
      /\ Len(arena.recs) \in Nat
  BY <1>1, PhaseFacts, UnitFacts
<1>4. << >> \in Seq(Nat) /\ NoId \in Nat /\ id \in Nat /\ ladder.work \in Nat
      /\ ladder.rises \in Seq(Nat)
  BY <1>3, EmptySeq DEF NoId, Ladders
<1>5. CASE Len(arena.recs) >= StageCap \/ IsFull(arena) \/ ladder.work = 0
  <2>1. ladder' = Fails /\ cur' = Idle /\ arena' = arena
    BY <1>2, <1>5 DEF SearchChild
  <2>2. /\ ladder' \in Ladders /\ ladder'.phase = "fail" /\ ladder'.rises = << >>
        /\ ladder'.base = ladder.base /\ ladder'.frames = ladder.frames
    BY <1>3, <1>4, <2>1 DEF Fails, Ladders
  <2>3. Climbing(ladder', arena, cur') /\ CurOk'
    BY <1>1, <2>1, <2>2, GivenUp, IdleOk
  <2> QED
    BY <1>1, <2>1, <2>3, StillUnit
<1>6. CASE ~(Len(arena.recs) >= StageCap \/ IsFull(arena) \/ ladder.work = 0)
  <2>0. \E ok \in Grant :
          LET b == Insert(arena, ChildOf(cur.id, Push), ok) IN
          IF Solved(ChildOf(cur.id, Push).st)
          THEN /\ arena' = b /\ cur' = Idle
               /\ ladder' = [Ended("solved", id) EXCEPT !.work = @ - 1]
          ELSE /\ arena' = IF Rises(ChildOf(cur.id, Push).st) THEN b
                            ELSE Enqueue(b, ChildOf(cur.id, Push).g
                                              + LadderWeight * ChildOf(cur.id, Push).h,
                                         ChildOf(cur.id, Push).h, id)
               /\ IF b.starved
                  THEN ladder' = [Ended("gaveup", NoId) EXCEPT !.work = @ - 1] /\ cur' = Idle
                  ELSE /\ cur' = Tried
                       /\ ladder' = IF Rises(ChildOf(cur.id, Push).st) /\ Len(ladder.rises) < MaxRises
                                    THEN [spent EXCEPT !.rises = Append(@, id)]
                                    ELSE spent
    BY <1>6, Zenon DEF SearchChild
  <2>1. PICK ok \in Grant :
          LET b == Insert(arena, c, ok) IN
          IF Solved(c.st)
          THEN /\ arena' = b /\ cur' = Idle
               /\ ladder' = [Ended("solved", id) EXCEPT !.work = @ - 1]
          ELSE /\ arena' = IF rise THEN b ELSE Enqueue(b, c.g + LadderWeight * c.h, c.h, id)
               /\ IF b.starved
                  THEN ladder' = [Ended("gaveup", NoId) EXCEPT !.work = @ - 1] /\ cur' = Idle
                  ELSE /\ cur' = Tried
                       /\ ladder' = IF rise /\ Len(ladder.rises) < MaxRises
                                    THEN [spent EXCEPT !.rises = Append(@, id)]
                                    ELSE spent
    BY <1>2, <2>0, Zenon
  <2>2. PICK b : b = Insert(arena, c, ok)
    OBVIOUS
  <2>3. ok \in Grants /\ ~IsFull(arena) /\ ladder.work - 1 \in Nat
    <3>1. PICK w \in Nat : w = ladder.work
      BY <1>4
    <3>2. w # 0 /\ w - 1 \in Nat
      <4>1. w # 0
        BY <1>6, <3>1, Zenon
      <4> QED
        BY <4>1
    <3> QED
      BY <1>6, <3>1, <3>2, EngineAssumption
  <2>4. CASE Solved(c.st)
    <3>1. arena' = b /\ cur' = Idle /\ ladder' = [Ended("solved", id) EXCEPT !.work = @ - 1]
      BY <2>1, <2>2, <2>4
    <3>2. /\ ladder' \in Ladders /\ ladder'.phase = "solved" /\ ladder'.rises = << >>
          /\ ladder'.base = ladder.base /\ ladder'.frames = ladder.frames
          /\ ladder'.at = id
      BY <1>3, <1>4, <2>3, <3>1 DEF Ended, Ladders
    <3>3. cur' = Tried => ladder'.phase = "search"
      <4>1. Tried # Idle
        <5>1. Tried.id = cur.id /\ cur.id \in 1 .. Len(arena.recs)
          BY <1>1, <1>2, ChildFacts
        <5> QED
          BY <5>1 DEF Idle, NoId
      <4> QED
        BY <3>1, <4>1
    <3> HIDE DEF id
    <3> QED
      BY <1>1, <1>2, <2>2, <2>3, <2>4, <3>1, <3>2, <3>3, StoringUnit DEF id
  <2>5. CASE ~Solved(c.st) /\ b.starved
    <3>1. /\ cur' = Idle /\ ladder' = [Ended("gaveup", NoId) EXCEPT !.work = @ - 1]
          /\ arena' = b \/ arena' = Enqueue(b, c.g + LadderWeight * c.h, c.h, id)
      BY <2>1, <2>2, <2>5
    <3>2. /\ ladder' \in Ladders /\ ladder'.phase = "gaveup" /\ ladder'.rises = << >>
          /\ ladder'.base = ladder.base /\ ladder'.frames = ladder.frames
      BY <1>3, <1>4, <2>3, <3>1 DEF Ended, Ladders
    <3>3. cur' = Tried => ladder'.phase = "search"
      <4>1. Tried # Idle
        <5>1. Tried.id = cur.id /\ cur.id \in 1 .. Len(arena.recs)
          BY <1>1, <1>2, ChildFacts
        <5> QED
          BY <5>1 DEF Idle, NoId
      <4> QED
        BY <3>1, <4>1
    <3> QED
      BY <1>1, <1>2, <2>2, <2>3, <2>5, <3>1, <3>2, <3>3, StoringUnit
  <2>6. CASE ~Solved(c.st) /\ ~b.starved
    <3>1. /\ cur' = Tried
          /\ arena' = b \/ arena' = Enqueue(b, c.g + LadderWeight * c.h, c.h, id)
          /\ ladder' = [spent EXCEPT !.rises = Append(ladder.rises, id)] \/ ladder' = spent
      BY <2>1, <2>2, <2>6
    <3>2. /\ Append(ladder.rises, id) \in Seq(Nat)
          /\ \A k \in 1 .. Len(Append(ladder.rises, id)) :
               Append(ladder.rises, id)[k] \in ladder.base .. Len(arena.recs) + 1
      <4>1. /\ Append(ladder.rises, id) \in Seq(Nat)
            /\ Len(Append(ladder.rises, id)) = Len(ladder.rises) + 1
            /\ \A k \in 1 .. Len(ladder.rises) : Append(ladder.rises, id)[k] = ladder.rises[k]
            /\ Append(ladder.rises, id)[Len(ladder.rises) + 1] = id
        BY <1>4, AppendProperties
      <4>2. Len(ladder.rises) \in Nat
        BY <1>4
      <4> QED
        BY SMTT(40), <1>3, <4>1, <4>2
    <3>3. \A k \in 1 .. Len(ladder.rises) : ladder.rises[k] \in ladder.base .. Len(arena.recs) + 1
      BY <1>3
    <3>4. /\ ladder' \in Ladders /\ ladder'.phase = "search"
          /\ ladder'.base = ladder.base /\ ladder'.frames = ladder.frames
          /\ ladder'.rises = ladder.rises \/ ladder'.rises = Append(ladder.rises, id)
      BY <1>1, <1>3, <1>4, <2>3, <3>1, <3>2 DEF Ladders
    <3>5. \A k \in 1 .. Len(ladder'.rises) :
            ladder'.rises[k] \in ladder.base .. Len(arena.recs) + 1
      BY <3>2, <3>3, <3>4
    <3> QED
      BY <1>1, <1>2, <2>2, <2>3, <2>6, <3>1, <3>4, <3>5, StoringUnit
  <2> QED
    BY <2>4, <2>5, <2>6
<1> QED
  BY <1>5, <1>6

(* The first of a set of numbers.                                          *)
LEMMA LeastFacts ==
  ASSUME NEW S \in SUBSET Nat, S # {}
  PROVE  Least(S) \in S
<1>1. \E m \in S : \A k \in S : m <= k
  BY LeastNumber
<1> QED
  BY <1>1 DEF Least

(* Entering the rises leaves the ladder in its search or at a live rise.   *)
LEMMA EnterFacts ==
  ASSUME ladder \in Ladders, NEW rises \in Seq(Nat),
         \A k \in 1 .. Len(rises) : rises[k] \in ladder.base .. Len(arena.recs),
         NEW l, l = Enter(rises)
  PROVE  /\ l \in Ladders /\ l.base = ladder.base /\ l.frames = ladder.frames
         /\ l.checks = ladder.checks
         /\ \/ l.phase = "search" /\ l.rises = << >>
            \/ l.phase = "accept" /\ l.rises # << >>
         /\ \A k \in 1 .. Len(l.rises) : l.rises[k] \in ladder.base .. Len(arena.recs)
<1> DEFINE live == {k \in 1 .. Len(rises) : ~arena.recs[rises[k]].sup}
           first == Least(live)
           rest == SubSeq(rises, first, Len(rises))
<1>1. Len(rises) \in Nat /\ << >> \in Seq(Nat) /\ Len(<< >>) = 0 /\ 1 .. 0 = {}
  BY EmptySeq
<1>2. CASE live = {}
  <2>1. l = [ladder EXCEPT !.rises = << >>, !.phase = "search"]
    BY <1>2 DEF Enter
  <2>2. /\ l \in Ladders /\ l.base = ladder.base /\ l.frames = ladder.frames
        /\ l.checks = ladder.checks /\ l.phase = "search" /\ l.rises = << >>
    BY <1>1, <2>1 DEF Ladders
  <2> QED
    BY <1>1, <2>2
<1>3. CASE live # {}
  <2>1. l = [ladder EXCEPT !.rises = rest, !.phase = "accept"]
    BY <1>3 DEF Enter
  <2>2. first \in 1 .. Len(rises)
    <3>1. live \in SUBSET Nat /\ live \subseteq 1 .. Len(rises)
      OBVIOUS
    <3> HIDE DEF live
    <3>2. first \in live
      BY <1>3, <3>1, LeastFacts
    <3> QED
      BY <3>1, <3>2
  <2> HIDE DEF first
  <2>3. /\ rest \in Seq(Nat) /\ Len(rest) = Len(rises) - first + 1
        /\ \A k \in 1 .. Len(rises) - first + 1 : rest[k] = rises[first + k - 1]
    <3>1. \A k \in first .. Len(rises) : rises[k] \in Nat
      BY <1>1, <2>2
    <3>2. first \in Int /\ Len(rises) \in Int /\ first <= Len(rises)
      BY <1>1, <2>2
    <3> QED
      BY <3>1, <3>2, SubSeqProperties
  <2>4. \A k \in 1 .. Len(rest) : rest[k] \in ladder.base .. Len(arena.recs)
    <3> SUFFICES ASSUME NEW k \in 1 .. Len(rest) PROVE rest[k] \in ladder.base .. Len(arena.recs)
      OBVIOUS
    <3>1. first + k - 1 \in 1 .. Len(rises) /\ rest[k] = rises[first + k - 1]
      BY <1>1, <2>2, <2>3
    <3> QED
      BY <3>1
  <2>5. rest # << >>
    <3>1. Len(rest) >= 1
      BY <1>1, <2>2, <2>3
    <3> HIDE DEF rest
    <3>2. ASSUME rest = << >> PROVE FALSE
      BY <1>1, <3>1, <3>2
    <3> QED
      BY <3>2
  <2> HIDE DEF rest
  <2> QED
    BY <1>1, <2>1, <2>3, <2>4, <2>5 DEF Ladders
<1> QED
  BY <1>2, <1>3

LEMMA EnterClimbs ==
  ASSUME IInv, Running, NEW l \in Ladders,
         l.base = ladder.base, l.frames = ladder.frames,
         \/ l.phase = "search" /\ l.rises = << >>
         \/ l.phase = "accept" /\ l.rises # << >>,
         \A k \in 1 .. Len(l.rises) : l.rises[k] \in ladder.base .. Len(arena.recs)
  PROVE  Climbing(l, arena, Idle)
BY PhaseFacts DEF Climbing

LEMMA SearchDoneKeeps == IInv /\ SearchDone /\ UNCHANGED Rest => IInv'
<1> SUFFICES ASSUME IInv, SearchDone, UNCHANGED Rest PROVE IInv'
  OBVIOUS
<1>1. /\ Running /\ cur' = Idle /\ ladder' = Enter(ladder.rises) /\ arena' = arena
  BY DEF SearchDone, Running
<1>2. /\ ladder \in Ladders /\ ladder.rises \in Seq(Nat)
      /\ ladder.base \in Nat /\ Len(arena.recs) \in Nat
      /\ \A k \in 1 .. Len(ladder.rises) : ladder.rises[k] \in ladder.base .. Len(arena.recs)
  BY <1>1, PhaseFacts, UnitFacts DEF Ladders
<1>3. PICK l : l = Enter(ladder.rises)
  OBVIOUS
<1>4. /\ l \in Ladders /\ l.base = ladder.base /\ l.frames = ladder.frames
      /\ \/ l.phase = "search" /\ l.rises = << >>
         \/ l.phase = "accept" /\ l.rises # << >>
      /\ \A k \in 1 .. Len(l.rises) : l.rises[k] \in ladder.base .. Len(arena.recs)
  BY <1>2, <1>3, EnterFacts
<1>5. Climbing(ladder', arena, cur') /\ CurOk'
  BY <1>1, <1>3, <1>4, EnterClimbs, IdleOk
<1> QED
  BY <1>1, <1>5, StillUnit

LEMMA AcceptUnitKeeps == IInv /\ AcceptUnit /\ UNCHANGED Rest => IInv'
<1> SUFFICES ASSUME IInv, AcceptUnit, UNCHANGED Rest PROVE IInv'
  OBVIOUS
<1>1. /\ Running /\ ladder.phase = "accept" /\ ladder.checks > 0
      /\ cur' = cur /\ arena' = arena
  BY DEF AcceptUnit, Unit, Running
<1>2. /\ ladder \in Ladders /\ ladder.rises \in Seq(Nat) /\ ladder.rises # << >>
      /\ ladder.base \in Nat /\ Len(arena.recs) \in Nat /\ cur = Idle
      /\ \A k \in 1 .. Len(ladder.rises) : ladder.rises[k] \in ladder.base .. Len(arena.recs)
      /\ Climbing(ladder, arena, Idle)
  BY <1>1, PhaseFacts, UnitFacts DEF Ladders, Climbing
<1>3. Climbing(ladder', arena, Idle)
  <2>1. CASE ladder' = Charged(ladder)
    BY <1>1, <1>2, <2>1, ChargedFacts DEF Climbing
  <2>2. CASE ladder' = Charged([ladder EXCEPT !.phase = "commit"])
    <3> DEFINE m == [ladder EXCEPT !.phase = "commit"]
    <3>1. /\ m \in Ladders /\ m.phase = "commit" /\ m.rises = ladder.rises
          /\ m.base = ladder.base /\ m.frames = ladder.frames /\ m.checks = ladder.checks
      BY <1>2 DEF Ladders
    <3> HIDE DEF m
    <3>2. /\ ladder' \in Ladders /\ ladder'.phase = "commit" /\ ladder'.rises = ladder.rises
          /\ ladder'.base = ladder.base /\ ladder'.frames = ladder.frames
      BY <1>1, <2>2, <3>1, ChargedFacts DEF m
    <3> QED
      BY <1>2, <3>2 DEF Climbing
  <2>3. CASE ladder' = Charged(Enter(Tail(ladder.rises)))
    <3>1. PICK rises : rises = Tail(ladder.rises)
      OBVIOUS
    <3>2. /\ rises \in Seq(Nat)
          /\ \A k \in 1 .. Len(rises) : rises[k] \in ladder.base .. Len(arena.recs)
      <4>1. /\ rises \in Seq(Nat) /\ Len(rises) = Len(ladder.rises) - 1
            /\ \A k \in 1 .. Len(rises) : rises[k] = ladder.rises[k + 1]
        BY <1>2, <3>1, HeadTailProperties
      <4>2. \A k \in 1 .. Len(rises) : k + 1 \in 1 .. Len(ladder.rises)
        BY <1>2, <4>1
      <4> QED
        BY <1>2, <4>1, <4>2
    <3>3. PICK l : l = Enter(rises)
      OBVIOUS
    <3>4. /\ l \in Ladders /\ l.base = ladder.base /\ l.frames = ladder.frames
          /\ l.checks = ladder.checks
          /\ \/ l.phase = "search" /\ l.rises = << >>
             \/ l.phase = "accept" /\ l.rises # << >>
          /\ \A k \in 1 .. Len(l.rises) : l.rises[k] \in ladder.base .. Len(arena.recs)
      BY <1>2, <3>2, <3>3, EnterFacts
    <3>5. /\ ladder' \in Ladders /\ ladder'.base = ladder.base /\ ladder'.frames = ladder.frames
          /\ \/ ladder'.phase = "search" /\ ladder'.rises = << >>
             \/ ladder'.phase = "accept" /\ ladder'.rises # << >>
          /\ \A k \in 1 .. Len(ladder'.rises) :
               ladder'.rises[k] \in ladder.base .. Len(arena.recs)
      BY <1>1, <2>3, <3>1, <3>3, <3>4, ChargedFacts
    <3> QED
      BY <1>1, <3>5, EnterClimbs
  <2> QED
    BY <2>1, <2>2, <2>3 DEF AcceptUnit
<1>4. Climbing(ladder', arena, cur') /\ CurOk'
  BY <1>1, <1>2, <1>3, IdleOk
<1> QED
  BY <1>1, <1>4, StillUnit

(* The frames above a path that grows from m - 1 to n records, and one     *)
(* more frame at its end.                                                  *)
LEMMA NestedAppend ==
  ASSUME NEW frames \in Seq(FrameSet), NEW m \in Nat, NEW n \in Nat, m - 1 <= n, n >= 1,
         Nested(frames, m), NEW f \in FrameSet, f.depth = n
  PROVE  Append(frames, f) \in Seq(FrameSet) /\ Nested(Append(frames, f), n + 1)
<1> DEFINE g == Append(frames, f)
           l == Len(frames)
<1>1. /\ g \in Seq(FrameSet) /\ g # << >> /\ Len(g) = l + 1
      /\ \A k \in 1 .. l : g[k] = frames[k]
      /\ g[l + 1] = f /\ l \in Nat
  BY AppendProperties
<1> HIDE DEF g
<1>2. \A k \in 1 .. l : g[k].depth \in 1 .. m - 1 /\ g[k].depth = frames[k].depth
  BY <1>1 DEF Nested
<1>3. \A k \in 1 .. Len(g) : k \in 1 .. l \/ k = l + 1
  BY <1>1
<1>4. \A k \in 1 .. Len(g) : g[k].depth \in 1 .. n + 1 - 1 /\ g[k].depth \in Nat
  BY <1>1, <1>2, <1>3
<1>5. ASSUME NEW j \in 1 .. Len(g), NEW k \in 1 .. Len(g), j <= k
      PROVE  g[j].depth <= g[k].depth
  <2>1. CASE k \in 1 .. l
    <3>1. j \in 1 .. l
      BY <1>5, <1>1, <2>1
    <3>2. frames[j].depth <= frames[k].depth
      BY <1>5, <2>1, <3>1 DEF Nested
    <3> QED
      BY <1>2, <2>1, <3>1, <3>2
  <2>2. CASE k = l + 1
    BY <1>1, <1>4, <2>2
  <2> QED
    BY <1>3, <2>1, <2>2
<1> QED
  BY <1>1, <1>4, <1>5 DEF Nested, g

(* A lower part of the frames is nested too, down to its top's depth.      *)
LEMMA NestedBelow ==
  ASSUME NEW frames \in Seq(FrameSet), NEW m \in Nat, Nested(frames, m),
         NEW g \in Seq(FrameSet), Len(g) \in 1 .. Len(frames),
         \A k \in 1 .. Len(g) : g[k].depth = frames[k].depth
  PROVE  /\ Nested(g, m) /\ Nested(g, g[Len(g)].depth + 1)
         /\ g[Len(g)].depth \in 1 .. m - 1
<1>1. /\ g # << >> /\ Len(g) \in Nat /\ Len(frames) \in Nat
      /\ \A k \in 1 .. Len(g) : k \in 1 .. Len(frames)
      /\ Len(g) \in 1 .. Len(g)
  <2>1. Len(g) >= 1
    OBVIOUS
  <2> QED
    BY <2>1
<1>2. \A k \in 1 .. Len(g) : g[k].depth \in 1 .. m - 1
  BY <1>1 DEF Nested
<1>3. \A j, k \in 1 .. Len(g) : j <= k => g[j].depth <= g[k].depth
  BY <1>1 DEF Nested
<1>4. \A k \in 1 .. Len(g) : g[k].depth \in 1 .. g[Len(g)].depth + 1 - 1
  <2> SUFFICES ASSUME NEW k \in 1 .. Len(g)
               PROVE  g[k].depth \in 1 .. g[Len(g)].depth + 1 - 1
    OBVIOUS
  <2>1. g[k].depth <= g[Len(g)].depth
    BY <1>1, <1>3
  <2>2. g[k].depth \in 1 .. m - 1 /\ g[Len(g)].depth \in 1 .. m - 1
    BY <1>1, <1>2
  <2> QED
    BY <2>1, <2>2
<1> QED
  BY <1>1, <1>2, <1>3, <1>4 DEF Nested

(* A stage restarted on the path of a record.                              *)
LEMMA RestagedKeeps ==
  ASSUME IInv, Running, UNCHANGED Rest, cur = Idle, cur' = Idle,
         NEW i \in 1 .. Len(arena.recs), Keepable(arena, i),
         NEW n, n = Cardinality(Path(arena, i)), n < Len(arena.recs), NEW ok \in Grants,
         arena' = Reseeded(arena, i, ok),
         ladder' \in Ladders, ladder'.phase = "select", ladder'.rises = << >>,
         ladder'.base = n + 1, Nested(ladder'.frames, n + 1)
  PROVE  IInv'
<1>1. /\ Sound(board, arena) /\ Grows(arena) /\ ~arena.starved /\ board \in Boards
  BY UnitFacts
<1>2. /\ Sound(board, arena') /\ Grows(arena') /\ Low(board, arena')
      /\ ~arena'.starved /\ arena'.limit = arena.limit /\ Seeded(arena', n + 1)
  BY <1>1, RestagedSound
<1>3. CurOk'
  BY IdleOk
<1>4. Climbing(ladder', arena', cur')
  BY <1>2, EmptySeq DEF Climbing
<1> QED
  BY <1>2, <1>3, <1>4, UnitKeeps

(* How a unit but an expansion gives up.                                   *)
LEMMA GivesUpKeeps ==
  ASSUME IInv, Running, UNCHANGED Rest, ladder.checks > 0, cur = Idle, cur' = cur,
         arena' = arena, ladder' = Charged(Ended("gaveup", NoId))
  PROVE  IInv'
<1>1. ladder \in Ladders
  BY PhaseFacts
<1> DEFINE m == Ended("gaveup", NoId)
<1>2. /\ m \in Ladders /\ m.phase = "gaveup" /\ m.rises = << >>
      /\ m.base = ladder.base /\ m.frames = ladder.frames /\ m.checks = ladder.checks
  <2>1. << >> \in Seq(Nat) /\ NoId \in Nat
    BY EmptySeq DEF NoId
  <2> QED
    BY <1>1, <2>1 DEF Ended, Ladders
<1> HIDE DEF m
<1>3. /\ ladder' \in Ladders /\ ladder'.phase = "gaveup" /\ ladder'.rises = << >>
      /\ ladder'.base = ladder.base /\ ladder'.frames = ladder.frames
  BY <1>2, ChargedFacts DEF m
<1>4. Climbing(ladder', arena, cur') /\ CurOk'
  BY <1>3, GivenUp, IdleOk
<1> QED
  BY <1>4, StillUnit

LEMMA CommitKeeps == IInv /\ Commit /\ UNCHANGED Rest => IInv'
<1> SUFFICES ASSUME IInv, Commit, UNCHANGED Rest PROVE IInv'
  OBVIOUS
<1> DEFINE i == Head(ladder.rises)
           n == Cardinality(Path(arena, i))
<1>1. /\ Running /\ ladder.phase = "commit" /\ ladder.checks > 0 /\ cur' = cur
  BY DEF Commit, Unit, Running
<1>2. /\ ladder \in Ladders /\ ladder.rises # << >> /\ cur = Idle
      /\ Seeded(arena, ladder.base) /\ Nested(ladder.frames, ladder.base)
      /\ ladder.base \in 2 .. Len(arena.recs)
      /\ \A k \in 1 .. Len(ladder.rises) : ladder.rises[k] \in ladder.base .. Len(arena.recs)
  BY <1>1, PhaseFacts, UnitFacts DEF Climbing
<1>3. /\ Upward(arena) /\ Len(arena.recs) \in Nat /\ arena.recs \in Seq(Records)
      /\ board \in Boards
  BY <1>1, UnitFacts, ArenaFields
<1>4. i \in ladder.base .. Len(arena.recs) /\ i \in 1 .. Len(arena.recs)
  <2>1. ladder.rises \in Seq(Nat) /\ Len(ladder.rises) \in Nat \ {0}
    BY <1>2, EmptySeq DEF Ladders
  <2>2. i = ladder.rises[1] /\ 1 \in 1 .. Len(ladder.rises)
    BY <1>2, <2>1
  <2>3. i \in ladder.base .. Len(arena.recs)
    BY <1>2, <2>2
  <2> QED
    BY <1>2, <2>3
<1>5. n \in ladder.base - 1 .. Len(arena.recs) - 1
  <2>1. PICK m : m = ladder.base
    OBVIOUS
  <2>2. Seeded(arena, m) /\ i \in m .. Len(arena.recs)
    BY <1>2, <1>4, <2>1
  <2>3. Cardinality(Path(arena, i)) \in m - 1 .. Len(arena.recs) - 1
    BY <1>3, <2>2, SeededPath
  <2> QED
    BY <2>1, <2>3
<1>6. CASE ~Keepable(arena, i)
  <2>1. ladder' = Charged(Ended("gaveup", NoId)) /\ arena' = arena
    BY <1>6 DEF Commit
  <2> QED
    BY <1>1, <1>2, <2>1, GivesUpKeeps
<1>7. CASE Keepable(arena, i)
  <2> DEFINE f == Frame(n, arena.recs[i].st)
             m == [ladder EXCEPT !.phase = "select", !.rises = << >>, !.base = n + 1,
                                 !.frames = Append(@, f)]
  <2>1. PICK ok \in Grants : arena' = Reseeded(arena, i, ok) /\ ladder' = Charged(m)
    BY <1>7, EngineAssumption DEF Commit
  <2>2. n \in Nat /\ n >= 1 /\ ladder.base - 1 <= n /\ n < Len(arena.recs) /\ n + 1 \in Nat
        /\ ladder.base \in Nat
    BY <1>2, <1>3, <1>5
  <2> HIDE DEF n, i
  <2>3. f \in FrameSet /\ f.depth = n
    <3>1. arena.recs[i].st \in States
      BY <1>3, <1>4, RecordFields
    <3>2. board.level[arena.recs[i].st] \in Nat
      BY <1>3, <3>1, BoardFacts
    <3> QED
      BY <2>2, <3>2 DEF Frame, FrameSet
  <2> HIDE DEF f
  <2>4. ladder.frames \in Seq(FrameSet)
    BY <1>2 DEF Ladders
  <2>5. /\ Append(ladder.frames, f) \in Seq(FrameSet)
        /\ Nested(Append(ladder.frames, f), n + 1)
    BY <1>2, <2>2, <2>3, <2>4, NestedAppend
  <2>6. /\ m \in Ladders /\ m.phase = "select" /\ m.rises = << >> /\ m.base = n + 1
        /\ m.frames = Append(ladder.frames, f) /\ m.checks = ladder.checks
    <3>1. << >> \in Seq(Nat)
      BY EmptySeq
    <3> QED
      BY <1>2, <2>2, <2>5, <3>1 DEF Ladders
  <2> HIDE DEF m
  <2>7. /\ ladder' \in Ladders /\ ladder'.phase = "select" /\ ladder'.rises = << >>
        /\ ladder'.base = n + 1 /\ ladder'.frames = Append(ladder.frames, f)
    BY <1>1, <2>1, <2>6, ChargedFacts
  <2>8. n = Cardinality(Path(arena, i))
    BY DEF n
  <2> QED
    BY <1>1, <1>2, <1>4, <1>7, <2>1, <2>2, <2>5, <2>7, <2>8, RestagedKeeps
<1> QED
  BY <1>6, <1>7

(* A failed stage restarts, or gives up.                                   *)
LEMMA RestageKeeps ==
  ASSUME IInv, Running, UNCHANGED Rest, ladder.phase = "fail", ladder.checks > 0, cur' = cur,
         NEW frames \in Seq(FrameSet), Len(frames) \in 1 .. Len(ladder.frames),
         \A k \in 1 .. Len(frames) : frames[k].depth = ladder.frames[k].depth,
         NEW back \in {0, 1}, ladder.backtracks # 0, Restage(frames, back)
  PROVE  IInv'
<1> DEFINE i == frames[Len(frames)].depth
           n == Cardinality(Path(arena, i))
<1>1. /\ ladder \in Ladders /\ cur = Idle /\ ladder.rises = << >>
      /\ Seeded(arena, ladder.base) /\ Nested(ladder.frames, ladder.base)
      /\ ladder.base \in 2 .. Len(arena.recs)
  BY PhaseFacts, UnitFacts DEF Climbing
<1>2. Upward(arena) /\ Len(arena.recs) \in Nat
  BY UnitFacts
<1>3. ladder.frames \in Seq(FrameSet) /\ ladder.base \in Nat
  BY <1>1 DEF Ladders
<1>4. Nested(frames, i + 1) /\ i \in 1 .. ladder.base - 1
  BY <1>1, <1>3, NestedBelow
<1>5. i \in 1 .. Len(arena.recs)
  BY <1>1, <1>2, <1>4
<1> HIDE DEF i
<1>6. n = i /\ n < Len(arena.recs) /\ n + 1 \in Nat
  <2>1. PICK m : m = ladder.base
    OBVIOUS
  <2>2. Seeded(arena, m) /\ i \in 1 .. m - 1
    BY <1>1, <1>4, <2>1
  <2>3. n = i
    BY <1>2, <2>2, SeededPath
  <2> HIDE DEF n
  <2> QED
    BY <1>1, <1>2, <1>4, <2>3
<1>7. CASE ~Keepable(arena, i)
  <2>1. ladder' = Charged(Ended("gaveup", NoId)) /\ arena' = arena
    BY Zenon, <1>7 DEF Restage, i
  <2> QED
    BY <1>1, <2>1, GivesUpKeeps
<1>8. CASE Keepable(arena, i)
  <2> DEFINE m == [ladder EXCEPT !.phase = "select", !.frames = frames,
                                 !.backtracks = @ - back, !.base = n + 1]
  <2>1. PICK ok \in Grants : arena' = Reseeded(arena, i, ok) /\ ladder' = Charged(m)
    BY <1>8, EngineAssumption DEF Restage, i
  <2> HIDE DEF n
  <2>2. /\ m \in Ladders /\ m.phase = "select" /\ m.rises = << >> /\ m.base = n + 1
        /\ m.frames = frames /\ m.checks = ladder.checks
    <3>1. ladder.backtracks \in Nat /\ ladder.backtracks - back \in Nat
      BY <1>1 DEF Ladders
    <3> QED
      BY <1>1, <1>6, <3>1 DEF Ladders
  <2> HIDE DEF m
  <2>3. /\ ladder' \in Ladders /\ ladder'.phase = "select" /\ ladder'.rises = << >>
        /\ ladder'.base = n + 1 /\ ladder'.frames = frames
    BY <2>1, <2>2, ChargedFacts
  <2>4. n = Cardinality(Path(arena, i)) /\ Nested(ladder'.frames, n + 1)
    BY <1>4, <1>6, <2>3 DEF n
  <2> QED
    BY Zenon, <1>1, <1>5, <1>6, <1>8, <2>1, <2>3, <2>4, RestagedKeeps
<1> QED
  BY <1>7, <1>8

(* A frame raised or banned keeps its depth.                               *)
LEMMA FrameEdits ==
  ASSUME NEW frames \in Seq(FrameSet), NEW q \in 1 .. Len(frames), NEW f \in FrameSet,
         f.depth = frames[q].depth, NEW g, g = [frames EXCEPT ![q] = f]
  PROVE  /\ g \in Seq(FrameSet) /\ Len(g) = Len(frames)
         /\ \A k \in 1 .. Len(g) : g[k].depth = frames[k].depth
BY ExceptSeq

LEMMA FrameFacts ==
  ASSUME NEW r \in FrameSet, NEW rung \in Nat
  PROVE  /\ [r EXCEPT !.rung = rung] \in FrameSet
         /\ [r EXCEPT !.rung = rung].depth = r.depth
         /\ [r EXCEPT !.bans = r.bans + 1, !.rung = rung] \in FrameSet
         /\ [r EXCEPT !.bans = r.bans + 1, !.rung = rung].depth = r.depth
<1>1. r.bans + 1 \in Nat
  BY DEF FrameSet
<1> QED
  BY <1>1 DEF FrameSet

(* The frames below a failed one, of which the last takes a ban.           *)
Banned(fs, q, rung) == [SubSeq(fs, 1, q) EXCEPT ![q].bans = @ + 1, ![q].rung = rung]

LEMMA BannedFrames ==
  ASSUME NEW fs \in Seq(FrameSet), NEW q \in 1 .. Len(fs), NEW rung \in Nat,
         NEW g, g = Banned(fs, q, rung)
  PROVE  /\ g \in Seq(FrameSet) /\ Len(g) = q
         /\ \A k \in 1 .. q : g[k].depth = fs[k].depth
<1>1. PICK s : s = SubSeq(fs, 1, q)
  OBVIOUS
<1>2. Len(fs) \in Nat /\ \A k \in 1 .. Len(fs) : fs[k] \in FrameSet
  BY ElementOfSeq
<1>3. /\ s \in Seq(FrameSet) /\ Len(s) = q
      /\ \A k \in 1 .. q : s[k] = fs[k]
  <2>1. q \in Int /\ 1 \in Int /\ 1 <= q /\ \A k \in 1 .. q : k \in 1 .. Len(fs)
    BY <1>2
  <2>2. \A k \in 1 .. q : fs[k] \in FrameSet
    BY <1>2, <2>1
  <2>3. /\ s \in Seq(FrameSet) /\ Len(s) = q - 1 + 1
        /\ \A k \in 1 .. q - 1 + 1 : s[k] = fs[1 + k - 1]
    BY <1>1, <2>1, <2>2, SubSeqProperties
  <2>4. q - 1 + 1 = q /\ \A k \in 1 .. q : 1 + k - 1 = k
    BY <2>1
  <2> QED
    BY <2>3, <2>4
<1> DEFINE f == [s[q] EXCEPT !.bans = s[q].bans + 1, !.rung = rung]
<1>4. g = [s EXCEPT ![q] = f]
  BY <1>1, <1>3 DEF Banned
<1>5. q \in 1 .. Len(s) /\ s[q] \in FrameSet
  BY <1>2, <1>3
<1>6. f \in FrameSet /\ f.depth = s[q].depth
  BY <1>5, FrameFacts
<1> HIDE DEF f
<1>7. /\ g \in Seq(FrameSet) /\ Len(g) = Len(s)
      /\ \A k \in 1 .. Len(g) : g[k].depth = s[k].depth
  BY <1>3, <1>4, <1>5, <1>6, FrameEdits
<1> QED
  BY <1>3, <1>7

LEMMA FailUnitKeeps == IInv /\ FailUnit /\ UNCHANGED Rest => IInv'
<1> SUFFICES ASSUME IInv, FailUnit, UNCHANGED Rest PROVE IInv'
  OBVIOUS
<1> DEFINE top == Len(ladder.frames)
           backTo(q) == SubSeq(ladder.frames, 1, q)
<1>1. /\ Running /\ ladder.phase = "fail" /\ ladder.checks > 0 /\ cur' = cur
  BY Zenon DEF FailUnit, Unit, Running
<1>2. /\ ladder \in Ladders /\ cur = Idle /\ ladder.rises = << >>
      /\ Seeded(arena, ladder.base) /\ Nested(ladder.frames, ladder.base)
      /\ ladder.base \in 2 .. Len(arena.recs)
      /\ Climbing(ladder, arena, Idle)
  BY <1>1, PhaseFacts, UnitFacts DEF Climbing
<1>3. /\ ladder.frames \in Seq(FrameSet) /\ top \in Nat \ {0} /\ ladder.base \in Nat
      /\ ladder.backtracks \in Nat
      /\ \A k \in 1 .. top : ladder.frames[k] \in FrameSet
      /\ Len(Caps) \in Nat
  <2>1. ladder.frames \in Seq(FrameSet) /\ ladder.base \in Nat /\ ladder.backtracks \in Nat
    BY <1>2 DEF Ladders
  <2>2. ladder.frames # << >>
    BY <1>2 DEF Nested
  <2>3. \A k \in 1 .. top : ladder.frames[k] \in FrameSet
    BY <2>1, ElementOfSeq
  <2>4. Len(Caps) \in Nat
    BY EngineAssumption
  <2> QED
    BY <2>1, <2>2, <2>3, <2>4, EmptySeq
<1>4. \/ ladder' = Charged(Ended("gaveup", NoId)) /\ arena' = arena
      \/ /\ ladder.backtracks # 0
         /\ Restage([ladder.frames EXCEPT ![top].rung = @ + 1], 0)
      \/ /\ ladder.backtracks # 0
         /\ \E q \in 1 .. top - 1 :
              \/ /\ ladder' = Charged([ladder EXCEPT !.backtracks = @ - 1,
                      !.frames = [backTo(q) EXCEPT ![q].bans = @ + 1, ![q].rung = Len(Caps)]])
                 /\ arena' = arena
              \/ Restage([backTo(q) EXCEPT ![q].bans = @ + 1, ![q].rung = 1], 1)
  BY Zenon, <1>1 DEF FailUnit
<1>5. CASE ladder' = Charged(Ended("gaveup", NoId)) /\ arena' = arena
  BY <1>1, <1>2, <1>5, GivesUpKeeps
<1>6. CASE /\ ladder.backtracks # 0
           /\ Restage([ladder.frames EXCEPT ![top].rung = @ + 1], 0)
  <2> DEFINE f == [ladder.frames[top] EXCEPT !.rung = ladder.frames[top].rung + 1]
  <2>1. PICK g : g = [ladder.frames EXCEPT ![top].rung = @ + 1]
    OBVIOUS
  <2>2. g = [ladder.frames EXCEPT ![top] = f]
    BY <2>1
  <2>3. top \in 1 .. Len(ladder.frames)
    BY <1>3
  <2>4. f \in FrameSet /\ f.depth = ladder.frames[top].depth
    <3>1. ladder.frames[top] \in FrameSet
      BY <1>3, <2>3
    <3>2. ladder.frames[top].rung + 1 \in Nat
      BY <3>1 DEF FrameSet
    <3> QED
      BY <3>1, <3>2, FrameFacts
  <2> HIDE DEF f
  <2>5. /\ g \in Seq(FrameSet) /\ Len(g) = Len(ladder.frames)
        /\ \A k \in 1 .. Len(g) : g[k].depth = ladder.frames[k].depth
    BY <1>3, <2>2, <2>3, <2>4, FrameEdits
  <2>6. Len(g) \in 1 .. Len(ladder.frames)
    BY <1>3, <2>5
  <2>7. Restage(g, 0) /\ ladder.backtracks # 0 /\ 0 \in {0, 1}
    BY <1>6, <2>1
  <2> QED
    BY <1>1, <2>5, <2>6, <2>7, RestageKeeps
<1>7. ASSUME NEW q \in 1 .. top - 1, NEW rung \in Nat, NEW g, g = Banned(ladder.frames, q, rung)
      PROVE  /\ g \in Seq(FrameSet) /\ Len(g) \in 1 .. Len(ladder.frames)
             /\ \A k \in 1 .. Len(g) : g[k].depth = ladder.frames[k].depth
  <2>1. q \in 1 .. Len(ladder.frames)
    BY <1>3
  <2>2. /\ g \in Seq(FrameSet) /\ Len(g) = q
        /\ \A k \in 1 .. q : g[k].depth = ladder.frames[k].depth
    <3>1. PICK fs \in Seq(FrameSet) : fs = ladder.frames
      BY <1>3
    <3>2. q \in 1 .. Len(fs) /\ g = Banned(fs, q, rung)
      BY <1>7, <2>1, <3>1
    <3>3. /\ g \in Seq(FrameSet) /\ Len(g) = q
          /\ \A k \in 1 .. q : g[k].depth = fs[k].depth
      BY <3>2, BannedFrames
    <3> QED
      BY <3>1, <3>3
  <2> QED
    BY <2>1, <2>2, Zenon
<1>8. ASSUME ladder.backtracks # 0, NEW q \in 1 .. top - 1,
             Restage([backTo(q) EXCEPT ![q].bans = @ + 1, ![q].rung = 1], 1)
      PROVE  IInv'
  <2>1. PICK g : g = Banned(ladder.frames, q, 1)
    OBVIOUS
  <2>3. Restage(g, 1) /\ 1 \in {0, 1} /\ 1 \in Nat
    BY <1>8, <2>1 DEF Banned
  <2>2. /\ g \in Seq(FrameSet) /\ Len(g) \in 1 .. Len(ladder.frames)
        /\ \A k \in 1 .. Len(g) : g[k].depth = ladder.frames[k].depth
    BY ZenonT(60), <1>7, <2>1, <2>3
  <2> QED
    BY <1>1, <1>8, <2>2, <2>3, RestageKeeps
<1>9. ASSUME ladder.backtracks # 0, NEW q \in 1 .. top - 1, arena' = arena,
             ladder' = Charged([ladder EXCEPT !.backtracks = @ - 1,
               !.frames = [backTo(q) EXCEPT ![q].bans = @ + 1, ![q].rung = Len(Caps)]])
      PROVE  IInv'
  <2>1. PICK g : g = Banned(ladder.frames, q, Len(Caps))
    OBVIOUS
  <2>0. ladder' = Charged([ladder EXCEPT !.backtracks = @ - 1, !.frames = g])
    BY <1>9, <2>1 DEF Banned
  <2>2. /\ g \in Seq(FrameSet) /\ Len(g) \in 1 .. Len(ladder.frames)
        /\ \A k \in 1 .. Len(g) : g[k].depth = ladder.frames[k].depth
    <3>1. Len(Caps) \in Nat
      BY <1>3
    <3> QED
      BY <1>7, <2>1, <3>1
  <2> DEFINE m == [ladder EXCEPT !.backtracks = @ - 1, !.frames = g]
  <2>3. Nested(g, ladder.base)
    BY <1>2, <1>3, <2>2, NestedBelow
  <2>4. /\ m \in Ladders /\ m.phase = "fail" /\ m.rises = << >> /\ m.base = ladder.base
        /\ m.frames = g /\ m.checks = ladder.checks
    <3>1. ladder.backtracks - 1 \in Nat
      BY <1>3, <1>9
    <3> QED
      BY <1>1, <1>2, <2>2, <3>1 DEF Ladders
  <2>5. ladder' = Charged(m)
    BY <2>0
  <2> HIDE DEF m
  <2>6. /\ ladder' \in Ladders /\ ladder'.phase = "fail" /\ ladder'.rises = << >>
        /\ ladder'.base = ladder.base /\ ladder'.frames = g
    BY <1>1, <2>4, <2>5, ChargedFacts
  <2>7. Climbing(ladder', arena, cur')
    BY <1>1, <1>2, <2>3, <2>6, EmptySeq DEF Climbing
  <2>8. CurOk'
    BY <1>1, <1>2, IdleOk
  <2> QED
    BY <1>1, <1>9, <2>7, <2>8, StillUnit
<1> QED
  BY ZenonT(60), <1>4, <1>5, <1>6, <1>8, <1>9

LEMMA StageUnitKeeps == IInv /\ StageUnit => IInv'
BY OutOfChecksKeeps, SelectUnitKeeps, SearchPopKeeps, SearchSkipKeeps, SearchChildKeeps,
   SearchDoneKeeps, AcceptUnitKeeps, CommitKeeps, FailUnitKeeps DEF StageUnit, LadderUnit
-----------------------------------------------------------------------------
(* The end of a ladder.                                                    *)

(* A ladder ends in an arena with room for its route and the start again.  *)
LEMMA EndedFacts ==
  ASSUME IInv, ladder.phase \in {"solved", "gaveup"}
  PROVE  /\ status = "running" /\ polish = NoPolish /\ room # "building"
         /\ Sound(board, arena) /\ Buffered(arena, FALSE) /\ Grows(arena) /\ cur = Idle
         /\ Len(arena.recs) \in Nat /\ arena.limit \in Nat \ {0}
         /\ ~arena.starved => arena.table # 0
         /\ policy \in DOMAIN Policies /\ Sane(policy, P)
         /\ policy # "exact" => Low(board, arena) /\ room = "off"
         /\ SolvedId(arena, NoId) /\ fillAt \in Nat
         /\ ~arena.starved =>
              arena.reserved > arena.limit \/
                (1 <= Len(arena.recs) /\ Len(arena.recs) + 1 < arena.reserved)
<1>1. ladder # NoLadder
  BY EmptyValues
<1>2. Climbing(ladder, arena, cur)
  BY <1>1 DEF IInv, LadderOk
<1>3. cur = Idle
  BY <1>2 DEF Climbing
<1>4. /\ status = "running" /\ polish = NoPolish /\ room # "building" /\ Grows(arena)
  BY <1>1, LadderRuns
<1>5. Len(arena.recs) \in Nat /\ arena.limit \in Nat \ {0} /\ Sound(board, arena)
  BY SoundUpward, ArenaFields DEF IInv
<1>6. 1 <= Len(arena.recs)
  <2>1. ladder.base \in 2 .. Len(arena.recs)
    BY <1>2 DEF Climbing, Seeded
  <2> QED
    BY <1>5, <2>1
<1>7. policy \in DOMAIN Policies /\ Sane(policy, P) /\ fillAt \in Nat
      /\ (policy # "exact" => Low(board, arena) /\ room = "off")
  BY PolicyFacts DEF IInv, Given, P, LowOk, RoomOk, FillOk
<1>8. SolvedId(arena, NoId)
  BY <1>5 DEF SolvedId, NoId
<1>9. ~arena.starved =>
        /\ arena.table # 0
        /\ arena.reserved > arena.limit \/ Len(arena.recs) + 1 < arena.reserved
  BY <1>4 DEF Grows, Buffered
<1>10. Buffered(arena, FALSE)
  BY <1>4 DEF Grows
<1> QED
  BY <1>3, <1>4, <1>5, <1>6, <1>7, <1>8, <1>9, <1>10

(* The path of the ladder's route leaves out the copy its stage began on.  *)
LEMMA RouteShort ==
  ASSUME IInv, ladder.phase = "solved"
  PROVE  /\ SolvedId(arena, ladder.at)
         /\ ladder.at \in 1 .. Len(arena.recs)
         /\ Cardinality(Path(arena, ladder.at)) < Len(arena.recs)
<1>1. ladder # NoLadder
  BY EmptyValues
<1>2. Climbing(ladder, arena, cur)
  BY <1>1 DEF IInv, LadderOk
<1>3. PICK m : m = ladder.base
  OBVIOUS
<1>4. /\ Seeded(arena, m) /\ ladder.at \in m .. Len(arena.recs)
      /\ Solved(arena.recs[ladder.at].st)
  BY <1>2, <1>3 DEF Climbing
<1>5. Upward(arena) /\ Len(arena.recs) \in Nat
  BY SoundUpward DEF IInv
<1>6. m \in Nat /\ m >= 2 /\ m <= Len(arena.recs)
  BY <1>4, <1>5 DEF Seeded
<1>7. Cardinality(Path(arena, ladder.at)) \in m - 1 .. Len(arena.recs) - 1
  BY <1>4, <1>5, SeededPath
<1>8. Cardinality(Path(arena, ladder.at)) < Len(arena.recs)
  <2>1. PICK n : n = Cardinality(Path(arena, ladder.at))
    OBVIOUS
  <2>2. n \in m - 1 .. Len(arena.recs) - 1
    BY <1>7, <2>1
  <2>3. n < Len(arena.recs)
    BY <1>5, <1>6, <2>2
  <2> QED
    BY <2>1, <2>3
<1>9. ladder.at \in 1 .. Len(arena.recs) /\ ladder.at \in 0 .. Len(arena.recs)
  BY <1>4, <1>5, <1>6
<1> QED
  BY <1>4, <1>8, <1>9 DEF SolvedId

LEMMA StageSolvedKeeps == IInv /\ StageSolved => IInv'
<1> SUFFICES ASSUME IInv, StageSolved PROVE IInv'
  OBVIOUS
<1>1. ladder.phase = "solved" /\ board' = board /\ room' = room
  BY DEF StageSolved
<1>2. /\ status = "running" /\ polish = NoPolish /\ room # "building"
      /\ Sound(board, arena) /\ Buffered(arena, FALSE) /\ Grows(arena) /\ cur = Idle
      /\ Len(arena.recs) \in Nat /\ arena.limit \in Nat \ {0}
      /\ ~arena.starved => arena.table # 0
      /\ policy \in DOMAIN Policies /\ Sane(policy, P)
      /\ policy # "exact" => Low(board, arena) /\ room = "off"
      /\ fillAt \in Nat
      /\ ~arena.starved =>
           arena.reserved > arena.limit \/
             (1 <= Len(arena.recs) /\ Len(arena.recs) + 1 < arena.reserved)
  BY <1>1, EndedFacts
<1>3. PICK id : id = ladder.at
  OBVIOUS
<1>4. /\ SolvedId(arena, id) /\ id \in 1 .. Len(arena.recs)
      /\ Cardinality(Path(arena, id)) < Len(arena.recs)
  BY <1>1, <1>3, RouteShort
<1>5. CASE ~arena.starved /\ MayStartOver(arena, id, P.restart)
  <2>1. StartOver(arena, id, P.restart) /\ cur' = cur
    BY <1>3, <1>5 DEF StageSolved
  <2>2. /\ P.restart \in DOMAIN Policies \ {"exact"} /\ policy # "exact"
        /\ id # NoId => Keepable(arena, id)
    BY <1>2, <1>5 DEF MayStartOver, Sane
  <2>3. CurOk'
    BY <1>2, <2>1, IdleOk
  <2>4. FALSE \in BOOLEAN
    OBVIOUS
  <2> QED
    BY <1>1, <1>2, <1>4, <1>5, <2>1, <2>2, <2>3, <2>4, StartOverKeeps
<1>6. CASE ~(~arena.starved /\ MayStartOver(arena, id, P.restart)) /\ P.next = "none"
  <2>1. End("solved", arena, id, policy, interrupted) /\ fillAt' = fillAt
    BY <1>3, <1>6 DEF StageSolved, KeepStage
  <2>2. "solved" \in Kinds \ {"running"}
    BY DEF Kinds
  <2> QED
    BY <1>1, <1>2, <1>4, <2>1, <2>2, EndKeeps
<1>7. CASE ~(~arena.starved /\ MayStartOver(arena, id, P.restart)) /\ P.next # "none"
  <2>1. PICK a : a = Reweight(arena, Policies[P.next].weight)
    OBVIOUS
  <2>2. /\ fillAt' = arena.limit
        /\ IF arena.starved
           THEN StopAtLimit(a, id, P.next, staging.trigger)
           ELSE /\ arena' = a /\ incumbent' = id /\ policy' = P.next
                /\ ladder' = NoLadder
                /\ UNCHANGED <<cur, status, polish>>
    BY <1>3, <1>7, <2>1 DEF StageSolved, SpendStage
  <2>3. policy # "exact" /\ P.next \in DOMAIN Policies \ {"exact"}
    BY <1>2, <1>7 DEF Sane
  <2>4. Policies[P.next].weight \in Nat
    BY <2>3, PolicyFacts DEF Sane
  <2>5. CASE arena.starved
    <3>1. End(LimitStatus(a), a, id, P.next, staging.trigger)
      BY <2>2, <2>5 DEF StopAtLimit
    <3>2. LimitStatus(a) \in Kinds \ {"running"}
      BY DEF LimitStatus, Kinds
    <3>3. Sound(board, a) /\ Low(board, a) /\ a.recs = arena.recs
      BY <1>2, <2>1, <2>3, <2>4, ReweightSound
    <3>4. SolvedId(a, id)
      BY <1>4, <3>3 DEF SolvedId
    <3>5. fillAt' \in Nat
      BY <1>2, <2>2
    <3> QED
      BY <1>1, <1>2, <2>3, <3>1, <3>2, <3>3, <3>4, <3>5, EndKeeps
  <2>6. CASE ~arena.starved
    <3>1. /\ arena' = Reweight(arena, Policies[P.next].weight)
          /\ incumbent' = id /\ policy' = P.next
          /\ ladder' = NoLadder /\ cur' = Idle
          /\ status' = status /\ polish' = polish
      BY <1>2, <2>1, <2>2, <2>6
    <3>2. CurOk'
      BY <3>1, IdleOk
    <3> QED
      BY <1>1, <1>2, <1>4, <1>7, <2>2, <2>6, <3>1, <3>2, PhaseKeeps
  <2> QED
    BY <2>5, <2>6
<1> QED
  BY <1>5, <1>6, <1>7

LEMMA StageGaveUpKeeps == IInv /\ StageGaveUp => IInv'
<1> SUFFICES ASSUME IInv, StageGaveUp PROVE IInv'
  OBVIOUS
<1>1. ladder.phase = "gaveup" /\ board' = board /\ room' = room
  BY DEF StageGaveUp
<1>2. /\ status = "running" /\ polish = NoPolish /\ room # "building"
      /\ Sound(board, arena) /\ Buffered(arena, FALSE) /\ cur = Idle
      /\ Len(arena.recs) \in Nat /\ arena.limit \in Nat \ {0}
      /\ ~arena.starved => arena.table # 0
      /\ policy \in DOMAIN Policies /\ Sane(policy, P)
      /\ policy # "exact" => Low(board, arena) /\ room = "off"
      /\ SolvedId(arena, NoId) /\ fillAt \in Nat
      /\ ~arena.starved =>
           arena.reserved > arena.limit \/
             (1 <= Len(arena.recs) /\ Len(arena.recs) + 1 < arena.reserved)
  BY <1>1, EndedFacts
<1>3. ASSUME NEW p \in DOMAIN Policies, p # "exact" => room = "off",
             StartOver(arena, NoId, p), cur' = cur, ~arena.starved
      PROVE  IInv'
  <2>1. PICK id : id = NoId
    OBVIOUS
  <2>2. StartOver(arena, id, p) /\ SolvedId(arena, id) /\ ~(id # NoId)
    BY <1>2, <1>3, <2>1
  <2>3. CurOk'
    BY <1>2, <1>3, IdleOk
  <2>4. FALSE \in BOOLEAN
    OBVIOUS
  <2> QED
    BY <1>1, <1>2, <1>3, <2>2, <2>3, <2>4, StartOverKeeps
<1>4. CASE ~arena.starved /\ MayStartOver(arena, NoId, P.restart)
  <2>1. StartOver(arena, NoId, P.restart) /\ cur' = cur
    BY <1>4 DEF StageGaveUp
  <2>2. P.restart \in DOMAIN Policies /\ (P.restart # "exact" => room = "off")
    BY <1>2, <1>4 DEF MayStartOver, Sane
  <2> QED
    BY <1>3, <1>4, <2>1, <2>2
<1>5. CASE ~(~arena.starved /\ MayStartOver(arena, NoId, P.restart))
           /\ ~arena.starved /\ staging.early
  <2>1. StartOver(arena, NoId, policy) /\ cur' = cur
    BY <1>5 DEF StageGaveUp
  <2> QED
    BY <1>2, <1>3, <1>5, <2>1
<1>6. CASE ~(~arena.starved /\ MayStartOver(arena, NoId, P.restart))
           /\ ~(~arena.starved /\ staging.early)
  <2>1. End(LimitStatus(arena), arena, NoId, policy, staging.trigger) /\ fillAt' = fillAt
    BY <1>6 DEF StageGaveUp, StopAtLimit, KeepStage
  <2>2. LimitStatus(arena) \in Kinds \ {"running"}
    BY DEF LimitStatus, Kinds
  <2> QED
    BY <1>1, <1>2, <2>1, <2>2, EndKeeps
<1> QED
  BY <1>4, <1>5, <1>6
-----------------------------------------------------------------------------
(* The inductive invariant is inductive.                                   *)

LEMMA NewArenaEmptied ==
  ASSUME NEW b, NEW limit \in Limits, NEW scaled \in BOOLEAN,
         NEW k, k = NewArena(limit, scaled)
  PROVE  Emptied(b, k) /\ k.limit = limit /\ Len(k.recs) = 0 /\ limit \in Nat \ {0}
<1>1. limit \in 1 .. MaxLimit /\ MaxLimit \in Nat /\ limit \in Nat \ {0} /\ limit >= 1
  <2>1. MaxLimit \in Nat /\ Limits \subseteq 1 .. MaxLimit
    BY ArenaAssumption, EngineAssumption
  <2> QED
    BY <2>1
<1>2. /\ FinalTable[limit + 1] \in Nat /\ FinalTable[limit + 1] >= 4
      /\ FirstTable \in Nat /\ FirstTable >= 4
      /\ Chunk \in Nat /\ Chunk >= 4
  <2>1. limit + 1 \in 1 .. MaxLimit + 1
    BY <1>1
  <2>2. FinalTable[limit + 1] \in Nat /\ FinalTable[limit + 1] >= 2 * (limit + 1)
    BY <2>1, ArenaAssumption
  <2>3. FinalTable[limit + 1] >= 4
    BY <1>1, <2>2
  <2> QED
    BY <2>2, <2>3, ArenaAssumption
<1>3. /\ k.recs = << >> /\ k.index = {} /\ k.queue = {}
      /\ k.resident = 0 /\ k.starved = FALSE /\ ~k.starved
      /\ k.table \in Nat /\ k.table >= 4 /\ k.table # 0
      /\ k.reserved \in Nat /\ k.reserved >= 4
      /\ k.limit = limit
  BY <1>2 DEF NewArena, Lesser
<1>4. Len(k.recs) = 0 /\ 1 .. Len(k.recs) = {}
  BY <1>3, EmptySeq
<1>5. k \in Arenas
  <2>1. k.recs \in Seq(Records)
    BY <1>3, EmptySeq
  <2> QED
    BY <1>1, <1>3, <2>1 DEF Arenas, NewArena
<1>6. Live(k) = {}
  BY <1>4 DEF Live
<1>7. Consistent(k)
  BY <1>3, <1>5, <1>6, FS_EmptySet DEF Consistent, Bound, OneLive, Counted
<1>8. Buffered(k, FALSE)
  BY <1>1, <1>3, <1>4 DEF Buffered
<1>9. Sound(b, k)
  BY <1>3, <1>4, <1>5, <1>7, <1>8, BufferedHoused DEF Sound, Real, Queued
<1>10. Len(k.recs) + 2 < k.reserved /\ Len(k.recs) < k.limit
  BY <1>1, <1>3, <1>4
<1>11. k.limit = limit /\ Len(k.recs) = 0 /\ limit \in Nat \ {0}
  BY <1>1, <1>3, <1>4
<1>12. Emptied(b, k)
  BY <1>3, <1>8, <1>9, <1>10 DEF Emptied
<1> QED
  BY <1>11, <1>12

LEMMA InitHolds == Init => IInv
<1> SUFFICES ASSUME Init PROVE IInv
  OBVIOUS
<1>1. /\ board \in Boards /\ policy \in Modes
      /\ cur = Idle /\ ladder = NoLadder
      /\ incumbent = NoId /\ polish = NoPolish
  BY DEF Init
<1>2. PICK limit \in Limits, ok \in Grant :
        /\ arena = Seed(NewArena(limit, limit < MaxLimit), P.weight, RootH, ok)
        /\ fillAt = IF P.stage THEN Lesser(StageAt, limit) ELSE limit
        /\ status = IF board.est[Start] = Inf THEN "exhausted" ELSE "running"
        /\ room = IF P.rooms /\ status = "running" /\ limit >= BuildMin THEN "building"
                  ELSE "off"
  BY DEF Init
<1>3. policy \in DOMAIN Policies /\ Sane(policy, P) /\ P.weight \in Nat /\ ok \in Grants
  BY <1>1, PolicyFacts, EngineAssumption DEF Sane, P
<1>4. PICK k : k = NewArena(limit, limit < MaxLimit)
  OBVIOUS
<1>5. (limit < MaxLimit) \in BOOLEAN
  OBVIOUS
<1>6. Emptied(board, k) /\ k.limit = limit /\ Len(k.recs) = 0 /\ limit \in Nat \ {0}
  BY <1>4, <1>5, NewArenaEmptied
<1>7. arena = Seed(k, P.weight, RootH, ok)
  BY <1>2, <1>4
<1>8. /\ Sound(board, arena) /\ Grows(arena) /\ Low(board, arena)
      /\ ~arena.starved /\ arena.limit = limit /\ Len(arena.recs) = 1
      /\ board.est[Start] # Inf => arena.queue # {}
  <2>1. PICK w \in Nat, grant \in Grants : w = P.weight /\ grant = ok
    BY <1>3
  <2>2. arena = Seed(k, w, RootH, grant)
    BY <1>7, <2>1
  <2>3. board \in Boards /\ Emptied(board, k)
    BY <1>1, <1>6
  <2>4. PICK c : c = Seed(k, w, RootH, grant)
    OBVIOUS
  <2>5. /\ Sound(board, c) /\ Grows(c) /\ Low(board, c)
        /\ ~c.starved /\ c.limit = k.limit /\ Len(c.recs) = Len(k.recs) + 1
        /\ board.est[Start] # Inf => c.queue # {}
    BY <2>3, <2>4, SeedSound
  <2> QED
    BY <1>6, <2>2, <2>4, <2>5
<1>9. Given /\ SolvedId(arena, incumbent) /\ LowOk /\ PolishOk
  BY <1>1, <1>3, <1>8, EmptyValues DEF Given, SolvedId, LowOk, PolishOk, NoId
<1>10. GrowOk
  BY <1>8 DEF GrowOk
<1>11. FillOk
  <2>1. fillAt \in Nat
    BY <1>2, <1>6, EngineAssumption DEF Lesser
  <2>2. fillAt < arena.limit => P.stage
    BY <1>2, <1>6, <1>8
  <2> QED
    BY <1>1, <2>1, <2>2 DEF FillOk
<1>12. CurOk
  BY <1>1, EmptyValues DEF CurOk, Fits
<1>13. RoomOk
  <2>1. policy # "exact" => room = "off"
    BY <1>2, <1>3 DEF Sane
  <2>2. room = "building" => arena.queue # {}
    BY <1>2, <1>8
  <2> QED
    BY <1>1, <1>8, <2>1, <2>2 DEF RoomOk
<1>14. LadderOk
  BY <1>1 DEF LadderOk
<1> QED
  BY <1>8, <1>9, <1>10, <1>11, <1>12, <1>13, <1>14 DEF IInv

LEMMA AdvanceKeeps == IInv /\ Advance => IInv'
BY PopEmptyKeeps, PopStaleKeeps, PopSolvedKeeps, PopPrunedKeeps, PopExpandKeeps,
   PushDroppedKeeps, StageEarlyKeeps, StageFullKeeps, PushStoredKeeps, PushAtLimitKeeps,
   FinishExpansionKeeps, StageUnitKeeps, StageSolvedKeeps, StageGaveUpKeeps, BuildDoneKeeps,
   WalkDoneKeeps, PolishUnitKeeps, PolishDoneKeeps, Zenon DEF Advance

LEMMA StepKeeps == IInv /\ [Next]_vars => IInv'
<1> SUFFICES ASSUME IInv, [Next]_vars PROVE IInv'
  OBVIOUS
<1>1. CASE Advance
  BY <1>1, AdvanceKeeps
<1>2. ASSUME NEW reason \in {"time_limit", "cancelled"}, Stop(reason)
      PROVE  IInv'
  BY <1>2, StopKeeps
<1>3. CASE UNCHANGED vars
  BY <1>3 DEF vars, IInv, Given, LowOk, PolishOk, GrowOk, FillOk, CurOk, RoomOk, LadderOk,
     Searching, P
<1> QED
  BY <1>1, <1>2, <1>3 DEF Next, Terminated

(* Through every pop, push, phase, restart, stage, build, polish and stop, *)
(* whatever the allocator answers, the arena's records are linked by real  *)
(* pushes from the start, its table binds its live records and its growth  *)
(* runs ahead of the next insert (engine.rs 1202-1709, arena.rs 650-694).  *)
THEOREM Inductive == Spec => []IInv
<1>1. Init => IInv
  BY InitHolds
<1>2. IInv /\ [Next]_vars => IInv'
  BY StepKeeps
<1> QED
  BY <1>1, <1>2, PTL DEF Spec

-----------------------------------------------------------------------------
(* What it gives of the checked invariants.                                *)

LEMMA RouteRealHolds == IInv => RouteReal
<1> SUFFICES ASSUME IInv PROVE RouteReal
  OBVIOUS
<1>1. ASSUME NEW i \in 1 .. Len(arena.recs)
      PROVE  LET r == arena.recs[i] IN
             IF r.par = NoId THEN r.st = Start /\ r.g = 0
             ELSE /\ r.par < i
                  /\ \E e \in Range1(board.succ[arena.recs[r.par].st]) :
                       e.to = r.st /\ r.g = arena.recs[r.par].g + e.cost
  BY <1>1 DEF IInv, Sound, Real, Reached, Follows
<1>2. incumbent # NoId => Solved(arena.recs[incumbent].st)
  BY DEF IInv, SolvedId
<1>3. ladder.phase = "solved" => Solved(arena.recs[ladder.at].st)
  BY EmptyValues DEF IInv, LadderOk, Climbing
<1> QED
  BY <1>1, <1>2, <1>3 DEF RouteReal

LEMMA PrunesSoundHolds == IInv => PrunesSound
<1> SUFFICES ASSUME IInv, PoppedLive, ~PoppedSolved, PoppedDominated
             PROVE  LET r == arena.recs[Popped.id] IN r.g + board.dist[r.st] >= IncumbentMoves
  BY DEF PrunesSound
<1> DEFINE r == arena.recs[Popped.id]
<1>1. Ready /\ arena.queue # {}
  BY DEF PoppedLive
<1>2. Popped \in arena.queue /\ Popped.id \in 1 .. Len(arena.recs) /\ Popped.h \in Nat
  BY <1>1, PoppedFacts
<1>3. arena.recs \in Seq(Records) /\ board \in Boards /\ Sane(policy, P)
  BY SoundUpward, ArenaFields, PolicyFacts DEF IInv, Given, P
<1>4. r.g \in Nat /\ r.st \in States
  BY <1>2, <1>3, RecordFields
<1>5. board.dist[r.st] \in Nat
  BY <1>3, <1>4, BoardFacts
<1>6. IncumbentMoves \in Nat
  <2>1. CASE incumbent = NoId
    BY <2>1, BoardAssumption DEF IncumbentMoves, MovesOf
  <2>2. CASE incumbent # NoId
    <3>1. incumbent \in 1 .. Len(arena.recs)
      BY <2>2, SoundUpward DEF IInv, SolvedId, NoId
    <3> QED
      BY <1>3, <2>2, <3>1, RecordFields DEF IncumbentMoves, MovesOf
  <2> QED
    BY <2>1, <2>2
<1>7. r.g >= IncumbentMoves \/ (P.prunePopped /\ r.g + Popped.h >= IncumbentMoves)
  BY DEF PoppedDominated
<1>8. P.prunePopped => Popped.h <= board.dist[r.st]
  BY <1>2, <1>3 DEF Sane, IInv, LowOk, Low
<1> HIDE DEF r
<1>9. r.g + board.dist[r.st] >= IncumbentMoves
  BY <1>2, <1>4, <1>5, <1>6, <1>7, <1>8
<1> QED
  BY <1>9 DEF r

LEMMA GrowthAheadHolds == IInv => GrowthAhead
<1> SUFFICES ASSUME IInv PROVE GrowthAhead
  OBVIOUS
<1>1. /\ Len(arena.recs) \in Nat /\ arena.limit \in Nat \ {0} /\ arena.reserved \in Nat
      /\ arena.starved \in BOOLEAN
  BY SoundUpward, ArenaFields DEF IInv
<1>2. ASSUME status = "running", polish = NoPolish
      PROVE  /\ Grows(arena) /\ (ladder = NoLadder => ~arena.starved)
  BY <1>2, EmptyValues DEF IInv, GrowOk, Searching
<1>3. Len(arena.recs) <= Room(arena) \/ arena.reserved = 0
  BY DEF IInv, Sound, Housed
<1>4. ASSUME status = "running", polish = NoPolish, ~arena.starved
      PROVE  Len(arena.recs) < Room(arena) \/ Len(arena.recs) > arena.limit
  <2>1. /\ Len(arena.recs) <= arena.limit
        /\ Len(arena.recs) + 1 < arena.reserved \/ arena.reserved > arena.limit
    BY <1>2, <1>4 DEF Grows, Buffered
  <2> QED
    BY <1>1, <2>1 DEF Room, Lesser
<1>5. ASSUME ladder.phase = "solved", ~arena.starved
      PROVE  Cardinality(Path(arena, ladder.at)) < arena.limit
  <2>1. /\ Cardinality(Path(arena, ladder.at)) < Len(arena.recs)
        /\ ladder.at \in 1 .. Len(arena.recs)
    BY <1>5, RouteShort
  <2>2. Len(arena.recs) <= arena.limit
    BY <1>5, EndedFacts DEF Grows
  <2>3. Cardinality(Path(arena, ladder.at)) \in Nat
    BY <2>1, SoundUpward, PathFacts DEF IInv
  <2> QED
    BY <1>1, <2>1, <2>2, <2>3
<1> QED
  BY <1>2, <1>3, <1>4, <1>5 DEF GrowthAhead

(* Every route read from the arena replays: whatever mix of phases,        *)
(* restarts that keep a path and stages that reseed on a copy filled it,   *)
(* each record is one push of its cost from its parent, up to the start,   *)
(* and the incumbent's and the ladder's are solved (engine.rs 1652-1709).  *)
THEOREM RoutesAreReal == Spec => []RouteReal
<1>1. IInv => RouteReal
  BY RouteRealHolds
<1> QED
  BY <1>1, Inductive, PTL

(* No pop is dropped while a route through it is shorter than the          *)
(* incumbent, in any phase and after any restart or stage (engine.rs       *)
(* 1333-1341).                                                             *)
THEOREM PrunesAreSound == Spec => []PrunesSound
<1>1. IInv => PrunesSound
  BY PrunesSoundHolds
<1> QED
  BY <1>1, Inductive, PTL

(* A running search never inserts into an arena with no room: the next     *)
(* insert, a full arena's spare slot, the ladder's reseeds and the restart *)
(* that carries the ladder's route included (arena.rs 315-329, 650-694,    *)
(* engine.rs 668-670, 1168-1188, 1563-1567).                               *)
THEOREM GrowthRunsAhead == Spec => []GrowthAhead
<1>1. IInv => GrowthAhead
  BY GrowthAheadHolds
<1> QED
  BY <1>1, Inductive, PTL

-----------------------------------------------------------------------------
(* The inductive invariant of an exact search.                             *)

(* The moves from which a route is of no use.                              *)
Enough == Lesser(Inf, IncumbentMoves)

(* Push e of record i, and the least moves of a route through it.          *)
ThroughF(i, e) == arena.recs[i].g + e.cost + board.dist[e.to]

Recorded(s, g) ==
  \E k \in 1 .. Len(arena.recs) : arena.recs[k].st = s /\ arena.recs[k].g <= g

QueuedBelow(i, f) == \E q \in arena.queue : q.id = i /\ q.f <= f

(* Push e of record i is useless, made as cheaply, or still accounted for. *)
Covered(i, e) ==
  \/ ThroughF(i, e) >= Enough
  \/ Recorded(e.to, arena.recs[i].g + e.cost)
  \/ QueuedBelow(i, ThroughF(i, e))
  \/ interrupted <= ThroughF(i, e)

(* The same of a push of the expansion under way, which still has it to    *)
(* try or has left it out.                                                 *)
Settled(e) ==
  \/ ThroughF(cur.id, e) >= Enough
  \/ Recorded(e.to, arena.recs[cur.id].g + e.cost)
  \/ e \in Range1(cur.todo) /\ CurF <= ThroughF(cur.id, e)
  \/ cur.deferred <= ThroughF(cur.id, e)

Edges(i) == Range1(board.succ[arena.recs[i].st])

(* Record i, and the least moves of a route through it.                    *)
OverF(i) == arena.recs[i].g + board.dist[arena.recs[i].st]

Accounted(i) ==
  IF arena.recs[i].closed THEN \A e \in Edges(i) : Covered(i, e)
  ELSE OverF(i) < Enough => QueuedBelow(i, OverF(i))

Complete ==
  \A i \in 1 .. Len(arena.recs) : ~arena.recs[i].sup /\ i # cur.id => Accounted(i)

(* The expansion under way is of a closed record, and what it leaves out   *)
(* lies above it.                                                          *)
Opening ==
  cur # Idle =>
    /\ cur.id \in 1 .. Len(arena.recs)
    /\ arena.recs[cur.id].closed /\ ~arena.recs[cur.id].sup
    /\ cur.deferred = Inf \/ cur.deferred > CurF
    /\ cur.partial => arena.recs[cur.id].st # Start
    /\ \A e \in Edges(cur.id) : Settled(e)

(* The records: no position of theirs is on a shorter route than there is, *)
(* the live one of a position is the cheapest, the start's have no moves,  *)
(* and a solved one was recorded as a route when it was stored.            *)
Charted ==
  /\ Recorded(Start, 0)
  /\ \A k \in 1 .. Len(arena.recs) :
       LET r == arena.recs[k] IN
       /\ r.st = Start => r.g = 0
       /\ r.g + board.dist[r.st] >= board.opt
       /\ \E j \in 1 .. Len(arena.recs) :
            ~arena.recs[j].sup /\ arena.recs[j].st = r.st /\ arena.recs[j].g <= r.g
       /\ r.closed => ~Solved(r.st)
       /\ Solved(r.st) => r.g = 0 \/ incumbent # NoId

Keyed ==
  \A q \in arena.queue :
    /\ q.f = arena.recs[q.id].g + q.h
    /\ Solved(arena.recs[q.id].st) => q.h = 0

(* What ended it: no route, or one that nothing left can improve.          *)
Ends ==
  /\ status = "running" => interrupted = Inf
  /\ status = "exhausted" => incumbent = NoId /\ board.opt >= Inf
  /\ status = "solved" =>
       /\ incumbent # NoId
       /\ interrupted = Inf
       /\ \A q \in arena.queue : q.f >= Enough

(* It stages, polishes and restarts nothing.                               *)
Plain ==
  /\ ladder = NoLadder /\ ~mayStage
  /\ polish = NoPolish /\ polished = Inf
  /\ interrupted \in Nat

Exact == Plain /\ Charted /\ Keyed /\ Ends /\ Opening /\ Complete

ExactInv == policy = "exact" => Exact
-----------------------------------------------------------------------------
(* Facts of the policy, the boards and the records.                        *)

LEMMA ExactPolicy ==
  ASSUME policy = "exact"
  PROVE  /\ P.weight = 1 /\ P.goalPop /\ ~P.goalPush /\ P.reopen /\ ~P.prunePopped
         /\ P.next = "none" /\ P.restart = "none" /\ ~P.stage /\ ~P.polish
BY DEF P, Policies

LEMMA ShortestFacts ==
  ASSUME NEW b \in Boards, NEW s \in States
  PROVE  /\ b.dist[s] \in Nat /\ b.dist[s] <= Inf /\ Inf \in Nat \ {0}
         /\ (b.dist[s] = 0) = (s \in Goals)
         /\ \A e \in Range1(b.succ[s]) : b.dist[s] <= e.cost + b.dist[e.to]
         /\ s \notin Goals /\ b.dist[s] < Inf =>
              \E e \in Range1(b.succ[s]) : b.dist[s] = e.cost + b.dist[e.to]
<1> DEFINE ways == {e.cost + b.dist[e.to] : e \in Range1(b.succ[s])}
<1>1. /\ Typed(b) /\ Inf \in Nat \ {0} /\ Shortest(b)
      /\ \A e \in Range1(b.succ[s]) : e.cost >= 1
  BY BoardAssumption DEF Admissible
<1>2. b.dist[s] \in Nat /\ b.dist[s] <= Inf
  BY <1>1 DEF Typed
<1>3. \A e \in Range1(b.succ[s]) : /\ e.to \in States /\ e.cost \in Nat /\ e.cost >= 1
                                   /\ b.dist[e.to] \in Nat
  BY <1>1, EdgeFacts, BoardFacts
<1>4. \A n \in ways : n \in Nat /\ n >= 1
  BY <1>3
<1>5. b.dist[s] = IF s \in Goals THEN 0 ELSE Least({Inf} \cup ways)
  BY <1>1 DEF Shortest
<1>6. CASE s \in Goals
  BY <1>1, <1>2, <1>3, <1>5, <1>6
<1>7. CASE s \notin Goals
  <2>1. {Inf} \cup ways \in SUBSET Nat /\ {Inf} \cup ways # {}
    BY <1>1, <1>4
  <2>2. PICK m \in {Inf} \cup ways : \A k \in {Inf} \cup ways : m <= k
    BY <2>1, LeastNumber
  <2>3. /\ Least({Inf} \cup ways) \in {Inf} \cup ways
        /\ \A k \in {Inf} \cup ways : Least({Inf} \cup ways) <= k
    BY <2>2 DEF Least
  <2>4. /\ b.dist[s] \in {Inf} \cup ways
        /\ \A k \in {Inf} \cup ways : b.dist[s] <= k
    BY <1>5, <1>7, <2>3
  <2>5. b.dist[s] # 0
    BY <1>1, <1>4, <2>4
  <2>6. \A e \in Range1(b.succ[s]) : b.dist[s] <= e.cost + b.dist[e.to]
    BY <2>4
  <2>7. b.dist[s] < Inf => \E e \in Range1(b.succ[s]) : b.dist[s] = e.cost + b.dist[e.to]
    BY <1>1, <2>4
  <2> QED
    BY <1>1, <1>2, <1>7, <2>5, <2>6, <2>7
<1> QED
  BY <1>6, <1>7

LEMMA EstimateFacts ==
  ASSUME NEW b \in Boards, NEW s \in States
  PROVE  /\ b.room[s] <= b.dist[s] /\ b.term[s] <= b.dist[s]
         /\ s \in b.corral => b.dist[s] = Inf
         /\ s \in Goals => b.est[s] = 0
         /\ \A e \in Range1(b.succ[s]) :
              /\ e.to \in States /\ e.cost \in Nat /\ e.charge \in Nat /\ e.ahead \in Nat
              /\ e.cost >= 1 /\ e.charge <= e.cost - 1
              /\ b.dist[e.to] < Inf => b.est[e.to] + e.ahead <= b.dist[e.to]
              /\ s # Start => b.est[s] <= 1 + e.charge + b.est[e.to]
<1>1. Admissible(b) /\ Typed(b)
  BY BoardAssumption
<1>2. \A e \in Range1(b.succ[s]) :
        e.to \in States /\ e.cost \in Nat /\ e.charge \in Nat /\ e.ahead \in Nat
  BY EdgeFacts
<1>3. b.dist[s] \in Nat /\ b.dist[s] <= Inf /\ Inf \in Nat
  BY ShortestFacts
<1>4. /\ b.room[s] <= b.dist[s] /\ b.term[s] <= b.dist[s]
      /\ s \in b.corral => b.dist[s] >= Inf
      /\ s \in Goals => b.est[s] = 0
  BY <1>1 DEF Admissible
<1>5. \A e \in Range1(b.succ[s]) :
        /\ e.cost >= 1 /\ e.charge <= e.cost - 1
        /\ b.dist[e.to] < Inf => b.est[e.to] + e.ahead <= b.dist[e.to]
        /\ s # Start => b.est[s] <= 1 + e.charge + b.est[e.to]
  BY <1>1 DEF Admissible
<1> QED
  BY <1>2, <1>3, <1>4, <1>5

LEMMA RecordFacts ==
  ASSUME IInv, NEW k \in 1 .. Len(arena.recs)
  PROVE  /\ arena.recs[k].st \in States /\ arena.recs[k].g \in Nat
         /\ arena.recs[k].closed \in BOOLEAN /\ arena.recs[k].sup \in BOOLEAN
         /\ arena.recs[k].h = board.est[arena.recs[k].st]
         /\ board.dist[arena.recs[k].st] \in Nat /\ OverF(k) \in Nat
         /\ \A e \in Edges(k) : ThroughF(k, e) \in Nat /\ ThroughF(k, e) >= OverF(k)
         /\ \A e \in Edges(k) : ThroughF(k, e) >= arena.recs[k].g + 1
<1>1. board \in Boards /\ arena.recs \in Seq(Records) /\ k \in Nat
  BY SoundUpward, ArenaFields DEF IInv, Given
<1>2. /\ arena.recs[k].st \in States /\ arena.recs[k].g \in Nat
      /\ arena.recs[k].closed \in BOOLEAN /\ arena.recs[k].sup \in BOOLEAN
  BY <1>1, RecordFields
<1>3. arena.recs[k].h = board.est[arena.recs[k].st]
  BY DEF IInv, Sound, Real, Reached
<1>4. PICK s \in States : s = arena.recs[k].st
  BY <1>2
<1>5. board.dist[s] \in Nat
  BY <1>1, <1>4, ShortestFacts
<1>6. \A e \in Range1(board.succ[s]) :
        /\ e.cost \in Nat /\ e.cost >= 1 /\ board.dist[e.to] \in Nat
        /\ board.dist[s] <= e.cost + board.dist[e.to]
  BY <1>1, <1>4, ShortestFacts, EstimateFacts
<1>7. Edges(k) = Range1(board.succ[s]) /\ OverF(k) = arena.recs[k].g + board.dist[s]
  BY <1>4 DEF Edges, OverF
<1>8. ASSUME NEW e \in Edges(k)
      PROVE  /\ ThroughF(k, e) \in Nat /\ ThroughF(k, e) >= OverF(k)
             /\ ThroughF(k, e) >= arena.recs[k].g + 1
  <2>1. /\ e.cost \in Nat /\ e.cost >= 1 /\ board.dist[e.to] \in Nat
        /\ board.dist[s] <= e.cost + board.dist[e.to]
    BY <1>6, <1>7
  <2>2. ThroughF(k, e) = arena.recs[k].g + e.cost + board.dist[e.to]
    BY DEF ThroughF
  <2> QED
    BY SMTT(40), <1>2, <1>5, <1>7, <2>1, <2>2
<1>9. OverF(k) \in Nat /\ board.dist[arena.recs[k].st] \in Nat
  BY <1>2, <1>4, <1>5, <1>7
<1> QED
  BY <1>2, <1>3, <1>8, <1>9

LEMMA MovesFacts ==
  ASSUME NEW b, NEW a, NEW id, Sound(b, a), SolvedId(a, id)
  PROVE  MovesOf(a, id) \in Nat /\ (id # NoId => id \in 1 .. Len(a.recs))
<1>1. Inf \in Nat
  BY BoardAssumption
<1>2. Len(a.recs) \in Nat /\ a.recs \in Seq(Records)
  BY SoundUpward, ArenaFields
<1>3. CASE id = NoId
  BY <1>1, <1>3 DEF MovesOf
<1>4. CASE id # NoId
  <2>1. id \in 1 .. Len(a.recs)
    BY <1>2, <1>4 DEF SolvedId, NoId
  <2>2. a.recs[id].g \in Nat
    BY <1>2, <2>1, RecordFields
  <2> QED
    BY <1>4, <2>1, <2>2 DEF MovesOf
<1> QED
  BY <1>3, <1>4

LEMMA EnoughFacts ==
  ASSUME IInv
  PROVE  /\ Enough \in Nat /\ Enough <= Inf /\ Enough <= IncumbentMoves /\ Inf \in Nat
         /\ IncumbentMoves \in Nat
<1>1. Inf \in Nat
  BY BoardAssumption
<1>2. IncumbentMoves \in Nat
  BY MovesFacts DEF IInv, IncumbentMoves
<1> QED
  BY <1>1, <1>2 DEF Enough, Lesser

LEMMA EnoughNext ==
  ASSUME IInv'
  PROVE  /\ Enough' \in Nat /\ Enough' <= Inf /\ Enough' <= IncumbentMoves'
         /\ IncumbentMoves' \in Nat
<1>1. Inf \in Nat
  BY BoardAssumption
<1>2. Sound(board', arena') /\ SolvedId(arena', incumbent')
  BY DEF IInv
<1>3. MovesOf(arena', incumbent') \in Nat
  BY <1>2, MovesFacts
<1>4. IncumbentMoves' \in Nat
  BY <1>3 DEF IncumbentMoves
<1> QED
  BY <1>1, <1>4 DEF Enough, Lesser

LEMMA KeyBounds ==
  ASSUME NEW b, NEW a, Sound(b, a), NEW q \in a.queue
  PROVE  q.id \in 1 .. Len(a.recs) /\ q.f \in Nat /\ q.h \in Nat
<1>1. a.queue \in SUBSET Keys
  BY SoundUpward, ArenaFields
<1> QED
  BY <1>1 DEF Keys, Sound, Queued

-----------------------------------------------------------------------------
(* What a step of the search leaves accounted for.                         *)

(* Records stay, and only become superseded.                               *)
Grown ==
  /\ board' = board
  /\ Len(arena.recs) <= Len(arena'.recs)
  /\ \A i \in 1 .. Len(arena.recs) :
       Alike(arena'.recs[i], arena.recs[i]) /\ (arena.recs[i].sup => arena'.recs[i].sup)

(* Taking entry q out leaves its record accounted for.                     *)
Passed(q) ==
  \/ arena.recs[q.id].sup
  \/ q.f >= Enough' \/ OverF(q.id) >= Enough'
  \/ q.id = cur'.id
  \/ \E p \in arena'.queue : p.id = q.id /\ (p.f <= q.f \/ p.f <= OverF(q.id))

LEMMA GrownFacts ==
  ASSUME IInv, Grown, NEW k \in 1 .. Len(arena.recs)
  PROVE  /\ k \in 1 .. Len(arena'.recs) /\ Alike(arena'.recs[k], arena.recs[k])
         /\ arena'.recs[k].st = arena.recs[k].st /\ arena'.recs[k].g = arena.recs[k].g
         /\ arena.recs[k].sup => arena'.recs[k].sup
         /\ OverF(k)' = OverF(k) /\ Edges(k)' = Edges(k)
         /\ \A e : ThroughF(k, e)' = ThroughF(k, e)
<1>1. Len(arena.recs) \in Nat
  BY SoundUpward DEF IInv
<1>2. Alike(arena'.recs[k], arena.recs[k]) /\ (arena.recs[k].sup => arena'.recs[k].sup)
  BY DEF Grown
<1>4. k \in 1 .. Len(arena'.recs)
  BY <1>1 DEF Grown
<1>5. arena'.recs[k].st = arena.recs[k].st /\ arena'.recs[k].g = arena.recs[k].g /\ board' = board
  BY <1>2 DEF Alike, Grown
<1> QED
  BY <1>2, <1>4, <1>5 DEF OverF, Edges, ThroughF

LEMMA RecordedStays ==
  ASSUME IInv, Grown, NEW s, NEW g, Recorded(s, g)
  PROVE  Recorded(s, g)'
<1>1. PICK k \in 1 .. Len(arena.recs) : arena.recs[k].st = s /\ arena.recs[k].g <= g
  BY DEF Recorded
<1>2. /\ k \in 1 .. Len(arena'.recs)
      /\ arena'.recs[k].st = arena.recs[k].st /\ arena'.recs[k].g = arena.recs[k].g
  BY GrownFacts
<1> QED
  BY <1>1, <1>2 DEF Recorded

(* A record that was accounted for still is, when the bound did not rise   *)
(* and the entries taken out leave it so.                                  *)
LEMMA AccountedStays ==
  ASSUME IInv, IInv', Grown, NEW i \in 1 .. Len(arena.recs), Accounted(i),
         ~arena.recs[i].sup, i # cur'.id,
         arena'.recs[i].closed = arena.recs[i].closed,
         Enough' <= Enough, interrupted \in Nat, interrupted' \in Nat,
         interrupted' <= interrupted \/ interrupted >= Inf,
         \A q \in arena.queue : Passed(q)
  PROVE  Accounted(i)'
<1>1. Enough \in Nat /\ Enough' \in Nat /\ Enough <= Inf /\ Inf \in Nat
  BY EnoughFacts, EnoughNext
<1>2. /\ OverF(i)' = OverF(i) /\ Edges(i)' = Edges(i)
      /\ \A e : ThroughF(i, e)' = ThroughF(i, e)
      /\ arena'.recs[i].g = arena.recs[i].g
  BY GrownFacts
<1>3. OverF(i) \in Nat /\ \A e \in Edges(i) : ThroughF(i, e) \in Nat /\ ThroughF(i, e) >= OverF(i)
  BY RecordFacts
<1>4. ASSUME NEW F \in Nat, F >= OverF(i), QueuedBelow(i, F)
      PROVE  F >= Enough' \/ QueuedBelow(i, F)'
  <2>1. PICK q \in arena.queue : q.id = i /\ q.f <= F
    BY <1>4 DEF QueuedBelow
  <2>2. q.f \in Nat
    BY KeyBounds DEF IInv
  <2>3. \/ q.f >= Enough' \/ OverF(i) >= Enough'
        \/ \E p \in arena'.queue : p.id = i /\ (p.f <= q.f \/ p.f <= OverF(i))
    BY <2>1 DEF Passed
  <2>4. CASE q.f >= Enough' \/ OverF(i) >= Enough'
    BY <1>1, <1>3, <1>4, <2>1, <2>2, <2>4
  <2>5. ASSUME NEW p \in arena'.queue, p.id = i, p.f <= q.f \/ p.f <= OverF(i)
        PROVE  QueuedBelow(i, F)'
    <3>1. p.f \in Nat
      BY KeyBounds DEF IInv
    <3>2. p.f <= F
      BY <1>3, <1>4, <2>1, <2>2, <2>5, <3>1
    <3> QED
      BY <2>5, <3>2 DEF QueuedBelow
  <2> QED
    BY <2>3, <2>4, <2>5
<1>5. CASE arena.recs[i].closed
  <2> SUFFICES ASSUME NEW e \in Edges(i) PROVE Covered(i, e)'
    BY <1>2, <1>5 DEF Accounted
  <2>1. /\ ThroughF(i, e) \in Nat /\ ThroughF(i, e) >= OverF(i)
        /\ ThroughF(i, e)' = ThroughF(i, e)
    BY <1>2, <1>3
  <2>2. Covered(i, e)
    BY <1>5 DEF Accounted
  <2>3. CASE ThroughF(i, e) >= Enough
    <3>1. ThroughF(i, e) >= Enough'
      BY <1>1, <2>1, <2>3
    <3> QED
      BY <2>1, <3>1 DEF Covered
  <2>4. CASE Recorded(e.to, arena.recs[i].g + e.cost)
    <3>1. Recorded(e.to, arena.recs[i].g + e.cost)'
      <4>1. PICK g : g = arena.recs[i].g + e.cost
        OBVIOUS
      <4>2. Recorded(e.to, g)
        BY <2>4, <4>1
      <4>3. Recorded(e.to, g)'
        BY <4>2, RecordedStays
      <4> QED
        BY <1>2, <4>1, <4>3
    <3> QED
      BY <3>1 DEF Covered
  <2>5. CASE QueuedBelow(i, ThroughF(i, e))
    <3>1. PICK F \in Nat : F = ThroughF(i, e)
      BY <2>1
    <3>2. F >= Enough' \/ QueuedBelow(i, F)'
      BY <1>4, <2>1, <2>5, <3>1
    <3>3. F = ThroughF(i, e)'
      BY <2>1, <3>1
    <3> QED
      BY <3>2, <3>3 DEF Covered
  <2>6. CASE interrupted <= ThroughF(i, e)
    <3>1. interrupted' <= ThroughF(i, e) \/ ThroughF(i, e) >= Enough'
      BY <1>1, <2>1, <2>6
    <3> QED
      BY <2>1, <3>1 DEF Covered
  <2> QED
    BY <2>2, <2>3, <2>4, <2>5, <2>6 DEF Covered
<1>6. CASE ~arena.recs[i].closed
  <2> SUFFICES ASSUME OverF(i) < Enough' PROVE QueuedBelow(i, OverF(i))'
    BY <1>2, <1>6 DEF Accounted
  <2>1. OverF(i) < Enough
    BY <1>1, <1>3
  <2>2. QueuedBelow(i, OverF(i))
    BY <1>6, <2>1 DEF Accounted
  <2>3. PICK F \in Nat : F = OverF(i)
    BY <1>3
  <2>4. F >= Enough' \/ QueuedBelow(i, F)'
    BY <1>4, <2>2, <2>3
  <2>5. QueuedBelow(i, F)' /\ F = OverF(i)'
    BY <1>1, <1>2, <2>3, <2>4
  <2> QED
    BY <2>5
<1> QED
  BY <1>5, <1>6

LEMMA CompleteKeeps ==
  ASSUME IInv, IInv', Grown, Complete, Enough' <= Enough,
         interrupted \in Nat, interrupted' \in Nat,
         interrupted' <= interrupted \/ interrupted >= Inf,
         \A q \in arena.queue : Passed(q),
         \A i \in 1 .. Len(arena.recs) :
           i # cur'.id => arena'.recs[i].closed = arena.recs[i].closed,
         \A i \in 1 .. Len(arena.recs) : i = cur.id /\ i # cur'.id => Accounted(i)',
         \A i \in Len(arena.recs) + 1 .. Len(arena'.recs) : Accounted(i)'
  PROVE  Complete'
<1> SUFFICES ASSUME NEW i \in 1 .. Len(arena'.recs), ~arena'.recs[i].sup, i # cur'.id
             PROVE  Accounted(i)'
  BY DEF Complete
<1>1. Len(arena.recs) \in Nat /\ Len(arena'.recs) \in Nat
  BY SoundUpward DEF IInv
<1>2. CASE i \in Len(arena.recs) + 1 .. Len(arena'.recs)
  BY <1>2
<1>3. CASE i \in 1 .. Len(arena.recs) /\ i = cur.id
  BY <1>3
<1>4. CASE i \in 1 .. Len(arena.recs) /\ i # cur.id
  <2>1. ~arena.recs[i].sup
    BY <1>4, GrownFacts
  <2>2. Accounted(i)
    BY <1>4, <2>1 DEF Complete
  <2>3. arena'.recs[i].closed = arena.recs[i].closed
    BY <1>4
  <2> QED
    BY <1>4, <2>1, <2>2, <2>3, AccountedStays
<1> QED
  BY <1>1, <1>2, <1>3, <1>4

(* What only moves entries and closes records that are not solved keeps    *)
(* the records charted.                                                    *)
LEMMA ChartedSame ==
  ASSUME IInv, Charted, SameButQueue(arena, arena'), board' = board,
         incumbent = NoId \/ incumbent' # NoId,
         \A k \in 1 .. Len(arena.recs) :
           arena'.recs[k].closed => arena.recs[k].closed \/ ~Solved(arena.recs[k].st)
  PROVE  Charted'
<1>1. Len(arena'.recs) = Len(arena.recs)
  BY DEF SameButQueue
<1>2. \A k \in 1 .. Len(arena.recs) :
        /\ arena'.recs[k].st = arena.recs[k].st /\ arena'.recs[k].g = arena.recs[k].g
        /\ arena'.recs[k].sup = arena.recs[k].sup
  BY DEF SameButQueue, Alike
<1>3. Recorded(Start, 0)'
  BY <1>1, <1>2 DEF Charted, Recorded
<1>4. ASSUME NEW k \in 1 .. Len(arena.recs)
      PROVE  LET r == arena'.recs[k] IN
             /\ r.st = Start => r.g = 0
             /\ r.g + board.dist[r.st] >= board.opt
             /\ \E j \in 1 .. Len(arena'.recs) :
                  ~arena'.recs[j].sup /\ arena'.recs[j].st = r.st /\ arena'.recs[j].g <= r.g
             /\ r.closed => ~Solved(r.st)
             /\ Solved(r.st) => r.g = 0 \/ incumbent' # NoId
  <2>1. LET r == arena.recs[k] IN
        /\ r.st = Start => r.g = 0
        /\ r.g + board.dist[r.st] >= board.opt
        /\ \E j \in 1 .. Len(arena.recs) :
             ~arena.recs[j].sup /\ arena.recs[j].st = r.st /\ arena.recs[j].g <= r.g
        /\ r.closed => ~Solved(r.st)
        /\ Solved(r.st) => r.g = 0 \/ incumbent # NoId
    BY DEF Charted
  <2> QED
    BY <1>1, <1>2, <2>1
<1> QED
  BY <1>1, <1>3, <1>4 DEF Charted

LEMMA KeyedKeeps ==
  ASSUME IInv, Keyed, Grown,
         \A q \in arena'.queue :
           q \in arena.queue \/
             /\ q.f = arena'.recs[q.id].g + q.h
             /\ Solved(arena'.recs[q.id].st) => q.h = 0
  PROVE  Keyed'
<1> SUFFICES ASSUME NEW q \in arena'.queue, q \in arena.queue
             PROVE  /\ q.f = arena'.recs[q.id].g + q.h
                    /\ Solved(arena'.recs[q.id].st) => q.h = 0
  BY DEF Keyed
<1>1. q.id \in 1 .. Len(arena.recs)
  BY DEF IInv, Sound, Queued
<1>2. arena'.recs[q.id].st = arena.recs[q.id].st /\ arena'.recs[q.id].g = arena.recs[q.id].g
  BY <1>1, GrownFacts
<1> QED
  BY <1>2 DEF Keyed

LEMMA SameGrown ==
  ASSUME IInv, SameButQueue(arena, arena'), board' = board
  PROVE  /\ Grown /\ Len(arena'.recs) = Len(arena.recs) /\ Len(arena.recs) \in Nat
         /\ \A i \in 1 .. Len(arena.recs) : arena'.recs[i].sup = arena.recs[i].sup
         /\ Len(arena.recs) + 1 .. Len(arena'.recs) = {}
<1>1. Len(arena.recs) \in Nat /\ Len(arena'.recs) = Len(arena.recs)
  BY SoundUpward DEF IInv, SameButQueue
<1>2. \A i \in 1 .. Len(arena.recs) :
        Alike(arena'.recs[i], arena.recs[i]) /\ arena'.recs[i].sup = arena.recs[i].sup
  BY DEF SameButQueue
<1> QED
  BY <1>1, <1>2 DEF Grown

(* The bound falls with the incumbent.                                     *)
LEMMA EnoughFalls ==
  ASSUME IInv, IInv', Grown, incumbent' = incumbent
  PROVE  Enough' = Enough /\ IncumbentMoves' = IncumbentMoves
<1>1. incumbent # NoId => incumbent \in 1 .. Len(arena.recs)
  BY MovesFacts DEF IInv
<1>2. IncumbentMoves' = IncumbentMoves
  BY <1>1, GrownFacts DEF IncumbentMoves, MovesOf
<1> QED
  BY <1>2 DEF Enough

LEMMA EnoughLower ==
  ASSUME IInv, IInv', IncumbentMoves' <= IncumbentMoves \/ IncumbentMoves >= Inf
  PROVE  Enough' <= Enough
<1>1. /\ Enough' \in Nat /\ Enough \in Nat /\ IncumbentMoves \in Nat /\ IncumbentMoves' \in Nat
      /\ Inf \in Nat
  BY EnoughFacts, EnoughNext
<1> QED
  BY <1>1 DEF Enough, Lesser

-----------------------------------------------------------------------------
(* The expansion under way.                                                *)

(* A push was tried: the expansion goes on, or the next has its turn.      *)
LEMMA OpeningStays ==
  ASSUME IInv, IInv', Opening, cur # Idle, cur.todo # << >>, Grown, Enough' <= Enough,
         cur'.id = cur.id, cur'.h = cur.h, cur'.partial = cur.partial,
         cur'.todo = Tail(cur.todo),
         cur.deferred \in Nat, cur'.deferred \in Nat, cur'.deferred <= cur.deferred,
         cur'.deferred = Inf \/ cur'.deferred > CurF,
         arena'.recs[cur.id].closed = arena.recs[cur.id].closed, ~arena'.recs[cur.id].sup,
         \/ ThroughF(cur.id, Push) >= Enough'
         \/ \E j \in 1 .. Len(arena'.recs) :
              /\ arena'.recs[j].st = Push.to
              /\ arena'.recs[j].g <= arena.recs[cur.id].g + Push.cost
         \/ cur'.deferred <= ThroughF(cur.id, Push)
  PROVE  Opening'
<1> DEFINE i == cur.id
<1>1. /\ i \in 1 .. Len(arena.recs) /\ arena.recs[i].closed
      /\ cur.partial => arena.recs[i].st # Start
      /\ \A e \in Edges(i) : Settled(e)
  BY DEF Opening
<1>2. PICK k \in 1 .. Len(arena.recs) : k = cur.id
  BY <1>1
<1>3. /\ k \in 1 .. Len(arena'.recs)
      /\ arena'.recs[k].st = arena.recs[k].st /\ arena'.recs[k].g = arena.recs[k].g
      /\ Edges(k)' = Edges(k) /\ \A e : ThroughF(k, e)' = ThroughF(k, e)
  BY GrownFacts
<1>4. /\ Enough \in Nat /\ Enough' \in Nat
  BY EnoughFacts, EnoughNext
<1>5. \A e \in Edges(k) : ThroughF(k, e) \in Nat
  BY RecordFacts
<1>6. CurF' = CurF
  BY <1>2, <1>3 DEF CurF
<1>7. \A e \in Range1(cur.todo) : e = Push \/ e \in Range1(cur'.todo)
  <2> SUFFICES ASSUME NEW n \in 1 .. Len(cur.todo), cur.todo[n] # Push
               PROVE  cur.todo[n] \in Range1(Tail(cur.todo))
    BY DEF Range1
  <2>1. PICK S : cur.todo \in Seq(S)
    BY DEF IInv, CurOk, Fits
  <2>2. /\ Len(cur.todo) \in Nat /\ Len(Tail(cur.todo)) = Len(cur.todo) - 1
        /\ \A m \in 1 .. Len(Tail(cur.todo)) : Tail(cur.todo)[m] = cur.todo[m + 1]
    BY <2>1, HeadTailProperties, LenProperties
  <2>3. n # 1
    BY DEF Push
  <2>4. n - 1 \in 1 .. Len(Tail(cur.todo)) /\ cur.todo[n] = Tail(cur.todo)[n - 1]
    BY <2>2, <2>3
  <2> QED
    BY <2>4 DEF Range1
<1>8. ASSUME NEW e \in Edges(k) PROVE Settled(e)'
  <2>0. PICK g : g = arena.recs[k].g + e.cost
    OBVIOUS
  <2>1. /\ ThroughF(k, e)' = ThroughF(k, e) /\ ThroughF(k, e) \in Nat
        /\ arena'.recs[cur'.id].g + e.cost = g /\ cur'.id = k
        /\ ThroughF(cur.id, e) = ThroughF(k, e)
    BY <1>2, <1>3, <1>5, <2>0
  <2>2. Settled(e) /\ Settled(e) = (\/ ThroughF(k, e) >= Enough
                                    \/ Recorded(e.to, g)
                                    \/ e \in Range1(cur.todo) /\ CurF <= ThroughF(k, e)
                                    \/ cur.deferred <= ThroughF(k, e))
    BY <1>1, <1>2, <2>0 DEF Settled
  <2>3. (\/ ThroughF(k, e) >= Enough'
         \/ Recorded(e.to, g)'
         \/ e \in Range1(cur'.todo) /\ CurF' <= ThroughF(k, e)
         \/ cur'.deferred <= ThroughF(k, e)) => Settled(e)'
    <3>1. ThroughF(cur.id, e)' = ThroughF(k, e)
      BY <2>1 DEF ThroughF
    <3> QED
      BY <2>1, <3>1 DEF Settled
  <2>4. CASE ThroughF(k, e) >= Enough
    <3>1. ThroughF(k, e) >= Enough'
      BY <1>4, <2>1, <2>4
    <3> QED
      BY <2>3, <3>1
  <2>5. CASE Recorded(e.to, g)
    <3>1. Recorded(e.to, g)'
      BY <2>5, RecordedStays
    <3> QED
      BY <2>3, <3>1
  <2>6. CASE e \in Range1(cur.todo) /\ CurF <= ThroughF(k, e) /\ e # Push
    BY <1>6, <1>7, <2>3, <2>6
  <2>7. CASE e = Push
    <3>1. \/ ThroughF(k, e) >= Enough'
          \/ Recorded(e.to, g)'
          \/ cur'.deferred <= ThroughF(k, e)
      BY <1>2, <2>0, <2>1, <2>7 DEF Recorded
    <3> QED
      BY <2>3, <3>1
  <2>8. CASE cur.deferred <= ThroughF(k, e)
    <3>1. cur'.deferred <= ThroughF(k, e)
      BY <2>1, <2>8
    <3> QED
      BY <2>3, <3>1
  <2> QED
    BY <2>2, <2>4, <2>5, <2>6, <2>7, <2>8
<1> QED
  BY <1>1, <1>2, <1>3, <1>6, <1>8 DEF Opening

(* An expansion that ends, at its last push or at a limit, leaves its      *)
(* record accounted for.                                                   *)
LEMMA OpenedAccounted ==
  ASSUME IInv, IInv', Opening, cur # Idle, Grown, Enough' <= Enough,
         cur.deferred \in Nat, interrupted' \in Nat,
         arena'.recs[cur.id].closed = arena.recs[cur.id].closed,
         \/ /\ cur.todo = << >>
            /\ cur.deferred = Inf \/
                 \E q \in arena'.queue : q.id = cur.id /\ q.f <= cur.deferred
         \/ interrupted' <= LimitF,
         NEW k \in 1 .. Len(arena.recs), k = cur.id
  PROVE  Accounted(k)'
<1>1. /\ arena.recs[k].closed /\ \A e \in Edges(k) : Settled(e)
      /\ cur.deferred = Inf \/ cur.deferred > CurF
  BY DEF Opening
<1>2. /\ Edges(k)' = Edges(k) /\ \A e : ThroughF(k, e)' = ThroughF(k, e)
      /\ arena'.recs[k].g = arena.recs[k].g
  BY GrownFacts
<1>3. /\ Enough \in Nat /\ Enough' \in Nat /\ Enough <= Inf /\ Inf \in Nat
  BY EnoughFacts, EnoughNext
<1>4. arena.recs[k].g \in Nat /\ cur.h \in Nat /\ CurF \in Nat
  <2>1. arena.recs[k].g \in Nat /\ cur.h \in Nat
    BY RecordFacts DEF IInv, CurOk, Fits
  <2>2. CurF = arena.recs[k].g + cur.h
    BY DEF CurF
  <2> QED
    BY <2>1, <2>2
<1>5. cur.todo = << >> => Range1(cur.todo) = {}
  <2>1. Len(<< >>) = 0
    BY EmptySeq
  <2>2. 1 .. 0 = {}
    OBVIOUS
  <2> QED
    BY <2>1, <2>2 DEF Range1
<1> SUFFICES ASSUME NEW e \in Edges(k) PROVE Covered(k, e)'
  BY <1>1, <1>2 DEF Accounted
<1>6. PICK g : g = arena.recs[k].g + e.cost
  OBVIOUS
<1>7. PICK F \in Nat : F = ThroughF(k, e) /\ F >= arena.recs[k].g + 1
  BY RecordFacts
<1>8. \/ F >= Enough
      \/ Recorded(e.to, g)
      \/ e \in Range1(cur.todo) /\ CurF <= F
      \/ cur.deferred <= F
  BY <1>1, <1>6, <1>7 DEF Settled
<1>9. (\/ F >= Enough'
       \/ Recorded(e.to, g)'
       \/ QueuedBelow(k, F)'
       \/ interrupted' <= F) => Covered(k, e)'
  <2>1. F = ThroughF(k, e)' /\ g = arena'.recs[k].g + e.cost
    BY <1>2, <1>6, <1>7
  <2> QED
    BY <2>1 DEF Covered
<1>10. CASE F >= Enough
  <2>1. F >= Enough'
    BY <1>3, <1>10
  <2> QED
    BY <1>9, <2>1
<1>11. CASE Recorded(e.to, g)
  <2>1. Recorded(e.to, g)'
    BY <1>11, RecordedStays
  <2> QED
    BY <1>9, <2>1
<1>12. CASE interrupted' <= LimitF /\ (CurF <= F \/ cur.deferred <= F)
  <2>1. CASE cur.deferred = Inf /\ cur.deferred <= F
    <3>1. F >= Enough'
      BY <1>3, <2>1
    <3> QED
      BY <1>9, <3>1
  <2>2. CASE ~(cur.deferred = Inf /\ cur.deferred <= F)
    <3>1. CurF <= F
      BY <1>1, <1>4, <1>12, <2>2
    <3>2. LimitF \in Nat /\ LimitF <= F
      <4>1. arena.recs[k].g + cur.h <= F
        BY <3>1 DEF CurF
      <4> QED
        BY SMTT(40), <1>4, <1>7, <4>1 DEF LimitF
    <3>3. interrupted' <= F
      BY <1>12, <3>2
    <3> QED
      BY <1>9, <3>3
  <2> QED
    BY <2>1, <2>2
<1>13. CASE cur.todo = << >> /\ cur.deferred <= F
            /\ (cur.deferred = Inf \/
                  \E q \in arena'.queue : q.id = cur.id /\ q.f <= cur.deferred)
  <2>1. CASE cur.deferred = Inf
    <3>1. F >= Enough'
      BY <1>3, <1>13, <2>1
    <3> QED
      BY <1>9, <3>1
  <2>2. ASSUME NEW q \in arena'.queue, q.id = cur.id, q.f <= cur.deferred
        PROVE  Covered(k, e)'
    <3>1. q.f \in Nat
      BY KeyBounds DEF IInv
    <3>2. q.f <= F
      BY <1>13, <2>2, <3>1
    <3>3. QueuedBelow(k, F)'
      BY <2>2, <3>2 DEF QueuedBelow
    <3> QED
      BY <1>9, <3>3
  <2> QED
    BY <1>13, <2>1, <2>2
<1> QED
  BY <1>5, <1>8, <1>10, <1>11, <1>12, <1>13

-----------------------------------------------------------------------------
(* Pops of an exact search.                                                *)

LEMMA ExactEnd ==
  ASSUME policy = "exact", NEW st, NEW a, NEW id, NEW cut, End(st, a, id, policy, cut)
  PROVE  /\ status' = st /\ arena' = a /\ incumbent' = id /\ polish' = polish
         /\ interrupted' = cut /\ cur' = Idle /\ ladder' = NoLadder
<1>1. ~Policies[policy].polish
  BY ExactPolicy DEF P
<1> QED
  BY <1>1 DEF End

LEMMA ExactSchedule ==
  ASSUME policy = "exact", NEW g, Schedule(g) \/ KeepSchedule
  PROVE  polished' = polished
BY ExactPolicy DEF Schedule, KeepSchedule

LEMMA IdleFacts == Idle.id = NoId /\ Idle.id \notin 1 .. Len(arena.recs)
<1>1. Idle.id = NoId
  BY DEF Idle
<1>2. \A n : 0 \notin 1 .. n
  OBVIOUS
<1> QED
  BY <1>1, <1>2 DEF NoId

(* A pop that opens nothing: the entry was stale, or no longer useful.     *)
LEMMA PopKeeps ==
  ASSUME IInv, IInv', Exact, Ready, arena.queue # {}, arena' = Dequeue(arena),
         board' = board, cur' = Idle, interrupted' = interrupted,
         incumbent = NoId \/ incumbent' # NoId,
         IncumbentMoves' <= IncumbentMoves \/ IncumbentMoves >= Inf,
         Stale(Popped) \/ arena.recs[Popped.id].g >= Enough'
  PROVE  Charted' /\ Keyed' /\ Opening' /\ Complete'
<1>1. /\ SameButQueue(arena, arena') /\ arena'.recs = arena.recs
      /\ arena'.queue = arena.queue \ {Popped}
  BY SoundUpward, DequeueFacts DEF IInv, Popped
<1>2. /\ Grown /\ Len(arena'.recs) = Len(arena.recs)
      /\ Len(arena.recs) + 1 .. Len(arena'.recs) = {}
  BY <1>1, SameGrown
<1>3. Charted'
  BY <1>1, ChartedSame DEF Exact
<1>4. Keyed'
  BY <1>1, <1>2, KeyedKeeps DEF Exact
<1>5. Opening'
  BY DEF Opening
<1>6. Enough' <= Enough
  BY EnoughLower
<1>7. \A q \in arena.queue : Passed(q)
  <2> SUFFICES ASSUME NEW q \in arena.queue PROVE Passed(q)
    OBVIOUS
  <2>1. q.id \in 1 .. Len(arena.recs) /\ q.f \in Nat /\ q.h \in Nat
    BY KeyBounds DEF IInv
  <2>2. CASE q # Popped
    BY <1>1, <2>1, <2>2 DEF Passed
  <2>3. CASE q = Popped /\ Stale(Popped)
    BY <2>3 DEF Passed, Stale
  <2>4. CASE q = Popped /\ arena.recs[Popped.id].g >= Enough'
    <3>1. q.f = arena.recs[q.id].g + q.h
      BY DEF Exact, Keyed
    <3>2. arena.recs[q.id].g \in Nat /\ Enough' \in Nat
      BY <2>1, RecordFacts, EnoughNext
    <3>3. q.f >= Enough'
      BY <2>1, <2>4, <3>1, <3>2
    <3> QED
      BY <3>3 DEF Passed
  <2> QED
    BY <2>2, <2>3, <2>4
<1>8. Complete'
  <2>1. cur.id \notin 1 .. Len(arena.recs)
    BY IdleFacts DEF Ready
  <2>2. interrupted \in Nat /\ interrupted' \in Nat /\ interrupted' <= interrupted
    BY DEF Exact, Plain
  <2>3. \A i \in 1 .. Len(arena.recs) : arena'.recs[i].closed = arena.recs[i].closed
    BY <1>1
  <2>4. \A i \in Len(arena.recs) + 1 .. Len(arena'.recs) : Accounted(i)'
    BY <1>2
  <2>5. Complete
    BY DEF Exact
  <2> QED
    BY <1>2, <1>6, <1>7, <2>1, <2>2, <2>3, <2>4, <2>5, CompleteKeeps
<1> QED
  BY <1>3, <1>4, <1>5, <1>8

LEMMA ReadyExact ==
  ASSUME IInv, policy = "exact", Exact, Ready
  PROVE  /\ status = "running" /\ cur = Idle /\ interrupted = Inf
         /\ ladder = NoLadder /\ polish = NoPolish /\ polished = Inf
         /\ Inf \in Nat
BY BoardAssumption DEF Exact, Ready, Ends, Plain

LEMMA StaleExact == IInv /\ IInv' /\ policy = "exact" /\ Exact /\ PopStale => Exact'
<1> SUFFICES ASSUME IInv, IInv', policy = "exact", Exact, PopStale PROVE Exact'
  OBVIOUS
<1>1. /\ Ready /\ arena.queue # {} /\ Stale(Popped) /\ arena' = Dequeue(arena)
      /\ UNCHANGED <<board, cur, ladder, status, incumbent, interrupted, mayStage, polish, polished>>
  BY DEF PopStale
<1>2. SameButQueue(arena, arena')
  BY <1>1, SoundUpward, DequeueFacts DEF IInv
<1>3. IncumbentMoves' = IncumbentMoves /\ IncumbentMoves \in Nat
  BY <1>1, <1>2, SameGrown, EnoughFalls, EnoughFacts
<1>4. Charted' /\ Keyed' /\ Opening' /\ Complete'
  <2>1. cur' = Idle /\ IncumbentMoves' <= IncumbentMoves
    BY <1>1, <1>3, ReadyExact
  <2> QED
    BY <1>1, <2>1, PopKeeps
<1>5. Plain' /\ Ends'
  BY <1>1, ReadyExact DEF Exact, Plain, Ends
<1> QED
  BY <1>4, <1>5 DEF Exact

LEMMA PrunedExact == IInv /\ IInv' /\ policy = "exact" /\ Exact /\ PopPruned => Exact'
<1> SUFFICES ASSUME IInv, IInv', policy = "exact", Exact, PopPruned PROVE Exact'
  OBVIOUS
<1>1. /\ Ready /\ arena.queue # {} /\ PoppedDominated /\ arena' = Dequeue(arena)
      /\ UNCHANGED <<board, cur, ladder, status, incumbent, interrupted, mayStage, polish, polished>>
  BY DEF PopPruned, PoppedLive
<1>2. SameButQueue(arena, arena')
  BY <1>1, SoundUpward, DequeueFacts DEF IInv
<1>3. Enough' = Enough /\ IncumbentMoves' = IncumbentMoves
  BY <1>1, <1>2, SameGrown, EnoughFalls
<1>4. IncumbentMoves \in Nat /\ Enough \in Nat /\ Enough <= IncumbentMoves
  BY EnoughFacts
<1>5. arena.recs[Popped.id].g >= Enough'
  <2>1. arena.recs[Popped.id].g >= IncumbentMoves
    BY <1>1, ExactPolicy DEF PoppedDominated
  <2>2. arena.recs[Popped.id].g \in Nat
    BY <1>1, PoppedFacts, RecordFacts
  <2> QED
    BY <1>3, <1>4, <2>1, <2>2
<1>6. Charted' /\ Keyed' /\ Opening' /\ Complete'
  <2>1. cur' = Idle /\ IncumbentMoves' <= IncumbentMoves
    BY <1>1, <1>3, <1>4, ReadyExact
  <2> QED
    BY <1>1, <1>5, <2>1, PopKeeps
<1>7. Plain' /\ Ends'
  BY <1>1, ReadyExact DEF Exact, Plain, Ends
<1> QED
  BY <1>6, <1>7 DEF Exact

LEMMA SolvedExact == IInv /\ IInv' /\ policy = "exact" /\ Exact /\ PopSolved => Exact'
<1> SUFFICES ASSUME IInv, IInv', policy = "exact", Exact, PopSolved PROVE Exact'
  OBVIOUS
<1> DEFINE g == arena.recs[Popped.id].g
           id == IF g < IncumbentMoves THEN Popped.id ELSE incumbent
<1>1. /\ Ready /\ arena.queue # {} /\ PoppedSolved
      /\ Schedule(g) \/ KeepSchedule
      /\ NextPhaseOrEnd(Dequeue(arena), id) /\ cur' = Idle
      /\ KeepStage /\ board' = board
  BY ExactPolicy DEF PopSolved, PoppedLive
<1>2. /\ status' = "solved" /\ arena' = Dequeue(arena) /\ incumbent' = id
      /\ polish' = polish /\ interrupted' = interrupted /\ ladder' = NoLadder
  BY <1>1, ExactPolicy, ExactEnd DEF NextPhaseOrEnd
<1>3. mayStage' = mayStage /\ polished' = polished
  BY <1>1, ExactSchedule DEF KeepStage
<1>4. /\ Popped \in arena.queue /\ Popped.id \in 1 .. Len(arena.recs) /\ Popped.f \in Nat
      /\ Popped.f = g + Popped.h /\ Popped.h = 0 /\ Solved(arena.recs[Popped.id].st)
      /\ g \in Nat
  <2>1. Popped \in arena.queue /\ Popped.id \in 1 .. Len(arena.recs)
    BY <1>1, PoppedFacts
  <2> QED
    BY <1>1, <2>1, KeyBounds, RecordFacts DEF Exact, Keyed, PoppedSolved, IInv
<1>5. /\ SameButQueue(arena, arena') /\ arena'.recs = arena.recs
      /\ arena'.queue = arena.queue \ {Popped}
  BY <1>2, SoundUpward, DequeueFacts DEF IInv, Popped
<1>6. /\ IncumbentMoves \in Nat /\ Enough \in Nat /\ Inf \in Nat
      /\ Enough' \in Nat /\ IncumbentMoves' \in Nat
      /\ Enough' <= IncumbentMoves'
  BY EnoughFacts, EnoughNext
<1>7. incumbent' # NoId
  <2>1. CASE g < IncumbentMoves
    BY <1>2, <1>4, <2>1 DEF NoId
  <2>2. CASE g >= IncumbentMoves
    <3>1. incumbent' = incumbent
      BY <1>2, <1>4, <1>6, <2>2
    <3>2. ASSUME incumbent = NoId PROVE FALSE
      <4>1. g = 0
        BY <1>4, <3>2 DEF Exact, Charted
      <4>2. IncumbentMoves = Inf /\ Inf \in Nat \ {0}
        BY <3>2, BoardAssumption DEF IncumbentMoves, MovesOf
      <4> QED
        BY <2>2, <4>1, <4>2
    <3> QED
      BY <3>1, <3>2
  <2> QED
    BY <1>4, <1>6, <2>1, <2>2
<1>8. IncumbentMoves' <= IncumbentMoves /\ IncumbentMoves' <= g
  <2>1. CASE g < IncumbentMoves
    <3>1. IncumbentMoves' = g
      BY <1>2, <1>5, <1>7, <2>1 DEF IncumbentMoves, MovesOf
    <3> QED
      BY <1>4, <1>6, <2>1, <3>1
  <2>2. CASE ~(g < IncumbentMoves)
    <3>1. IncumbentMoves' = IncumbentMoves
      BY <1>2, <1>5, <2>2 DEF IncumbentMoves, MovesOf
    <3> QED
      BY <1>4, <1>6, <2>2, <3>1
  <2> QED
    BY <2>1, <2>2
<1>9. g >= Enough'
  BY <1>4, <1>6, <1>8
<1> HIDE DEF id
<1>10. Charted' /\ Keyed' /\ Opening' /\ Complete'
  BY <1>1, <1>2, <1>7, <1>8, <1>9, PopKeeps
<1>11. Plain'
  BY <1>2, <1>3 DEF Exact, Plain
<1>12. Ends'
  <2>1. ASSUME NEW q \in arena'.queue PROVE q.f >= Enough'
    <3>1. q \in arena.queue /\ q.f \in Nat
      BY <1>5, KeyBounds DEF IInv
    <3>2. Before(Popped, q)
      BY <1>1, <3>1, SoundUpward, TopFacts DEF IInv, Popped
    <3>3. Popped.f <= q.f
      BY <1>4, <3>1, <3>2 DEF Before
    <3> QED
      BY <1>4, <1>6, <1>9, <3>1, <3>3
  <2> QED
    BY <1>1, <1>2, <1>7, <2>1, ReadyExact DEF Ends
<1> QED
  BY <1>10, <1>11, <1>12 DEF Exact

(* Between two pops, the shortest route goes on from an entry within it,   *)
(* or is accounted for by the incumbent or a limit: of the records within  *)
(* it, take the one nearest to a solved position.                          *)
LEMMA OptimumAhead ==
  ASSUME IInv, Exact, cur = Idle, board.opt < Inf
  PROVE  Enough <= board.opt \/ interrupted <= board.opt \/ \E q \in arena.queue : q.f <= board.opt
<1> SUFFICES ASSUME ~(Enough <= board.opt), ~(interrupted <= board.opt),
                    \A q \in arena.queue : ~(q.f <= board.opt)
             PROVE  FALSE
  OBVIOUS
<1>1. /\ board \in Boards /\ board.opt = board.dist[Start] /\ Start \in States
      /\ board.opt \in Nat /\ Enough \in Nat /\ interrupted \in Nat /\ Inf \in Nat
  <2>1. board \in Boards /\ Start \in States /\ board.opt = board.dist[Start]
    BY BoardAssumption DEF IInv, Given
  <2> QED
    BY <2>1, ShortestFacts, EnoughFacts DEF Exact, Plain
<1> DEFINE Near(k) == ~arena.recs[k].sup /\ OverF(k) <= board.opt
           Ids == 1 .. Len(arena.recs)
           S == {board.dist[arena.recs[k].st] : k \in {j \in Ids : Near(j)}}
<1>2. \A k \in Ids : /\ arena.recs[k].st \in States /\ arena.recs[k].g \in Nat
                     /\ board.dist[arena.recs[k].st] \in Nat /\ OverF(k) \in Nat
                     /\ OverF(k) = arena.recs[k].g + board.dist[arena.recs[k].st]
                     /\ arena.recs[k].closed \in BOOLEAN
  BY RecordFacts DEF OverF
<1>3. \A s, g : g \in Nat /\ s \in States /\ Recorded(s, g) /\ g + board.dist[s] <= board.opt =>
        \E j \in Ids : Near(j) /\ arena.recs[j].st = s
  <2> SUFFICES ASSUME NEW s, NEW g, g \in Nat, s \in States, Recorded(s, g),
                      g + board.dist[s] <= board.opt
               PROVE  \E j \in Ids : Near(j) /\ arena.recs[j].st = s
    OBVIOUS
  <2>1. PICK k \in Ids : arena.recs[k].st = s /\ arena.recs[k].g <= g
    BY DEF Recorded
  <2>2. PICK j \in Ids : /\ ~arena.recs[j].sup /\ arena.recs[j].st = arena.recs[k].st
                         /\ arena.recs[j].g <= arena.recs[k].g
    BY DEF Exact, Charted
  <2>3. board.dist[s] \in Nat /\ arena.recs[k].g \in Nat /\ arena.recs[j].g \in Nat
    BY <1>2, <2>1
  <2>4. OverF(j) = arena.recs[j].g + board.dist[s]
    BY <1>2, <2>1, <2>2
  <2>5. OverF(j) <= board.opt
    <3>1. PICK x \in Nat, y \in Nat, d \in Nat, o \in Nat :
            x = arena.recs[j].g /\ y = arena.recs[k].g /\ d = board.dist[s] /\ o = board.opt
      BY <1>1, <2>3
    <3>2. x <= y /\ y <= g /\ g + d <= o
      BY <2>1, <2>2, <3>1
    <3>3. x + d <= o
      BY <3>2
    <3> QED
      BY <2>4, <3>1, <3>3
  <2> QED
    BY <2>1, <2>2, <2>5
<1>4. S \in SUBSET Nat /\ S # {}
  <2>1. Recorded(Start, 0)
    BY DEF Exact, Charted
  <2>2. 0 + board.dist[Start] <= board.opt
    BY <1>1
  <2>3. \E j \in Ids : Near(j)
    BY <1>1, <1>3, <2>1, <2>2
  <2> QED
    BY <1>2, <2>3
<1> HIDE DEF S
<1>5. PICK m \in S : \A n \in S : m <= n
  BY <1>4, LeastNumber
<1>6. PICK k \in Ids : Near(k) /\ m = board.dist[arena.recs[k].st]
  BY <1>5 DEF S
<1>7. \A j \in Ids : Near(j) => board.dist[arena.recs[k].st] <= board.dist[arena.recs[j].st]
  BY <1>5, <1>6 DEF S
<1> HIDE DEF Near
<1>8. Accounted(k) /\ OverF(k) <= board.opt
  BY <1>6, IdleFacts DEF Exact, Complete, Near
<1>9. PICK s \in States : s = arena.recs[k].st
  BY <1>2, <1>6
<1>10. OverF(k) < Enough
  BY <1>1, <1>2, <1>6, <1>8
<1>11. arena.recs[k].closed
  <2> SUFFICES ASSUME ~arena.recs[k].closed PROVE FALSE
    OBVIOUS
  <2>1. PICK q \in arena.queue : q.id = k /\ q.f <= OverF(k)
    BY <1>8, <1>10 DEF Accounted, QueuedBelow
  <2>2. q.f \in Nat
    BY KeyBounds DEF IInv
  <2>3. q.f <= board.opt
    BY <1>1, <1>2, <1>6, <1>8, <2>1, <2>2
  <2> QED
    BY <2>3
<1>12. s \notin Goals
  BY <1>6, <1>9, <1>11 DEF Exact, Charted, Solved
<1>13. board.dist[s] \in Nat /\ board.dist[s] < Inf
  <2>1. board.dist[s] <= OverF(k)
    BY <1>2, <1>6, <1>9
  <2> QED
    BY <1>1, <1>2, <1>6, <1>8, <1>9, <2>1
<1>14. PICK e \in Range1(board.succ[s]) : board.dist[s] = e.cost + board.dist[e.to]
  BY <1>1, <1>12, <1>13, ShortestFacts
<1>15. /\ e.to \in States /\ e.cost \in Nat /\ e.cost >= 1 /\ board.dist[e.to] \in Nat
  <2>1. e.to \in States /\ e.cost \in Nat /\ e.cost >= 1
    BY <1>1, <1>14, EstimateFacts
  <2> QED
    BY <1>1, <2>1, ShortestFacts
<1>16. e \in Edges(k) /\ Covered(k, e)
  BY <1>8, <1>9, <1>11, <1>14 DEF Edges, Accounted
<1>17. PICK g \in Nat : g = arena.recs[k].g
  BY <1>2, <1>6
<1>18. OverF(k) = g + board.dist[s]
  BY <1>2, <1>6, <1>9, <1>17
<1>19. ThroughF(k, e) = OverF(k) /\ ThroughF(k, e) \in Nat
  <2>1. ThroughF(k, e) = g + e.cost + board.dist[e.to]
    BY <1>17 DEF ThroughF
  <2> QED
    <3>1. PICK c \in Nat, d \in Nat : c = e.cost /\ d = board.dist[e.to]
      BY <1>15
    <3>2. g + c + d = g + (c + d) /\ g + c + d \in Nat
      OBVIOUS
    <3> QED
      BY <1>14, <1>18, <2>1, <3>1, <3>2
<1>20. CASE ThroughF(k, e) >= Enough
  BY <1>1, <1>10, <1>19, <1>20
<1>21. CASE Recorded(e.to, arena.recs[k].g + e.cost)
  <2>1. PICK f \in Nat : f = arena.recs[k].g + e.cost
    BY <1>15, <1>17
  <2>2. f + board.dist[e.to] <= board.opt
    <3>1. f + board.dist[e.to] = OverF(k)
      BY <1>13, <1>14, <1>15, <1>17, <1>18, <2>1
    <3> QED
      BY <1>8, <3>1
  <2>3. PICK j \in Ids : Near(j) /\ arena.recs[j].st = e.to
    BY <1>3, <1>15, <1>21, <2>1, <2>2
  <2>4. board.dist[s] <= board.dist[e.to]
    BY <1>7, <1>9, <2>3
  <2> QED
    BY <1>13, <1>14, <1>15, <2>4
<1>22. CASE QueuedBelow(k, ThroughF(k, e))
  <2>1. PICK q \in arena.queue : q.f <= ThroughF(k, e)
    BY <1>22 DEF QueuedBelow
  <2>2. q.f \in Nat
    BY KeyBounds DEF IInv
  <2>3. q.f <= board.opt
    BY <1>1, <1>8, <1>19, <2>1, <2>2
  <2> QED
    BY <2>3
<1>23. CASE interrupted <= ThroughF(k, e)
  BY <1>1, <1>8, <1>19, <1>23
<1> QED
  BY <1>16, <1>20, <1>21, <1>22, <1>23 DEF Covered

LEMMA EmptyExact == IInv /\ IInv' /\ policy = "exact" /\ Exact /\ PopEmpty => Exact'
<1> SUFFICES ASSUME IInv, IInv', policy = "exact", Exact, PopEmpty PROVE Exact'
  OBVIOUS
<1> DEFINE st == IF incumbent # NoId THEN "solved" ELSE "exhausted"
<1>1. /\ Ready /\ arena.queue = {} /\ End(st, arena, incumbent, policy, interrupted)
      /\ KeepSchedule /\ KeepStage /\ board' = board
  BY DEF PopEmpty
<1>2. /\ status' = st /\ arena' = arena /\ incumbent' = incumbent /\ polish' = polish
      /\ interrupted' = interrupted /\ cur' = Idle /\ ladder' = NoLadder
  BY <1>1, ExactEnd
<1>3. cur = Idle /\ interrupted = Inf /\ Inf \in Nat
  BY <1>1, ReadyExact
<1>4. Enough' = Enough
  BY <1>2 DEF Enough, IncumbentMoves
<1>5. Charted' /\ Keyed'
  BY <1>1, <1>2 DEF Exact, Charted, Recorded, Keyed
<1>6. Opening' /\ Complete'
  BY <1>1, <1>2, <1>3, <1>4 DEF Exact, Opening, Complete, Accounted, Covered, QueuedBelow, Recorded,
     ThroughF, OverF, Edges
<1>7. Plain'
  BY <1>1, <1>2 DEF Exact, Plain, KeepSchedule, KeepStage
<1>8. incumbent = NoId => board.opt >= Inf
  <2> SUFFICES ASSUME incumbent = NoId, ~(board.opt >= Inf) PROVE FALSE
    OBVIOUS
  <2>1. board.opt \in Nat
    <3>1. board \in Boards /\ Start \in States /\ board.opt = board.dist[Start]
      BY BoardAssumption DEF IInv, Given
    <3> QED
      BY <3>1, ShortestFacts
  <2>2. Enough = Inf
    BY <1>3 DEF Enough, Lesser, IncumbentMoves, MovesOf
  <2>3. Enough <= board.opt \/ interrupted <= board.opt
    BY <1>1, <1>3, <2>1, OptimumAhead
  <2> QED
    BY <1>3, <2>1, <2>2, <2>3
<1>9. Ends'
  BY <1>1, <1>2, <1>3, <1>8 DEF Ends
<1> QED
  BY <1>5, <1>6, <1>7, <1>9 DEF Exact

LEMMA ExpandExact == IInv /\ IInv' /\ policy = "exact" /\ Exact /\ PopExpand => Exact'
<1> SUFFICES ASSUME IInv, IInv', policy = "exact", Exact, PopExpand PROVE Exact'
  OBVIOUS
<1>1. /\ Ready /\ arena.queue # {} /\ ~Stale(Popped) /\ ~PoppedSolved
      /\ arena' = Close(Dequeue(arena), Popped.id)
      /\ cur' = Expansion(Popped.id, Popped.h, Partial(Popped.id))
      /\ UNCHANGED <<board, ladder, policy, status, incumbent, interrupted, mayStage, polish,
                     polished>>
  BY DEF PopExpand, PoppedLive, Opened
<1>2. /\ cur = Idle /\ interrupted = Inf /\ Inf \in Nat /\ Complete /\ Keyed /\ Charted
  BY <1>1, ReadyExact DEF Exact
<1>3. PICK i \in 1 .. Len(arena.recs) : i = Popped.id
  BY <1>1, PoppedFacts
<1>4. /\ arena.recs[i].st \in States /\ arena.recs[i].g \in Nat /\ OverF(i) \in Nat
      /\ Popped \in arena.queue /\ Popped.f \in Nat /\ Popped.h \in Nat
      /\ Popped.f = arena.recs[i].g + Popped.h /\ ~arena.recs[i].sup
      /\ board \in Boards
  <2>1. Popped \in arena.queue /\ Popped.f \in Nat /\ Popped.h \in Nat
    BY <1>1, PoppedFacts, KeyBounds DEF IInv
  <2> QED
    BY <1>1, <1>2, <1>3, <2>1, RecordFacts DEF Keyed, Stale, IInv, Given
<1>5. ~Solved(arena.recs[i].st)
  BY <1>1, <1>2, <1>3, <1>4 DEF PoppedSolved, Keyed
<1>6. /\ SameButQueue(arena, arena') /\ arena'.queue = arena.queue \ {Popped}
      /\ \A j \in 1 .. Len(arena.recs) :
           arena'.recs[j].closed = (arena.recs[j].closed \/ j = i)
  <2>1. PICK d : d = Dequeue(arena)
    OBVIOUS
  <2>2. /\ SameButQueue(arena, d) /\ d.recs = arena.recs /\ d.queue = arena.queue \ {Popped}
        /\ d \in Arenas
    BY <2>1, SoundUpward, DequeueFacts DEF IInv, Popped, SameButQueue
  <2>3. i \in 1 .. Len(d.recs) /\ arena' = Close(d, i)
    BY <1>1, <1>3, <2>1, <2>2
  <2>4. /\ SameButQueue(d, arena') /\ arena'.queue = d.queue
        /\ \A j \in 1 .. Len(d.recs) : arena'.recs[j].closed = (d.recs[j].closed \/ j = i)
    BY <2>2, <2>3, CloseFacts
  <2> QED
    BY <2>2, <2>4, SameTransitive
<1>7. /\ Grown /\ Len(arena'.recs) = Len(arena.recs)
      /\ arena'.recs[i].sup = arena.recs[i].sup
      /\ Len(arena.recs) + 1 .. Len(arena'.recs) = {}
  BY <1>1, <1>6, SameGrown
<1>8. Charted'
  <2>1. incumbent = NoId \/ incumbent' # NoId
    BY <1>1
  <2>2. \A k \in 1 .. Len(arena.recs) :
          arena'.recs[k].closed => arena.recs[k].closed \/ ~Solved(arena.recs[k].st)
    BY <1>5, <1>6
  <2> QED
    BY <1>1, <1>2, <1>6, <2>1, <2>2, ChartedSame
<1>9. Keyed'
  BY <1>2, <1>6, <1>7, KeyedKeeps
<1>10. Enough' = Enough /\ Enough \in Nat /\ Enough <= Inf
  BY <1>1, <1>7, EnoughFalls, EnoughFacts
<1>11. /\ cur'.id = i /\ cur'.h = Popped.h /\ cur'.deferred = Inf
       /\ cur'.partial = Partial(i)
       /\ cur'.todo = IF arena.recs[i].st \in board.corral THEN << >>
                      ELSE board.succ[arena.recs[i].st]
  BY <1>1, <1>3 DEF Expansion
<1>12. Complete'
  <2>1. cur.id \notin 1 .. Len(arena.recs)
    BY <1>2, IdleFacts
  <2>2. interrupted \in Nat /\ interrupted' \in Nat /\ interrupted' <= interrupted
    BY <1>1, <1>2
  <2>3. \A j \in 1 .. Len(arena.recs) :
          j # cur'.id => arena'.recs[j].closed = arena.recs[j].closed
    <3>1. \A j \in 1 .. Len(arena.recs) : arena.recs[j].closed \in BOOLEAN
      BY RecordFacts
    <3> QED
      BY <1>6, <1>11, <3>1
  <2>4. \A j \in Len(arena.recs) + 1 .. Len(arena'.recs) : Accounted(j)'
    BY <1>7
  <2>5. \A q \in arena.queue : Passed(q)
    <3> SUFFICES ASSUME NEW q \in arena.queue PROVE Passed(q)
      OBVIOUS
    <3>1. q.f \in Nat
      BY KeyBounds DEF IInv
    <3> QED
      BY <1>3, <1>6, <1>11, <3>1 DEF Passed
  <2>6. Enough' <= Enough
    BY <1>10
  <2> QED
    BY <1>2, <1>7, <2>1, <2>2, <2>3, <2>4, <2>5, <2>6, CompleteKeeps
<1>13. CurF' = Popped.f
  <2>1. arena'.recs[i].g = arena.recs[i].g
    BY <1>7, GrownFacts
  <2> QED
    BY <1>4, <1>11, <2>1 DEF CurF
<1>14. ASSUME NEW F \in Nat, QueuedBelow(i, F) PROVE CurF' <= F
  <2>1. PICK q \in arena.queue : q.f <= F
    BY <1>14 DEF QueuedBelow
  <2>2. q.f \in Nat
    BY KeyBounds DEF IInv
  <2>3. Popped.f <= q.f
    <3>1. Before(Popped, q)
      BY <1>1, SoundUpward, TopFacts DEF IInv, Popped
    <3> QED
      BY <1>4, <2>2, <3>1 DEF Before
  <2> QED
    BY <1>4, <1>13, <2>1, <2>2, <2>3
<1>15. Accounted(i)
  BY <1>2, <1>4, IdleFacts DEF Complete
<1>16. ASSUME NEW e \in Edges(i) PROVE Settled(e)'
  <2>1. PICK F \in Nat : F = ThroughF(i, e) /\ F >= OverF(i)
    BY RecordFacts
  <2>2. PICK g : g = arena.recs[i].g + e.cost
    OBVIOUS
  <2>3. F = ThroughF(i, e)' /\ g = arena'.recs[i].g + e.cost
    <3>1. ThroughF(i, e)' = ThroughF(i, e) /\ arena'.recs[i].g = arena.recs[i].g
      BY <1>7, GrownFacts
    <3> QED
      BY <2>1, <2>2, <3>1
  <2>4. (\/ F >= Enough'
         \/ Recorded(e.to, g)'
         \/ e \in Range1(cur'.todo) /\ CurF' <= F) => Settled(e)'
    <3>1. ThroughF(cur.id, e)' = F
      BY <1>11, <2>3 DEF ThroughF
    <3> QED
      BY <1>11, <2>3, <3>1 DEF Settled
  <2>5. CASE arena.recs[i].st \in board.corral
    <3>1. board.dist[arena.recs[i].st] = Inf
      BY <1>4, <2>5, EstimateFacts
    <3>2. OverF(i) = arena.recs[i].g + Inf
      BY <3>1 DEF OverF
    <3>3. F >= Enough'
      BY <1>2, <1>4, <1>10, <2>1, <3>2
    <3> QED
      BY <2>4, <3>3
  <2>6. CASE arena.recs[i].st \notin board.corral
    <3>1. e \in Range1(cur'.todo)
      BY <1>11, <2>6 DEF Edges
    <3>2. CASE ~arena.recs[i].closed
      <4>1. CASE OverF(i) < Enough
        <5>1. QueuedBelow(i, OverF(i))
          BY <1>15, <3>2, <4>1 DEF Accounted
        <5>2. PICK q \in arena.queue : q.id = i /\ q.f <= OverF(i)
          BY <5>1 DEF QueuedBelow
        <5>3. q.f \in Nat
          BY KeyBounds DEF IInv
        <5>4. q.f <= F
          BY <1>4, <2>1, <5>2, <5>3
        <5>5. QueuedBelow(i, F)
          BY <5>2, <5>4 DEF QueuedBelow
        <5> QED
          BY <1>14, <2>4, <3>1, <5>5
      <4>2. CASE ~(OverF(i) < Enough)
        <5>1. F >= Enough'
          BY <1>4, <1>10, <2>1, <4>2
        <5> QED
          BY <2>4, <5>1
      <4> QED
        BY <4>1, <4>2
    <3>3. CASE arena.recs[i].closed
      <4>1. \/ F >= Enough
            \/ Recorded(e.to, g)
            \/ QueuedBelow(i, F)
            \/ interrupted <= F
        BY <1>15, <2>1, <2>2, <3>3 DEF Accounted, Covered
      <4>2. CASE F >= Enough \/ interrupted <= F
        <5>1. F >= Enough'
          BY <1>2, <1>10, <4>2
        <5> QED
          BY <2>4, <5>1
      <4>3. CASE Recorded(e.to, g)
        <5>1. Recorded(e.to, g)'
          BY <1>7, <4>3, RecordedStays
        <5> QED
          BY <2>4, <5>1
      <4>4. CASE QueuedBelow(i, F)
        BY <1>14, <2>4, <3>1, <4>4
      <4> QED
        BY <4>1, <4>2, <4>3, <4>4
    <3> QED
      BY <3>2, <3>3
  <2> QED
    BY <2>5, <2>6
<1>17. Opening'
  <2>1. i \in 1 .. Len(arena'.recs) /\ Edges(i)' = Edges(i) /\ arena'.recs[i].st = arena.recs[i].st
    BY <1>7, GrownFacts
  <2>2. arena'.recs[i].closed /\ ~arena'.recs[i].sup
    BY <1>4, <1>6, <1>7
  <2>3. Partial(i) => arena'.recs[i].st # Start
    <3>1. arena.recs[i].st = Start => arena.recs[i].g = 0
      BY <1>2 DEF Charted
    <3> QED
      BY <2>1, <3>1 DEF Partial
  <2>4. \A e \in Edges(i)' : Settled(e)'
    BY <1>16, <2>1
  <2> QED
    BY <1>11, <2>1, <2>2, <2>3, <2>4 DEF Opening
<1>18. Plain' /\ Ends'
  BY <1>1, ReadyExact DEF Exact, Plain, Ends
<1> QED
  BY <1>8, <1>9, <1>12, <1>17, <1>18 DEF Exact
-----------------------------------------------------------------------------
(* Pushes of an exact search.                                              *)

(* The push in turn: its child, and what bounds the way on from it.        *)
LEMMA ChildBounds ==
  ASSUME IInv, Expanding, cur.todo # << >>
  PROVE  /\ cur.id \in 1 .. Len(arena.recs) /\ Push \in Edges(cur.id)
         /\ Push.to \in States /\ Push.cost \in Nat /\ Push.cost >= 1
         /\ Push.charge \in Nat /\ Push.charge <= Push.cost - 1 /\ Push.ahead \in Nat
         /\ Child.st = Push.to /\ Child.g = arena.recs[cur.id].g + Push.cost
         /\ Child.h = board.est[Push.to] /\ Child.h \in Nat /\ Child.par = cur.id
         /\ board.dist[Push.to] \in Nat /\ board.dist[Push.to] <= Inf
         /\ Child.h <= board.dist[Push.to]
         /\ RoomH(Child.st) \in Nat /\ RoomH(Child.st) <= board.dist[Push.to]
         /\ ChildH \in Nat /\ ChildH <= board.dist[Push.to] /\ ChildH >= Child.h
         /\ board.dist[Push.to] < Inf => Child.h + Push.ahead <= board.dist[Push.to]
         /\ arena.recs[cur.id].st # Start => arena.recs[cur.id].h <= 1 + Push.charge + Child.h
         /\ Child.g \in Nat /\ ThroughF(cur.id, Push) = Child.g + board.dist[Push.to]
<1>1. /\ cur.id \in 1 .. Len(arena.recs) /\ Push \in Range1(board.succ[arena.recs[cur.id].st])
      /\ board \in Boards
  BY FitsTail DEF IInv, CurOk, Push, Given
<1>2. PICK k \in 1 .. Len(arena.recs) : k = cur.id
  BY <1>1
<1>3. PICK s \in States : s = arena.recs[k].st
  BY RecordFacts
<1>4. /\ arena.recs[k].g \in Nat /\ arena.recs[k].h = board.est[s]
  BY <1>3, RecordFacts
<1>5. PICK e \in Range1(board.succ[s]) : e = Push
  BY <1>1, <1>2, <1>3
<1>6. /\ e.to \in States /\ e.cost \in Nat /\ e.charge \in Nat /\ e.ahead \in Nat
      /\ e.cost >= 1 /\ e.charge <= e.cost - 1
      /\ board.dist[e.to] < Inf => board.est[e.to] + e.ahead <= board.dist[e.to]
      /\ s # Start => board.est[s] <= 1 + e.charge + board.est[e.to]
  BY <1>1, EstimateFacts
<1>7. PICK t \in States : t = e.to
  BY <1>6
<1>8. /\ board.dist[t] \in Nat /\ board.dist[t] <= Inf /\ Inf \in Nat
      /\ board.room[t] <= board.dist[t] /\ board.term[t] <= board.dist[t]
  BY <1>1, ShortestFacts, EstimateFacts
<1>9. /\ board.est[t] \in Nat /\ board.est[t] <= board.dist[t]
      /\ board.room[t] \in Nat /\ board.term[t] \in Nat
  BY <1>1, BoardFacts
<1>10. /\ Child.st = t /\ Child.g = arena.recs[k].g + e.cost /\ Child.h = board.est[t]
       /\ Child.par = k
  BY <1>2, <1>5, <1>7 DEF Child, ChildOf
<1>11. RoomH(t) \in Nat /\ RoomH(t) <= board.dist[t]
  BY <1>8, <1>9 DEF RoomH
<1>12. ChildH \in Nat /\ ChildH <= board.dist[t] /\ ChildH >= Child.h
  BY <1>8, <1>9, <1>10, <1>11 DEF ChildH
<1>13. Child.g \in Nat
  BY <1>4, <1>6, <1>10
<1>14. ThroughF(cur.id, Push) = Child.g + board.dist[t]
  BY <1>2, <1>5, <1>7, <1>10 DEF ThroughF
<1>15. Push \in Edges(cur.id)
  BY <1>1 DEF Edges
<1>16. arena.recs[k].st # Start => arena.recs[k].h <= 1 + e.charge + Child.h
  BY <1>3, <1>4, <1>6, <1>7, <1>10
<1> QED
  BY <1>2, <1>5, <1>6, <1>7, <1>8, <1>9, <1>10, <1>11, <1>12, <1>13, <1>14, <1>15, <1>16

LEMMA TriedFacts ==
  ASSUME IInv, Expanding, cur.todo # << >>
  PROVE  /\ Tried.id = cur.id /\ Tried.h = cur.h /\ Tried.partial = cur.partial
         /\ Tried.todo = Tail(cur.todo) /\ Tried.deferred = cur.deferred
         /\ cur.deferred \in Nat
         /\ \A f : /\ Leaving(f).id = cur.id /\ Leaving(f).h = cur.h
                   /\ Leaving(f).partial = cur.partial /\ Leaving(f).todo = Tail(cur.todo)
                   /\ Leaving(f).deferred = Lesser(cur.deferred, f)
<1>1. /\ cur = [id |-> cur.id, h |-> cur.h, todo |-> cur.todo, deferred |-> cur.deferred,
                partial |-> cur.partial]
      /\ cur.deferred \in Nat
  BY DEF IInv, CurOk, Fits
<1>2. Tried = [id |-> cur.id, h |-> cur.h, todo |-> Tail(cur.todo), deferred |-> cur.deferred,
               partial |-> cur.partial]
  BY SMTT(40), <1>1 DEF Tried
<1> DEFINE left(f) == [id |-> cur.id, h |-> cur.h, todo |-> Tail(cur.todo),
                       deferred |-> Lesser(cur.deferred, f), partial |-> cur.partial]
<1>3. ASSUME NEW f PROVE Leaving(f) = left(f)
  <2>1. PICK x : x = Lesser(cur.deferred, f)
    OBVIOUS
  <2>2. PICK t : t = Tail(cur.todo)
    OBVIOUS
  <2>3. Tried = [id |-> cur.id, h |-> cur.h, todo |-> t, deferred |-> cur.deferred,
                 partial |-> cur.partial]
    BY <1>2, <2>2
  <2>4. Tried.deferred = cur.deferred
    BY <2>3
  <2>5. Leaving(f) = [Tried EXCEPT !.deferred = x]
    BY <2>1, <2>4 DEF Leaving
  <2>6. Leaving(f) = [id |-> cur.id, h |-> cur.h, todo |-> t, deferred |-> x,
                      partial |-> cur.partial]
    BY <2>3, <2>5
  <2> QED
    BY <2>1, <2>2, <2>6
<1> QED
  BY <1>1, <1>2, <1>3

(* What admit prunes is useless, or a node no costlier stands for it.      *)
LEMMA PrunedChild ==
  ASSUME IInv, policy = "exact", Expanding, cur.todo # << >>, ~Admitted
  PROVE  \/ ThroughF(cur.id, Push) >= Enough
         \/ \E j \in 1 .. Len(arena.recs) :
              /\ arena.recs[j].st = Push.to
              /\ arena.recs[j].g <= arena.recs[cur.id].g + Push.cost
<1> DEFINE t == Push.to
           prev == Find(arena, t)
<1>1. /\ Child.st = t /\ Child.g \in Nat /\ Child.h \in Nat /\ Push.ahead \in Nat
      /\ Child.g = arena.recs[cur.id].g + Push.cost
      /\ board.dist[t] \in Nat /\ RoomH(t) \in Nat /\ ChildH \in Nat
      /\ Child.h <= board.dist[t] /\ RoomH(t) <= board.dist[t] /\ ChildH <= board.dist[t]
      /\ board.dist[t] < Inf => Child.h + Push.ahead <= board.dist[t]
      /\ ThroughF(cur.id, Push) = Child.g + board.dist[t]
  BY ChildBounds
<1>2. Enough \in Nat /\ Enough <= Inf /\ Enough <= IncumbentMoves /\ Inf \in Nat /\ IncumbentMoves \in Nat
  BY EnoughFacts
<1>3. P.reopen
  BY ExactPolicy
<1>4. prev # NoId => prev \in 1 .. Len(arena.recs) /\ arena.recs[prev].st = t
  <2>1. Grows(arena) /\ ~arena.starved
    BY PushFacts
  <2>2. arena.index \subseteq 1 .. Len(arena.recs) /\ arena \in Arenas
    BY <2>1 DEF IInv, Sound, Consistent, Bound, Live, Grows
  <2> QED
    BY <2>2, FindFacts
<1>5. \/ Child.h >= Inf
      \/ prev # NoId /\ ~(Child.g < arena.recs[prev].g)
      \/ IncumbentMoves < Inf /\ Child.g + Child.h + Push.ahead >= IncumbentMoves
      \/ RoomH(t) >= Inf
      \/ IncumbentMoves < Inf /\ Child.g + ChildH >= IncumbentMoves
  <2>1. Child = ChildOf(cur.id, Push)
    BY DEF Child
  <2> QED
    BY <1>1, <1>2, <1>3, <2>1 DEF Admitted, Admits
<1>6. CASE prev # NoId /\ ~(Child.g < arena.recs[prev].g)
  <2>1. PICK j \in 1 .. Len(arena.recs) : j = prev
    BY <1>4, <1>6
  <2>2. arena.recs[j].g \in Nat /\ arena.recs[j].st = t
    BY <1>4, <1>6, <2>1, RecordFacts
  <2>3. arena.recs[j].g <= Child.g
    BY <1>1, <1>6, <2>1, <2>2
  <2> QED
    BY <1>1, <2>2, <2>3
<1>7. CASE ~(prev # NoId /\ ~(Child.g < arena.recs[prev].g))
  <2>1. PICK g \in Nat, d \in Nat, h \in Nat, r \in Nat, c \in Nat, a \in Nat, m \in Nat, n \in Nat :
          /\ g = Child.g /\ d = board.dist[t] /\ h = Child.h /\ r = RoomH(t) /\ c = ChildH
          /\ a = Push.ahead /\ m = IncumbentMoves /\ n = Enough
    BY <1>1, <1>2
  <2>2. ThroughF(cur.id, Push) = g + d /\ h <= d /\ r <= d /\ c <= d /\ (d < Inf => h + a <= d)
        /\ n <= Inf /\ n <= m
    BY <1>1, <1>2, <2>1
  <2>3. h >= Inf \/ g + h + a >= m \/ r >= Inf \/ g + c >= m
    BY <1>5, <1>7, <2>1
  <2>4. g + d >= n
    BY <1>2, <2>2, <2>3
  <2> QED
    BY <2>1, <2>2, <2>4
<1> QED
  BY <1>6, <1>7

(* Records and entries stay, and so does the bound.                        *)
LEMMA StillRecords ==
  ASSUME IInv, Exact, UNCHANGED <<arena, board, incumbent, interrupted>>, cur'.id = cur.id
  PROVE  Charted' /\ Keyed' /\ Complete' /\ Grown /\ Enough' = Enough
<1>1. Enough' = Enough
  BY DEF Enough, IncumbentMoves
<1>2. Charted'
  BY DEF Exact, Charted, Recorded
<1>3. Keyed'
  BY DEF Exact, Keyed
<1>4. Complete'
  BY <1>1 DEF Exact, Complete, Accounted, Covered, QueuedBelow, Recorded, ThroughF, OverF, Edges
<1>5. Grown
  <2>1. Len(arena.recs) \in Nat
    BY SoundUpward DEF IInv
  <2> QED
    BY <2>1 DEF Grown, Alike
<1> QED
  BY <1>1, <1>2, <1>3, <1>4, <1>5

(* Nothing but the expansion's progress moves.                             *)
LEMMA StillExact ==
  ASSUME IInv, Exact, UNCHANGED <<arena, board, incumbent, interrupted, status>>,
         UNCHANGED <<ladder, mayStage, polish, polished>>, cur'.id = cur.id
  PROVE  /\ Charted' /\ Keyed' /\ Complete' /\ Ends' /\ Plain' /\ Grown
         /\ Enough' = Enough
<1>1. Charted' /\ Keyed' /\ Complete' /\ Grown /\ Enough' = Enough
  BY StillRecords
<1>2. Ends' /\ Plain'
  BY <1>1 DEF Exact, Ends, Plain
<1> QED
  BY <1>1, <1>2

LEMMA DroppedExact == IInv /\ IInv' /\ policy = "exact" /\ Exact /\ PushDropped => Exact'
<1> SUFFICES ASSUME IInv, IInv', policy = "exact", Exact, PushDropped PROVE Exact'
  OBVIOUS
<1>1. /\ Expanding /\ cur # Idle /\ cur.todo # << >>
      /\ UNCHANGED <<arena, board, incumbent, interrupted, status>>
      /\ UNCHANGED <<ladder, mayStage, polish, polished>>
  BY DEF PushDropped, Expanding
<1>2. PICK F \in Nat, d \in Nat, g \in Nat :
        /\ F = ThroughF(cur.id, Push) /\ d = board.dist[Push.to] /\ g = Child.g /\ F = g + d
  <2>1. /\ Child.g \in Nat /\ board.dist[Push.to] \in Nat
        /\ ThroughF(cur.id, Push) = Child.g + board.dist[Push.to]
    BY <1>1, ChildBounds
  <2> QED
    BY <2>1
<1>3. Opening /\ (cur.deferred = Inf \/ cur.deferred > CurF)
  BY <1>1 DEF Exact, Opening
<1>4. /\ Inf \in Nat /\ CurF \in Nat /\ cur.deferred \in Nat
  <2>1. arena.recs[cur.id].g \in Nat /\ cur.h \in Nat
    BY <1>1, PushFacts DEF IInv, CurOk, Fits
  <2>2. CurF \in Nat
    BY <2>1 DEF CurF
  <2> QED
    BY <1>1, <2>2, TriedFacts, EnoughFacts
<1>5. \/ \E f \in Nat : cur' = Leaving(f) /\ f > CurF /\ f <= F
      \/ cur' = Tried /\ ~Admitted
  <2>1. CASE LeftUnbuilt /\ cur' = Leaving(ExcessF(cur.id, Push))
    <3> DEFINE n == arena.recs[cur.id]
    <3>1. /\ n.h > 1 + Push.charge
          /\ ExcessF(cur.id, Push) = n.g + n.h + Push.cost - 1 - Push.charge
          /\ ExcessF(cur.id, Push) \in Nat /\ ExcessF(cur.id, Push) > CurF
      BY <1>4, <2>1 DEF LeftUnbuilt, ExcessF
    <3>2. n.st # Start
      BY <1>1, <1>3, <2>1 DEF LeftUnbuilt, Opening
    <3>3. /\ n.h <= 1 + Push.charge + Child.h /\ Child.g = n.g + Push.cost /\ Child.h <= d
          /\ Push.charge \in Nat /\ Push.cost \in Nat /\ Child.h \in Nat
      BY <1>1, <1>2, <3>2, ChildBounds
    <3>4. n.g \in Nat /\ n.h \in Nat
      <4>1. n.g \in Nat
        BY <1>1, PushFacts
      <4>2. arena.recs \in Seq(Records)
        BY SoundUpward, ArenaFields DEF IInv
      <4>3. n.h \in Nat
        BY <1>1, <4>2, ChildBounds, RecordFields
      <4> QED
        BY <4>1, <4>3
    <3> HIDE DEF n
    <3>5. ExcessF(cur.id, Push) <= F
      <4>1. PICK ng \in Nat, nh \in Nat, c \in Nat, w \in Nat, h \in Nat :
              ng = n.g /\ nh = n.h /\ c = Push.cost /\ w = Push.charge /\ h = Child.h
        BY <3>3, <3>4
      <4>2. nh <= 1 + w + h /\ g = ng + c /\ h <= d /\ ExcessF(cur.id, Push) = ng + nh + c - 1 - w
        BY <1>2, <3>1, <3>3, <4>1
      <4>3. ng + nh + c - 1 - w <= g + d
        BY <4>2
      <4> QED
        BY <1>2, <4>2, <4>3
    <3> QED
      BY <2>1, <3>1, <3>5
  <2>2. CASE LeftBuilt /\ cur' = Leaving(Child.g + ChildH)
    <3>1. ChildH \in Nat /\ ChildH <= d
      BY <1>1, <1>2, ChildBounds
    <3>2. Child.g + ChildH \in Nat /\ Child.g + ChildH > CurF /\ Child.g + ChildH <= F
      BY <1>2, <1>4, <2>2, <3>1 DEF LeftBuilt
    <3> QED
      BY <2>2, <3>2
  <2> QED
    BY <2>1, <2>2 DEF PushDropped
<1>6. /\ cur'.id = cur.id /\ cur'.h = cur.h /\ cur'.partial = cur.partial
      /\ cur'.todo = Tail(cur.todo)
      /\ cur'.deferred \in Nat /\ cur'.deferred <= cur.deferred
      /\ cur'.deferred = Inf \/ cur'.deferred > CurF
      /\ cur'.deferred <= F \/ ~Admitted
  <2>1. CASE \E f \in Nat : cur' = Leaving(f) /\ f > CurF /\ f <= F
    <3>1. PICK f \in Nat : cur' = Leaving(f) /\ f > CurF /\ f <= F
      BY <2>1
    <3>2. /\ cur'.id = cur.id /\ cur'.h = cur.h /\ cur'.partial = cur.partial
          /\ cur'.todo = Tail(cur.todo) /\ cur'.deferred = Lesser(cur.deferred, f)
      BY <1>1, <3>1, TriedFacts
    <3>3. /\ cur'.deferred \in Nat /\ cur'.deferred <= cur.deferred /\ cur'.deferred <= F
          /\ cur'.deferred = Inf \/ cur'.deferred > CurF
      BY <1>3, <1>4, <3>1, <3>2 DEF Lesser
    <3> QED
      BY <3>2, <3>3
  <2>2. CASE cur' = Tried /\ ~Admitted
    BY <1>1, <1>3, <1>4, <2>2, TriedFacts
  <2> QED
    BY <1>5, <2>1, <2>2
<1>7. /\ Charted' /\ Keyed' /\ Complete' /\ Ends' /\ Plain' /\ Grown
      /\ Enough' = Enough /\ Enough \in Nat
  BY <1>1, <1>6, StillExact, EnoughFacts
<1>8. \/ ThroughF(cur.id, Push) >= Enough'
      \/ \E j \in 1 .. Len(arena'.recs) :
           /\ arena'.recs[j].st = Push.to
           /\ arena'.recs[j].g <= arena.recs[cur.id].g + Push.cost
      \/ cur'.deferred <= ThroughF(cur.id, Push)
  BY <1>1, <1>2, <1>6, <1>7, PrunedChild
<1>9. /\ arena'.recs[cur.id].closed = arena.recs[cur.id].closed /\ ~arena'.recs[cur.id].sup
      /\ Enough' <= Enough
  BY <1>1, <1>3, <1>7 DEF Opening
<1>10. Opening'
  BY <1>1, <1>3, <1>4, <1>6, <1>7, <1>8, <1>9, OpeningStays
<1> QED
  BY <1>7, <1>10 DEF Exact

(* A child that is stored replaces a costlier record of its position, if   *)
(* any, and never the one under expansion nor the start's.                 *)
LEMMA InsertedExact ==
  ASSUME IInv, IInv', policy = "exact", Exact, Expanding, cur.todo # << >>, Admitted,
         Len(arena'.recs) = Len(arena.recs) + 1,
         Alike(arena'.recs[Len(arena.recs) + 1], Child),
         ~arena'.recs[Len(arena.recs) + 1].closed, ~arena'.recs[Len(arena.recs) + 1].sup,
         \A i \in 1 .. Len(arena.recs) :
           Kept(arena'.recs[i], arena.recs[i], i, Find(arena, Child.st)),
         board' = board,
         incumbent' = IF IsGoal THEN Len(arena.recs) + 1 ELSE incumbent
  PROVE  /\ Charted' /\ Grown /\ Enough' <= Enough
         /\ \A i \in 1 .. Len(arena.recs) : arena'.recs[i].closed = arena.recs[i].closed
         /\ ~arena'.recs[cur.id].sup
<1> DEFINE l == Len(arena.recs)
           t == Push.to
           prev == Find(arena, t)
           r(k) == arena.recs[k]
           s(k) == arena'.recs[k]
<1>1. /\ cur.id \in 1 .. l /\ Push \in Edges(cur.id) /\ t \in States
      /\ Push.cost \in Nat /\ Push.cost >= 1
      /\ Child.st = t /\ Child.g = r(cur.id).g + Push.cost /\ Child.g \in Nat
      /\ board.dist[t] \in Nat /\ ChildH \in Nat /\ ChildH <= board.dist[t]
      /\ ThroughF(cur.id, Push) = Child.g + board.dist[t]
  BY ChildBounds
<1>2. l \in Nat /\ arena \in Arenas /\ Grows(arena) /\ ~arena.starved
  BY PushFacts, SoundUpward DEF IInv
<1>3. arena.index = Live(arena) /\ arena.index \subseteq 1 .. l
  BY <1>2 DEF IInv, Sound, Consistent, Bound, Live, Grows
<1>4. /\ Complete /\ Charted /\ Opening /\ ~r(cur.id).sup
  BY DEF Exact, Opening, Expanding
<1>5. /\ prev # NoId => prev \in 1 .. l /\ r(prev).st = t /\ Child.g < r(prev).g
      /\ prev = NoId => \A j \in Live(arena) : r(j).st # t
  <2>1. Child.st = t /\ Child = ChildOf(cur.id, Push)
    BY <1>1 DEF Child
  <2>2. prev # NoId => Child.g < r(prev).g
    BY <2>1 DEF Admitted, Admits
  <2>3. \/ prev = NoId /\ \A i \in arena.index : r(i).st # t
        \/ prev \in arena.index /\ prev # NoId /\ r(prev).st = t
    BY <1>2, <1>3, FindFacts
  <2> QED
    BY <1>3, <2>2, <2>3
<1>6. /\ l + 1 \in 1 .. Len(arena'.recs) /\ l + 1 # NoId
      /\ s(l + 1).st = t /\ s(l + 1).g = Child.g
      /\ ~s(l + 1).closed /\ ~s(l + 1).sup
  BY <1>1, <1>2 DEF Alike, NoId
<1>7. \A i \in 1 .. l : /\ Alike(s(i), r(i)) /\ s(i).st = r(i).st /\ s(i).g = r(i).g
                        /\ s(i).closed = r(i).closed /\ s(i).sup = (r(i).sup \/ i = prev)
  BY <1>1 DEF Kept, Alike
<1>8. Grown
  <2>1. Len(arena.recs) <= Len(arena'.recs)
    BY <1>2
  <2> QED
    BY <1>7, <2>1 DEF Grown
<1> HIDE DEF prev
<1>9. ~s(cur.id).sup
  <2>1. prev # cur.id
    <3>1. r(cur.id).g \in Nat
      BY <1>1, RecordFacts
    <3>2. ASSUME prev = cur.id PROVE FALSE
      <4>1. cur.id # NoId
        BY <1>1, <1>2 DEF NoId
      <4>2. Child.g < r(cur.id).g
        BY <1>5, <3>2, <4>1
      <4> QED
        BY <1>1, <3>1, <4>2
    <3> QED
      BY <3>2
  <2> QED
    BY <1>1, <1>4, <1>7, <2>1
<1>10. t # Start
  <2> SUFFICES ASSUME t = Start PROVE FALSE
    OBVIOUS
  <2>1. PICK k \in 1 .. l : r(k).st = Start
    BY <1>4 DEF Charted, Recorded
  <2>2. PICK j \in 1 .. l : ~r(j).sup /\ r(j).st = r(k).st
    BY <1>4 DEF Charted
  <2>3. prev # NoId
    BY <1>5, <2>1, <2>2 DEF Live
  <2>4. r(prev).g = 0 /\ Child.g < r(prev).g
    BY <1>4, <1>5, <2>3 DEF Charted
  <2> QED
    BY <1>1, <2>4
<1>11. board.opt \in Nat /\ s(l + 1).g + board.dist[t] >= board.opt
  <2>1. board \in Boards /\ Start \in States /\ board.opt = board.dist[Start]
    BY BoardAssumption DEF IInv, Given
  <2>2. board.opt \in Nat
    BY <2>1, ShortestFacts
  <2>3. PICK k \in 1 .. l : k = cur.id
    BY <1>1
  <2>4. OverF(k) >= board.opt /\ OverF(k) \in Nat /\ ThroughF(k, Push) >= OverF(k)
        /\ ThroughF(k, Push) \in Nat
    BY <1>1, <1>4, <2>3, RecordFacts DEF Charted, OverF
  <2>5. ThroughF(k, Push) = s(l + 1).g + board.dist[t]
    BY <1>1, <1>6, <2>3
  <2> QED
    BY <2>2, <2>4, <2>5
<1>12. incumbent # NoId => incumbent' # NoId
  BY <1>6
<1>13. Recorded(Start, 0)'
  <2>1. PICK k \in 1 .. l : r(k).st = Start /\ r(k).g <= 0
    BY <1>4 DEF Charted, Recorded
  <2>2. k \in 1 .. Len(arena'.recs) /\ s(k).st = Start /\ s(k).g <= 0
    BY <1>2, <1>7, <2>1
  <2> QED
    BY <2>2 DEF Recorded
<1>14. ASSUME NEW k \in 1 .. l
       PROVE  /\ s(k).st = Start => s(k).g = 0
              /\ s(k).g + board.dist[s(k).st] >= board.opt
              /\ \E j \in 1 .. Len(arena'.recs) :
                   ~s(j).sup /\ s(j).st = s(k).st /\ s(j).g <= s(k).g
              /\ s(k).closed => ~Solved(s(k).st)
              /\ Solved(s(k).st) => s(k).g = 0 \/ incumbent' # NoId
  <2>1. /\ r(k).st = Start => r(k).g = 0
        /\ r(k).g + board.dist[r(k).st] >= board.opt
        /\ r(k).closed => ~Solved(r(k).st)
        /\ Solved(r(k).st) => r(k).g = 0 \/ incumbent # NoId
    BY <1>4 DEF Charted
  <2>2. PICK j \in 1 .. l : ~r(j).sup /\ r(j).st = r(k).st /\ r(j).g <= r(k).g
    BY <1>4 DEF Charted
  <2>3. /\ s(k).st = r(k).st /\ s(k).g = r(k).g /\ s(k).closed = r(k).closed
        /\ s(j).st = r(j).st /\ s(j).g = r(j).g /\ s(j).sup = (r(j).sup \/ j = prev)
    BY <1>7
  <2>4. \E i \in 1 .. Len(arena'.recs) : ~s(i).sup /\ s(i).st = s(k).st /\ s(i).g <= s(k).g
    <3>1. CASE j # prev
      <4>1. ~s(j).sup
        BY <2>2, <2>3, <3>1, Zenon
      <4>2. j \in 1 .. Len(arena'.recs) /\ s(j).st = s(k).st /\ s(j).g <= s(k).g
        BY <1>2, <2>2, <2>3
      <4> QED
        BY <4>1, <4>2
    <3>2. CASE j = prev
      <4>1. prev # NoId
        BY <1>2, <3>2 DEF NoId
      <4>2. s(k).st = t /\ Child.g < r(j).g
        BY <1>5, <2>2, <2>3, <3>2, <4>1
      <4>3. r(j).g \in Nat /\ r(k).g \in Nat
        BY RecordFacts
      <4>4. s(l + 1).g <= s(k).g
        BY <1>1, <1>6, <2>2, <2>3, <4>2, <4>3
      <4> QED
        BY <1>6, <4>2, <4>4
    <3> QED
      BY <3>1, <3>2
  <2> QED
    BY <1>12, <2>1, <2>3, <2>4
<1>15. /\ s(l + 1).st # Start
       /\ s(l + 1).g + board.dist[s(l + 1).st] >= board.opt
       /\ s(l + 1).g <= s(l + 1).g
       /\ Solved(s(l + 1).st) => incumbent' # NoId
  <2>1. ASSUME Solved(t) PROVE IsGoal
    <3>1. board.dist[t] = 0
      BY <1>1, <2>1, ShortestFacts DEF Solved, IInv, Given
    <3>2. ChildH = 0
      BY <1>1, <3>1
    <3> QED
      BY <1>1, <2>1, <3>2 DEF IsGoal
  <2> QED
    BY <1>1, <1>6, <1>10, <1>11, <2>1
<1>16. Charted'
  <2>1. ASSUME NEW k \in 1 .. Len(arena'.recs)
        PROVE  /\ s(k).st = Start => s(k).g = 0
               /\ s(k).g + board.dist[s(k).st] >= board.opt
               /\ \E j \in 1 .. Len(arena'.recs) :
                    ~s(j).sup /\ s(j).st = s(k).st /\ s(j).g <= s(k).g
               /\ s(k).closed => ~Solved(s(k).st)
               /\ Solved(s(k).st) => s(k).g = 0 \/ incumbent' # NoId
    <3>1. CASE k \in 1 .. l
      BY <1>14, <3>1
    <3>2. CASE k = l + 1
      BY <1>6, <1>15, <3>2
    <3>3. k \in 1 .. l \/ k = l + 1
      BY <1>2
    <3> QED
      BY <3>1, <3>2, <3>3
  <2> QED
    BY <1>13, <2>1 DEF Charted
<1>17. Enough' <= Enough
  <2>1. CASE IsGoal
    <3>1. IncumbentMoves' = Child.g
      BY <1>6, <2>1 DEF IncumbentMoves, MovesOf
    <3>2. IncumbentMoves < Inf => Child.g + ChildH < IncumbentMoves
      BY DEF Admitted
    <3>3. IncumbentMoves \in Nat /\ Inf \in Nat
      BY EnoughFacts
    <3>4. IncumbentMoves' <= IncumbentMoves \/ IncumbentMoves >= Inf
      BY <1>1, <3>1, <3>2, <3>3
    <3> QED
      BY <3>4, EnoughLower
  <2>2. CASE ~IsGoal
    <3>1. Enough' = Enough /\ Enough \in Nat
      BY <1>8, <2>2, EnoughFalls, EnoughFacts
    <3> QED
      BY <3>1
  <2> QED
    BY <2>1, <2>2
<1> QED
  BY <1>7, <1>8, <1>9, <1>16, <1>17

LEMMA StoredExact == IInv /\ IInv' /\ policy = "exact" /\ Exact /\ PushStored => Exact'
<1> SUFFICES ASSUME IInv, IInv', policy = "exact", Exact, PushStored PROVE Exact'
  OBVIOUS
<1> DEFINE l == Len(arena.recs)
           t == Push.to
           best == IF IsGoal THEN l + 1 ELSE incumbent
           stored(ok) == Enqueue(Insert(arena, Child, ok), Child.g + P.weight * ChildH, ChildH,
                                 l + 1)
<1>1. /\ Expanding /\ cur # Idle /\ cur.todo # << >> /\ Admitted /\ ~IsFull(arena)
      /\ board' = board /\ ~P.goalPush /\ P.weight = 1
  BY ExactPolicy DEF PushStored, ToStore, Expanding
<1>2. PICK ok \in Grant :
        /\ Schedule(Child.g) \/ KeepSchedule
        /\ SpendStage \/ KeepStage
        /\ IF stored(ok).starved
           THEN StopAtLimit(stored(ok), best, policy, LimitF)
           ELSE /\ cur' = Tried /\ arena' = stored(ok) /\ incumbent' = best
                /\ UNCHANGED <<ladder, policy, status, interrupted, staging, polish, sealed>>
  BY <1>1 DEF PushStored
<1>3. /\ l \in Nat /\ Child \in Nodes /\ Reached(board, arena, Child) /\ Grows(arena)
      /\ status = "running"
      /\ Child.st = t /\ Child.g = arena.recs[cur.id].g + Push.cost /\ Child.g \in Nat
      /\ cur.id \in 1 .. l
      /\ ChildH \in Nat /\ ChildH <= board.dist[t] /\ board.dist[t] \in Nat /\ t \in States
      /\ Push.cost \in Nat
  BY <1>1, PushFacts, ChildBounds
<1>4. /\ arena' = stored(ok) /\ incumbent' = best /\ polish' = polish /\ ladder' = NoLadder
      /\ \/ cur' = Tried /\ UNCHANGED <<status, interrupted>>
         \/ cur' = Idle /\ status' = LimitStatus(stored(ok)) /\ interrupted' = LimitF
  <2>1. CASE stored(ok).starved
    BY <1>2, <2>1, ExactEnd DEF StopAtLimit
  <2>2. CASE ~stored(ok).starved
    BY <1>1, <1>2, <2>2 DEF Expanding
  <2> QED
    BY <2>1, <2>2
<1>5. PICK c : c = Insert(arena, Child, ok)
  OBVIOUS
<1> DEFINE key == [f |-> Child.g + ChildH, h |-> ChildH, id |-> l + 1]
<1>6. /\ Sound(board, c)
      /\ Len(c.recs) = l + 1 /\ Alike(c.recs[l + 1], Child)
      /\ ~c.recs[l + 1].closed /\ ~c.recs[l + 1].sup
      /\ \A i \in 1 .. l : Kept(c.recs[i], arena.recs[i], i, Find(arena, Child.st))
      /\ c.queue = arena.queue
  <2>1. ok \in Grants /\ Sound(board, arena)
    BY EngineAssumption DEF IInv
  <2> QED
    BY <1>1, <1>3, <1>5, <2>1, StoreSound
<1>7. arena'.recs = c.recs /\ arena'.queue = arena.queue \cup {key}
  <2>1. P.weight * ChildH = ChildH /\ 1 \in Nat
    BY <1>1, <1>3
  <2>2. [f |-> Child.g + ChildH, h |-> ChildH, id |-> l + 1] \in Keys
    BY <1>3 DEF Keys
  <2>3. arena' = Enqueue(c, Child.g + ChildH, ChildH, l + 1)
    BY <1>4, <1>5, <2>1
  <2>4. c \in Arenas
    BY <1>6, SoundUpward
  <2> QED
    BY <1>6, <2>2, <2>3, <2>4, EnqueueFacts
<1> HIDE DEF stored
<1>8. /\ Charted' /\ Grown /\ Enough' <= Enough
      /\ \A i \in 1 .. l : arena'.recs[i].closed = arena.recs[i].closed
      /\ ~arena'.recs[cur.id].sup
  <2>1. incumbent' = IF IsGoal THEN Len(arena.recs) + 1 ELSE incumbent
    BY <1>4
  <2> QED
    BY <1>1, <1>6, <1>7, <2>1, InsertedExact
<1>9. /\ l + 1 \in 1 .. Len(arena'.recs) /\ Len(arena'.recs) = l + 1
      /\ arena'.recs[l + 1].st = t /\ arena'.recs[l + 1].g = Child.g
      /\ ~arena'.recs[l + 1].closed
  BY <1>3, <1>6, <1>7 DEF Alike
<1>10. key.f = Child.g + ChildH /\ key.h = ChildH /\ key.id = l + 1 /\ key \in arena'.queue
  BY <1>7
<1>11. Keyed'
  <2>1. Solved(t) => ChildH = 0
    <3>1. Solved(t) => board.dist[t] = 0
      BY <1>3, ShortestFacts DEF Solved, IInv, Given
    <3> QED
      BY <1>3, <3>1
  <2>2. /\ key.f = arena'.recs[key.id].g + key.h
        /\ Solved(arena'.recs[key.id].st) => key.h = 0
    BY <1>9, <1>10, <2>1
  <2> HIDE DEF key
  <2>3. Keyed
    BY DEF Exact
  <2> QED
    BY <1>7, <1>8, <2>2, <2>3, KeyedKeeps
<1>12. \A q \in arena.queue : Passed(q)
  <2> SUFFICES ASSUME NEW q \in arena.queue PROVE Passed(q)
    OBVIOUS
  <2>1. q.f \in Nat /\ q \in arena'.queue
    BY <1>7, KeyBounds DEF IInv
  <2> QED
    BY <2>1 DEF Passed
<1>13. \A i \in l + 1 .. Len(arena'.recs) : Accounted(i)'
  <2> SUFFICES ASSUME NEW i, i = l + 1 PROVE Accounted(i)'
    BY <1>3, <1>9
  <2>1. OverF(i)' = Child.g + board.dist[t]
    BY <1>1, <1>9 DEF OverF
  <2>2. key.f <= Child.g + board.dist[t]
    BY <1>3, <1>10
  <2>3. QueuedBelow(i, OverF(i))'
    BY <1>10, <2>1, <2>2 DEF QueuedBelow
  <2> QED
    BY <1>9, <2>3 DEF Accounted
<1> HIDE DEF key, best
<1>14. /\ Complete /\ Opening /\ interrupted = Inf /\ Inf \in Nat /\ ~mayStage
       /\ polish = NoPolish /\ polished = Inf
  BY <1>3, EnoughFacts DEF Exact, Ends, Plain
<1>15. CurF \in Nat /\ LimitF \in Nat
  <2>1. arena.recs[cur.id].g \in Nat /\ cur.h \in Nat
    BY <1>1, PushFacts DEF IInv, CurOk, Fits
  <2> QED
    BY <2>1 DEF CurF, LimitF
<1>16. interrupted' \in Nat
  BY <1>4, <1>14, <1>15
<1>17. Plain'
  <2>1. polished' = polished
    BY <1>2, ExactSchedule
  <2>2. ~mayStage'
    BY <1>2, <1>14 DEF SpendStage, KeepStage
  <2> QED
    BY <1>4, <1>14, <1>16, <2>1, <2>2 DEF Plain
<1>18. CASE cur' = Tried /\ UNCHANGED <<status, interrupted>>
  <2>1. /\ cur'.id = cur.id /\ cur'.h = cur.h /\ cur'.partial = cur.partial
        /\ cur'.todo = Tail(cur.todo) /\ cur'.deferred = cur.deferred /\ cur.deferred \in Nat
    BY <1>1, <1>18, TriedFacts
  <2>2. Complete'
    <3>1. interrupted' <= interrupted
      BY <1>14, <1>18
    <3>2. \A i \in 1 .. Len(arena.recs) : i = cur.id /\ i # cur'.id => Accounted(i)'
      BY <2>1
    <3>3. \A i \in 1 .. Len(arena.recs) : arena'.recs[i].closed = arena.recs[i].closed
      BY <1>8
    <3>4. \A i \in Len(arena.recs) + 1 .. Len(arena'.recs) : Accounted(i)'
      BY <1>13
    <3> QED
      BY <1>8, <1>12, <1>14, <1>16, <3>1, <3>2, <3>3, <3>4, CompleteKeeps
  <2>3. Opening'
    <3>1. cur.deferred = Inf \/ cur.deferred > CurF
      BY <1>1, <1>14 DEF Opening
    <3>2. \E j \in 1 .. Len(arena'.recs) :
            /\ arena'.recs[j].st = Push.to
            /\ arena'.recs[j].g <= arena.recs[cur.id].g + Push.cost
      BY <1>3, <1>9
    <3>3. /\ cur'.deferred \in Nat /\ cur'.deferred <= cur.deferred
          /\ cur'.deferred = Inf \/ cur'.deferred > CurF
      BY <2>1, <3>1
    <3>4. arena'.recs[cur.id].closed = arena.recs[cur.id].closed
      BY <1>3, <1>8
    <3> QED
      BY <1>1, <1>8, <1>14, <2>1, <3>2, <3>3, <3>4, OpeningStays
  <2>4. Ends'
    BY <1>3, <1>14, <1>18 DEF Ends
  <2> QED
    BY <1>8, <1>11, <1>17, <2>2, <2>3, <2>4 DEF Exact
<1>19. CASE cur' = Idle /\ status' = LimitStatus(stored(ok)) /\ interrupted' = LimitF
  <2>1. Complete'
    <3>1. PICK k \in 1 .. Len(arena.recs) : k = cur.id
      BY <1>3
    <3>2. Accounted(k)'
      <4>1. interrupted' <= LimitF
        BY <1>15, <1>19
      <4>2. arena'.recs[cur.id].closed = arena.recs[cur.id].closed
        BY <1>3, <1>8
      <4>3. cur.deferred \in Nat
        BY <1>1, TriedFacts
      <4> QED
        BY <1>1, <1>8, <1>14, <1>16, <3>1, <4>1, <4>2, <4>3, OpenedAccounted
    <3>3. \A i \in 1 .. Len(arena.recs) : i = cur.id /\ i # cur'.id => Accounted(i)'
      BY <3>1, <3>2
    <3>4. \A i \in 1 .. Len(arena.recs) : arena'.recs[i].closed = arena.recs[i].closed
      BY <1>8
    <3>5. \A i \in Len(arena.recs) + 1 .. Len(arena'.recs) : Accounted(i)'
      BY <1>13
    <3>6. interrupted >= Inf /\ interrupted \in Nat
      BY <1>14
    <3> QED
      BY <1>8, <1>12, <1>14, <1>16, <3>3, <3>4, <3>5, <3>6, CompleteKeeps
  <2>2. Opening'
    BY <1>19 DEF Opening
  <2>3. Ends'
    BY <1>19 DEF Ends, LimitStatus
  <2> QED
    BY <1>8, <1>11, <1>17, <2>1, <2>2, <2>3 DEF Exact
<1> QED
  BY <1>4, <1>18, <1>19

(* The full arena: a solved child goes to the spare slot, unqueued, and    *)
(* the expansion that the limit cuts short is accounted for by its own.    *)
LEMMA AtLimitExact == IInv /\ IInv' /\ policy = "exact" /\ Exact /\ PushAtLimit => Exact'
<1> SUFFICES ASSUME IInv, IInv', policy = "exact", Exact, PushAtLimit PROVE Exact'
  OBVIOUS
<1> DEFINE l == Len(arena.recs)
           t == Push.to
<1>1. /\ Expanding /\ cur # Idle /\ cur.todo # << >> /\ Admitted /\ IsFull(arena)
      /\ board' = board /\ P.restart = "none"
  BY ExactPolicy DEF PushAtLimit, ToStore, Expanding
<1>2. PICK ok \in Grant :
        LET a  == IF IsGoal THEN Insert(arena, Child, ok) ELSE arena
            id == IF IsGoal THEN Len(a.recs) ELSE incumbent
        IN  /\ Schedule(Child.g) \/ KeepSchedule
            /\ StopAtLimit(a, id, policy, LimitF) /\ SpendStage
  BY <1>1 DEF PushAtLimit, MayStartOver
<1>3. /\ arena' = IF IsGoal THEN Insert(arena, Child, ok) ELSE arena
      /\ incumbent' = IF IsGoal THEN Len(arena'.recs) ELSE incumbent
      /\ polish' = polish /\ ladder' = NoLadder /\ cur' = Idle /\ interrupted' = LimitF
      /\ \E a : status' = LimitStatus(a)
  BY <1>2, ExactEnd DEF StopAtLimit
<1>4. /\ l \in Nat /\ Child \in Nodes /\ Grows(arena) /\ ~arena.starved /\ status = "running"
      /\ Child.st = t /\ Child.g \in Nat /\ cur.id \in 1 .. l
      /\ board.dist[t] \in Nat /\ t \in States
  BY <1>1, PushFacts, ChildBounds
<1>5. /\ Charted' /\ Grown /\ Enough' <= Enough
      /\ \A i \in 1 .. l : arena'.recs[i].closed = arena.recs[i].closed
      /\ \A i \in l + 1 .. Len(arena'.recs) : Accounted(i)'
      /\ arena'.queue = arena.queue
  <2>1. CASE IsGoal
    <3>1. arena' = Insert(arena, Child, ok) /\ ok \in Grants
      BY <1>3, <2>1, EngineAssumption
    <3>2. arena.table >= 4 /\ Consistent(arena)
      BY <1>4 DEF Grows, Buffered, IInv, Sound
    <3>3. /\ Len(arena'.recs) = l + 1
          /\ arena'.recs[l + 1] = [st |-> Child.st, g |-> Child.g, h |-> Child.h,
                                   par |-> Child.par, closed |-> FALSE, sup |-> FALSE]
          /\ \A i \in 1 .. l : Kept(arena'.recs[i], arena.recs[i], i, Find(arena, Child.st))
          /\ arena'.queue = arena.queue
      BY <1>4, <3>1, <3>2, InsertFacts
    <3>4. /\ Alike(arena'.recs[l + 1], Child) /\ ~arena'.recs[l + 1].closed
          /\ ~arena'.recs[l + 1].sup /\ arena'.recs[l + 1].st = t /\ arena'.recs[l + 1].g = Child.g
      BY <1>4, <3>3 DEF Alike
    <3>5. incumbent' = IF IsGoal THEN l + 1 ELSE incumbent
      BY <1>3, <3>3
    <3>6. /\ Charted' /\ Grown /\ Enough' <= Enough
          /\ \A i \in 1 .. l : arena'.recs[i].closed = arena.recs[i].closed
      BY <1>1, <3>3, <3>4, <3>5, InsertedExact
    <3>7. ASSUME NEW i, i = l + 1 PROVE Accounted(i)'
      <4>1. OverF(i)' = Child.g + board.dist[t]
        BY <1>1, <3>4, <3>7 DEF OverF
      <4>2. IncumbentMoves' = Child.g
        BY <1>4, <2>1, <3>4, <3>5 DEF IncumbentMoves, MovesOf, NoId
      <4>3. Enough' <= Child.g /\ Enough' \in Nat
        BY <4>2, EnoughNext
      <4>4. ~(OverF(i)' < Enough')
        BY <1>4, <4>1, <4>3
      <4> QED
        BY <3>4, <3>7, <4>4 DEF Accounted
    <3>8. \A i \in l + 1 .. Len(arena'.recs) : Accounted(i)'
      BY <1>4, <3>3, <3>7
    <3> QED
      BY <3>3, <3>6, <3>8
  <2>2. CASE ~IsGoal
    <3>1. arena' = arena /\ incumbent' = incumbent
      BY <1>3, <2>2
    <3>2. SameButQueue(arena, arena')
      BY <3>1, SoundUpward DEF IInv, SameButQueue, Alike
    <3>3. Grown /\ l + 1 .. Len(arena'.recs) = {}
      BY <1>1, <3>2, SameGrown
    <3>4. Charted'
      BY <1>1, <3>1, <3>2, ChartedSame DEF Exact
    <3>5. Enough' = Enough /\ Enough \in Nat
      BY <3>1, <3>3, EnoughFalls, EnoughFacts
    <3> QED
      BY <3>1, <3>3, <3>4, <3>5
  <2> QED
    BY <2>1, <2>2
<1>6. Keyed'
  BY <1>5, KeyedKeeps DEF Exact
<1>7. /\ Complete /\ Opening /\ interrupted = Inf /\ Inf \in Nat
      /\ polish = NoPolish /\ polished = Inf
  BY <1>4, EnoughFacts DEF Exact, Ends, Plain
<1>8. interrupted' \in Nat /\ interrupted' <= LimitF
  <2>1. arena.recs[cur.id].g \in Nat /\ cur.h \in Nat
    BY <1>1, PushFacts DEF IInv, CurOk, Fits
  <2>2. LimitF \in Nat
    BY <2>1 DEF LimitF
  <2> QED
    BY <1>3, <2>2
<1>9. Complete'
  <2>1. PICK k \in 1 .. Len(arena.recs) : k = cur.id
    BY <1>4
  <2>2. Accounted(k)'
    <3>1. arena'.recs[cur.id].closed = arena.recs[cur.id].closed
      BY <1>4, <1>5
    <3>2. cur.deferred \in Nat
      BY <1>1, TriedFacts
    <3> QED
      BY <1>1, <1>5, <1>7, <1>8, <2>1, <3>1, <3>2, OpenedAccounted
  <2>3. \A q \in arena.queue : Passed(q)
    <3> SUFFICES ASSUME NEW q \in arena.queue PROVE Passed(q)
      OBVIOUS
    <3>1. q.f \in Nat /\ q \in arena'.queue
      BY <1>5, KeyBounds DEF IInv
    <3> QED
      BY <3>1 DEF Passed
  <2>4. \A i \in 1 .. Len(arena.recs) : i = cur.id /\ i # cur'.id => Accounted(i)'
    BY <2>1, <2>2
  <2>5. \A i \in 1 .. Len(arena.recs) : arena'.recs[i].closed = arena.recs[i].closed
    BY <1>5
  <2>6. \A i \in Len(arena.recs) + 1 .. Len(arena'.recs) : Accounted(i)'
    BY <1>5
  <2>7. interrupted >= Inf /\ interrupted \in Nat
    BY <1>7
  <2> QED
    BY <1>5, <1>7, <1>8, <2>3, <2>4, <2>5, <2>6, <2>7, CompleteKeeps
<1>10. Opening'
  BY <1>3 DEF Opening
<1>11. Ends'
  BY <1>3 DEF Ends, LimitStatus
<1>12. Plain'
  <2>1. polished' = polished
    BY <1>2, ExactSchedule
  <2>2. ~mayStage'
    BY <1>2 DEF SpendStage
  <2> QED
    BY <1>3, <1>7, <1>8, <2>1, <2>2 DEF Plain
<1> QED
  BY <1>5, <1>6, <1>9, <1>10, <1>11, <1>12 DEF Exact

(* The last push is done: a node that left a push out is queued for it.    *)
LEMMA FinishExact == IInv /\ IInv' /\ policy = "exact" /\ Exact /\ FinishExpansion => Exact'
<1> SUFFICES ASSUME IInv, IInv', policy = "exact", Exact, FinishExpansion PROVE Exact'
  OBVIOUS
<1> DEFINE d == cur.deferred
<1>1. /\ cur # Idle /\ cur.todo = << >> /\ cur' = Idle
      /\ arena' = LET h == d - arena.recs[cur.id].g
                  IN  IF d = Inf THEN arena
                      ELSE Enqueue(arena, arena.recs[cur.id].g + P.weight * h, h, cur.id)
      /\ UNCHANGED <<board, ladder, status, incumbent, interrupted, mayStage, polish, polished>>
      /\ P.weight = 1 /\ status = "running"
  BY ExactPolicy DEF FinishExpansion, Expanding
<1>2. /\ Complete /\ Opening /\ Charted /\ interrupted = Inf /\ Inf \in Nat
  BY <1>1, EnoughFacts DEF Exact, Ends
<1>3. PICK k \in 1 .. Len(arena.recs) : k = cur.id
  BY <1>1, <1>2 DEF Opening
<1>4. PICK g \in Nat : g = arena.recs[k].g
  BY RecordFacts
<1>5. d \in Nat /\ (d = Inf \/ d >= g) /\ Sound(board, arena) /\ arena \in Arenas
  BY <1>2, <1>3, <1>4, SoundUpward DEF IInv, CurOk, Fits
<1>6. ~Solved(arena.recs[k].st)
  BY <1>1, <1>2, <1>3 DEF Opening, Charted
<1>7. /\ SameButQueue(arena, arena') /\ arena'.recs = arena.recs
      /\ arena.queue \subseteq arena'.queue
      /\ \A q \in arena'.queue : q \in arena.queue \/ (q.id = k /\ q.f = g + q.h)
      /\ d = Inf \/ \E q \in arena'.queue : q.id = cur.id /\ q.f <= d
  <2>1. CASE d = Inf
    BY <1>1, <1>5, <2>1 DEF SameButQueue, Alike
  <2>2. CASE d # Inf
    <3>1. PICK h \in Nat : h = d - g
      BY <1>5, <2>2
    <3>2. g + P.weight * h = d /\ d = g + h /\ k \in Nat \ {0}
      BY <1>1, <1>5, <3>1
    <3>3. arena' = Enqueue(arena, d, h, k)
      BY <1>1, <1>3, <1>4, <2>2, <3>1, <3>2
    <3> DEFINE key == [f |-> d, h |-> h, id |-> k]
    <3>4. key \in Keys
      BY <1>5, <3>1, <3>2 DEF Keys
    <3>5. /\ SameButQueue(arena, arena') /\ arena'.recs = arena.recs
          /\ arena'.queue = arena.queue \cup {key}
      BY <1>5, <3>3, <3>4, EnqueueFacts
    <3>6. key.id = cur.id /\ key.id = k /\ key.f = d /\ key.f = g + key.h
      BY <1>3, <3>2
    <3> HIDE DEF key
    <3>7. key.f <= d
      BY <1>5, <3>6
    <3> QED
      BY <3>5, <3>6, <3>7
  <2> QED
    BY <2>1, <2>2
<1>8. Grown /\ Len(arena.recs) + 1 .. Len(arena'.recs) = {}
  BY Zenon, <1>1, <1>7, SameGrown
<1>9. Enough' = Enough /\ Enough \in Nat
  BY Zenon, <1>1, <1>8, EnoughFalls, EnoughFacts
<1>10. Charted'
  BY Zenon, <1>1, <1>2, <1>7, ChartedSame
<1>11. Keyed'
  <2>1. \A q \in arena'.queue :
          q \in arena.queue \/
            /\ q.f = arena'.recs[q.id].g + q.h
            /\ Solved(arena'.recs[q.id].st) => q.h = 0
    BY <1>4, <1>6, <1>7
  <2>2. Keyed
    BY DEF Exact
  <2> QED
    BY <1>8, <2>1, <2>2, KeyedKeeps
<1>12. Complete'
  <2>1. Accounted(k)'
    <3>1. arena'.recs[cur.id].closed = arena.recs[cur.id].closed
      BY <1>7
    <3>2. interrupted' \in Nat /\ Enough' <= Enough
      BY <1>1, <1>2, <1>9
    <3> QED
      BY Zenon, <1>1, <1>2, <1>3, <1>5, <1>7, <1>8, <3>1, <3>2, OpenedAccounted
  <2>2. \A q \in arena.queue : Passed(q)
    <3> SUFFICES ASSUME NEW q \in arena.queue PROVE Passed(q)
      OBVIOUS
    <3>1. q.f \in Nat /\ q \in arena'.queue
      BY <1>5, <1>7, KeyBounds
    <3> QED
      BY <3>1 DEF Passed
  <2>3. \A i \in 1 .. Len(arena.recs) : i = cur.id /\ i # cur'.id => Accounted(i)'
    BY <1>3, <2>1
  <2>4. /\ \A i \in 1 .. Len(arena.recs) : arena'.recs[i].closed = arena.recs[i].closed
        /\ \A i \in Len(arena.recs) + 1 .. Len(arena'.recs) : Accounted(i)'
    BY <1>7, <1>8
  <2>5. /\ interrupted \in Nat /\ interrupted' \in Nat /\ interrupted >= Inf
        /\ Enough' <= Enough
    BY SMTT(40), <1>1, <1>2, <1>9
  <2> QED
    BY Zenon, <1>2, <1>8, <2>2, <2>3, <2>4, <2>5, CompleteKeeps
<1>13. Opening'
  BY <1>1 DEF Opening
<1>14. Plain' /\ Ends'
  BY <1>1, <1>2 DEF Exact, Plain, Ends
<1> QED
  BY <1>10, <1>11, <1>12, <1>13, <1>14 DEF Exact

-----------------------------------------------------------------------------
(* Builds and stops of an exact search, and the steps it never takes.      *)

(* The room bound's tables queue the start again, no higher than its       *)
(* distance.                                                               *)
LEMMA BuildExact == IInv /\ IInv' /\ policy = "exact" /\ Exact /\ BuildDone => Exact'
<1> SUFFICES ASSUME IInv, IInv', policy = "exact", Exact, BuildDone PROVE Exact'
  OBVIOUS
<1>1. /\ status = "running" /\ room = "building"
      /\ UNCHANGED <<board, cur, ladder, incumbent, interrupted, mayStage, polish, polished>>
  BY DEF BuildDone
<1>2. /\ cur = Idle /\ ladder = NoLadder /\ polish = NoPolish
      /\ Len(arena.recs) = 1 /\ arena.queue # {}
  BY <1>1 DEF IInv, RoomOk
<1>3. CASE UNCHANGED <<arena, status>>
  <2>1. Charted' /\ Keyed' /\ Complete' /\ Ends' /\ Plain'
    BY <1>1, <1>3, StillExact
  <2>2. Opening'
    BY <1>1, <1>2 DEF Opening
  <2> QED
    BY <2>1, <2>2 DEF Exact
<1>4. ASSUME NEW limit \in 1 .. arena.limit,
             LET a == Dequeue(Recharge(arena, limit))
                 h == IF board.room[Start] > Popped.h THEN board.room[Start] ELSE Popped.h
             IN  IF board.room[Start] = Inf
                 THEN arena' = a /\ status' = "exhausted"
                 ELSE arena' = Enqueue(a, P.weight * h, h, Popped.id) /\ UNCHANGED status
      PROVE  Exact'
  <2> DEFINE d == board.dist[Start]
  <2>1. /\ Charted /\ Keyed /\ Complete /\ interrupted = Inf /\ Inf \in Nat \ {0}
        /\ board \in Boards /\ Start \in States /\ d \in Nat /\ d <= Inf
        /\ board.opt = d /\ (d = 0) = (Start \in Goals)
        /\ P.weight = 1
    <3>1. board \in Boards /\ Start \in States /\ board.opt = board.dist[Start]
      BY BoardAssumption DEF IInv, Given
    <3> QED
      BY <1>1, <3>1, ShortestFacts, ExactPolicy DEF Exact, Ends
  <2>2. /\ Popped \in arena.queue /\ Popped.id = 1 /\ Popped.h \in Nat /\ Popped.f \in Nat
    <3>1. Popped \in arena.queue /\ Popped.id \in 1 .. Len(arena.recs)
      BY <1>2, PoppedFacts
    <3> QED
      BY <1>2, <3>1, KeyBounds DEF IInv
  <2>3. arena.recs[1].st = Start /\ arena.recs[1].g = 0
    <3>1. PICK k \in 1 .. Len(arena.recs) : arena.recs[k].st = Start
      BY <2>1 DEF Charted, Recorded
    <3>2. k = 1
      BY <1>2
    <3> QED
      BY <2>1, <3>1, <3>2 DEF Charted
  <2>4. Popped.f = Popped.h /\ (Solved(Start) => Popped.h = 0)
    BY <2>1, <2>2, <2>3 DEF Keyed
  <2>5. board.room[Start] \in Nat /\ board.room[Start] <= d
    BY <2>1, BoardFacts, EstimateFacts
  <2>6. PICK h \in Nat : h = IF board.room[Start] > Popped.h THEN board.room[Start] ELSE Popped.h
    BY <2>2, <2>5
  <2>7. PICK a : a = Dequeue(Recharge(arena, limit))
    OBVIOUS
  <2>8. /\ a \in Arenas /\ a.recs = arena.recs /\ a.queue = arena.queue \ {Popped}
    <3>1. PICK c : c = Recharge(arena, limit)
      OBVIOUS
    <3>2. Consistent(c) /\ c.recs = arena.recs /\ c.queue = arena.queue
      BY <3>1, RechargeFacts DEF IInv, Sound
    <3>3. Top(c) = Popped
      BY <3>2 DEF Top, Popped
    <3>4. c \in Arenas /\ a = Dequeue(c)
      BY <2>7, <3>1, <3>2 DEF Consistent
    <3> QED
      BY <3>2, <3>3, <3>4, DequeueFacts DEF SameButQueue
  <2> DEFINE key == [f |-> h, h |-> h, id |-> 1]
  <2>9. \/ board.room[Start] = Inf /\ arena' = a /\ status' = "exhausted"
        \/ board.room[Start] # Inf /\ arena' = Enqueue(a, h, h, 1) /\ status' = status
    <3>1. P.weight * h = h
      BY <2>1, <2>6
    <3> QED
      BY <1>4, <2>2, <2>6, <2>7, <3>1
  <2>10. /\ arena'.recs = arena.recs
         /\ \/ board.room[Start] = Inf /\ arena'.queue = arena.queue \ {Popped}
            \/ board.room[Start] # Inf /\ arena'.queue = (arena.queue \ {Popped}) \cup {key}
    <3>1. key \in Keys
      BY <2>6 DEF Keys
    <3> QED
      BY <2>8, <2>9, <3>1, EnqueueFacts
  <2>11. key.f = h /\ key.h = h /\ key.id = 1
    OBVIOUS
  <2> HIDE DEF key
  <2>12. Grown /\ Len(arena'.recs) = 1
    <3>1. Len(arena'.recs) = 1 /\ 1 <= 1
      BY <1>2, <2>10
    <3> QED
      BY <1>1, <1>2, <2>10, <3>1 DEF Grown, Alike
  <2>13. Enough' = Enough /\ Enough \in Nat /\ Enough <= Inf
    BY <1>1, <2>12, EnoughFalls, EnoughFacts
  <2>14. Charted'
    BY <1>1, <2>1, <2>10 DEF Charted, Recorded
  <2>15. Keyed'
    <3>1. key.f = arena'.recs[key.id].g + key.h
      BY <2>3, <2>6, <2>10, <2>11
    <3>2. Solved(arena'.recs[key.id].st) => key.h = 0
      BY <2>1, <2>3, <2>4, <2>5, <2>6, <2>10, <2>11 DEF Solved
    <3> QED
      BY <2>1, <2>10, <2>12, <3>1, <3>2, KeyedKeeps
  <2>16. \A q \in arena.queue : Passed(q)
    <3> SUFFICES ASSUME NEW q \in arena.queue PROVE Passed(q)
      OBVIOUS
    <3>1. q.f \in Nat
      BY KeyBounds DEF IInv
    <3>2. CASE q # Popped
      <4>1. q \in arena'.queue /\ q.f <= q.f
        BY <2>10, <3>1, <3>2
      <4> QED
        BY <4>1 DEF Passed
    <3>3. CASE q = Popped
      <4>1. OverF(q.id) = d
        BY <2>1, <2>2, <2>3, <3>3 DEF OverF
      <4>2. CASE board.room[Start] = Inf
        <5>1. OverF(q.id) >= Enough'
          BY <2>1, <2>5, <2>13, <4>1, <4>2
        <5> QED
          BY <5>1 DEF Passed
      <4>3. CASE board.room[Start] # Inf
        <5>1. key \in arena'.queue /\ key.id = q.id
          BY <2>2, <2>10, <2>11, <3>3, <4>3
        <5>2. key.f <= q.f \/ key.f <= OverF(q.id)
          BY <2>1, <2>4, <2>5, <2>6, <2>11, <3>1, <3>3, <4>1
        <5> QED
          BY <5>1, <5>2 DEF Passed
      <4> QED
        BY <4>2, <4>3
    <3> QED
      BY <3>2, <3>3
  <2>17. Complete'
    <3>1. cur.id \notin 1 .. Len(arena.recs)
      BY <1>2, IdleFacts
    <3>2. /\ \A i \in 1 .. Len(arena.recs) : i = cur.id /\ i # cur'.id => Accounted(i)'
          /\ \A i \in 1 .. Len(arena.recs) : arena'.recs[i].closed = arena.recs[i].closed
      BY <2>10, <3>1
    <3>3. \A i \in Len(arena.recs) + 1 .. Len(arena'.recs) : Accounted(i)'
      BY <1>2, <2>12
    <3>4. /\ interrupted \in Nat /\ interrupted' \in Nat /\ interrupted >= Inf
          /\ Enough' <= Enough
      BY <1>1, <2>1, <2>13
    <3> QED
      BY <2>1, <2>12, <2>16, <3>2, <3>3, <3>4, CompleteKeeps
  <2>18. Opening'
    BY <1>1, <1>2 DEF Opening
  <2>19. Plain'
    BY <1>1 DEF Exact, Plain
  <2>20. Ends'
    <3>1. CASE status' = "exhausted" /\ board.room[Start] = Inf
      <4>1. d = Inf
        BY <2>1, <2>5, <3>1
      <4>2. incumbent = NoId
        <5>1. ASSUME incumbent # NoId PROVE FALSE
          <6>1. incumbent \in 1 .. Len(arena.recs) /\ Solved(arena.recs[incumbent].st)
            BY <5>1, MovesFacts DEF IInv, SolvedId
          <6>2. Start \in Goals
            BY <1>2, <2>3, <6>1 DEF Solved
          <6> QED
            BY <2>1, <4>1, <6>2
        <5> QED
          BY <5>1
      <4> QED
        BY <1>1, <2>1, <3>1, <4>1, <4>2 DEF Ends
    <3>2. CASE status' = status
      BY <1>1, <2>1, <3>2 DEF Ends
    <3> QED
      BY <2>9, <3>1, <3>2
  <2> QED
    BY <2>14, <2>15, <2>17, <2>18, <2>19, <2>20 DEF Exact
<1>5. \/ UNCHANGED <<arena, status>>
      \/ \E limit \in 1 .. arena.limit :
           LET a == Dequeue(Recharge(arena, limit))
               h == IF board.room[Start] > Popped.h THEN board.room[Start] ELSE Popped.h
           IN  IF board.room[Start] = Inf
               THEN arena' = a /\ status' = "exhausted"
               ELSE arena' = Enqueue(a, P.weight * h, h, Popped.id) /\ UNCHANGED status
  BY DEF BuildDone
<1> QED
  BY <1>3, <1>4, <1>5

LEMMA WalkExact == IInv /\ Exact /\ WalkDone => Exact'
<1> SUFFICES ASSUME IInv, Exact, WalkDone PROVE Exact'
  OBVIOUS
<1>1. UNCHANGED <<arena, board, cur, ladder, status, incumbent, interrupted, mayStage, polish,
                  polished>>
  BY DEF WalkDone
<1>2. Charted' /\ Keyed' /\ Complete' /\ Ends' /\ Plain' /\ Enough' = Enough
  BY <1>1, StillExact
<1>3. Opening'
  BY <1>1, <1>2 DEF Exact, Opening, Settled, ThroughF, Edges, Recorded, CurF
<1> QED
  BY <1>2, <1>3 DEF Exact

LEMMA StopExact ==
  ASSUME NEW reason \in {"time_limit", "cancelled"}
  PROVE  IInv /\ Exact /\ Stop(reason) => Exact'
<1> SUFFICES ASSUME IInv, Exact, Stop(reason) PROVE Exact'
  OBVIOUS
<1>1. /\ status' = reason /\ cur = Idle /\ ladder' = NoLadder
      /\ UNCHANGED <<arena, board, cur, incumbent, interrupted, mayStage, polish, polished>>
  BY DEF Stop
<1>2. Charted' /\ Keyed' /\ Complete' /\ Enough' = Enough
  BY <1>1, StillRecords
<1>3. Ends' /\ Plain' /\ Opening'
  BY <1>1 DEF Exact, Ends, Plain, Opening
<1> QED
  BY <1>2, <1>3 DEF Exact

(* It has no ladder and no polisher to run.                                *)
LEMMA ExactNever ==
  ASSUME IInv, policy = "exact", Exact
  PROVE  /\ ~StageEarly /\ ~StageFull /\ ~StageUnit /\ ~StageSolved /\ ~StageGaveUp
         /\ ~PolishUnit /\ ~PolishDone
<1>1. /\ ladder.phase = "none" /\ polish = NoPolish /\ ~mayStage /\ ~P.stage
  BY EmptyValues, ExactPolicy DEF Exact, Plain
<1>2. ~StageFull /\ ~StageSolved /\ ~StageGaveUp /\ ~PolishUnit /\ ~PolishDone
  BY <1>1 DEF StageFull, StageSolved, StageGaveUp, PolishUnit, PolishDone, Polishing
<1>3. ~LadderUnit
  BY <1>1 DEF LadderUnit, OutOfChecks, SelectUnit, SearchPop, SearchSkip, SearchChild,
     SearchDone, AcceptUnit, Commit, FailUnit, Unit
<1>4. ~StageUnit
  BY <1>3 DEF StageUnit
<1>5. ASSUME StageEarly PROVE FALSE
  <2>1. /\ Expanding /\ cur.todo # << >> /\ AtFill /\ ~IsFull(arena)
    BY <1>5 DEF StageEarly, ToStore
  <2>2. Searching /\ Len(arena.recs) \in Nat /\ arena.limit \in Nat
    BY <2>1, PushFacts
  <2>3. fillAt \in Nat /\ fillAt <= Len(arena.recs) /\ Len(arena.recs) < arena.limit
    BY <2>1, <2>2 DEF AtFill, IsFull, IInv, FillOk
  <2> QED
    BY <1>1, <2>2, <2>3 DEF IInv, FillOk
<1> QED
  BY <1>2, <1>4, <1>5

-----------------------------------------------------------------------------
(* The exact invariant is inductive.                                       *)

LEMMA ExactStart == Init /\ IInv => ExactInv
<1> SUFFICES ASSUME Init, IInv, policy = "exact" PROVE Exact
  BY DEF ExactInv
<1> DEFINE n == [st |-> Start, g |-> 0, h |-> board.est[Start], par |-> NoId]
           d == board.dist[Start]
<1>1. /\ board \in Boards
      /\ cur = Idle /\ ladder = NoLadder /\ incumbent = NoId /\ interrupted = Inf
      /\ polish = NoPolish /\ polished = Inf /\ mayStage = P.stage
  BY DEF Init
<1>2. PICK limit \in Limits, ok \in Grant :
        /\ arena = Seed(NewArena(limit, limit < MaxLimit), P.weight, RootH, ok)
        /\ status = IF board.est[Start] = Inf THEN "exhausted" ELSE "running"
  BY DEF Init
<1>3. P.weight = 1 /\ ~P.stage /\ ok \in Grants
  BY ExactPolicy, EngineAssumption
<1>4. PICK k : k = NewArena(limit, limit < MaxLimit)
  OBVIOUS
<1>5. Emptied(board, k) /\ Len(k.recs) = 0
  <2>1. (limit < MaxLimit) \in BOOLEAN
    OBVIOUS
  <2> QED
    BY <1>4, <2>1, NewArenaEmptied
<1>6. /\ Start \in States /\ board.est[Start] \in Nat /\ RootH \in Nat
      /\ board.est[Start] <= d /\ RootH <= d /\ d \in Nat /\ d <= Inf /\ Inf \in Nat
      /\ board.opt = d /\ (d = 0) = (Start \in Goals)
  <2>1. Start \in States /\ board.opt = d
    BY <1>1, BoardAssumption
  <2> QED
    BY <1>1, <2>1, BoardFacts, ShortestFacts DEF RootH
<1>7. n \in Nodes /\ n.st = Start /\ n.g = 0
  BY <1>6 DEF Nodes, NoId
<1> HIDE DEF n
<1>8. PICK b : b = Insert(k, n, ok)
  OBVIOUS
<1>9. /\ b \in Arenas /\ Len(b.recs) = 1 /\ b.queue = {}
      /\ b.recs[1].st = Start /\ b.recs[1].g = 0 /\ ~b.recs[1].closed /\ ~b.recs[1].sup
  <2>1. /\ Consistent(b) /\ Len(b.recs) = 0 + 1 /\ b.queue = k.queue
        /\ b.recs[0 + 1] = [st |-> n.st, g |-> n.g, h |-> n.h, par |-> n.par,
                            closed |-> FALSE, sup |-> FALSE]
    <3>1. /\ Consistent(k) /\ Buffered(k, FALSE) /\ k.index = {} /\ k.resident = 0
          /\ k.table # 0 /\ ~k.starved /\ Len(k.recs) < k.limit
          /\ (Len(k.recs) + 2 < k.reserved \/ k.reserved > k.limit)
      BY <1>5, Zenon DEF Emptied, Sound
    <3>2. /\ Consistent(Insert(k, n, ok)) /\ Len(Insert(k, n, ok).recs) = Len(k.recs) + 1
          /\ Insert(k, n, ok).queue = k.queue
          /\ Insert(k, n, ok).recs[Len(k.recs) + 1]
               = [st |-> n.st, g |-> n.g, h |-> n.h, par |-> n.par,
                  closed |-> FALSE, sup |-> FALSE]
      BY <1>3, <1>7, <3>1, FirstInsert, Zenon
    <3> QED
      BY <1>5, <1>8, <3>2
  <2>2. 0 + 1 = 1
    OBVIOUS
  <2>3. PICK r : r = [st |-> n.st, g |-> n.g, h |-> n.h, par |-> n.par,
                      closed |-> FALSE, sup |-> FALSE]
    OBVIOUS
  <2>4. r.st = Start /\ r.g = 0 /\ ~r.closed /\ ~r.sup
    BY <1>7, <2>3
  <2>5. b.recs[1] = r
    BY <2>1, <2>2, <2>3
  <2>6. k.queue = {} /\ b \in Arenas
    BY <1>5, <2>1 DEF Emptied, Consistent
  <2>7. Len(b.recs) = 1 /\ b.queue = {}
    BY <2>1, <2>2, <2>6
  <2> QED
    BY <2>4, <2>5, <2>6, <2>7, Zenon
<1> DEFINE key == [f |-> RootH, h |-> RootH, id |-> 1]
<1>10. /\ arena.recs = b.recs
       /\ \/ board.est[Start] = Inf /\ arena.queue = {}
          \/ board.est[Start] # Inf /\ arena.queue = {key}
  <2>1. P.weight * RootH = RootH
    BY <1>3, <1>6
  <2>2. arena = IF board.est[Start] = Inf THEN b ELSE Enqueue(b, RootH, RootH, 1)
    BY <1>2, <1>4, <1>8, <1>9, <2>1 DEF Seed, n
  <2>3. key \in Keys
    BY <1>6 DEF Keys
  <2> QED
    BY <1>9, <2>2, <2>3, EnqueueFacts
<1>11. key.f = RootH /\ key.h = RootH /\ key.id = 1
  OBVIOUS
<1> HIDE DEF key
<1>12. /\ Len(arena.recs) = 1 /\ arena.recs[1].st = Start /\ arena.recs[1].g = 0
       /\ ~arena.recs[1].closed /\ ~arena.recs[1].sup
       /\ \A i \in 1 .. Len(arena.recs) : i = 1
       /\ 1 \in 1 .. Len(arena.recs)
  <2>1. arena.recs = b.recs /\ Len(b.recs) = 1
    BY <1>9, <1>10
  <2>2. /\ arena.recs[1].st = Start /\ arena.recs[1].g = 0
        /\ ~arena.recs[1].closed /\ ~arena.recs[1].sup
    BY <1>9, <2>1, Zenon
  <2>3. \A i \in 1 .. Len(arena.recs) : i = 1
    BY <2>1
  <2>4. Len(arena.recs) = 1 /\ 1 \in 1 .. Len(arena.recs)
    BY <2>1
  <2> QED
    BY <2>2, <2>3, <2>4, Zenon
<1>13. Charted
  BY <1>6, <1>12 DEF Charted, Recorded
<1>14. Keyed
  <2> SUFFICES ASSUME NEW q \in arena.queue
               PROVE  /\ q.f = arena.recs[q.id].g + q.h
                      /\ Solved(arena.recs[q.id].st) => q.h = 0
    BY DEF Keyed
  <2>1. q = key
    BY <1>10
  <2> QED
    BY <1>6, <1>11, <1>12, <2>1 DEF Solved
<1>15. Enough = Inf
  BY <1>1, <1>6 DEF Enough, Lesser, IncumbentMoves, MovesOf
<1>16. Complete
  <2>1. OverF(1) = d
    BY <1>6, <1>12 DEF OverF
  <2>2. Accounted(1)
    <3>1. CASE board.est[Start] = Inf
      BY <1>6, <1>12, <1>15, <2>1, <3>1 DEF Accounted
    <3>2. CASE board.est[Start] # Inf
      <4>1. key \in arena.queue /\ key.id = 1 /\ key.f <= OverF(1)
        BY <1>6, <1>10, <1>11, <2>1, <3>2
      <4> QED
        BY <1>12, <4>1 DEF Accounted, QueuedBelow
    <3> QED
      BY <3>1, <3>2
  <2> QED
    BY <1>12, <2>2 DEF Complete
<1>17. Opening /\ Plain
  BY <1>1, <1>3, <1>6 DEF Opening, Plain
<1>18. Ends
  BY <1>1, <1>2, <1>6 DEF Ends
<1> QED
  BY <1>13, <1>14, <1>16, <1>17, <1>18 DEF Exact

(* No phase and no restart leads to the exact search.                      *)
LEMMA ExactFromStart == IInv /\ [Next]_vars /\ policy' = "exact" => policy = "exact"
<1> SUFFICES ASSUME IInv, [Next]_vars, policy # "exact" PROVE policy' # "exact"
  OBVIOUS
<1>1. P.next # "exact" /\ P.restart # "exact"
  BY PolicyFacts DEF IInv, Given, P, Sane
<1>2. \A st, a, id, cut : End(st, a, id, policy, cut) => policy' = policy
  BY DEF End
<1>3. \A st, a, id, cut : End(st, a, id, P.next, cut) => policy' = P.next
  BY DEF End
<1>4. \A a, id, f : StopAtLimit(a, id, policy, f) => policy' = policy
  BY <1>2 DEF StopAtLimit
<1>5. \A a, id, f : StopAtLimit(a, id, P.next, f) => policy' = P.next
  BY <1>3 DEF StopAtLimit
<1>6. \A a, id : StartOver(a, id, policy) => policy' = policy
  BY DEF StartOver
<1>7. \A a, id : StartOver(a, id, P.restart) => policy' = P.restart
  BY DEF StartOver
<1>8. \A a, id : NextPhaseOrEnd(a, id) => policy' = policy \/ policy' = P.next
  BY <1>2 DEF NextPhaseOrEnd
<1>9. PopEmpty => policy' # "exact"
  BY <1>2 DEF PopEmpty
<1>10. PopSolved => policy' # "exact"
  BY <1>1, <1>8 DEF PopSolved
<1>11. PushStored => policy' # "exact"
  BY <1>1, <1>4, <1>5, <1>8 DEF PushStored
<1>12. PushAtLimit => policy' # "exact"
  BY <1>1, <1>4, <1>7 DEF PushAtLimit
<1>13. StageSolved => policy' # "exact"
  BY <1>1, <1>2, <1>5, <1>7 DEF StageSolved
<1>14. StageGaveUp => policy' # "exact"
  BY <1>1, <1>4, <1>6, <1>7 DEF StageGaveUp
<1>15. PopStale \/ PopPruned \/ PopExpand \/ PushDropped \/ FinishExpansion => policy' = policy
  BY DEF PopStale, PopPruned, PopExpand, PushDropped, FinishExpansion
<1>16. StageEarly \/ StageFull \/ StageUnit => policy' = policy
  BY DEF StageEarly, StageFull, StageUnit, StartStaging, Rest
<1>17. BuildDone \/ WalkDone \/ PolishUnit \/ PolishDone => policy' = policy
  BY DEF BuildDone, WalkDone, PolishUnit, PolishDone
<1>18. (\E reason \in {"time_limit", "cancelled"} : Stop(reason)) => policy' = policy
  BY DEF Stop
<1>19. UNCHANGED vars => policy' = policy
  BY DEF vars
<1> QED
  BY <1>9, <1>10, <1>11, <1>12, <1>13, <1>14, <1>15, <1>16, <1>17, <1>18, <1>19
     DEF Next, Advance, Terminated

LEMMA ExactStep == IInv /\ ExactInv /\ [Next]_vars => ExactInv'
<1> SUFFICES ASSUME IInv, ExactInv, [Next]_vars, policy' = "exact" PROVE Exact'
  BY DEF ExactInv
<1>1. policy = "exact" /\ Exact /\ IInv'
  BY ExactFromStart, StepKeeps DEF ExactInv
<1>2. CASE Advance
  BY <1>1, <1>2, ExactNever, EmptyExact, StaleExact, SolvedExact, PrunedExact, ExpandExact,
     DroppedExact, StoredExact, AtLimitExact, FinishExact, BuildExact, WalkExact, Zenon
     DEF Advance
<1>3. ASSUME NEW reason \in {"time_limit", "cancelled"}, Stop(reason) PROVE Exact'
  BY <1>1, <1>3, StopExact
<1>4. CASE UNCHANGED vars
  <2>1. /\ UNCHANGED <<arena, board, cur, incumbent, interrupted, status>>
        /\ UNCHANGED <<ladder, mayStage, polish, polished>>
    BY <1>4 DEF vars
  <2>2. Charted' /\ Keyed' /\ Complete' /\ Ends' /\ Plain' /\ Enough' = Enough
    BY <1>1, <2>1, StillExact
  <2>3. Opening'
    BY <1>1, <2>1, <2>2 DEF Exact, Opening, Settled, ThroughF, Edges, Recorded, CurF
  <2> QED
    BY <2>2, <2>3 DEF Exact
<1> QED
  BY <1>2, <1>3, <1>4 DEF Next, Terminated
-----------------------------------------------------------------------------
(* What it gives of the checked invariants.                                *)

LEMMA FrontierFacts ==
  ASSUME IInv, Exact
  PROVE  \E m \in Nat :
           /\ Frontier = Lesser(m, interrupted)
           /\ \A q \in arena.queue : m <= q.f
           /\ m = Inf \/ \E q \in arena.queue : m = q.f
<1>1. arena \in Arenas /\ Inf \in Nat
  BY SoundUpward, ArenaFields, BoardAssumption DEF IInv, Sound, Consistent
<1>2. PICK m : m = MinF(arena, Inf)
  OBVIOUS
<1>3. CASE arena.queue = {}
  BY <1>1, <1>2, <1>3 DEF Frontier, MinF
<1>4. CASE arena.queue # {}
  <2>1. Top(arena) \in arena.queue /\ \A q \in arena.queue : Before(Top(arena), q)
    BY <1>1, <1>4, TopFacts
  <2>2. PICK t \in arena.queue : t = Top(arena)
    BY <2>1
  <2>3. m = t.f
    BY <1>2, <1>4, <2>2 DEF MinF
  <2>4. \A q \in arena.queue : q.f \in Nat
    BY KeyBounds DEF IInv
  <2>5. \A q \in arena.queue : m <= q.f
    BY <2>1, <2>2, <2>3, <2>4 DEF Before
  <2> QED
    BY <1>2, <2>2, <2>3, <2>4, <2>5 DEF Frontier
<1> QED
  BY <1>3, <1>4

(* The incumbent, if there is one, is no shorter than the optimum.         *)
LEMMA RouteAtLeast ==
  ASSUME IInv, Exact
  PROVE  /\ BestMoves = Enough /\ Enough \in Nat /\ Enough <= Inf /\ Inf \in Nat
         /\ board.opt \in Nat /\ board.opt <= Enough
         /\ Enough = Lesser(Inf, IncumbentMoves) /\ IncumbentMoves \in Nat
<1>1. /\ Enough \in Nat /\ Enough <= Inf /\ Inf \in Nat /\ IncumbentMoves \in Nat
      /\ Enough = Lesser(Inf, IncumbentMoves)
  BY EnoughFacts DEF Enough
<1>2. BestMoves = Enough
  <2>1. polish = NoPolish /\ polished = Inf
    BY DEF Exact, Plain
  <2>2. polish.best = Inf
    BY <2>1 DEF NoPolish
  <2>3. BestMoves = Lesser(Inf, Enough)
    BY <2>1, <2>2 DEF BestMoves, Enough
  <2> QED
    BY <1>1, <2>3 DEF Lesser
<1>3. board \in Boards /\ Start \in States /\ board.opt = board.dist[Start]
  BY BoardAssumption DEF IInv, Given
<1>4. board.opt \in Nat /\ board.opt <= Inf
  BY <1>3, ShortestFacts
<1>5. board.opt <= IncumbentMoves
  <2>1. CASE incumbent = NoId
    BY <1>4, <2>1 DEF IncumbentMoves, MovesOf
  <2>2. CASE incumbent # NoId
    <3>1. incumbent \in 1 .. Len(arena.recs) /\ Solved(arena.recs[incumbent].st)
      BY <2>2, SoundUpward DEF IInv, SolvedId, NoId
    <3>2. arena.recs[incumbent].st \in States /\ arena.recs[incumbent].g \in Nat
      BY <3>1, RecordFacts
    <3>3. board.dist[arena.recs[incumbent].st] = 0
      BY <1>3, <3>1, <3>2, ShortestFacts DEF Solved
    <3>4. arena.recs[incumbent].g + board.dist[arena.recs[incumbent].st] >= board.opt
      BY <3>1 DEF Exact, Charted
    <3>5. IncumbentMoves = arena.recs[incumbent].g
      BY <2>2 DEF IncumbentMoves, MovesOf
    <3> QED
      BY <1>4, <3>2, <3>3, <3>4, <3>5
  <2> QED
    BY <2>1, <2>2
<1> QED
  BY <1>1, <1>2, <1>4, <1>5 DEF Lesser

LEMMA BoundHolds == IInv /\ ExactInv => LowerBoundSound
<1> SUFFICES ASSUME IInv, Exact, cur = Idle, board.opt < Inf
             PROVE  LowerBound <= board.opt
  BY RouteAtLeast DEF LowerBoundSound, ExactInv
<1>1. PICK w \in Nat, o \in Nat, t \in Nat :
        /\ w = Enough /\ o = board.opt /\ t = interrupted
        /\ BestMoves = w /\ o <= w /\ w <= Inf /\ Inf \in Nat /\ o < Inf
  BY RouteAtLeast DEF Exact, Plain
<1>2. PICK m \in Nat : /\ Frontier = Lesser(m, interrupted)
                       /\ \A q \in arena.queue : m <= q.f
  BY FrontierFacts
<1>3. w <= o \/ t <= o \/ m <= o
  <2>1. \A q \in arena.queue : q.f \in Nat
    BY KeyBounds DEF IInv
  <2>2. w <= o \/ t <= o \/ \E q \in arena.queue : q.f <= o
    BY <1>1, OptimumAhead
  <2> QED
    BY <1>2, <2>1, <2>2
<1>4. PICK f \in Nat : f = Frontier /\ (w <= o \/ f <= o)
  BY <1>1, <1>2, <1>3 DEF Lesser
<1>5. LowerBound = IF w < Inf /\ f >= w THEN w ELSE f
  BY <1>1, <1>4 DEF LowerBound
<1> QED
  BY <1>1, <1>4, <1>5

LEMMA ProofHolds == IInv /\ ExactInv => ProofSound
<1> SUFFICES ASSUME IInv, Exact, policy = "exact" PROVE ProofSound
  BY DEF ProofSound, ExactInv
<1>1. PICK w \in Nat, o \in Nat :
        /\ w = Enough /\ o = board.opt
        /\ BestMoves = w /\ o <= w /\ w <= Inf /\ Inf \in Nat
  BY RouteAtLeast
<1>2. PICK l \in Nat : l = LowerBound /\ (status # "running" /\ o < Inf => l <= o)
  <2>1. Frontier \in Nat
    BY FrontierFacts DEF Lesser, Exact, Plain
  <2>2. LowerBound \in Nat
    BY <1>1, <2>1 DEF LowerBound
  <2>3. LowerBound <= board.opt \/ board.opt >= Inf \/ status = "running"
    BY BoundHolds DEF LowerBoundSound, ExactInv, IInv, PolishOk
  <2> QED
    BY <1>1, <2>2, <2>3
<1>3. Proof = IF status = "running" THEN [kind |-> "none"]
              ELSE IF status = "exhausted" /\ w = Inf THEN [kind |-> "unsolvable"]
              ELSE IF w = Inf \/ l = Inf THEN [kind |-> "none"]
              ELSE IF l >= w THEN [kind |-> "optimal", moves |-> w]
              ELSE [kind |-> "bounded", lower |-> l, upper |-> w]
  BY <1>1, <1>2 DEF Proof
<1>4. Proof.kind = "optimal" => Proof.moves = board.opt
  BY <1>1, <1>2, <1>3
<1>5. Proof.kind = "unsolvable" => board.opt >= Inf
  BY <1>1, <1>2, <1>3 DEF Exact, Ends
<1>6. Proof.kind = "bounded" => Proof.lower <= board.opt /\ board.opt <= Proof.upper
  BY <1>1, <1>2, <1>3
<1>7. ASSUME status = "solved" PROVE incumbent # NoId /\ (IncumbentMoves < Inf => Proof.kind = "optimal")
  <2>1. /\ incumbent # NoId /\ interrupted = Inf
        /\ \A q \in arena.queue : q.f >= Enough
    BY <1>7 DEF Exact, Ends
  <2> SUFFICES ASSUME IncumbentMoves < Inf PROVE Proof.kind = "optimal"
    BY <2>1
  <2>2. w < Inf
    BY <1>1, RouteAtLeast DEF Lesser
  <2>3. PICK m \in Nat : /\ Frontier = Lesser(m, interrupted)
                         /\ m = Inf \/ \E q \in arena.queue : m = q.f
    BY FrontierFacts
  <2>4. m >= w
    BY <1>1, <2>1, <2>3
  <2>5. PICK f \in Nat : f = Frontier /\ f >= w
    BY <1>1, <2>1, <2>3, <2>4 DEF Lesser
  <2>6. l = w
    BY <1>1, <1>2, <2>2, <2>5 DEF LowerBound
  <2> QED
    BY <1>1, <1>3, <1>7, <2>2, <2>6
<1>8. ASSUME status = "exhausted" PROVE Proof.kind = "unsolvable"
  <2>1. incumbent = NoId
    BY <1>8 DEF Exact, Ends
  <2>2. Enough = Inf
    BY <1>1, <2>1 DEF Enough, Lesser, IncumbentMoves, MovesOf
  <2> QED
    BY <1>1, <1>3, <1>8, <2>2
<1> QED
  BY <1>4, <1>5, <1>6, <1>7, <1>8 DEF ProofSound

LEMMA CompleteHolds == IInv /\ ExactInv => FrontierComplete
<1> SUFFICES ASSUME IInv, Exact, cur = Idle,
                    NEW i \in 1 .. Len(arena.recs), ~arena.recs[i].sup
             PROVE  Accounted(i)
  BY DEF FrontierComplete, ExactInv, Accounted, Covered, ThroughF, OverF, Enough, Edges,
         Recorded, QueuedBelow
<1>1. i # cur.id
  BY DEF Idle, NoId
<1> QED
  BY <1>1 DEF Exact, Complete

-----------------------------------------------------------------------------
(* The strengthening is an invariant of every search: only "exact" starts  *)
(* as the exact policy, and no phase or restart leads to it.  The rest of  *)
(* it follows step by step from the inductive invariant of the engine.     *)
THEOREM ExactInductive == Spec => []ExactInv
<1>1. Init /\ IInv => ExactInv
  BY ExactStart
<1>2. IInv /\ ExactInv /\ [Next]_vars => ExactInv'
  BY ExactStep
<1> QED
  BY Inductive, <1>1, <1>2, PTL DEF Spec

(* Between expansions an exact search has lost no shorter route: of each   *)
(* push of an expanded node and of each node still open, the next position *)
(* is recorded as cheaply, the node is queued for it, or the limit that    *)
(* cut an expansion short accounts for it (engine.rs 372-390, 1440-1447,   *)
(* exact.rs 36-44).                                                        *)
THEOREM LosesNoRoute == Spec => []FrontierComplete
BY Inductive, ExactInductive, CompleteHolds, PTL

(* ExactSearch::lower_bound is at most the optimum whenever the caller can *)
(* read it, through reopenings, deferred pushes, raised keys and an        *)
(* expansion that a limit cut short (exact.rs 36-44, engine.rs 776-790).   *)
THEOREM BoundIsSound == Spec => []LowerBoundSound
BY Inductive, ExactInductive, BoundHolds, PTL

(* certify tells the truth: "optimal" names the optimum, "unsolvable" is   *)
(* said only of a board without a route below a saturated count, "bounded" *)
(* brackets the optimum, and a search that ends solved or exhausted        *)
(* certifies its answer (exact.rs 45-75, lib.rs 238-251).                  *)
THEOREM CertificatesHold == Spec => []ProofSound
BY Inductive, ExactInductive, ProofHolds, PTL

=============================================================================
