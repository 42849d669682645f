---------------------------- MODULE ArenaProofs ----------------------------
(***************************************************************************)
(* Proofs that an arena used by any search that keeps its contract is      *)
(* sound, for every number of positions, chunk size, first table and       *)
(* limits: ArenaClient's invariants but the order of parents.              *)
(***************************************************************************)
EXTENDS ArenaClient, ArenaLemmas

-----------------------------------------------------------------------------
(* The inductive invariant.                                                *)

IInv ==
  /\ weight \in Nat \ {0}
  /\ spent \in BOOLEAN
  /\ Consistent(arena)
  /\ QueueBacked
  /\ Buffered(arena, spent)

(* What the inductive invariant gives of the checked ones.                 *)
LEMMA InvariantsHold ==
  IInv => TypeOK /\ BoundIsLive /\ OneLivePerState /\ ProbesEnd /\ RoomAhead /\ QueueBacked
<1> SUFFICES ASSUME IInv
             PROVE  TypeOK /\ BoundIsLive /\ OneLivePerState /\ ProbesEnd /\ RoomAhead /\ QueueBacked
  OBVIOUS
<1> DEFINE l == Len(arena.recs)
<1>1. /\ arena \in Arenas
      /\ l \in Nat /\ arena.limit \in Nat /\ arena.reserved \in Nat
      /\ arena.starved \in BOOLEAN /\ spent \in BOOLEAN
  <2>1. arena \in Arenas /\ spent \in BOOLEAN
    BY DEF IInv, Consistent
  <2>2. MaxLimit \in Nat
    BY ArenaAssumption
  <2> QED
    BY <2>1, <2>2 DEF Arenas
<1>2. TypeOK
  BY <1>1 DEF IInv, TypeOK
<1>3. BoundIsLive
  BY DEF IInv, Consistent, Bound, Live, BoundIsLive, Ids
<1>4. OneLivePerState
  BY DEF IInv, Consistent, OneLive, Live, OneLivePerState, Ids
<1>5. ProbesEnd
  BY DEF IInv, Consistent, Counted, Buffered, ProbesEnd
<1>6. RoomAhead
  <2>1. l <= arena.reserved /\ l <= arena.limit + 1
    BY DEF IInv, Buffered
  <2>2. ASSUME MayInsert PROVE l < arena.reserved /\ l < arena.limit + 1
    <3>1. l <= arena.limit /\ arena.table # 0 /\ (IsFull(arena) => ~spent)
      BY <2>2 DEF MayInsert
    <3>2. arena.starved => l < arena.reserved
      BY <3>1 DEF IInv, Buffered, IsFull
    <3>3. ~arena.starved => l + 1 < arena.reserved \/ arena.reserved > arena.limit
      BY <3>1 DEF IInv, Buffered
    <3> QED
      BY <1>1, <3>1, <3>2, <3>3
  <2> QED
    BY <1>1, <2>1, <2>2 DEF RoomAhead, Room, Lesser
<1>7. QueueBacked
  BY DEF IInv
<1> QED
  BY <1>2, <1>3, <1>4, <1>5, <1>6, <1>7

(* A new arena satisfies it.                                               *)
LEMMA InitHolds == Init => IInv
<1> SUFFICES ASSUME Init PROVE IInv
  OBVIOUS
<1>1. PICK limit \in Limits : arena = NewArena(limit, limit < MaxLimit)
  BY DEF Init
<1>2. limit \in 1 .. MaxLimit /\ MaxLimit \in Nat /\ limit \in Nat /\ limit >= 1
  <2>1. MaxLimit \in Nat /\ Limits \subseteq 1 .. MaxLimit
    BY ArenaAssumption, ClientAssumption
  <2> QED
    BY <2>1
<1>3. /\ FinalTable[limit + 1] \in Nat /\ FinalTable[limit + 1] >= 4
      /\ FirstTable \in Nat /\ FirstTable >= 4
      /\ Chunk \in Nat /\ Chunk >= 4
  <2>1. limit + 1 \in 1 .. MaxLimit + 1
    BY <1>2
  <2>2. FinalTable[limit + 1] \in Nat /\ FinalTable[limit + 1] >= 2 * (limit + 1)
    BY <2>1, ArenaAssumption
  <2>3. FinalTable[limit + 1] >= 4
    BY <1>2, <2>2
  <2> QED
    BY <2>2, <2>3, ArenaAssumption
<1>4. /\ arena.recs = << >> /\ arena.index = {} /\ arena.queue = {}
      /\ arena.resident = 0 /\ arena.starved = FALSE
      /\ arena.table \in Nat /\ arena.table >= 4
      /\ arena.reserved \in Nat /\ arena.reserved >= 4
      /\ arena.limit = limit
  BY <1>1, <1>3 DEF NewArena, Lesser
<1>5. Len(arena.recs) = 0
  BY <1>4
<1>6. arena \in Arenas
  <2>1. arena.recs \in Seq(Records)
    BY <1>4, EmptySeq
  <2>2. arena.scaled \in BOOLEAN
    BY <1>1 DEF NewArena
  <2> QED
    BY <1>1, <1>2, <1>4, <2>1, <2>2 DEF Arenas, NewArena
<1>7. Live(arena) = {}
  BY <1>5 DEF Live
<1>8. Consistent(arena)
  BY <1>4, <1>6, <1>7, FS_EmptySet DEF Consistent, Bound, OneLive, Counted
<1>9. QueueBacked
  BY <1>4 DEF QueueBacked
<1>10. spent = FALSE
  BY DEF Init
<1>11. Buffered(arena, FALSE)
  BY <1>2, <1>4, <1>5 DEF Buffered
<1>12. weight \in Nat \ {0}
  BY ClientAssumption DEF Init
<1> QED
  BY <1>8, <1>9, <1>10, <1>11, <1>12 DEF IInv

-----------------------------------------------------------------------------
(* The steps that pop or rekey: no buffer, binding or superseded flag      *)
(* changes, so only the queue is in question.                              *)

LEMMA QueueStep ==
  ASSUME IInv, SameButQueue(arena, arena'), weight' \in Nat \ {0}, spent' = spent, QueueBacked'
  PROVE  IInv'
<1>1. Live(arena') = Live(arena)
  BY DEF SameButQueue, Live
<1>2. Consistent(arena')
  <2>1. OneLive(arena')
    <3> SUFFICES ASSUME NEW i \in Live(arena), NEW j \in Live(arena),
                        arena'.recs[i].st = arena'.recs[j].st
                 PROVE  i = j
      BY <1>1 DEF OneLive
    <3>1. i \in 1 .. Len(arena.recs) /\ j \in 1 .. Len(arena.recs)
      BY DEF Live
    <3> QED
      BY <3>1 DEF SameButQueue, Alike, IInv, Consistent, OneLive
  <2> QED
    BY <1>1, <2>1 DEF SameButQueue, IInv, Consistent, Bound, Counted
<1>3. Buffered(arena', spent')
  BY DEF SameButQueue, IInv, Buffered, IsFull
<1> QED
  BY <1>2, <1>3 DEF IInv

LEMMA PopStaleKeeps == IInv /\ PopStale => IInv'
<1> SUFFICES ASSUME IInv, PopStale PROVE IInv'
  OBVIOUS
<1>1. arena \in Arenas /\ arena' = Dequeue(arena) /\ weight' = weight /\ spent' = spent
  BY DEF IInv, Consistent, PopStale
<1>2. SameButQueue(arena, arena') /\ arena'.queue \subseteq arena.queue /\ arena'.recs = arena.recs
  BY <1>1, DequeueFacts
<1>3. QueueBacked'
  BY <1>1, <1>2 DEF IInv, QueueBacked, Ids
<1> QED
  BY <1>1, <1>2, <1>3, QueueStep DEF IInv

LEMMA PopExpandKeeps == IInv /\ PopExpand => IInv'
<1> SUFFICES ASSUME IInv, PopExpand PROVE IInv'
  OBVIOUS
<1>1. PICK p \in arena.queue : arena' = Close(Dequeue(arena), p.id)
  BY DEF PopExpand
<1>2. arena \in Arenas /\ weight' = weight /\ spent' = spent
  BY DEF IInv, Consistent, PopExpand
<1> DEFINE d == Dequeue(arena)
<1>3. SameButQueue(arena, d) /\ d.queue \subseteq arena.queue /\ d.recs = arena.recs
  BY <1>2, DequeueFacts
<1>4. p.id \in 1 .. Len(d.recs)
  BY <1>3 DEF IInv, QueueBacked, Ids
<1>5. SameButQueue(d, arena') /\ arena'.queue = d.queue
  BY <1>1, <1>3, <1>4, CloseFacts DEF SameButQueue
<1>6. SameButQueue(arena, arena') /\ arena'.queue \subseteq arena.queue
  BY <1>3, <1>5, SameTransitive
<1>7. QueueBacked'
  BY <1>2, <1>6 DEF SameButQueue, Alike, IInv, QueueBacked, Ids
<1> QED
  BY <1>2, <1>6, <1>7, QueueStep DEF IInv

LEMMA PopRequeueKeeps ==
  ASSUME NEW h \in Hs
  PROVE  IInv /\ PopRequeue(h) => IInv'
<1> SUFFICES ASSUME IInv, PopRequeue(h) PROVE IInv'
  OBVIOUS
<1>1. PICK p \in arena.queue :
        /\ p = Top(arena)
        /\ arena' = Enqueue(Close(Dequeue(arena), p.id),
                            arena.recs[p.id].g + weight * h, h, p.id)
  BY DEF PopRequeue
<1>2. arena \in Arenas /\ weight' = weight /\ spent' = spent /\ weight \in Nat /\ h \in Nat
  BY ClientAssumption DEF IInv, Consistent, PopRequeue
<1> DEFINE d == Dequeue(arena)
           c == Close(d, p.id)
           f == arena.recs[p.id].g + weight * h
<1>3. SameButQueue(arena, d) /\ d.queue = arena.queue \ {p} /\ d.recs = arena.recs
  BY <1>1, <1>2, DequeueFacts
<1>4. p.id \in 1 .. Len(arena.recs) /\ p.id \in 1 .. Len(d.recs)
  BY <1>3 DEF IInv, QueueBacked, Ids
<1>5. SameButQueue(d, c) /\ c.queue = d.queue
  BY <1>3, <1>4, CloseFacts DEF SameButQueue
<1>6. [f |-> f, h |-> h, id |-> p.id] \in Keys
  <2>1. arena.recs[p.id].g \in Nat
    BY <1>2, <1>4, RecordFields DEF Arenas
  <2>2. p.id \in Nat \ {0}
    BY <1>2 DEF Arenas, Keys
  <2> QED
    BY <1>2, <2>1, <2>2, KeyFacts
<1>0. arena' = Enqueue(c, f, h, p.id) /\ c \in Arenas
  BY <1>1, <1>5 DEF SameButQueue
<1> HIDE DEF d, c, f
<1>7. /\ SameButQueue(c, arena')
      /\ arena'.queue = (arena.queue \ {p}) \cup {[f |-> f, h |-> h, id |-> p.id]}
  BY <1>0, <1>3, <1>5, <1>6, EnqueueFacts
<1>8. SameButQueue(arena, arena')
  BY <1>3, <1>5, <1>7, SameTransitive
<1>9. QueueBacked'
  <2>1. \A q \in arena.queue \ {p} : q.id # p.id
    BY DEF IInv, QueueBacked
  <2>2. \A q \in arena.queue \ {p} : /\ q.id \in Ids
                                     /\ q.f = arena.recs[q.id].g + weight * q.h
    BY DEF IInv, QueueBacked
  <2>3. \A i \in Ids : arena'.recs[i].g = arena.recs[i].g
    BY <1>8 DEF SameButQueue, Alike, Ids
  <2>4. Ids' = Ids
    BY <1>8 DEF SameButQueue, Ids
  <2>5. \A q \in arena'.queue : /\ q.id \in Ids'
                               /\ q.f = arena'.recs[q.id].g + weight' * q.h
    <3> SUFFICES ASSUME NEW q \in arena'.queue
                 PROVE  q.id \in Ids /\ q.f = arena.recs[q.id].g + weight * q.h
      BY <1>2, <2>3, <2>4
    <3>1. CASE q \in arena.queue \ {p}
      BY <2>2, <3>1
    <3>2. CASE q = [f |-> f, h |-> h, id |-> p.id]
      BY <1>4, <3>2 DEF f, Ids
    <3> QED
      BY <1>7, <3>1, <3>2
  <2>6. \A q, r \in arena'.queue : q.id = r.id => q = r
    BY <1>7, <2>1 DEF IInv, QueueBacked
  <2> QED
    BY <2>5, <2>6 DEF QueueBacked
<1> QED
  BY <1>2, <1>8, <1>9, QueueStep DEF IInv

LEMMA RekeyKeeps ==
  ASSUME NEW w \in Weights
  PROVE  IInv /\ Rekey(w) => IInv'
<1> SUFFICES ASSUME IInv, Rekey(w) PROVE IInv'
  OBVIOUS
<1> DEFINE key(q) == [f |-> arena.recs[q.id].g + w * q.h, h |-> q.h, id |-> q.id]
           keys == {key(q) : q \in arena.queue}
<1>1. /\ arena \in Arenas /\ weight' = w /\ spent' = spent
      /\ w \in Nat \ {0}
      /\ arena' = [arena EXCEPT !.queue = keys]
  BY ClientAssumption DEF IInv, Consistent, Rekey, Reweight
<1>2. \A q \in arena.queue : key(q) \in Keys /\ q.id \in Ids
  <2> SUFFICES ASSUME NEW q \in arena.queue PROVE key(q) \in Keys /\ q.id \in Ids
    OBVIOUS
  <2>1. q.h \in Nat /\ q.id \in Nat \ {0} /\ q.id \in Ids
    BY <1>1 DEF Arenas, Keys, IInv, QueueBacked
  <2>2. arena.recs[q.id].g \in Nat
    BY <1>1, <2>1, RecordFields DEF Arenas, Ids
  <2> QED
    BY <1>1, <2>1, <2>2, KeyFacts
<1>3. keys \in SUBSET Keys
  BY <1>2
<1>4. \A k \in keys : k.id \in Ids /\ k.f = arena.recs[k.id].g + w * k.h
  BY <1>2
<1>5. \A k, j \in keys : k.id = j.id => k = j
  BY DEF IInv, QueueBacked
<1> HIDE DEF keys, key
<1>6. SameButQueue(arena, arena') /\ arena'.queue = keys
  BY <1>1, <1>3, QueueChange
<1>7. QueueBacked'
  BY <1>1, <1>4, <1>5, <1>6 DEF SameButQueue, QueueBacked, Ids
<1> QED
  BY <1>1, <1>6, <1>7, QueueStep

(* Clearing keeps the buffers and nothing else.                            *)
LEMMA EmptyKeeps == IInv /\ Empty => IInv'
<1> SUFFICES ASSUME IInv, Empty PROVE IInv'
  OBVIOUS
<1>1. arena \in Arenas /\ arena' = Clear(arena) /\ weight' \in Nat \ {0} /\ spent' = FALSE
  BY ClientAssumption DEF IInv, Consistent, Empty
<1>2. /\ Consistent(arena') /\ Buffered(arena', FALSE)
      /\ arena'.recs = << >> /\ arena'.queue = {}
  BY <1>1, ClearFacts, ClearBuffered DEF IInv
<1>3. QueueBacked'
  BY <1>2 DEF QueueBacked
<1> QED
  BY <1>1, <1>2, <1>3 DEF IInv

LEMMA KeepKeeps ==
  ASSUME NEW i \in 1 .. Len(arena.recs)
  PROVE  IInv /\ Keep(i) => IInv'
<1> SUFFICES ASSUME IInv, Keep(i) PROVE IInv'
  OBVIOUS
<1>1. /\ arena \in Arenas /\ arena' = ClearKeeping(arena, i)
      /\ weight' \in Nat \ {0} /\ spent' = FALSE
  BY ClientAssumption DEF IInv, Consistent, Keep
<1>2. Consistent(arena') /\ arena'.queue = {}
  BY <1>1, KeepFacts
<1>3. Buffered(arena', FALSE)
  <2>1. Buffered(arena, spent) /\ spent \in BOOLEAN
    BY DEF IInv
  <2>2. Keepable(arena, i)
    BY DEF Keep
  <2>3. arena.starved => Cardinality(Path(arena, i)) + 1 < arena.reserved
    BY DEF Keep
  <2> QED
    BY <1>1, <2>1, <2>2, <2>3, KeepBuffered
<1>4. QueueBacked'
  BY <1>2 DEF QueueBacked
<1> QED
  BY <1>1, <1>2, <1>3, <1>4 DEF IInv

-----------------------------------------------------------------------------
(* An insert, with its entry or none.                                      *)

LEMMA StoreKeeps ==
  ASSUME NEW s \in States, NEW g \in Gs, NEW queued \in BOOLEAN, NEW ok \in Grants,
         NEW p \in 0 .. Len(arena.recs)
  PROVE  IInv /\ Store(s, g, p, queued, ok) => IInv'
<1> SUFFICES ASSUME IInv, Store(s, g, p, queued, ok) PROVE IInv'
  OBVIOUS
<1> DEFINE h == Estimate[s]
           n == [st |-> s, g |-> g, h |-> h, par |-> p]
           c == Insert(arena, n, ok)
           l == Len(arena.recs)
           key == [f |-> g + weight * h, h |-> h, id |-> l + 1]
<1>1. /\ arena \in Arenas /\ arena.table # 0 /\ l \in Nat
      /\ weight \in Nat \ {0} /\ weight' = weight /\ spent' = IsFull(arena)
      /\ g \in Nat /\ h \in Nat /\ n \in Nodes
  <2>1. arena \in Arenas /\ arena.table # 0 /\ weight' = weight /\ spent' = IsFull(arena)
    BY DEF IInv, Consistent, Store, MayInsert
  <2>2. g \in Nat /\ h \in Nat
    BY ClientAssumption
  <2>3. l \in Nat /\ p \in Nat
    BY <2>1 DEF Arenas
  <2> QED
    BY <2>1, <2>2, <2>3 DEF IInv, Nodes
<1>2. MayInsert /\ arena' = IF queued THEN Enqueue(c, g + weight * h, h, l + 1) ELSE c
  BY DEF Store
<1> HIDE DEF h
<1>3. key \in Keys
  <2>1. l + 1 \in Nat \ {0} /\ weight \in Nat
    BY <1>1
  <2> QED
    BY <1>1, <2>1, KeyFacts
<1> HIDE DEF n, key
<1>4. arena.index = Live(arena) /\ arena.index \subseteq 1 .. l
  BY <1>1 DEF IInv, Consistent, Bound, Live
<1>5. /\ Consistent(c) /\ c.queue = arena.queue
      /\ Len(c.recs) = l + 1
      /\ c.recs[l + 1].g = g
      /\ \A i \in 1 .. l : c.recs[i].g = arena.recs[i].g
  <2>1. Consistent(arena) /\ arena.table >= 4
    BY <1>1 DEF IInv, Buffered
  <2>2. c.recs[l + 1] =
          [st |-> n.st, g |-> n.g, h |-> n.h, par |-> n.par, closed |-> FALSE, sup |-> FALSE]
    BY <1>1, <2>1, InsertFacts
  <2>3. n.g = g
    BY DEF n
  <2>4. \A i \in 1 .. l : Kept(c.recs[i], arena.recs[i], i, Find(arena, n.st))
    BY <1>1, <2>1, InsertFacts
  <2> QED
    BY <1>1, <2>1, <2>2, <2>3, <2>4, InsertFacts DEF Alike, Kept
<1>6. Buffered(c, spent')
  BY <1>1, <1>2, InsertBuffered DEF IInv, MayInsert
<1> HIDE DEF c
<1>7. c \in Arenas
  BY <1>5 DEF Consistent
<1>8. /\ SameButQueue(c, arena') /\ arena'.recs = c.recs
      /\ arena'.queue \subseteq arena.queue \cup {key}
  <2>1. CASE queued
    <3>1. arena' = Enqueue(c, g + weight * h, h, l + 1)
      BY <1>2, <2>1
    <3> QED
      BY <1>3, <1>5, <1>7, <3>1, EnqueueFacts DEF key
  <2>2. CASE ~queued
    BY <1>2, <1>5, <1>7, <2>2 DEF SameButQueue, Alike
  <2> QED
    BY <2>1, <2>2
<1>9. Buffered(arena', spent')
  BY <1>6, <1>8 DEF SameButQueue, Buffered, IsFull
<1>10. Consistent(arena')
  <2>1. Live(arena') = Live(c)
    BY <1>8 DEF Live
  <2> QED
    BY <1>5, <1>8, <2>1 DEF SameButQueue, Consistent, Bound, OneLive, Counted
<1>11. QueueBacked'
  <2>1. \A q \in arena.queue : /\ q.id \in 1 .. l
                              /\ q.f = arena.recs[q.id].g + weight * q.h
    BY DEF IInv, QueueBacked, Ids
  <2>2. \A i \in 1 .. l : arena'.recs[i].g = arena.recs[i].g
    BY <1>5, <1>8
  <2>3. arena'.recs[l + 1].g = g /\ Len(arena'.recs) = l + 1
    BY <1>5, <1>8
  <2>4. key.id = l + 1 /\ key.f = g + weight * key.h
    BY DEF key
  <2>5. ASSUME NEW q \in arena'.queue
        PROVE  q.id \in 1 .. l + 1 /\ q.f = arena'.recs[q.id].g + weight * q.h
    <3>1. CASE q \in arena.queue
      BY <1>1, <2>1, <2>2, <3>1
    <3>2. CASE q = key
      BY <1>1, <2>3, <2>4, <3>2
    <3> QED
      BY <1>8, <3>1, <3>2
  <2>6. \A q \in arena.queue : q.id # key.id
    BY <1>1, <2>1, <2>4
  <2>7. \A q, r \in arena'.queue : q.id = r.id => q = r
    BY <1>8, <2>6 DEF IInv, QueueBacked
  <2> QED
    BY <1>1, <2>3, <2>5, <2>7 DEF QueueBacked, Ids
<1>12. weight' \in Nat \ {0} /\ spent' \in BOOLEAN
  BY <1>1 DEF IsFull
<1> QED
  BY <1>9, <1>10, <1>11, <1>12 DEF IInv

-----------------------------------------------------------------------------
(* Every step of every client keeps the inductive invariant.               *)
LEMMA StepKeeps == IInv /\ [Next]_vars => IInv'
<1> SUFFICES ASSUME IInv, [Next]_vars PROVE IInv'
  OBVIOUS
<1>1. CASE \E s \in States, g \in Gs, queued \in BOOLEAN, ok \in Grants :
             \E p \in 0 .. Len(arena.recs) : Store(s, g, p, queued, ok)
  BY <1>1, StoreKeeps
<1>2. CASE PopStale
  BY <1>2, PopStaleKeeps
<1>3. CASE PopExpand
  BY <1>3, PopExpandKeeps
<1>4. CASE \E h \in Hs : PopRequeue(h)
  BY <1>4, PopRequeueKeeps
<1>5. CASE \E w \in Weights : Rekey(w)
  BY <1>5, RekeyKeeps
<1>6. CASE Empty
  BY <1>6, EmptyKeeps
<1>7. CASE \E i \in 1 .. Len(arena.recs) : Keep(i)
  BY <1>7, KeepKeeps
<1>8. CASE UNCHANGED vars
  BY <1>8 DEF vars, IInv, Consistent, Bound, OneLive, Counted, Live, QueueBacked, Ids,
              Buffered, IsFull
<1> QED
  BY <1>1, <1>2, <1>3, <1>4, <1>5, <1>6, <1>7, <1>8 DEF Next

(* The strengthening holds of every reachable arena: growth always runs    *)
(* one insert ahead (arena.rs 315-329, 650-694).                           *)
THEOREM Inductive == Spec => []IInv
<1>1. Init => IInv
  BY InitHolds
<1>2. IInv /\ [Next]_vars => IInv'
  BY StepKeeps
<1> QED
  BY <1>1, <1>2, PTL DEF Spec

(* An arena only ever holds well-formed records, keys and counts.          *)
THEOREM TypeCorrect == Spec => []TypeOK
BY Inductive, InvariantsHold, PTL

(* The table binds exactly the records that are not superseded             *)
(* (arena.rs 137-148, 704-723, 806-811).                                   *)
THEOREM BindingSound == Spec => []BoundIsLive
BY Inductive, InvariantsHold, PTL

(* A position has at most one live record (arena.rs 605-649, 900-908).     *)
THEOREM LiveUnique == Spec => []OneLivePerState
BY Inductive, InvariantsHold, PTL

(* A probe of the table always meets an empty slot (arena.rs 636-643,      *)
(* 752-756).                                                               *)
THEOREM ProbesTerminate == Spec => []ProbesEnd
BY Inductive, InvariantsHold, PTL

(* An insert never allocates: its room is there already (arena.rs 315-329, *)
(* 650-694).                                                               *)
THEOREM InsertsHaveRoom == Spec => []RoomAhead
BY Inductive, InvariantsHold, PTL

(* Every queue entry names a record of its own, keyed at the running       *)
(* weight (queue.rs 29-43, arena.rs 823-832).                              *)
THEOREM QueueSound == Spec => []QueueBacked
BY Inductive, InvariantsHold, PTL

=============================================================================
