---------------------------- MODULE ArenaClient ----------------------------
(***************************************************************************)
(* An arena used by any search that keeps its contract: insert only after  *)
(* a find of the same state and only a cheaper version, one spare insert   *)
(* once the arena is full, every queue entry for a record inserted before. *)
(* The engine and the stage ladder are such searches; what holds here      *)
(* holds under either.                                                     *)
(***************************************************************************)
EXTENDS Arena

CONSTANTS
  Limits,   \* the node limits a budget may give
  Estimate, \* the estimate of a position, which depends on nothing else
  Gs, Hs,   \* move counts and requeued estimates, finite sets for TLC
  Weights,  \* the weights a search runs at
  MaxStored \* how many inserts a behaviour makes; a bound for TLC

ASSUME ClientAssumption ==
  /\ Limits \subseteq 1 .. MaxLimit
  /\ Estimate \in [States -> Nat]
  /\ Gs \subseteq Nat
  /\ Hs \subseteq Nat
  /\ Weights \subseteq Nat \ {0}
  /\ MaxStored \in Nat

VARIABLES
  weight,   \* the weight the queue is keyed at
  spent     \* the spare insert was made since the arena was last emptied

vars == <<arena, weight, spent>>

Init ==
  /\ \E limit \in Limits : arena = NewArena(limit, limit < MaxLimit)
  /\ weight \in Weights
  /\ spent = FALSE

(* The table is there to probe, and the record has a place: below the      *)
(* limit, or the spare, once.                                              *)
MayInsert ==
  /\ arena.table # 0
  /\ Len(arena.recs) <= arena.limit
  /\ IsFull(arena) => ~spent

(* A record's parent is one already stored and strictly nearer the start;  *)
(* the start itself is stored when nothing else is bound.                  *)
MayParent(p, g) ==
  \/ p = NoId /\ g = 0 /\ arena.index = {}
  \/ p \in 1 .. Len(arena.recs) /\ arena.recs[p].g < g

Cheaper(s, g) ==
  LET prev == Find(arena, s) IN prev # NoId => g < arena.recs[prev].g

(* Inserts a node; a queued one gets its entry at once, the spare and the  *)
(* ladder's rises get none.                                                *)
Store(s, g, p, queued, ok) ==
  /\ arena.unique + arena.dups < MaxStored
  /\ MayInsert
  /\ MayParent(p, g)
  /\ Cheaper(s, g)
  /\ IsFull(arena) => ~queued
  /\ LET h == Estimate[s]
         b == Insert(arena, [st |-> s, g |-> g, h |-> h, par |-> p], ok)
     IN  arena' = IF queued THEN Enqueue(b, g + weight * h, h, Len(arena.recs) + 1) ELSE b
  /\ spent' = IsFull(arena)
  /\ UNCHANGED weight

PopStale ==
  \E p \in arena.queue :
    /\ p = Top(arena)
    /\ arena.recs[p.id].sup
    /\ arena' = Dequeue(arena)
    /\ UNCHANGED <<weight, spent>>

PopExpand ==
  \E p \in arena.queue :
    /\ p = Top(arena)
    /\ ~arena.recs[p.id].sup
    /\ arena' = Close(Dequeue(arena), p.id)
    /\ UNCHANGED <<weight, spent>>

(* A partial expansion queues its node again, in place of the entry it     *)
(* popped, at a larger h.                                                  *)
PopRequeue(h) ==
  \E p \in arena.queue :
    /\ p = Top(arena)
    /\ ~arena.recs[p.id].sup
    /\ h > p.h
    /\ arena' = Enqueue(Close(Dequeue(arena), p.id),
                        arena.recs[p.id].g + weight * h, h, p.id)
    /\ UNCHANGED <<weight, spent>>

Rekey(w) ==
  /\ arena' = Reweight(arena, w)
  /\ weight' = w
  /\ UNCHANGED spent

Empty ==
  /\ arena' = Clear(arena)
  /\ weight' \in Weights
  /\ spent' = FALSE

(* A restart or a reseed.  A starved arena is emptied this way only by a   *)
(* ladder stage that restarts from its root, whose path the chunks hold    *)
(* with two records to spare; see Engine for the discipline itself.        *)
Keep(i) ==
  /\ Keepable(arena, i)
  /\ arena.starved => ~spent /\ Cardinality(Path(arena, i)) + 1 < arena.reserved
  /\ arena' = ClearKeeping(arena, i)
  /\ weight' \in Weights
  /\ spent' = FALSE

Next ==
  \/ \E s \in States, g \in Gs, queued \in BOOLEAN, ok \in Grants :
       \E p \in 0 .. Len(arena.recs) : Store(s, g, p, queued, ok)
  \/ PopStale
  \/ PopExpand
  \/ \E h \in Hs : PopRequeue(h)
  \/ \E w \in Weights : Rekey(w)
  \/ Empty
  \/ \E i \in 1 .. Len(arena.recs) : Keep(i)

Spec == Init /\ [][Next]_vars

-----------------------------------------------------------------------------
Ids == 1 .. Len(arena.recs)

TypeOK ==
  /\ arena \in Arenas
  /\ weight \in Nat \ {0}
  /\ spent \in BOOLEAN

(* While there is a table, it binds exactly the records not superseded, so *)
(* a record reads as superseded exactly when find on its state would not   *)
(* return it: growth's rebinding, replacement and both clears agree        *)
(* (arena.rs 137-148, 704-723, 806-811).                                   *)
BoundIsLive == arena.table # 0 => arena.index = {i \in Ids : ~arena.recs[i].sup}

(* No two live records hold the same state, through growth, clears and a   *)
(* kept path whose states are inserted again (arena.rs 605-649, 900-908).  *)
OneLivePerState ==
  \A i, j \in Ids :
    /\ ~arena.recs[i].sup /\ ~arena.recs[j].sup
    /\ arena.recs[i].st = arena.recs[j].st
    => i = j

(* The count growth is decided by is the number of bound ids, and a probe  *)
(* always meets an empty slot and ends: the table grows in time even with  *)
(* the insert that skips the check (arena.rs 636-643, 752-756).            *)
ProbesEnd ==
  arena.table # 0 => /\ arena.resident = Cardinality(arena.index)
                     /\ arena.resident < arena.table

(* The next insert never allocates: while one may come, the spare of a     *)
(* full arena included, the chunks already have its room                   *)
(* (arena.rs 315-329, 650-694).                                            *)
RoomAhead ==
  /\ Len(arena.recs) <= Room(arena)
  /\ MayInsert => Len(arena.recs) < Room(arena)

(* Every queued entry names its own stored record at the running weight,   *)
(* so the queue's storage, as large as the records', has room for one more *)
(* (queue.rs 29-43, arena.rs 823-832).                                     *)
QueueBacked ==
  /\ \A q \in arena.queue : /\ q.id \in Ids
                            /\ q.f = arena.recs[q.id].g + weight * q.h
  /\ \A p, q \in arena.queue : p.id = q.id => p = q

=============================================================================
