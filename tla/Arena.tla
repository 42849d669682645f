------------------------------- MODULE Arena -------------------------------
(***************************************************************************)
(* The node arena of one search: append-only records, the table that binds *)
(* each resident state to its latest record, the queue, and the chunked    *)
(* storage that grows one insert ahead of need                             *)
(* (crates/search/src/arena.rs).                                           *)
(*                                                                         *)
(* An arena is a value, so that a handler of the engine that calls several *)
(* arena operations in a row composes them in one step.  Records have ids  *)
(* 1..Len(recs); NoId stands for NIL.  The hash table is abstracted to     *)
(* what probing it returns: the set of ids it binds.  Its size is kept,    *)
(* since growth and its failure depend on it.                              *)
(***************************************************************************)
EXTENDS Naturals, Sequences, FiniteSets

CONSTANTS
  States,      \* the positions a search can index
  Chunk,       \* records in a full chunk (CHUNK)
  FirstTable,  \* slots of a new arena's table (INITIAL_TABLE)
  MaxLimit,    \* the state limit asked for; memory may give a smaller one
  FinalTable   \* slots of the final table of that many records (final_table)

ASSUME ArenaAssumption ==
  /\ Chunk \in Nat /\ Chunk >= 4
  /\ FirstTable \in Nat /\ FirstTable >= 4
  /\ MaxLimit \in Nat \ {0}
  /\ FinalTable \in [1 .. MaxLimit + 1 -> Nat]
  /\ \A n \in 1 .. MaxLimit + 1 : FinalTable[n] >= 2 * n

VARIABLE arena

NoId == 0

(* What find, insert and the queue tell apart of a stored node.            *)
Records == [st : States, g : Nat, h : Nat, par : Nat, closed : BOOLEAN, sup : BOOLEAN]

Keys == [f : Nat, h : Nat, id : Nat \ {0}]

Arenas ==
  [ recs : Seq(Records), index : SUBSET (Nat \ {0}), resident : Nat, queue : SUBSET Keys,
    limit : 1 .. MaxLimit, scaled : BOOLEAN, starved : BOOLEAN, reserved : Nat, table : Nat,
    unique : Nat, dups : Nat, reopened : Nat ]

Lesser(x, y) == IF x <= y THEN x ELSE y

NewArena(limit, scaled) ==
  [ recs |-> << >>, index |-> {}, resident |-> 0, queue |-> {},
    limit |-> limit, scaled |-> scaled, starved |-> FALSE,
    reserved |-> Chunk,
    table |-> Lesser(FinalTable[limit + 1], FirstTable),
    unique |-> 0, dups |-> 0, reopened |-> 0 ]

-----------------------------------------------------------------------------
(* Reading an arena.                                                       *)

(* The room of the chunks allocated so far: the last one is cut at the     *)
(* limit and its spare.                                                    *)
Room(a) == Lesser(a.reserved, a.limit + 1)

IsFull(a) == Len(a.recs) >= a.limit \/ a.starved

LimitStatus(a) == IF a.scaled \/ a.starved THEN "memory_limit" ELSE "state_limit"

Find(a, s) ==
  IF \E i \in a.index : a.recs[i].st = s
  THEN CHOOSE i \in a.index : a.recs[i].st = s
  ELSE NoId

(* A key is lowest f first, then lowest h, then oldest.                    *)
Before(p, q) ==
  \/ p.f < q.f
  \/ p.f = q.f /\ p.h < q.h
  \/ p.f = q.f /\ p.h = q.h /\ p.id <= q.id

Top(a) == CHOOSE p \in a.queue : \A q \in a.queue : Before(p, q)

(* The least f of any entry, and the least g + h when keys weigh h by w.   *)
MinF(a, none) == IF a.queue = {} THEN none ELSE Top(a).f

MinGH(a, w, none) ==
  IF a.queue = {} THEN none
  ELSE LET floor(q) == q.f - (w - 1) * q.h
       IN  floor(CHOOSE p \in a.queue : \A q \in a.queue : floor(p) <= floor(q))

(* The records of the path from the root to i.                             *)
Path(a, i) ==
  LET above[k \in 1 .. Len(a.recs)] ==
        LET p == a.recs[k].par IN IF p = NoId THEN {} ELSE {p} \cup above[p]
  IN  {i} \cup {k \in 1 .. Len(a.recs) : k \in above[i]}

-----------------------------------------------------------------------------
(* Changing an arena.                                                      *)

\* Faulty: grows the table once it is over-full, not ahead of need.
NeedsTableLate(a) == a.resident > a.table

NeedsTable(a) == 2 * a.resident > a.table

\* Faulty: adds a chunk once the last one is full, not one insert ahead.
NeedsChunkLate(a) == Len(a.recs) = a.reserved /\ a.reserved <= a.limit

\* Faulty: leaves the spare past the limit without a chunk.
NeedsChunkNoSpare(a) == Len(a.recs) + 1 = a.reserved /\ a.reserved < a.limit

NeedsChunk(a) == Len(a.recs) + 1 = a.reserved /\ a.reserved <= a.limit

(* What the allocator answers: one grant for the table, one for a chunk.   *)
Grants == [table : BOOLEAN, chunk : BOOLEAN]

\* Faulty: rebinds superseded records with the rest.
GrowTableAll(a, granted) ==
  IF granted
  THEN [a EXCEPT !.table = FinalTable[a.limit + 1], !.index = 1 .. Len(a.recs)]
  ELSE [a EXCEPT !.table = 0, !.index = {}, !.starved = TRUE]

GrowTable(a, granted) ==
  IF granted
  THEN [a EXCEPT !.table = FinalTable[a.limit + 1],
                 !.index = {i \in 1 .. Len(a.recs) : ~a.recs[i].sup}]
  ELSE [a EXCEPT !.table = 0, !.index = {}, !.starved = TRUE]

GrowChunk(a, granted) ==
  IF granted THEN [a EXCEPT !.reserved = @ + Chunk] ELSE [a EXCEPT !.starved = TRUE]

Grow(a, ok) ==
  LET b == IF NeedsTable(a) THEN GrowTable(a, ok.table) ELSE a
  IN  IF ~b.starved /\ NeedsChunk(b) THEN GrowChunk(b, ok.chunk) ELSE b

(* Appends a fresh record for n's state and binds it in place of an older  *)
(* version, which becomes superseded.                                      *)
Append1(a, n) ==
  LET prev == Find(a, n.st)
      id   == Len(a.recs) + 1
      old  == IF prev = NoId THEN a.recs ELSE [a.recs EXCEPT ![prev].sup = TRUE]
      new  == [st |-> n.st, g |-> n.g, h |-> n.h, par |-> n.par,
               closed |-> FALSE, sup |-> FALSE]
  IN  [a EXCEPT !.recs     = Append(old, new),
                !.index    = (@ \ {prev}) \cup {id},
                !.resident = IF prev = NoId THEN @ + 1 ELSE @,
                !.unique   = IF prev = NoId THEN @ + 1 ELSE @,
                !.dups     = IF prev = NoId THEN @ ELSE @ + 1,
                !.reopened = IF prev # NoId /\ a.recs[prev].closed THEN @ + 1 ELSE @]

Insert(a, n, ok) ==
  LET b == Append1(a, n)
  IN  IF Len(b.recs) <= b.limit /\ ~b.starved THEN Grow(b, ok) ELSE b

Close(a, i) == [a EXCEPT !.recs[i].closed = TRUE]

Enqueue(a, f, h, i) == [a EXCEPT !.queue = @ \cup {[f |-> f, h |-> h, id |-> i]}]

Dequeue(a) == [a EXCEPT !.queue = @ \ {Top(a)}]

Clear(a) ==
  [a EXCEPT !.recs = << >>, !.index = {}, !.resident = 0, !.queue = {},
            !.starved = (a.table = 0)]

(* clear_keeping refuses a path that leaves no room below the limit, or    *)
(* that the table, its scratch, cannot hold.                               *)
Keepable(a, i) ==
  LET n == Cardinality(Path(a, i)) IN n < a.limit /\ n <= a.table

(* The k-th smallest of a set of ids.                                      *)
Nth(ids, k) == CHOOSE j \in ids : Cardinality({m \in ids : m <= j}) = k

\* Faulty: leaves the kept path as it is, not superseded and renumbered.
ClearKeepingAsIs(a, i) ==
  LET path == Path(a, i)
  IN  [a EXCEPT
         !.recs = [k \in 1 .. Cardinality(path) |-> a.recs[Nth(path, k)]],
         !.index = {}, !.resident = 0, !.queue = {}, !.starved = FALSE]

\* Faulty: renumbers the parents but the last record's.
ClearKeepingOldParent(a, i) ==
  LET path == Path(a, i)
      last == a.recs[i].par
  IN  [a EXCEPT
         !.recs = [k \in 1 .. Cardinality(path) |->
                     [a.recs[Nth(path, k)] EXCEPT
                        !.par = IF k = Cardinality(path) THEN last ELSE k - 1, !.sup = TRUE]],
         !.index = {}, !.resident = 0, !.queue = {}, !.starved = FALSE]

ClearKeeping(a, i) ==
  LET path == Path(a, i)
  IN  [a EXCEPT
         !.recs = [k \in 1 .. Cardinality(path) |->
                     [a.recs[Nth(path, k)] EXCEPT !.par = k - 1, !.sup = TRUE]],
         !.index = {}, !.resident = 0, !.queue = {}, !.starved = FALSE]

Release(a) == [a EXCEPT !.index = {}, !.resident = 0, !.queue = {},
                        !.reserved = 0, !.table = 0]

(* A new limit for an arena that holds the start alone, refused when the   *)
(* first chunk or the table already exceed the new limit's buffers.        *)
Rechargeable(a, limit) ==
  /\ limit \in 1 .. a.limit
  /\ limit + 1 >= Lesser(a.limit + 1, Chunk)
  /\ FinalTable[limit + 1] >= a.table

Recharge(a, limit) ==
  [a EXCEPT !.limit = limit, !.scaled = @ \/ limit < a.limit]

Reweight(a, w) ==
  [a EXCEPT !.queue = {[f |-> a.recs[q.id].g + w * q.h, h |-> q.h, id |-> q.id] : q \in @}]

=============================================================================
