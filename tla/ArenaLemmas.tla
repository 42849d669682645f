---------------------------- MODULE ArenaLemmas ----------------------------
(***************************************************************************)
(* What each arena operation does to an arena that keeps its books: facts  *)
(* on values, cited by the proofs about every client of an arena.          *)
(***************************************************************************)
EXTENDS Arena, FiniteSetTheorems, SequenceTheorems, WellFoundedInduction, TLAPS

-----------------------------------------------------------------------------
(* Finite sets of ids.                                                     *)

(* Among finite subsets of S some are contained in no other one: the only  *)
(* induction these proofs need.                                            *)
LEMMA MinimalSubset ==
  ASSUME NEW S, IsFiniteSet(S)
  PROVE  \A F \in SUBSET SUBSET S :
           F # {} => \E X \in F : \A Y \in F : Y \subseteq X => Y = X
<1> SUFFICES ASSUME NEW F \in SUBSET SUBSET S, F # {}
             PROVE  \E X \in F : \A Y \in F : Y \subseteq X => Y = X
  OBVIOUS
<1>1. F \subseteq FiniteSubsetsOf(S)
  BY FS_FiniteSubsetsOfFinite
<1>2. IsWellFoundedOn(StrictSubsetOrdering(S), FiniteSubsetsOf(S))
  BY FS_StrictSubsetOrderingWellFounded
<1>3. PICK X \in F : \A Y \in F : ~(<<Y, X>> \in StrictSubsetOrdering(S))
  BY <1>1, <1>2, WFMin
<1>4. \A Y \in F : Y \subseteq X => Y = X
  BY <1>3 DEF StrictSubsetOrdering
<1> QED
  BY <1>4

LEMMA GreatestId ==
  ASSUME NEW T, \A t \in T : t \in Nat, IsFiniteSet(T), T # {}
  PROVE  \E m \in T : \A k \in T : k <= m
<1>1. \A F \in SUBSET SUBSET T :
        F # {} => \E X \in F : \A Y \in F : Y \subseteq X => Y = X
  BY MinimalSubset
<1> DEFINE Above(k) == {j \in T : j >= k}
           F == {Above(k) : k \in T}
<1>2. F \in SUBSET SUBSET T /\ F # {}
  OBVIOUS
<1> HIDE DEF F
<1>3. PICK X \in F : \A Y \in F : Y \subseteq X => Y = X
  BY <1>1, <1>2
<1> USE DEF F
<1>4. PICK m \in T : X = Above(m)
  OBVIOUS
<1>5. ASSUME NEW k \in T PROVE k <= m
  <2> SUFFICES ASSUME k > m PROVE FALSE
    OBVIOUS
  <2>1. \A j \in Nat : j >= k => j >= m
    OBVIOUS
  <2>. Above(k) \subseteq Above(m)
    BY <2>1
  <2>2. Above(k) = Above(m)
    BY <1>3, <1>4, <2>1
  <2>3. m \in Above(m) /\ m \notin Above(k)
    OBVIOUS
  <2> QED
    BY <2>2, <2>3
<1> QED
  BY <1>5

(* A finite set of ids has a k-th smallest.                                *)
LEMMA NthExists ==
  ASSUME NEW T, \A t \in T : t \in Nat, IsFiniteSet(T), NEW k \in 1 .. Cardinality(T)
  PROVE  \E j \in T : Cardinality({m \in T : m <= j}) = k
<1>0. \A F \in SUBSET SUBSET T :
        F # {} => \E X \in F : \A Y \in F : Y \subseteq X => Y = X
  BY MinimalSubset
<1> DEFINE Upto(j) == {m \in T : m <= j}
           F == {X \in SUBSET T : /\ Cardinality(X) >= k
                                  /\ \A x \in X, y \in T : y <= x => y \in X}
<1>1. F \in SUBSET SUBSET T /\ F # {}
  BY FS_CardinalityType
<1> HIDE DEF F
<1>2. PICK X \in F : \A Y \in F : Y \subseteq X => Y = X
  BY <1>0, <1>1
<1> USE DEF F
<1>3. IsFiniteSet(X) /\ X # {}
  <2>1. X \subseteq T /\ Cardinality(X) >= k
    OBVIOUS
  <2>2. Cardinality({}) = 0
    BY FS_EmptySet
  <2>3. IsFiniteSet(X)
    BY <2>1, FS_Subset
  <2>4. k > 0 /\ 0 \in Nat
    BY FS_CardinalityType
  <2> QED
    BY <2>1, <2>2, <2>3, <2>4
<1>4. PICK j \in X : \A x \in X : x <= j
  BY <1>3, GreatestId
<1>5. X = Upto(j)
  BY <1>4
<1>6. Cardinality(X) = k
  <2> SUFFICES ASSUME Cardinality(X) # k PROVE FALSE
    OBVIOUS
  <2>1. /\ IsFiniteSet(X \ {j})
        /\ Cardinality(X \ {j}) = Cardinality(X) - 1
    BY <1>3, <1>4, FS_RemoveElement
  <2>2. Cardinality(X) \in Nat
    BY <1>3, FS_CardinalityType
  <2>3. Cardinality(X \ {j}) >= k
    BY <2>1, <2>2
  <2>4. \A x \in X \ {j}, y \in T : y <= x => y \in X \ {j}
    BY <1>4
  <2>5. X \ {j} \in F
    BY <2>3, <2>4
  <2> QED
    BY <1>2, <1>4, <2>5
<1> QED
  BY <1>5, <1>6

LEMMA NthIsMember ==
  ASSUME NEW T, \A t \in T : t \in Nat, IsFiniteSet(T), NEW k \in 1 .. Cardinality(T)
  PROVE  Nth(T, k) \in T
BY NthExists DEF Nth

-----------------------------------------------------------------------------
(* One arena operation at a time, on an arena whose table binds its live   *)
(* records.                                                                *)

Live(a) == {i \in 1 .. Len(a.recs) : ~a.recs[i].sup}

(* Nodes handed to insert.                                                 *)
Nodes == [st : States, g : Nat, h : Nat, par : Nat]

(* find returns the bound id of the state, or NoId when none is bound.     *)
LEMMA FindFacts ==
  ASSUME NEW a \in Arenas, NEW s, a.index \subseteq 1 .. Len(a.recs)
  PROVE  LET p == Find(a, s)
         IN  \/ p = NoId /\ \A i \in a.index : a.recs[i].st # s
             \/ p \in a.index /\ p # NoId /\ a.recs[p].st = s
<1>1. NoId \notin 1 .. Len(a.recs)
  BY DEF NoId, Arenas
<1>2. CASE \E i \in a.index : a.recs[i].st = s
  BY <1>1, <1>2 DEF Find
<1>3. CASE ~ \E i \in a.index : a.recs[i].st = s
  BY <1>3 DEF Find
<1> QED
  BY <1>2, <1>3

LEMMA RecordFields ==
  ASSUME NEW r \in Seq(Records), NEW i \in 1 .. Len(r)
  PROVE  /\ r[i] \in Records
         /\ r[i].st \in States
         /\ r[i].g \in Nat
         /\ r[i].h \in Nat
         /\ r[i].par \in Nat
         /\ r[i].closed \in BOOLEAN
         /\ r[i].sup \in BOOLEAN
<1>1. r[i] \in Records
  BY ElementOfSeq
<1> QED
  BY <1>1 DEF Records

LEMMA ArenaFields ==
  ASSUME NEW a \in Arenas
  PROVE  /\ a.recs \in Seq(Records) /\ Len(a.recs) \in Nat
         /\ a.index \in SUBSET (Nat \ {0}) /\ a.resident \in Nat
         /\ a.queue \in SUBSET Keys
         /\ a.limit \in 1 .. MaxLimit /\ a.limit \in Nat \ {0}
         /\ a.starved \in BOOLEAN /\ a.scaled \in BOOLEAN
         /\ a.reserved \in Nat /\ a.table \in Nat
<1>1. MaxLimit \in Nat
  BY ArenaAssumption
<1> QED
  BY <1>1 DEF Arenas

(* Two records of one node, whatever became of it.                         *)
Alike(r, s) == r.st = s.st /\ r.g = s.g /\ r.h = s.h /\ r.par = s.par

(* One record after an insert that replaced the record p.                  *)
Kept(r, s, i, p) == Alike(r, s) /\ r.closed = s.closed /\ r.sup = (s.sup \/ i = p)

(* Appending a record: the earlier version it replaces, if any, becomes    *)
(* superseded, and no other record changes.                                *)
LEMMA AppendRecords ==
  ASSUME NEW a \in Arenas, NEW n \in Nodes, a.index \subseteq 1 .. Len(a.recs)
  PROVE  LET b == Append1(a, n)
             p == Find(a, n.st)
             l == Len(a.recs)
         IN  /\ b.recs \in Seq(Records)
             /\ Len(b.recs) = l + 1
             /\ b.recs[l + 1] = [st |-> n.st, g |-> n.g, h |-> n.h, par |-> n.par,
                                 closed |-> FALSE, sup |-> FALSE]
             /\ \A i \in 1 .. l : Kept(b.recs[i], a.recs[i], i, p)
<1> DEFINE p == Find(a, n.st)
           l == Len(a.recs)
           old == IF p = NoId THEN a.recs ELSE [a.recs EXCEPT ![p].sup = TRUE]
           new == [st |-> n.st, g |-> n.g, h |-> n.h, par |-> n.par,
                   closed |-> FALSE, sup |-> FALSE]
<1>1. a.recs \in Seq(Records) /\ l \in Nat
  BY DEF Arenas
<1>2. new \in Records
  BY DEF Nodes, Records
<1>3. p = NoId \/ (p \in 1 .. l /\ p # NoId)
  BY FindFacts
<1>4. /\ old \in Seq(Records)
      /\ Len(old) = l
      /\ \A i \in 1 .. l : Kept(old[i], a.recs[i], i, p)
  <2>1. CASE p = NoId
    <3>1. \A i \in 1 .. l : i # p
      BY <2>1 DEF NoId
    <3>2. \A i \in 1 .. l : a.recs[i].sup \in BOOLEAN
      BY <1>1, RecordFields
    <3> QED
      BY <1>1, <2>1, <3>1, <3>2 DEF Alike, Kept
  <2>2. CASE p \in 1 .. l /\ p # NoId
    <3> DEFINE r == [a.recs[p] EXCEPT !.sup = TRUE]
    <3>1. a.recs[p] \in Records
      BY <1>1, <2>2, ElementOfSeq
    <3>2. /\ r \in Records
          /\ Alike(r, a.recs[p])
          /\ r.closed = a.recs[p].closed
          /\ r.sup = TRUE
      BY <3>1 DEF Records, Alike
    <3>3. old = [a.recs EXCEPT ![p] = r]
      BY <2>2
    <3> HIDE DEF r, old
    <3>4. /\ old \in Seq(Records)
          /\ Len(old) = l
          /\ \A i \in 1 .. l : old[i] = IF i = p THEN r ELSE a.recs[i]
      BY <1>1, <2>2, <3>2, <3>3, ExceptSeq
    <3>5. \A i \in 1 .. l : a.recs[i].sup \in BOOLEAN
      BY <1>1, RecordFields
    <3> QED
      BY <3>2, <3>4, <3>5 DEF Alike, Kept
  <2> QED
    BY <1>3, <2>1, <2>2
<1>5. Append1(a, n).recs = Append(old, new)
  BY DEF Append1, Arenas
<1> HIDE DEF old, new
<1>6. /\ Append(old, new) \in Seq(Records)
      /\ Len(Append(old, new)) = l + 1
      /\ \A i \in 1 .. l : Append(old, new)[i] = old[i]
      /\ Append(old, new)[l + 1] = new
  BY <1>2, <1>4, AppendProperties
<1> QED
  BY <1>4, <1>5, <1>6 DEF new

-----------------------------------------------------------------------------
(* What an arena keeps of its records and its table, whatever its weight.  *)

Bound(a) == a.table # 0 => a.index = Live(a)

OneLive(a) == \A i, j \in Live(a) : a.recs[i].st = a.recs[j].st => i = j

Counted(a) == a.table # 0 => a.resident = Cardinality(a.index)

Consistent(a) == a \in Arenas /\ Bound(a) /\ OneLive(a) /\ Counted(a)

(* The table binds a finite set of ids, no more than there are records.    *)
LEMMA LiveFinite ==
  ASSUME NEW a \in Arenas
  PROVE  /\ IsFiniteSet(Live(a))
         /\ Cardinality(Live(a)) \in Nat
         /\ Cardinality(Live(a)) <= Len(a.recs)
         /\ \A i \in Live(a) : i \in Nat \ {0}
<1>1. Len(a.recs) \in Nat
  BY DEF Arenas
<1>2. /\ IsFiniteSet(1 .. Len(a.recs))
      /\ Cardinality(1 .. Len(a.recs)) = Len(a.recs)
  BY <1>1, FS_Interval
<1>3. /\ IsFiniteSet(Live(a))
      /\ Cardinality(Live(a)) <= Cardinality(1 .. Len(a.recs))
  BY <1>2, FS_Subset DEF Live
<1> QED
  BY <1>1, <1>2, <1>3, FS_CardinalityType DEF Live

(* Appending keeps an arena consistent and touches no buffer.              *)
LEMMA AppendFacts ==
  ASSUME NEW a, Consistent(a), a.table # 0, NEW n \in Nodes
  PROVE  LET b == Append1(a, n)
         IN  /\ Consistent(b)
             /\ Len(b.recs) = Len(a.recs) + 1
             /\ b.resident <= a.resident + 1
             /\ b.queue = a.queue /\ b.limit = a.limit /\ b.starved = a.starved
             /\ b.reserved = a.reserved /\ b.table = a.table
<1> DEFINE b == Append1(a, n)
           p == Find(a, n.st)
           l == Len(a.recs)
<1>1. a \in Arenas /\ a.index = Live(a) /\ l \in Nat /\ a.resident = Cardinality(Live(a))
  BY DEF Consistent, Bound, Counted, Arenas
<1>2. a.index \subseteq 1 .. l /\ a.resident \in Nat
  BY <1>1, LiveFinite DEF Live
<1>3. /\ b.recs \in Seq(Records)
      /\ Len(b.recs) = l + 1
      /\ b.recs[l + 1].st = n.st
      /\ b.recs[l + 1].sup = FALSE
      /\ \A i \in 1 .. l : /\ b.recs[i].st = a.recs[i].st
                           /\ b.recs[i].sup = (a.recs[i].sup \/ i = p)
  <2>1. b.recs[l + 1] = [st |-> n.st, g |-> n.g, h |-> n.h, par |-> n.par,
                         closed |-> FALSE, sup |-> FALSE]
    BY <1>1, <1>2, AppendRecords
  <2>2. b.recs[l + 1].st = n.st /\ b.recs[l + 1].sup = FALSE
    BY <2>1
  <2>3. b.recs \in Seq(Records) /\ Len(b.recs) = l + 1
    BY <1>1, <1>2, AppendRecords
  <2>4. \A i \in 1 .. l : Kept(b.recs[i], a.recs[i], i, p)
    BY <1>1, <1>2, AppendRecords
  <2> QED
    BY <2>2, <2>3, <2>4 DEF Alike, Kept
<1>4. /\ b.index = (a.index \ {p}) \cup {l + 1}
      /\ b.resident = IF p = NoId THEN a.resident + 1 ELSE a.resident
      /\ b.queue = a.queue /\ b.limit = a.limit /\ b.starved = a.starved
      /\ b.reserved = a.reserved /\ b.table = a.table /\ b.scaled = a.scaled
      /\ b.unique \in Nat /\ b.dups \in Nat /\ b.reopened \in Nat
  BY <1>1 DEF Append1, Arenas
<1>5. \/ p = NoId /\ \A i \in a.index : a.recs[i].st # n.st
      \/ p \in a.index /\ p # NoId /\ a.recs[p].st = n.st
  BY <1>1, <1>2, FindFacts
<1>6. b \in Arenas
  <2>1. b.index \in SUBSET (Nat \ {0})
    BY <1>1, <1>2, <1>4
  <2>2. b.resident \in Nat
    BY <1>2, <1>4
  <2> QED
    BY <1>1, <1>3, <1>4, <2>1, <2>2 DEF Append1, Arenas
<1>7. Live(b) = (Live(a) \ {p}) \cup {l + 1}
  <2>1. \A i \in 1 .. l : a.recs[i].sup \in BOOLEAN
    BY <1>1, RecordFields DEF Arenas
  <2>2. \A i \in 1 .. l : i \in Live(b) <=> i \in Live(a) /\ i # p
    <3> SUFFICES ASSUME NEW i \in 1 .. l PROVE i \in Live(b) <=> i \in Live(a) /\ i # p
      OBVIOUS
    <3>1. i \in 1 .. Len(b.recs)
      BY <1>1, <1>3
    <3>2. b.recs[i].sup = (a.recs[i].sup \/ i = p)
      BY <1>3
    <3> QED
      BY <2>1, <3>1, <3>2 DEF Live
  <2>3. l + 1 \in Live(b)
    BY <1>1, <1>3 DEF Live
  <2>4. Live(b) \subseteq 1 .. l + 1 /\ Live(a) \subseteq 1 .. l
    BY <1>1, <1>3 DEF Live
  <2>5. \A i \in 1 .. l + 1 : i \in 1 .. l \/ i = l + 1
    BY <1>1
  <2> QED
    BY <2>2, <2>3, <2>4, <2>5
<1>8. Bound(b)
  BY <1>1, <1>4, <1>7 DEF Bound
<1>9. OneLive(b)
  <2> SUFFICES ASSUME NEW i \in Live(b), NEW j \in Live(b), b.recs[i].st = b.recs[j].st
               PROVE  i = j
    BY DEF OneLive
  <2>1. OneLive(a)
    BY DEF Consistent
  <2>2. \A k \in Live(a) \ {p} : b.recs[k].st # n.st
    BY <1>1, <1>2, <1>3, <1>5, <2>1 DEF OneLive
  <2>3. CASE i = l + 1 \/ j = l + 1
    BY <1>3, <1>7, <2>2, <2>3
  <2>4. CASE i \in Live(a) /\ j \in Live(a)
    BY <1>1, <1>2, <1>3, <2>1, <2>4 DEF OneLive
  <2> QED
    BY <1>7, <2>3, <2>4
<1>10. Counted(b)
  <2>1. IsFiniteSet(Live(a)) /\ Cardinality(Live(a)) \in Nat
    BY <1>1, LiveFinite
  <2>2. l + 1 \notin Live(a)
    BY <1>1 DEF Live
  <2>3. CASE p = NoId
    <3>1. Live(a) \ {p} = Live(a)
      BY <1>1, <1>2, <2>3 DEF NoId
    <3>2. Cardinality(Live(a) \cup {l + 1}) = Cardinality(Live(a)) + 1
      BY <2>1, <2>2, FS_AddElement
    <3> QED
      BY <1>1, <1>4, <2>3, <3>1, <3>2 DEF Counted
  <2>4. CASE p \in a.index /\ p # NoId
    <3>1. /\ IsFiniteSet(Live(a) \ {p})
          /\ Cardinality(Live(a) \ {p}) = Cardinality(Live(a)) - 1
      BY <1>1, <2>1, <2>4, FS_RemoveElement
    <3>2. Cardinality((Live(a) \ {p}) \cup {l + 1}) = Cardinality(Live(a) \ {p}) + 1
      BY <2>2, <3>1, FS_AddElement
    <3> QED
      BY <1>1, <1>4, <2>1, <2>4, <3>1, <3>2 DEF Counted
  <2> QED
    BY <1>5, <2>3, <2>4
<1> QED
  BY <1>2, <1>3, <1>4, <1>6, <1>8, <1>9, <1>10 DEF Consistent

(* The table grows in time, or the arena is starved with none; the chunks  *)
(* grow by one when the next record but one has no room.                   *)
LEMMA GrowFacts ==
  ASSUME NEW b, Consistent(b), b.table >= 4, ~b.starved, Len(b.recs) <= b.limit,
         NEW ok \in Grants
  PROVE  LET c == Grow(b, ok)
         IN  /\ Consistent(c)
             /\ c.recs = b.recs /\ c.queue = b.queue /\ c.limit = b.limit
             /\ c.table # 0 => c.table >= 4 /\ 2 * c.resident <= c.table
             /\ ~c.starved => c.table # 0
             /\ \/ c.starved /\ c.reserved = b.reserved
                \/ ~c.starved /\ ~NeedsChunk(b) /\ c.reserved = b.reserved
                \/ ~c.starved /\ NeedsChunk(b) /\ c.reserved = b.reserved + Chunk
<1> DEFINE d == IF NeedsTable(b) THEN GrowTable(b, ok.table) ELSE b
           c == Grow(b, ok)
<1>1. /\ b \in Arenas /\ b.index = Live(b) /\ b.resident = Cardinality(Live(b))
      /\ b.resident \in Nat /\ b.table \in Nat /\ b.limit \in 1 .. MaxLimit
      /\ b.reserved \in Nat /\ Len(b.recs) \in Nat
      /\ ok.table \in BOOLEAN /\ ok.chunk \in BOOLEAN
  <2>1. b \in Arenas /\ b.table \in Nat
    BY DEF Consistent, Arenas
  <2>2. b.table # 0
    BY <2>1
  <2> QED
    BY <2>1, <2>2 DEF Consistent, Bound, Counted, Arenas, Grants
<1>2. Cardinality(Live(b)) <= Len(b.recs) /\ \A i \in Live(b) : i \in Nat \ {0}
  BY <1>1, LiveFinite
<1>3. b.resident <= b.limit
  BY <1>1, <1>2
<1>4. /\ d \in Arenas
      /\ d.recs = b.recs /\ d.queue = b.queue /\ d.limit = b.limit
      /\ d.reserved = b.reserved /\ d.resident = b.resident
      /\ d.table # 0 => d.index = Live(b) /\ d.table >= 4 /\ 2 * d.resident <= d.table
      /\ ~d.starved => d.table # 0
  <2>1. CASE ~NeedsTable(b)
    BY <1>1, <2>1 DEF NeedsTable
  <2>2. CASE NeedsTable(b) /\ ok.table
    <3> DEFINE t == FinalTable[b.limit + 1]
    <3>1. b.limit + 1 \in 1 .. MaxLimit + 1
      <4>1. MaxLimit \in Nat
        BY ArenaAssumption
      <4> QED
        BY <1>1, <4>1
    <3>2. t \in Nat /\ t >= 2 * (b.limit + 1)
      BY <3>1, ArenaAssumption
    <3>3. t >= 4 /\ t # 0 /\ 2 * b.resident <= t
      BY <1>1, <1>3, <3>2
    <3>4. d = [b EXCEPT !.table = t, !.index = Live(b)]
      BY <2>2 DEF GrowTable, Live
    <3> HIDE DEF t, d
    <3>5. Live(b) \in SUBSET (Nat \ {0})
      BY <1>2
    <3> QED
      BY <1>1, <3>2, <3>3, <3>4, <3>5 DEF Arenas
  <2>3. CASE NeedsTable(b) /\ ~ok.table
    <3>1. d = [b EXCEPT !.table = 0, !.index = {}, !.starved = TRUE]
      BY <2>3 DEF GrowTable
    <3> HIDE DEF d
    <3> QED
      BY <1>1, <3>1 DEF Arenas
  <2> QED
    BY <2>1, <2>2, <2>3
<1>5. d.starved \/ (NeedsChunk(d) <=> NeedsChunk(b))
  BY <1>4 DEF NeedsChunk
<1>6. c = IF ~d.starved /\ NeedsChunk(d) THEN GrowChunk(d, ok.chunk) ELSE d
  BY DEF Grow
<1> HIDE DEF c, d
<1>7. /\ c \in Arenas
      /\ c.recs = d.recs /\ c.queue = d.queue /\ c.limit = d.limit
      /\ c.index = d.index /\ c.resident = d.resident /\ c.table = d.table
      /\ d.starved => c.starved
  <2>1. CASE d.starved \/ ~NeedsChunk(d)
    BY <1>4, <1>6, <2>1
  <2>2. CASE ~d.starved /\ NeedsChunk(d) /\ ok.chunk
    <3>1. c = [d EXCEPT !.reserved = d.reserved + Chunk]
      BY <1>6, <2>2 DEF GrowChunk
    <3>2. d.reserved + Chunk \in Nat
      <4>1. Chunk \in Nat
        BY ArenaAssumption
      <4> QED
        BY <1>1, <1>4, <4>1
    <3> QED
      BY <1>4, <3>1, <3>2 DEF Arenas
  <2>3. CASE ~d.starved /\ NeedsChunk(d) /\ ~ok.chunk
    BY <1>4, <1>6, <2>3 DEF GrowChunk, Arenas
  <2> QED
    BY <2>1, <2>2, <2>3
<1>8. \/ c.starved /\ c.reserved = b.reserved
      \/ ~c.starved /\ ~NeedsChunk(b) /\ c.reserved = b.reserved
      \/ ~c.starved /\ NeedsChunk(b) /\ c.reserved = b.reserved + Chunk
  <2>1. CASE d.starved \/ ~NeedsChunk(d)
    BY <1>4, <1>5, <1>6, <2>1
  <2>2. CASE ~d.starved /\ NeedsChunk(d) /\ ok.chunk
    BY <1>4, <1>5, <1>6, <2>2 DEF GrowChunk, Arenas
  <2>3. CASE ~d.starved /\ NeedsChunk(d) /\ ~ok.chunk
    BY <1>4, <1>5, <1>6, <2>3 DEF GrowChunk, Arenas
  <2> QED
    BY <1>1, <2>1, <2>2, <2>3
<1>9. Live(c) = Live(b)
  BY <1>4, <1>7 DEF Live
<1>10. Consistent(c)
  <2>1. OneLive(c)
    BY <1>4, <1>7, <1>9 DEF Consistent, OneLive
  <2> QED
    BY <1>1, <1>4, <1>7, <1>9, <2>1 DEF Consistent, Bound, Counted
<1> QED
  BY <1>4, <1>7, <1>8, <1>10 DEF c

-----------------------------------------------------------------------------
(* Everything but the queue and the closed flags.                          *)

SameButQueue(a, b) ==
  /\ b \in Arenas
  /\ Len(b.recs) = Len(a.recs)
  /\ \A i \in 1 .. Len(a.recs) : /\ Alike(b.recs[i], a.recs[i])
                                 /\ b.recs[i].sup = a.recs[i].sup
  /\ b.index = a.index /\ b.resident = a.resident /\ b.limit = a.limit
  /\ b.starved = a.starved /\ b.reserved = a.reserved /\ b.table = a.table

LEMMA CloseFacts ==
  ASSUME NEW a \in Arenas, NEW i \in 1 .. Len(a.recs)
  PROVE  /\ SameButQueue(a, Close(a, i))
         /\ Close(a, i).queue = a.queue
         /\ \A j \in 1 .. Len(a.recs) :
              Close(a, i).recs[j].closed = (a.recs[j].closed \/ j = i)
<1> DEFINE r == [a.recs[i] EXCEPT !.closed = TRUE]
           s == [a.recs EXCEPT ![i] = r]
<1>1. a.recs \in Seq(Records) /\ a.recs[i] \in Records
  BY RecordFields DEF Arenas
<1>2. /\ r \in Records /\ Alike(r, a.recs[i])
      /\ r.sup = a.recs[i].sup /\ r.closed = TRUE
  BY <1>1 DEF Records, Alike
<1>3. Close(a, i) = [a EXCEPT !.recs = s]
  BY DEF Close
<1> HIDE DEF r
<1>4. s \in Seq(Records) /\ Len(s) = Len(a.recs)
  BY <1>1, <1>2, ExceptSeq
<1>5. \A j \in 1 .. Len(a.recs) : s[j] = IF j = i THEN r ELSE a.recs[j]
  BY <1>1, <1>2, ExceptSeq
<1> HIDE DEF s
<1>6. /\ Close(a, i) \in Arenas
      /\ Close(a, i).recs = s /\ Close(a, i).queue = a.queue
      /\ Close(a, i).index = a.index /\ Close(a, i).resident = a.resident
      /\ Close(a, i).limit = a.limit /\ Close(a, i).starved = a.starved
      /\ Close(a, i).reserved = a.reserved /\ Close(a, i).table = a.table
  BY <1>3, <1>4 DEF Arenas
<1>7. \A j \in 1 .. Len(a.recs) : a.recs[j].closed \in BOOLEAN
  BY <1>1, RecordFields
<1> QED
  BY <1>2, <1>4, <1>5, <1>6, <1>7 DEF SameButQueue, Alike

(* Taking entries out of the queue, or putting others in, changes nothing  *)
(* else.                                                                   *)
LEMMA QueueChange ==
  ASSUME NEW a \in Arenas, NEW q \in SUBSET Keys
  PROVE  SameButQueue(a, [a EXCEPT !.queue = q]) /\ [a EXCEPT !.queue = q].queue = q
BY DEF SameButQueue, Alike, Arenas

LEMMA DequeueFacts ==
  ASSUME NEW a \in Arenas
  PROVE  /\ SameButQueue(a, Dequeue(a))
         /\ Dequeue(a).recs = a.recs
         /\ Dequeue(a).queue = a.queue \ {Top(a)}
<1>1. a.queue \ {Top(a)} \in SUBSET Keys
  BY DEF Arenas
<1>2. Dequeue(a) = [a EXCEPT !.queue = a.queue \ {Top(a)}]
  BY DEF Dequeue
<1>3. Dequeue(a).recs = a.recs
  BY <1>2 DEF Arenas
<1> QED
  BY <1>1, <1>2, <1>3, QueueChange

LEMMA SameTransitive ==
  ASSUME NEW a, NEW b, NEW c, SameButQueue(a, b), SameButQueue(b, c)
  PROVE  SameButQueue(a, c)
BY DEF SameButQueue, Alike

LEMMA KeyFacts ==
  ASSUME NEW g \in Nat, NEW w \in Nat, NEW h \in Nat, NEW i \in Nat \ {0}
  PROVE  [f |-> g + w * h, h |-> h, id |-> i] \in Keys
<1>1. w * h \in Nat
  OBVIOUS
<1>2. g + w * h \in Nat
  BY <1>1
<1> QED
  BY <1>2 DEF Keys

LEMMA EnqueueFacts ==
  ASSUME NEW a \in Arenas, NEW f, NEW h, NEW i, [f |-> f, h |-> h, id |-> i] \in Keys
  PROVE  /\ SameButQueue(a, Enqueue(a, f, h, i))
         /\ Enqueue(a, f, h, i).recs = a.recs
         /\ Enqueue(a, f, h, i).queue = a.queue \cup {[f |-> f, h |-> h, id |-> i]}
<1> DEFINE q == a.queue \cup {[f |-> f, h |-> h, id |-> i]}
<1>1. q \in SUBSET Keys
  BY DEF Arenas
<1>2. Enqueue(a, f, h, i) = [a EXCEPT !.queue = q]
  BY DEF Enqueue
<1> HIDE DEF q
<1>3. Enqueue(a, f, h, i).recs = a.recs
  BY <1>2 DEF Arenas
<1>4. SameButQueue(a, Enqueue(a, f, h, i)) /\ Enqueue(a, f, h, i).queue = q
  BY <1>1, <1>2, QueueChange
<1> QED
  BY <1>3, <1>4 DEF q

(* The path of a record is a set of records, itself among them.            *)
LEMMA PathFacts ==
  ASSUME NEW a \in Arenas, NEW i \in 1 .. Len(a.recs)
  PROVE  /\ Path(a, i) \subseteq 1 .. Len(a.recs)
         /\ IsFiniteSet(Path(a, i))
         /\ Cardinality(Path(a, i)) \in Nat \ {0}
         /\ Cardinality(Path(a, i)) <= Len(a.recs)
<1> DEFINE path == Path(a, i)
<1>1. Len(a.recs) \in Nat
  BY DEF Arenas
<1>2. path \subseteq 1 .. Len(a.recs) /\ i \in path
  BY DEF Path
<1> HIDE DEF path
<1>3. /\ IsFiniteSet(1 .. Len(a.recs))
      /\ Cardinality(1 .. Len(a.recs)) = Len(a.recs)
  BY <1>1, FS_Interval
<1>4. IsFiniteSet(path) /\ Cardinality(path) <= Len(a.recs)
  BY <1>2, <1>3, FS_Subset
<1>5. Cardinality(path) \in Nat /\ Cardinality(path) # 0
  BY <1>2, <1>4, FS_CardinalityType, FS_EmptySet
<1> QED
  BY <1>2, <1>4, <1>5 DEF path

-----------------------------------------------------------------------------
(* An insert, with the growth that runs ahead of the next one.             *)

LEMMA InsertFacts ==
  ASSUME NEW a, Consistent(a), a.table >= 4, NEW n \in Nodes, NEW ok \in Grants
  PROVE  LET b == Insert(a, n, ok)
             l == Len(a.recs)
         IN  /\ Consistent(b)
             /\ Len(b.recs) = l + 1
             /\ b.recs[l + 1] = [st |-> n.st, g |-> n.g, h |-> n.h, par |-> n.par,
                                 closed |-> FALSE, sup |-> FALSE]
             /\ \A i \in 1 .. l : Kept(b.recs[i], a.recs[i], i, Find(a, n.st))
             /\ b.queue = a.queue /\ b.limit = a.limit
<1> DEFINE c == Append1(a, n)
           b == Insert(a, n, ok)
           l == Len(a.recs)
<1>1. a \in Arenas /\ a.table \in Nat /\ a.table # 0
  BY DEF Consistent, Arenas
<1>2. Consistent(c) /\ c.queue = a.queue /\ c.limit = a.limit /\ c.table = a.table
  BY <1>1, AppendFacts
<1>3. a.index \subseteq 1 .. Len(a.recs)
  BY <1>1 DEF Consistent, Bound, Live
<1>4. /\ Len(c.recs) = l + 1
      /\ c.recs[l + 1] = [st |-> n.st, g |-> n.g, h |-> n.h, par |-> n.par,
                          closed |-> FALSE, sup |-> FALSE]
      /\ \A i \in 1 .. l : Kept(c.recs[i], a.recs[i], i, Find(a, n.st))
  BY <1>1, <1>3, AppendRecords
<1>5. b = IF Len(c.recs) <= c.limit /\ ~c.starved THEN Grow(c, ok) ELSE c
  BY DEF Insert
<1> HIDE DEF b, c
<1>6. Consistent(b) /\ b.recs = c.recs /\ b.queue = c.queue /\ b.limit = c.limit
  <2>1. CASE Len(c.recs) <= c.limit /\ ~c.starved
    BY <1>2, <1>5, <2>1, GrowFacts
  <2>2. CASE ~(Len(c.recs) <= c.limit /\ ~c.starved)
    BY <1>2, <1>5, <2>2
  <2> QED
    BY <2>1, <2>2
<1> QED
  BY <1>2, <1>4, <1>6 DEF b

(* The buffers of an arena whose spare was used since it was last emptied, *)
(* or not.  The spare leaves the arena full.  The table is at most half    *)
(* full but for the spare.  The chunks hold the records, the next one and, *)
(* while the arena is not starved, the one after.                          *)
Buffered(a, spare) ==
  /\ spare => IsFull(a)
  /\ a.table # 0 => /\ a.table >= 4
                    /\ a.resident < a.table
                    /\ ~spare => 2 * a.resident <= a.table
  /\ a.reserved >= 4
  /\ Len(a.recs) <= a.reserved
  /\ Len(a.recs) <= a.limit + 1
  /\ a.table # 0 =>
       IF a.starved
       THEN ~spare => Len(a.recs) < a.reserved
       ELSE Len(a.recs) + 1 < a.reserved \/ a.reserved > a.limit

(* What the buffers hold after an insert, whatever the allocator answered. *)
LEMMA InsertBuffered ==
  ASSUME NEW a, Consistent(a), NEW spare \in BOOLEAN, Buffered(a, spare),
         a.table # 0, Len(a.recs) <= a.limit, IsFull(a) => ~spare,
         NEW n \in Nodes, NEW ok \in Grants
  PROVE  /\ Buffered(Insert(a, n, ok), IsFull(a))
         /\ IsFull(a) => Insert(a, n, ok) = Append1(a, n)
         /\ ~Insert(a, n, ok).starved => Insert(a, n, ok).table # 0
<1> DEFINE b == Append1(a, n)
           c == Insert(a, n, ok)
           l == Len(a.recs)
<1>1. /\ a \in Arenas
      /\ l \in Nat /\ a.limit \in Nat \ {0} /\ a.table \in Nat
      /\ a.reserved \in Nat /\ a.resident \in Nat /\ a.starved \in BOOLEAN
  <2>1. MaxLimit \in Nat
    BY ArenaAssumption
  <2> QED
    BY <2>1 DEF Consistent, Arenas
<1>2. a.table # 0 /\ a.table >= 4
  BY DEF Buffered
<1>3. ~spare
  BY DEF Buffered
<1>4. /\ 2 * a.resident <= a.table
      /\ l < a.reserved
      /\ ~a.starved => l + 1 < a.reserved \/ a.reserved > a.limit
      /\ a.reserved >= 4
  BY <1>1, <1>2, <1>3 DEF Buffered
<1>5. /\ Consistent(b)
      /\ Len(b.recs) = l + 1
      /\ b.resident <= a.resident + 1
      /\ b.queue = a.queue /\ b.limit = a.limit /\ b.starved = a.starved
      /\ b.reserved = a.reserved /\ b.table = a.table
  BY <1>1, <1>2, AppendFacts
<1>6. b.resident \in Nat
  BY <1>5 DEF Consistent, Arenas
<1>7. c = IF Len(b.recs) <= b.limit /\ ~b.starved THEN Grow(b, ok) ELSE b
  BY DEF Insert
<1>8. IsFull(a) <=> l >= a.limit \/ a.starved
  BY DEF IsFull
<1> HIDE DEF b, c
<1>9. CASE IsFull(a)
  <2>1. c = b
    <3>1. ~(Len(b.recs) <= b.limit /\ ~b.starved)
      BY <1>1, <1>5, <1>8, <1>9
    <3> QED
      BY <1>7, <3>1
  <2>2. IsFull(b)
    BY <1>1, <1>5, <1>8, <1>9 DEF IsFull
  <2>3. b.table >= 4 /\ b.resident < b.table
    BY <1>1, <1>2, <1>4, <1>5, <1>6
  <2>4. /\ b.reserved >= 4 /\ l + 1 <= b.reserved /\ l + 1 <= b.limit + 1
        /\ ~b.starved => b.reserved > b.limit
    BY <1>1, <1>4, <1>5, <1>8, <1>9
  <2>5. Buffered(b, TRUE)
    BY <1>5, <2>2, <2>3, <2>4 DEF Buffered
  <2> QED
    BY <1>2, <1>5, <1>9, <2>1, <2>5 DEF b, c
<1>10. CASE ~IsFull(a)
  <2>1. l < a.limit /\ ~a.starved
    BY <1>1, <1>8, <1>10
  <2>2. c = Grow(b, ok) /\ Len(b.recs) <= b.limit /\ ~b.starved /\ b.table >= 4
    BY <1>1, <1>2, <1>5, <1>7, <2>1
  <2>3. /\ Consistent(c)
        /\ c.recs = b.recs /\ c.queue = b.queue /\ c.limit = b.limit
        /\ c.table # 0 => c.table >= 4 /\ 2 * c.resident <= c.table
        /\ \/ c.starved /\ c.reserved = b.reserved
           \/ ~c.starved /\ ~NeedsChunk(b) /\ c.reserved = b.reserved
           \/ ~c.starved /\ NeedsChunk(b) /\ c.reserved = b.reserved + Chunk
        /\ ~c.starved => c.table # 0
    BY <1>5, <2>2, GrowFacts
  <2>4. c.resident \in Nat /\ c.table \in Nat
    BY <2>3 DEF Consistent, Arenas
  <2>5. c.table # 0 => /\ c.table >= 4 /\ c.resident < c.table
                       /\ 2 * c.resident <= c.table
    BY <2>3, <2>4
  <2>6. Len(c.recs) = l + 1 /\ c.limit = a.limit
    BY <1>5, <2>3
  <2>7. l + 1 <= a.reserved /\ l + 1 <= a.limit
    BY <1>1, <1>4, <2>1
  <2>8. NeedsChunk(b) <=> (l + 1) + 1 = a.reserved /\ a.reserved <= a.limit
    BY <1>5 DEF NeedsChunk
  <2>9. CASE c.starved /\ c.reserved = a.reserved
    <3>1. l + 1 < a.reserved
      BY <1>1, <1>4, <2>1, <2>9
    <3> QED
      BY <1>1, <1>4, <1>10, <2>5, <2>6, <2>7, <2>9, <3>1 DEF Buffered, c
  <2>10. CASE ~c.starved /\ ~NeedsChunk(b) /\ c.reserved = a.reserved
    <3>1. (l + 1) + 1 < a.reserved \/ a.reserved > a.limit
      BY <1>1, <1>4, <2>1, <2>8, <2>10
    <3> QED
      BY <1>1, <1>4, <1>10, <2>3, <2>5, <2>6, <2>7, <2>10, <3>1 DEF Buffered, c
  <2>11. CASE ~c.starved /\ NeedsChunk(b) /\ c.reserved = a.reserved + Chunk
    <3>1. Chunk \in Nat /\ Chunk >= 4
      BY ArenaAssumption
    <3>2. c.reserved >= 4 /\ (l + 1) + 1 < c.reserved
      BY <1>1, <2>8, <2>11, <3>1
    <3> QED
      BY <1>1, <1>10, <2>3, <2>5, <2>6, <2>7, <2>11, <3>1, <3>2 DEF Buffered, c
  <2> QED
    BY <1>5, <2>3, <2>9, <2>10, <2>11
<1> QED
  BY <1>9, <1>10

-----------------------------------------------------------------------------
(* Emptying an arena, or keeping one path of it.                           *)

LEMMA ClearFacts ==
  ASSUME NEW a \in Arenas
  PROVE  LET b == Clear(a)
         IN  /\ Consistent(b)
             /\ b.recs = << >> /\ Len(b.recs) = 0 /\ b.queue = {}
             /\ b.index = {} /\ b.resident = 0
             /\ b.starved = (a.table = 0) /\ b.limit = a.limit
             /\ b.table = a.table /\ b.reserved = a.reserved
<1> DEFINE b == Clear(a)
<1>1. /\ b.recs = << >> /\ b.queue = {} /\ b.index = {} /\ b.resident = 0
      /\ b.starved = (a.table = 0) /\ b.limit = a.limit
      /\ b.table = a.table /\ b.reserved = a.reserved
  BY DEF Clear, Arenas
<1>2. Len(b.recs) = 0 /\ b.recs \in Seq(Records)
  BY <1>1, EmptySeq
<1>3. b \in Arenas
  BY <1>1, <1>2 DEF Clear, Arenas
<1> HIDE DEF b
<1>4. Live(b) = {}
  BY <1>2 DEF Live
<1>5. Consistent(b)
  BY <1>1, <1>3, <1>4, FS_EmptySet DEF Consistent, Bound, OneLive, Counted
<1> QED
  BY <1>1, <1>2, <1>5 DEF b

LEMMA ClearBuffered ==
  ASSUME NEW a \in Arenas, NEW spare, Buffered(a, spare)
  PROVE  Buffered(Clear(a), FALSE)
<1> DEFINE b == Clear(a)
<1>1. /\ Len(b.recs) = 0 /\ b.resident = 0
      /\ b.starved = (a.table = 0) /\ b.limit = a.limit
      /\ b.table = a.table /\ b.reserved = a.reserved
  BY ClearFacts
<1>2. a.limit \in Nat /\ a.table \in Nat /\ a.reserved \in Nat
  BY ArenaFields
<1> HIDE DEF b
<1>3. Buffered(b, FALSE)
  BY <1>1, <1>2 DEF Buffered
<1> QED
  BY <1>3 DEF b

(* The kept path, renumbered from 1 and superseded, so that nothing is     *)
(* bound.                                                                  *)
LEMMA KeepFacts ==
  ASSUME NEW a \in Arenas, NEW i \in 1 .. Len(a.recs)
  PROVE  LET b == ClearKeeping(a, i)
             path == Path(a, i)
             n == Cardinality(path)
         IN  /\ Consistent(b)
             /\ n \in Nat \ {0} /\ Len(b.recs) = n
             /\ \A k \in 1 .. n : /\ Nth(path, k) \in path
                                  /\ b.recs[k].st = a.recs[Nth(path, k)].st
                                  /\ b.recs[k].g = a.recs[Nth(path, k)].g
                                  /\ b.recs[k].h = a.recs[Nth(path, k)].h
                                  /\ b.recs[k].par = k - 1
                                  /\ b.recs[k].sup = TRUE
             /\ b.queue = {} /\ b.index = {} /\ b.resident = 0
             /\ b.starved = FALSE /\ b.limit = a.limit
             /\ b.table = a.table /\ b.reserved = a.reserved
<1> DEFINE path == Path(a, i)
           n == Cardinality(path)
           kept == [k \in 1 .. n |-> [a.recs[Nth(path, k)] EXCEPT !.par = k - 1, !.sup = TRUE]]
           b == ClearKeeping(a, i)
<1>1. /\ path \subseteq 1 .. Len(a.recs) /\ IsFiniteSet(path)
      /\ n \in Nat \ {0} /\ n <= Len(a.recs)
  BY PathFacts
<1>2. \A k \in 1 .. n : /\ Nth(path, k) \in path
                        /\ kept[k] \in Records
                        /\ kept[k].st = a.recs[Nth(path, k)].st
                        /\ kept[k].g = a.recs[Nth(path, k)].g
                        /\ kept[k].h = a.recs[Nth(path, k)].h
                        /\ kept[k].par = k - 1
                        /\ kept[k].sup = TRUE
  <2> SUFFICES ASSUME NEW k \in 1 .. n
               PROVE  /\ Nth(path, k) \in path
                      /\ kept[k] \in Records
                      /\ kept[k].st = a.recs[Nth(path, k)].st
                      /\ kept[k].g = a.recs[Nth(path, k)].g
                      /\ kept[k].h = a.recs[Nth(path, k)].h
                      /\ kept[k].par = k - 1
                      /\ kept[k].sup = TRUE
    OBVIOUS
  <2> DEFINE r == a.recs[Nth(path, k)]
  <2>1. \A j \in path : j \in Nat
    BY <1>1
  <2>2. Nth(path, k) \in path
    BY <1>1, <2>1, NthIsMember
  <2>3. r \in Records
    BY <1>1, <2>2, RecordFields DEF Arenas
  <2>4. kept[k] = [r EXCEPT !.par = k - 1, !.sup = TRUE]
    OBVIOUS
  <2>5. k - 1 \in Nat
    BY <1>1
  <2> HIDE DEF kept
  <2>6. /\ kept[k] \in Records /\ kept[k].st = r.st /\ kept[k].g = r.g
        /\ kept[k].h = r.h /\ kept[k].par = k - 1 /\ kept[k].sup = TRUE
    <3> HIDE DEF r
    <3> QED
      BY <2>3, <2>4, <2>5 DEF Records
  <2> QED
    BY <2>2, <2>6
<1>3. b = [a EXCEPT !.recs = kept, !.index = {}, !.resident = 0,
                    !.queue = {}, !.starved = FALSE]
  BY DEF ClearKeeping
<1>4. kept \in Seq(Records) /\ Len(kept) = n
  <2>1. kept \in [1 .. n -> Records]
    BY <1>2
  <2>2. n \in Nat
    BY <1>1
  <2> HIDE DEF kept, n
  <2> QED
    BY <2>1, <2>2
<1> HIDE DEF kept, b
<1>5. /\ b \in Arenas
      /\ b.recs = kept /\ b.index = {} /\ b.resident = 0 /\ b.queue = {}
      /\ b.starved = FALSE /\ b.limit = a.limit
      /\ b.table = a.table /\ b.reserved = a.reserved
  BY <1>3, <1>4 DEF Arenas
<1>6. Live(b) = {}
  <2>1. \A k \in 1 .. n : b.recs[k].sup
    BY <1>2, <1>5
  <2>2. Len(b.recs) = n
    BY <1>4, <1>5
  <2> HIDE DEF n
  <2> QED
    BY <2>1, <2>2 DEF Live
<1>7. Consistent(b)
  BY <1>5, <1>6, FS_EmptySet DEF Consistent, Bound, OneLive, Counted
<1> QED
  BY <1>1, <1>2, <1>4, <1>5, <1>7 DEF b

LEMMA KeepBuffered ==
  ASSUME NEW a \in Arenas, NEW spare \in BOOLEAN, Buffered(a, spare),
         NEW i \in 1 .. Len(a.recs), Keepable(a, i),
         a.starved => Cardinality(Path(a, i)) + 1 < a.reserved
  PROVE  Buffered(ClearKeeping(a, i), FALSE)
<1>4. a.starved => Cardinality(Path(a, i)) + 1 < a.reserved
  OBVIOUS
<1> DEFINE b == ClearKeeping(a, i)
           n == Cardinality(Path(a, i))
<1>1. /\ n \in Nat \ {0} /\ Len(b.recs) = n
      /\ b.resident = 0 /\ b.starved = FALSE /\ b.limit = a.limit
      /\ b.table = a.table /\ b.reserved = a.reserved
  BY KeepFacts
<1>2. n < a.limit /\ n <= a.table /\ n <= Len(a.recs)
  BY PathFacts DEF Keepable
<1>3. /\ a.limit \in Nat /\ a.table \in Nat /\ a.reserved \in Nat
      /\ Len(a.recs) \in Nat /\ a.starved \in BOOLEAN
  BY ArenaFields
<1> HIDE DEF b, n
<1>5. Buffered(b, FALSE)
  <2>1. a.table # 0
    BY <1>1, <1>2, <1>3
  <2>2. a.table >= 4 /\ a.reserved >= 4 /\ n <= a.reserved /\ n <= a.limit + 1
    BY <1>1, <1>2, <1>3, <2>1 DEF Buffered
  <2>3. n + 1 < a.reserved \/ a.reserved > a.limit
    <3>1. CASE a.starved
      BY <1>4, <3>1 DEF n
    <3>2. CASE ~a.starved
      BY <1>1, <1>2, <1>3, <2>1, <3>2 DEF Buffered
    <3> QED
      BY <1>3, <3>1, <3>2
  <2> QED
    BY <1>1, <1>3, <2>1, <2>2, <2>3 DEF Buffered
<1> QED
  BY <1>5 DEF b

-----------------------------------------------------------------------------
(* Paths.  A record's parent was stored before it, so its path is a chain  *)
(* of ever older records, and facts about it follow from the least record  *)
(* that would break them.                                                  *)

(* Every set of natural numbers but the empty one has a least member.      *)
LEMMA LeastNumber ==
  ASSUME NEW S \in SUBSET Nat, S # {}
  PROVE  \E m \in S : \A k \in S : m <= k
<1>1. PICK m \in S : \A k \in S : ~(<<k, m>> \in OpToRel(<, Nat))
  BY NatLessThanWellFounded, WFMin
<1>2. \A k \in S : ~(k < m)
  BY <1>1 DEF OpToRel
<1> QED
  BY <1>2

(* An arena whose records' parents are older.                              *)
Upward(a) ==
  /\ Len(a.recs) \in Nat
  /\ \A i \in 1 .. Len(a.recs) : a.recs[i].par \in Nat /\ a.recs[i].par < i

Climbs(a, f, n) ==
  f = [k \in 1 .. n |->
         LET p == a.recs[k].par IN IF p = NoId THEN {} ELSE {p} \cup f[p]]

LEMMA ClimbExists ==
  ASSUME NEW a, Upward(a), NEW n \in 0 .. Len(a.recs)
  PROVE  \E f : Climbs(a, f, n)
<1> DEFINE T == {k \in 0 .. Len(a.recs) : ~ \E f : Climbs(a, f, k)}
<1> SUFFICES ASSUME T # {} PROVE FALSE
  OBVIOUS
<1>0. T \in SUBSET Nat
  BY DEF Upward
<1> HIDE DEF T
<1>1. PICK m \in T : \A k \in T : m <= k
  BY <1>0, LeastNumber
<1>m. m \in 0 .. Len(a.recs) /\ m \in Nat
  BY <1>0 DEF T
<1>2. CASE m = 0
  <2>1. Climbs(a, [k \in 1 .. 0 |-> {}], 0)
    BY DEF Climbs
  <2> QED
    BY <1>2, <2>1 DEF T
<1>3. CASE m # 0
  <2>1. m - 1 \in 0 .. Len(a.recs) /\ m - 1 \notin T
    BY <1>1, <1>m, <1>3
  <2>2. PICK f : Climbs(a, f, m - 1)
    BY <2>1 DEF T
  <2> DEFINE up(g, k) == IF a.recs[k].par = NoId THEN {}
                         ELSE {a.recs[k].par} \cup g[a.recs[k].par]
             h == [k \in 1 .. m |-> up(f, k)]
  <2>3. \A k \in 1 .. m - 1 : h[k] = f[k]
    <3> SUFFICES ASSUME NEW k \in 1 .. m - 1 PROVE h[k] = f[k]
      OBVIOUS
    <3>1. k \in 1 .. m
      BY <1>m
    <3> QED
      BY <2>2, <3>1 DEF Climbs
  <2>4. \A k \in 1 .. m : up(f, k) = up(h, k)
    <3> HIDE DEF h
    <3> SUFFICES ASSUME NEW k \in 1 .. m, a.recs[k].par # NoId
                 PROVE  f[a.recs[k].par] = h[a.recs[k].par]
      OBVIOUS
    <3>1. a.recs[k].par \in 1 .. m - 1
      BY <1>m DEF Upward, NoId
    <3> QED
      BY <2>3, <3>1
  <2>5. h = [k \in 1 .. m |-> up(h, k)]
    <3> HIDE DEF up
    <3> QED
      BY <2>4
  <2>6. Climbs(a, h, m)
    BY <2>5 DEF Climbs
  <2> QED
    BY <1>1, <2>6 DEF T
<1> QED
  BY <1>2, <1>3

(* The path of a record is the record and the path of its parent.          *)
LEMMA PathUnfolds ==
  ASSUME NEW a, Upward(a), NEW i \in 1 .. Len(a.recs)
  PROVE  /\ i \in Path(a, i) /\ Path(a, i) \subseteq 1 .. i
         /\ a.recs[i].par = NoId => Path(a, i) = {i}
         /\ a.recs[i].par # NoId => /\ a.recs[i].par \in 1 .. i - 1
                                    /\ Path(a, i) = {i} \cup Path(a, a.recs[i].par)
<1> DEFINE above == CHOOSE f : Climbs(a, f, Len(a.recs))
           l == Len(a.recs)
<1>1. l \in Nat
  BY DEF Upward
<1>2. Climbs(a, above, l)
  <2>1. l \in 0 .. l
    BY <1>1
  <2> QED
    BY <2>1, ClimbExists
<1>3. \A k : Path(a, k) = {k} \cup {m \in 1 .. l : m \in above[k]}
  BY DEF Path, Climbs
<1> HIDE DEF above
<1>4. \A k \in 1 .. l : above[k] = IF a.recs[k].par = NoId THEN {}
                                   ELSE {a.recs[k].par} \cup above[a.recs[k].par]
  BY <1>2 DEF Climbs
<1>5. \A k \in 1 .. l : a.recs[k].par # NoId => a.recs[k].par \in 1 .. k - 1
  BY DEF Upward, NoId
<1>6. \A k \in 1 .. l : above[k] \subseteq 1 .. k - 1
  <2> DEFINE T == {k \in 1 .. l : ~(above[k] \subseteq 1 .. k - 1)}
  <2> SUFFICES ASSUME T # {} PROVE FALSE
    OBVIOUS
  <2>0. T \in SUBSET Nat
    OBVIOUS
  <2> HIDE DEF T
  <2>1. PICK m \in T : \A k \in T : m <= k
    BY <2>0, LeastNumber
  <2>2. m \in 1 .. l /\ ~(above[m] \subseteq 1 .. m - 1)
    BY DEF T
  <2>3. a.recs[m].par # NoId /\ above[m] = {a.recs[m].par} \cup above[a.recs[m].par]
    BY <1>4, <2>2
  <2> DEFINE p == a.recs[m].par
  <2>4. p \in 1 .. m - 1
    BY <1>5, <2>2, <2>3
  <2>5. p \in 1 .. l /\ p \notin T
    BY <1>1, <2>1, <2>2, <2>4
  <2>6. above[p] \subseteq 1 .. p - 1
    BY <2>5 DEF T
  <2>7. above[p] \subseteq 1 .. m - 1
    BY <2>2, <2>4, <2>6
  <2> QED
    BY <2>2, <2>3, <2>4, <2>7
<1>7. \A k \in 1 .. l : Path(a, k) = {k} \cup above[k]
  <2> SUFFICES ASSUME NEW k \in 1 .. l PROVE Path(a, k) = {k} \cup above[k]
    OBVIOUS
  <2>1. above[k] \subseteq 1 .. l
    BY <1>1, <1>6
  <2> QED
    BY <1>3, <2>1
<1>8. i \in Path(a, i) /\ Path(a, i) \subseteq 1 .. i
  <2>1. above[i] \subseteq 1 .. i
    BY <1>1, <1>6
  <2> QED
    BY <1>1, <1>7, <2>1
<1>9. a.recs[i].par = NoId => Path(a, i) = {i}
  BY <1>4, <1>7
<1>10. ASSUME a.recs[i].par # NoId
       PROVE  /\ a.recs[i].par \in 1 .. i - 1
              /\ Path(a, i) = {i} \cup Path(a, a.recs[i].par)
  <2>1. a.recs[i].par \in 1 .. i - 1
    BY <1>5, <1>10
  <2>2. a.recs[i].par \in 1 .. l
    BY <1>1, <2>1
  <2> QED
    BY <1>4, <1>7, <1>10, <2>1, <2>2
<1> QED
  BY <1>8, <1>9, <1>10

(* What holds of a record's path when it passes from parents on.           *)
LEMMA PathInduction ==
  ASSUME NEW a, Upward(a), NEW G \in SUBSET (1 .. Len(a.recs)),
         \A k \in 1 .. Len(a.recs) :
           (a.recs[k].par # NoId => a.recs[k].par \in G) => k \in G
  PROVE  G = 1 .. Len(a.recs)
<1> DEFINE T == (1 .. Len(a.recs)) \ G
<1> SUFFICES ASSUME T # {} PROVE FALSE
  OBVIOUS
<1>0. T \in SUBSET Nat
  BY DEF Upward
<1> HIDE DEF T
<1>1. PICK m \in T : \A k \in T : m <= k
  BY <1>0, LeastNumber
<1>2. m \in 1 .. Len(a.recs) /\ m \notin G
  BY DEF T
<1>3. a.recs[m].par # NoId => a.recs[m].par \in 1 .. Len(a.recs) /\ ~(m <= a.recs[m].par)
  BY <1>2 DEF Upward, NoId
<1>4. a.recs[m].par # NoId => a.recs[m].par \in G
  BY <1>1, <1>3 DEF T
<1> QED
  BY <1>2, <1>4

(* A path stays in every set of records that holds its members' parents.   *)
LEMMA PathWithin ==
  ASSUME NEW a, Upward(a), NEW S,
         \A k \in 1 .. Len(a.recs) :
           k \in S /\ a.recs[k].par # NoId => a.recs[k].par \in S,
         NEW i \in 1 .. Len(a.recs), i \in S
  PROVE  Path(a, i) \subseteq S
<1> DEFINE G == {k \in 1 .. Len(a.recs) : k \in S => Path(a, k) \subseteq S}
<1>1. ASSUME NEW k \in 1 .. Len(a.recs), a.recs[k].par # NoId => a.recs[k].par \in G
      PROVE  k \in G
  <2> SUFFICES ASSUME k \in S PROVE Path(a, k) \subseteq S
    OBVIOUS
  <2>1. CASE a.recs[k].par = NoId
    BY <2>1, PathUnfolds
  <2>2. CASE a.recs[k].par # NoId
    <3>1. Path(a, k) = {k} \cup Path(a, a.recs[k].par)
      BY <2>2, PathUnfolds
    <3> QED
      BY <1>1, <2>2, <3>1
  <2> QED
    BY <2>1, <2>2
<1>2. G \in SUBSET (1 .. Len(a.recs))
  OBVIOUS
<1> HIDE DEF G
<1>3. G = 1 .. Len(a.recs)
  BY <1>1, <1>2, PathInduction
<1> QED
  BY <1>3 DEF G

(* The members of a path no newer than one of them are that one's path.    *)
LEMMA PathBelow ==
  ASSUME NEW a, Upward(a), NEW i \in 1 .. Len(a.recs), NEW j \in Path(a, i)
  PROVE  {m \in Path(a, i) : m <= j} = Path(a, j)
<1> DEFINE G == {k \in 1 .. Len(a.recs) : \A n \in Path(a, k) : {m \in Path(a, k) : m <= n} = Path(a, n)}
<1>1. ASSUME NEW k \in 1 .. Len(a.recs), a.recs[k].par # NoId => a.recs[k].par \in G
      PROVE  k \in G
  <2> SUFFICES ASSUME NEW n \in Path(a, k) PROVE {m \in Path(a, k) : m <= n} = Path(a, n)
    OBVIOUS
  <2>0. k \in Nat
    OBVIOUS
  <2>1. CASE n = k
    <3>1. \A m \in Path(a, k) : m <= k
      BY PathUnfolds
    <3> QED
      BY <2>1, <3>1
  <2>2. CASE n # k
    <3> DEFINE p == a.recs[k].par
    <3>1. p # NoId
      BY <2>2, PathUnfolds
    <3>2. p \in 1 .. k - 1 /\ Path(a, k) = {k} \cup Path(a, p)
      BY <3>1, PathUnfolds
    <3>3. p \in 1 .. Len(a.recs)
      BY <3>1, <1>1
    <3>4. Path(a, p) \subseteq 1 .. p
      BY <3>3, PathUnfolds
    <3>5. n \in Path(a, p) /\ ~(k <= n)
      BY <2>0, <2>2, <3>2, <3>4
    <3>6. {m \in Path(a, p) : m <= n} = Path(a, n)
      BY <1>1, <3>1, <3>5
    <3> QED
      BY <3>2, <3>5, <3>6
  <2> QED
    BY <2>1, <2>2
<1>2. G \in SUBSET (1 .. Len(a.recs))
  OBVIOUS
<1> HIDE DEF G
<1>3. G = 1 .. Len(a.recs)
  BY <1>1, <1>2, PathInduction
<1> QED
  BY <1>3 DEF G

(* How long a path is.                                                     *)
LEMMA PathLength ==
  ASSUME NEW a, Upward(a), NEW i \in 1 .. Len(a.recs)
  PROVE  /\ IsFiniteSet(Path(a, i))
         /\ Cardinality(Path(a, i)) \in 1 .. i
         /\ a.recs[i].par = NoId => Cardinality(Path(a, i)) = 1
         /\ a.recs[i].par # NoId =>
              Cardinality(Path(a, i)) = Cardinality(Path(a, a.recs[i].par)) + 1
<1>0. i \in Nat
  OBVIOUS
<1>1. i \in Path(a, i) /\ Path(a, i) \subseteq 1 .. i
  BY PathUnfolds
<1>2. IsFiniteSet(1 .. i) /\ Cardinality(1 .. i) = i
  BY <1>0, FS_Interval
<1>3. IsFiniteSet(Path(a, i)) /\ Cardinality(Path(a, i)) <= i
  BY <1>1, <1>2, FS_Subset
<1>4. Cardinality(Path(a, i)) \in Nat /\ Cardinality(Path(a, i)) # 0
  BY <1>1, <1>3, FS_CardinalityType, FS_EmptySet
<1>5. a.recs[i].par = NoId => Cardinality(Path(a, i)) = 1
  <2> SUFFICES ASSUME a.recs[i].par = NoId PROVE Cardinality(Path(a, i)) = 1
    OBVIOUS
  <2>1. Path(a, i) = {i}
    BY PathUnfolds
  <2> QED
    BY <2>1, FS_Singleton
<1>6. ASSUME a.recs[i].par # NoId
      PROVE  Cardinality(Path(a, i)) = Cardinality(Path(a, a.recs[i].par)) + 1
  <2> DEFINE p == a.recs[i].par
  <2>1. p \in 1 .. i - 1 /\ Path(a, i) = {i} \cup Path(a, p)
    BY <1>6, PathUnfolds
  <2>2. p \in 1 .. Len(a.recs)
    BY <2>1 DEF Upward
  <2>3. Path(a, p) \subseteq 1 .. p
    BY <2>2, PathUnfolds
  <2>4. i \notin Path(a, p)
    BY <1>0, <2>1, <2>3
  <2>5. IsFiniteSet(Path(a, p))
    BY <1>1, <1>3, <2>1, FS_Subset
  <2>6. Cardinality(Path(a, p) \cup {i}) = Cardinality(Path(a, p)) + 1
    BY <2>4, <2>5, FS_AddElement
  <2> QED
    BY <2>1, <2>6
<1> QED
  BY <1>0, <1>3, <1>4, <1>5, <1>6

(* Numbering a path: the k-th member is the one whose own path has k.      *)
LEMMA PathNth ==
  ASSUME NEW a, Upward(a), NEW i \in 1 .. Len(a.recs), NEW k \in 1 .. Cardinality(Path(a, i))
  PROVE  /\ Nth(Path(a, i), k) \in Path(a, i)
         /\ Nth(Path(a, i), k) \in 1 .. Len(a.recs)
         /\ Cardinality(Path(a, Nth(Path(a, i), k))) = k
<1> DEFINE path == Path(a, i)
           j == Nth(path, k)
<1>1. IsFiniteSet(path) /\ path \subseteq 1 .. i
  BY PathLength, PathUnfolds
<1>2. \A t \in path : t \in Nat
  BY <1>1
<1>3. \E t \in path : Cardinality({m \in path : m <= t}) = k
  BY <1>1, <1>2, NthExists
<1>4. j \in path /\ Cardinality({m \in path : m <= j}) = k
  BY <1>3 DEF Nth
<1>5. {m \in path : m <= j} = Path(a, j)
  BY <1>4, PathBelow
<1>6. j \in 1 .. Len(a.recs)
  BY <1>1, <1>4
<1> QED
  BY <1>4, <1>5, <1>6

(* No two members of a path have paths of one length.                      *)
LEMMA PathDistinct ==
  ASSUME NEW a, Upward(a), NEW i \in 1 .. Len(a.recs),
         NEW j \in Path(a, i), NEW m \in Path(a, i),
         Cardinality(Path(a, j)) = Cardinality(Path(a, m))
  PROVE  j = m
<1> DEFINE below(n) == {x \in Path(a, i) : x <= n}
<1>1. IsFiniteSet(Path(a, i)) /\ Path(a, i) \subseteq 1 .. i
  BY PathLength, PathUnfolds
<1>2. below(j) = Path(a, j) /\ below(m) = Path(a, m)
  BY PathBelow
<1>3. j \in Nat /\ m \in Nat /\ \A x \in Path(a, i) : x \in Nat
  BY <1>1
<1>4. j \in below(j) /\ m \in below(m)
  BY <1>3
<1>5. ASSUME NEW x \in Path(a, i), NEW y \in Path(a, i), x < y,
             Cardinality(below(x)) = Cardinality(below(y))
      PROVE  FALSE
  <2>0. /\ x \in Nat /\ y \in Nat /\ ~(y <= x) /\ y <= y
        /\ \A z \in Path(a, i) : z <= x => z <= y
    BY <1>3, <1>5
  <2>1. below(x) \subseteq below(y) /\ y \in below(y) /\ y \notin below(x)
    BY <2>0, Zenon
  <2>2. IsFiniteSet(below(y))
    BY <1>1, FS_Subset
  <2> HIDE DEF below
  <2>3. below(x) = below(y)
    BY <1>5, <2>1, <2>2, FS_Subset
  <2> QED
    BY <2>1, <2>3
<1> HIDE DEF below
<1>6. ~(j < m) /\ ~(m < j)
  BY <1>2, <1>5
<1> QED
  BY <1>3, <1>6

(* The numbering goes up the path from its root, one parent at a time.     *)
LEMMA PathChain ==
  ASSUME NEW a, Upward(a), NEW i \in 1 .. Len(a.recs)
  PROVE  LET path == Path(a, i)
         IN  /\ Nth(path, Cardinality(path)) = i
             /\ a.recs[Nth(path, 1)].par = NoId
             /\ \A k \in 2 .. Cardinality(path) :
                  a.recs[Nth(path, k)].par = Nth(path, k - 1)
<1> DEFINE path == Path(a, i)
           n == Cardinality(path)
<1>1. n \in 1 .. i /\ i \in path /\ n \in Nat /\ n >= 1 /\ path \subseteq 1 .. i
  BY PathLength, PathUnfolds
<1>2. Nth(path, n) = i
  <2>1. n \in 1 .. n
    BY <1>1
  <2>2. Nth(path, n) \in path /\ Cardinality(Path(a, Nth(path, n))) = n
    BY <2>1, PathNth
  <2> QED
    BY <1>1, <2>2, PathDistinct
<1>3. \A k \in 1 .. n : /\ Nth(path, k) \in path /\ Nth(path, k) \in 1 .. Len(a.recs)
                        /\ Cardinality(Path(a, Nth(path, k))) = k
  BY PathNth
<1>4. a.recs[Nth(path, 1)].par = NoId
  <2> DEFINE j == Nth(path, 1)
  <2>1. j \in path /\ j \in 1 .. Len(a.recs) /\ Cardinality(Path(a, j)) = 1
    BY <1>1, <1>3
  <2> SUFFICES ASSUME a.recs[j].par # NoId PROVE FALSE
    OBVIOUS
  <2> HIDE DEF j
  <2>2. Cardinality(Path(a, j)) = Cardinality(Path(a, a.recs[j].par)) + 1
    BY <2>1, PathLength
  <2>3. a.recs[j].par \in 1 .. j - 1
    BY <2>1, PathUnfolds
  <2>4. a.recs[j].par \in 1 .. Len(a.recs)
    BY <2>1, <2>3
  <2>5. Cardinality(Path(a, a.recs[j].par)) \in 1 .. a.recs[j].par
    BY <2>4, PathLength
  <2> QED
    BY <2>1, <2>2, <2>3, <2>5
<1>5. ASSUME NEW k \in 2 .. n PROVE a.recs[Nth(path, k)].par = Nth(path, k - 1)
  <2> DEFINE j == Nth(path, k)
             m == Nth(path, k - 1)
  <2>1. k \in 1 .. n /\ k - 1 \in 1 .. n
    BY <1>1
  <2>2. /\ j \in path /\ j \in 1 .. Len(a.recs) /\ Cardinality(Path(a, j)) = k
        /\ m \in path /\ Cardinality(Path(a, m)) = k - 1
    BY <1>3, <2>1
  <2> HIDE DEF j, m
  <2>3. a.recs[j].par # NoId
    BY <2>1, <2>2, PathLength
  <2>4. /\ a.recs[j].par \in 1 .. j - 1
        /\ Path(a, j) = {j} \cup Path(a, a.recs[j].par)
    BY <2>2, <2>3, PathUnfolds
  <2>5. a.recs[j].par \in 1 .. Len(a.recs)
    BY <2>2, <2>4
  <2>6. Cardinality(Path(a, j)) = Cardinality(Path(a, a.recs[j].par)) + 1
    BY <2>2, <2>3, PathLength
  <2>7. Cardinality(Path(a, a.recs[j].par)) \in Nat
    BY <2>5, PathLength
  <2>8. Cardinality(Path(a, a.recs[j].par)) = Cardinality(Path(a, m))
    BY <2>1, <2>2, <2>6, <2>7
  <2>9. a.recs[j].par \in Path(a, j)
    BY <2>4, <2>5, PathUnfolds
  <2>10. Path(a, j) \subseteq path
    BY <2>2, PathBelow
  <2> QED
    BY <2>2, <2>8, <2>9, <2>10, PathDistinct DEF j, m
<1> QED
  BY <1>2, <1>4, <1>5

(* The path of a record in a straight run from the root is the run.        *)
LEMMA PathOfRun ==
  ASSUME NEW a, Upward(a), NEW n \in 0 .. Len(a.recs),
         \A k \in 1 .. n : a.recs[k].par = k - 1,
         NEW i \in 1 .. n
  PROVE  Path(a, i) = 1 .. i /\ Cardinality(Path(a, i)) = i
<1>0. Len(a.recs) \in Nat /\ n \in Nat
  BY DEF Upward
<1> DEFINE G == {k \in 1 .. Len(a.recs) : k <= n => Path(a, k) = 1 .. k}
<1>1. ASSUME NEW k \in 1 .. Len(a.recs), a.recs[k].par # NoId => a.recs[k].par \in G
      PROVE  k \in G
  <2> SUFFICES ASSUME k <= n PROVE Path(a, k) = 1 .. k
    OBVIOUS
  <2>1. k \in 1 .. n /\ a.recs[k].par = k - 1
    BY <1>0
  <2>2. CASE k = 1
    <3>1. a.recs[k].par = NoId
      BY <2>1, <2>2 DEF NoId
    <3> QED
      BY <2>2, <3>1, PathUnfolds
  <2>3. CASE k # 1
    <3>1. a.recs[k].par # NoId
      BY <2>1, <2>3 DEF NoId
    <3>2. Path(a, k) = {k} \cup Path(a, k - 1)
      BY <2>1, <3>1, PathUnfolds
    <3>3. Path(a, k - 1) = 1 .. k - 1
      BY <1>0, <1>1, <2>1, <3>1
    <3> QED
      BY <2>1, <3>2, <3>3
  <2> QED
    BY <2>2, <2>3
<1>2. G \in SUBSET (1 .. Len(a.recs))
  OBVIOUS
<1> HIDE DEF G
<1>3. G = 1 .. Len(a.recs)
  BY <1>1, <1>2, PathInduction
<1>4. Path(a, i) = 1 .. i
  BY <1>0, <1>3 DEF G
<1>5. i \in Int /\ 1 \in Int /\ ~(1 > i) /\ i - 1 + 1 = i
  BY <1>0
<1>6. Cardinality(1 .. i) = i
  BY <1>5, FS_Interval
<1> QED
  BY <1>4, <1>6

-----------------------------------------------------------------------------
(* Popping, rekeying and the buffers of an arena about to be filled again. *)

(* A queue that is not empty has a first entry.                            *)
LEMMA TopFacts ==
  ASSUME NEW a \in Arenas, a.queue # {}
  PROVE  Top(a) \in a.queue /\ \A q \in a.queue : Before(Top(a), q)
<1>1. \A q \in a.queue : q.f \in Nat /\ q.h \in Nat /\ q.id \in Nat
  BY DEF Arenas, Keys
<1> DEFINE Fs == {q.f : q \in a.queue}
<1>2. PICK f \in Fs : \A k \in Fs : f <= k
  <2>1. Fs \in SUBSET Nat /\ Fs # {}
    BY <1>1
  <2> HIDE DEF Fs
  <2> QED
    BY <2>1, LeastNumber
<1> DEFINE Hs == {q.h : q \in {p \in a.queue : p.f = f}}
<1>3. PICK h \in Hs : \A k \in Hs : h <= k
  <2>1. Hs \in SUBSET Nat /\ Hs # {}
    BY <1>1, <1>2
  <2> HIDE DEF Hs
  <2> QED
    BY <2>1, LeastNumber
<1> DEFINE Is == {q.id : q \in {p \in a.queue : p.f = f /\ p.h = h}}
<1>4. PICK i \in Is : \A k \in Is : i <= k
  <2>1. Is \in SUBSET Nat /\ Is # {}
    BY <1>1, <1>3
  <2> HIDE DEF Is
  <2> QED
    BY <2>1, LeastNumber
<1>5. PICK t \in a.queue : t.f = f /\ t.h = h /\ t.id = i
  BY <1>4
<1>6. ASSUME NEW q \in a.queue PROVE Before(t, q)
  <2>1. t.f <= q.f
    BY <1>2, <1>5
  <2>2. q.f = t.f => t.h <= q.h
    BY <1>3, <1>5
  <2>3. q.f = t.f /\ q.h = t.h => t.id <= q.id
    BY <1>4, <1>5
  <2>4. t.f \in Nat /\ q.f \in Nat /\ t.h \in Nat /\ q.h \in Nat
    BY <1>1, <1>5
  <2> QED
    BY <2>1, <2>2, <2>3, <2>4 DEF Before
<1>7. \E p \in a.queue : \A q \in a.queue : Before(p, q)
  BY <1>5, <1>6
<1> QED
  BY <1>7 DEF Top

(* What only moves queue entries and closes records keeps the books.       *)
LEMMA SameKeeps ==
  ASSUME NEW a, NEW b, Consistent(a), SameButQueue(a, b)
  PROVE  /\ Consistent(b)
         /\ Live(b) = Live(a)
         /\ \A spare : Buffered(a, spare) => Buffered(b, spare)
<1>1. Live(b) = Live(a)
  BY DEF SameButQueue, Live
<1>2. OneLive(b)
  <2> SUFFICES ASSUME NEW i \in Live(a), NEW j \in Live(a), b.recs[i].st = b.recs[j].st
               PROVE  i = j
    BY <1>1 DEF OneLive
  <2>1. i \in 1 .. Len(a.recs) /\ j \in 1 .. Len(a.recs)
    BY DEF Live
  <2> QED
    BY <2>1 DEF SameButQueue, Alike, Consistent, OneLive
<1>3. Consistent(b)
  BY <1>1, <1>2 DEF SameButQueue, Consistent, Bound, Counted
<1>4. ASSUME NEW spare, Buffered(a, spare) PROVE Buffered(b, spare)
  BY <1>4 DEF SameButQueue, Buffered, IsFull
<1> QED
  BY <1>1, <1>3, <1>4

LEMMA ReweightFacts ==
  ASSUME NEW a \in Arenas, \A q \in a.queue : q.id \in 1 .. Len(a.recs), NEW w \in Nat
  PROVE  /\ SameButQueue(a, Reweight(a, w))
         /\ Reweight(a, w).recs = a.recs
         /\ Reweight(a, w).queue =
              {[f |-> a.recs[q.id].g + w * q.h, h |-> q.h, id |-> q.id] : q \in a.queue}
<1> DEFINE key(q) == [f |-> a.recs[q.id].g + w * q.h, h |-> q.h, id |-> q.id]
           keys == {key(q) : q \in a.queue}
<1>1. \A q \in a.queue : key(q) \in Keys
  <2> SUFFICES ASSUME NEW q \in a.queue PROVE key(q) \in Keys
    OBVIOUS
  <2>1. q.h \in Nat /\ q.id \in Nat \ {0} /\ q.id \in 1 .. Len(a.recs)
    BY DEF Arenas, Keys
  <2>2. a.recs[q.id].g \in Nat
    BY <2>1, RecordFields DEF Arenas
  <2> QED
    BY <2>1, <2>2, KeyFacts
<1>2. keys \in SUBSET Keys
  BY <1>1
<1>3. Reweight(a, w) = [a EXCEPT !.queue = keys]
  BY DEF Reweight
<1> HIDE DEF keys
<1>4. Reweight(a, w).recs = a.recs
  BY <1>3 DEF Arenas
<1>5. SameButQueue(a, Reweight(a, w)) /\ Reweight(a, w).queue = keys
  BY <1>2, <1>3, QueueChange
<1> QED
  BY <1>4, <1>5 DEF keys

LEMMA ReleaseFacts ==
  ASSUME NEW a, Consistent(a)
  PROVE  /\ Consistent(Release(a))
         /\ Release(a).recs = a.recs /\ Release(a).queue = {}
         /\ Release(a).reserved = 0 /\ Release(a).limit = a.limit
<1> DEFINE b == Release(a)
<1>1. a \in Arenas
  BY DEF Consistent
<1>2. /\ b \in Arenas /\ b.recs = a.recs /\ b.queue = {}
      /\ b.reserved = 0 /\ b.limit = a.limit /\ b.table = 0
  BY <1>1 DEF Release, Arenas
<1>3. Live(b) = Live(a)
  BY <1>2 DEF Live
<1> HIDE DEF b
<1>4. OneLive(b)
  BY <1>2, <1>3 DEF Consistent, OneLive
<1>5. Consistent(b)
  BY <1>2, <1>4 DEF Consistent, Bound, Counted
<1> QED
  BY <1>2, <1>5 DEF b

LEMMA RechargeFacts ==
  ASSUME NEW a, Consistent(a), NEW limit \in 1 .. a.limit
  PROVE  LET b == Recharge(a, limit)
         IN  /\ Consistent(b)
             /\ b.recs = a.recs /\ b.queue = a.queue /\ b.limit = limit
             /\ b.starved = a.starved /\ b.table = a.table
             /\ Buffered(a, FALSE) /\ Len(a.recs) <= limit => Buffered(b, FALSE)
<1> DEFINE b == Recharge(a, limit)
<1>1. a \in Arenas
  BY DEF Consistent
<1>2. /\ limit \in 1 .. MaxLimit /\ limit \in Nat /\ limit <= a.limit /\ a.limit \in Nat
      /\ Len(a.recs) \in Nat /\ a.reserved \in Nat
  <2>1. a.limit \in 1 .. MaxLimit /\ MaxLimit \in Nat
    BY <1>1, ArenaFields, ArenaAssumption
  <2> QED
    BY <1>1, <2>1, ArenaFields
<1>3. /\ b \in Arenas /\ b.recs = a.recs /\ b.queue = a.queue /\ b.limit = limit
      /\ b.starved = a.starved /\ b.table = a.table /\ b.index = a.index
      /\ b.resident = a.resident /\ b.reserved = a.reserved
  BY <1>1, <1>2 DEF Recharge, Arenas
<1>4. Live(b) = Live(a)
  BY <1>3 DEF Live
<1> HIDE DEF b
<1>5. OneLive(b)
  BY <1>3, <1>4 DEF Consistent, OneLive
<1>6. Consistent(b)
  BY <1>3, <1>4, <1>5 DEF Consistent, Bound, Counted
<1>7. ASSUME Buffered(a, FALSE), Len(a.recs) <= limit PROVE Buffered(b, FALSE)
  BY <1>2, <1>3, <1>7 DEF Buffered
<1> QED
  BY <1>3, <1>6, <1>7 DEF b

(* The first record inserted after a clear needs no growth.                *)
LEMMA FirstInsert ==
  ASSUME NEW a, Consistent(a), Buffered(a, FALSE), a.index = {}, a.resident = 0,
         a.table # 0, ~a.starved, Len(a.recs) < a.limit,
         Len(a.recs) + 2 < a.reserved \/ a.reserved > a.limit,
         NEW n \in Nodes, NEW ok \in Grants
  PROVE  LET b == Insert(a, n, ok)
             l == Len(a.recs)
         IN  /\ Consistent(b) /\ Buffered(b, FALSE)
             /\ Len(b.recs) = l + 1
             /\ b.recs[l + 1] = [st |-> n.st, g |-> n.g, h |-> n.h, par |-> n.par,
                                 closed |-> FALSE, sup |-> FALSE]
             /\ \A i \in 1 .. l : /\ Alike(b.recs[i], a.recs[i])
                                  /\ b.recs[i].sup = a.recs[i].sup
             /\ b.queue = a.queue /\ b.limit = a.limit /\ ~b.starved
             /\ b.table = a.table /\ b.reserved = a.reserved
<1> DEFINE b == Insert(a, n, ok)
           c == Append1(a, n)
           l == Len(a.recs)
<1>1. a \in Arenas /\ a.table >= 4
  BY DEF Consistent, Buffered
<1>2. /\ l \in Nat /\ a.limit \in Nat /\ a.reserved \in Nat /\ a.table \in Nat
      /\ a.starved = FALSE
  BY <1>1, ArenaFields
<1>3. /\ Consistent(c) /\ Len(c.recs) = l + 1 /\ c.resident <= a.resident + 1
      /\ c.limit = a.limit /\ c.starved = a.starved
      /\ c.reserved = a.reserved /\ c.table = a.table
  BY <1>2, AppendFacts
<1>4. c.resident \in Nat
  BY <1>3, ArenaFields DEF Consistent
<1>5. b = IF Len(c.recs) <= c.limit /\ ~c.starved THEN Grow(c, ok) ELSE c
  BY DEF Insert
<1> HIDE DEF c
<1>6. ~NeedsTable(c) /\ ~NeedsChunk(c)
  <2>1. 2 * c.resident <= c.table
    BY <1>1, <1>2, <1>3, <1>4
  <2>2. ~(Len(c.recs) + 1 = c.reserved /\ c.reserved <= c.limit)
    BY <1>2, <1>3
  <2>3. ~(2 * c.resident > c.table)
    BY <1>2, <1>3, <1>4, <2>1
  <2> QED
    BY <2>2, <2>3 DEF NeedsTable, NeedsChunk
<1>7. b = c
  BY <1>5, <1>6 DEF Grow
<1>8. /\ Len(b.recs) = l + 1
      /\ b.recs[l + 1] = [st |-> n.st, g |-> n.g, h |-> n.h, par |-> n.par,
                          closed |-> FALSE, sup |-> FALSE]
      /\ b.queue = a.queue
  BY <1>1, InsertFacts
<1>9. \A i \in 1 .. l : Kept(b.recs[i], a.recs[i], i, Find(a, n.st))
  BY <1>1, InsertFacts
<1>12. ASSUME NEW i \in 1 .. l
       PROVE  Alike(b.recs[i], a.recs[i]) /\ b.recs[i].sup = a.recs[i].sup
  <2>1. i # Find(a, n.st) /\ a.recs[i].sup \in BOOLEAN
    BY <1>1, <1>2, RecordFields DEF NoId, Arenas, Find
  <2> HIDE DEF b
  <2> QED
    BY <1>9, <2>1 DEF Kept
<1>10. IsFull(a) = FALSE
  BY <1>2 DEF IsFull
<1>11. Buffered(b, FALSE)
  <2>1. Len(a.recs) <= a.limit
    BY <1>2
  <2>2. FALSE \in BOOLEAN /\ (IsFull(a) => ~FALSE)
    OBVIOUS
  <2>3. Buffered(b, IsFull(a))
    BY <2>1, <2>2, InsertBuffered, Zenon
  <2> QED
    BY <1>10, <2>3
<1> QED
  BY <1>2, <1>3, <1>7, <1>8, <1>11, <1>12 DEF b

=============================================================================
