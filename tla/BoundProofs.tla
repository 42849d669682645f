---------------------------- MODULE BoundProofs -----------------------------
(***************************************************************************)
(* The build of the room bound stays within the search's memory: proofs    *)
(* about RoomBound.                                                        *)
(***************************************************************************)
EXTENDS RoomBound, FiniteSetTheorems, SequenceTheorems, WellFoundedInduction, TLAPS

-----------------------------------------------------------------------------
(* Finite sets.                                                            *)

(* Every set of natural numbers but the empty one has a least member.      *)
LEMMA LeastNumber ==
  ASSUME NEW S \in SUBSET Nat, S # {}
  PROVE  \E m \in S : \A k \in S : m <= k
<1>1. PICK m \in S : \A k \in S : ~(<<k, m>> \in OpToRel(<, Nat))
  BY NatLessThanWellFounded, WFMin
<1>2. \A k \in S : ~(k < m)
  BY <1>1 DEF OpToRel
<1> QED
  BY <1>2

(* A finite set's size is a natural number, 0 for the empty set only.      *)
LEMMA SizeIsNat ==
  ASSUME NEW S, IsFiniteSet(S)
  PROVE  Cardinality(S) \in Nat /\ (Cardinality(S) = 0 <=> S = {})
BY FS_CardinalityType, FS_EmptySet

(* What a function makes of a finite set is finite and no larger.          *)
LEMMA ImageFinite ==
  ASSUME NEW f, IsFiniteSet(DOMAIN f), NEW S, S = {f[x] : x \in DOMAIN f},
         f = [x \in DOMAIN f |-> f[x]]
  PROVE  IsFiniteSet(S) /\ Cardinality(S) <= Cardinality(DOMAIN f)
<1>1. f \in Surjection(DOMAIN f, S)
  BY DEF Surjection
<1> QED
  BY <1>1, FS_Surjection

-----------------------------------------------------------------------------
(* Sums: SumFunction(f) counts the pairs of a member of the domain and a   *)
(* number up to its value, so that sums grow, split and compare as finite  *)
(* sets do.                                                                *)
Units(f, s) == UNION {{x} \X (1 .. f[x]) : x \in s}

Summable(f) ==
  /\ f = [x \in DOMAIN f |-> f[x]]
  /\ IsFiniteSet(DOMAIN f)
  /\ \A x \in DOMAIN f : f[x] \in Nat

LEMMA UnitsFinite ==
  ASSUME NEW f, Summable(f), NEW s \in SUBSET DOMAIN f
  PROVE  IsFiniteSet(Units(f, s)) /\ Cardinality(Units(f, s)) \in Nat
<1> DEFINE g == [x \in s |-> {x} \X (1 .. f[x])]
<1>1. IsFiniteSet(s)
  BY FS_Subset DEF Summable
<1>2. IsFiniteSet({g[x] : x \in DOMAIN g})
  <2>1. DOMAIN g = s /\ g = [x \in DOMAIN g |-> g[x]]
    OBVIOUS
  <2> HIDE DEF g
  <2> QED
    BY <1>1, <2>1, ImageFinite
<1>3. \A x \in s : IsFiniteSet({x} \X (1 .. f[x]))
  <2> TAKE x \in s
  <2>1. IsFiniteSet(1 .. f[x])
    BY FS_Interval DEF Summable
  <2>2. IsFiniteSet({x})
    BY FS_Singleton
  <2> QED
    BY <2>1, <2>2, FS_Product
<1>4. Units(f, s) = UNION {g[x] : x \in DOMAIN g}
  BY DEF Units
<1>5. \A T \in {g[x] : x \in DOMAIN g} : IsFiniteSet(T)
  BY <1>3
<1>6. IsFiniteSet(Units(f, s))
  <2> HIDE DEF g
  <2> QED
    BY <1>2, <1>4, <1>5, FS_UNION
<1> QED
  BY <1>6, SizeIsNat

(* Taking one member away takes its value away.                            *)
LEMMA UnitsLess ==
  ASSUME NEW f, Summable(f), NEW s \in SUBSET DOMAIN f, NEW x \in s
  PROVE  Cardinality(Units(f, s)) = f[x] + Cardinality(Units(f, s \ {x}))
<1> DEFINE own == {x} \X (1 .. f[x])
           rest == Units(f, s \ {x})
<1>1. f[x] \in Nat
  BY DEF Summable
<1>2. IsFiniteSet(own) /\ Cardinality(own) = f[x]
  <2>1. IsFiniteSet({x}) /\ Cardinality({x}) = 1
    BY FS_Singleton
  <2>2. IsFiniteSet(1 .. f[x]) /\ Cardinality(1 .. f[x]) = f[x]
    BY <1>1, FS_Interval
  <2> QED
    BY <1>1, <2>1, <2>2, FS_Product
<1>3. IsFiniteSet(rest) /\ Cardinality(rest) \in Nat
  BY UnitsFinite
<1>4. Units(f, s) = own \cup rest
  BY Zenon DEF Units
<1>5. own \cap rest = {}
  BY DEF Units
<1>6. Cardinality(own \cap rest) = 0
  BY <1>5, FS_EmptySet
<1>7. Cardinality(own \cup rest)
        = Cardinality(own) + Cardinality(rest) - Cardinality(own \cap rest)
  <2> HIDE DEF own, rest
  <2> QED
    BY <1>2, <1>3, FS_Union
<1>8. Cardinality(Units(f, s \ {x})) = Cardinality(rest)
  OBVIOUS
<1> HIDE DEF own, rest
<1> QED
  BY <1>1, <1>2, <1>3, <1>4, <1>6, <1>7, <1>8

Sums(f, S, sum) ==
  sum = [s \in SUBSET S |-> IF s = {} THEN 0
           ELSE f[CHOOSE x \in s : TRUE] + sum[s \ {CHOOSE x \in s : TRUE}]]

LEMMA SumsCount ==
  ASSUME NEW f, Summable(f)
  PROVE  Sums(f, DOMAIN f, [s \in SUBSET DOMAIN f |-> Cardinality(Units(f, s))])
<1> DEFINE sum == [s \in SUBSET DOMAIN f |-> Cardinality(Units(f, s))]
<1>1. ASSUME NEW s \in SUBSET DOMAIN f
      PROVE  sum[s] = IF s = {} THEN 0
               ELSE f[CHOOSE x \in s : TRUE] + sum[s \ {CHOOSE x \in s : TRUE}]
  <2>1. CASE s = {}
    <3>1. Units(f, s) = {}
      BY <2>1 DEF Units
    <3> QED
      BY <2>1, <3>1, FS_EmptySet
  <2>2. CASE s # {}
    <3>1. PICK x : x = CHOOSE y \in s : TRUE
      OBVIOUS
    <3>2. x \in s
      BY <2>2, <3>1
    <3>3. Cardinality(Units(f, s)) = f[x] + Cardinality(Units(f, s \ {x}))
      BY <3>2, UnitsLess
    <3>4. sum[s] = f[x] + sum[s \ {x}]
      BY <3>3
    <3> QED
      BY <2>2, <3>1, <3>4
  <2> QED
    BY <2>1, <2>2
<1>2. sum = [s \in SUBSET DOMAIN f |-> sum[s]]
  OBVIOUS
<1> HIDE DEF sum
<1>3. Sums(f, DOMAIN f, sum)
  BY <1>1, <1>2 DEF Sums
<1> QED
  BY <1>3 DEF sum

(* No other function does what the sum's recursion says.                   *)
LEMMA SumsUnique ==
  ASSUME NEW f, Summable(f), NEW sum, Sums(f, DOMAIN f, sum),
         NEW t \in SUBSET DOMAIN f
  PROVE  sum[t] = Cardinality(Units(f, t))
<1> DEFINE bad == {s \in SUBSET DOMAIN f : sum[s] # Cardinality(Units(f, s))}
           sizes == {n \in Nat : \E s \in bad : Cardinality(s) = n}
<1>1. SUFFICES ASSUME t \in bad PROVE FALSE
  OBVIOUS
<1>2. \A s \in SUBSET DOMAIN f : IsFiniteSet(s) /\ Cardinality(s) \in Nat
  BY FS_Subset, SizeIsNat DEF Summable
<1>3. sizes # {}
  BY <1>1, <1>2
<1>4. PICK n \in sizes : \A k \in sizes : n <= k
  BY <1>3, LeastNumber
<1>5. PICK s \in bad : Cardinality(s) = n
  BY <1>4
<1>6. s # {}
  <2>1. ASSUME s = {} PROVE FALSE
    <3>1. Units(f, s) = {}
      BY <2>1 DEF Units
    <3>2. sum[s] = 0
      BY <2>1 DEF Sums
    <3> QED
      BY <1>5, <3>1, <3>2, FS_EmptySet
  <2> QED
    BY <2>1
<1>7. PICK x : x = CHOOSE y \in s : TRUE
  OBVIOUS
<1>8. x \in s
  BY <1>6, <1>7
<1>9. sum[s] = f[x] + sum[s \ {x}]
  <2>1. sum[s] = IF s = {} THEN 0
           ELSE f[CHOOSE y \in s : TRUE] + sum[s \ {CHOOSE y \in s : TRUE}]
    BY Zenon DEF Sums
  <2> QED
    BY <2>1, <1>6, <1>7
<1>10. Cardinality(s \ {x}) < n
  <2>1. IsFiniteSet(s) /\ Cardinality(s) \in Nat
    BY <1>2, <1>5
  <2>2. Cardinality(s \ {x}) = Cardinality(s) - 1
    BY <1>8, <2>1, FS_RemoveElement
  <2> QED
    BY <1>5, <2>1, <2>2
<1>11. s \ {x} \notin bad
  <2>1. Cardinality(s \ {x}) \in Nat
    BY <1>2, <1>5
  <2> QED
    BY <1>4, <1>10, <2>1
<1>12. sum[s \ {x}] = Cardinality(Units(f, s \ {x}))
  BY <1>11, <1>5
<1>13. Cardinality(Units(f, s)) = f[x] + Cardinality(Units(f, s \ {x}))
  BY <1>5, <1>8, UnitsLess
<1> QED
  BY <1>5, <1>9, <1>12, <1>13

LEMMA SumIsCount ==
  ASSUME NEW f, Summable(f)
  PROVE  SumFunction(f) = Cardinality(Units(f, DOMAIN f))
<1> DEFINE iter == CHOOSE sum : Sums(f, DOMAIN f, sum)
<1>1. Sums(f, DOMAIN f, iter)
  BY SumsCount
<1>2. SumFunction(f) = iter[DOMAIN f]
  BY Zenon DEF SumFunction, SumFunctionOnSet, FoldFunctionOnSet, MapThenFoldSet, Sums
<1> HIDE DEF iter
<1> QED
  BY <1>1, <1>2, SumsUnique

(* The sum over some members of the domain.                                *)
Over(f, s) == SumFunction([x \in s |-> f[x]])

LEMMA OverCount ==
  ASSUME NEW f, Summable(f), NEW s \in SUBSET DOMAIN f
  PROVE  /\ Over(f, s) = Cardinality(Units(f, s))
         /\ IsFiniteSet(Units(f, s))
         /\ Over(f, s) \in Nat
<1> DEFINE g == [x \in s |-> f[x]]
<1>1. IsFiniteSet(s)
  BY FS_Subset DEF Summable
<1>2. Summable(g) /\ DOMAIN g = s
  BY <1>1 DEF Summable
<1>3. Units(g, DOMAIN g) = Units(f, s)
  BY DEF Units
<1>4. SumFunction(g) = Cardinality(Units(g, DOMAIN g))
  <2> HIDE DEF g
  <2> QED
    BY <1>2, SumIsCount
<1> QED
  BY <1>3, <1>4, UnitsFinite DEF Over

LEMMA OverUnion ==
  ASSUME NEW f, Summable(f), NEW s \in SUBSET DOMAIN f, NEW t \in SUBSET DOMAIN f
  PROVE  Over(f, s \cup t) <= Over(f, s) + Over(f, t)
<1>1. /\ Over(f, s) = Cardinality(Units(f, s)) /\ IsFiniteSet(Units(f, s))
      /\ Over(f, s) \in Nat
  BY OverCount
<1>2. /\ Over(f, t) = Cardinality(Units(f, t)) /\ IsFiniteSet(Units(f, t))
      /\ Over(f, t) \in Nat
  BY OverCount
<1>3. Over(f, s \cup t) = Cardinality(Units(f, s \cup t))
  BY OverCount
<1>4. Units(f, s \cup t) = Units(f, s) \cup Units(f, t)
  BY DEF Units
<1>5. Cardinality(Units(f, s) \cup Units(f, t))
        = Cardinality(Units(f, s)) + Cardinality(Units(f, t))
            - Cardinality(Units(f, s) \cap Units(f, t))
  BY <1>1, <1>2, FS_Union
<1>6. Cardinality(Units(f, s) \cap Units(f, t)) \in Nat
  BY <1>1, FS_Intersection, SizeIsNat
<1>7. PICK a \in Nat : a = Over(f, s)
  BY <1>1
<1>8. PICK b \in Nat : b = Over(f, t)
  BY <1>2
<1>9. PICK c \in Nat : c = Cardinality(Units(f, s) \cap Units(f, t))
  BY <1>6
<1>10. Over(f, s \cup t) = a + b - c
  BY <1>1, <1>2, <1>3, <1>4, <1>5, <1>7, <1>8, <1>9
<1> QED
  BY <1>7, <1>8, <1>9, <1>10

LEMMA OverSplit ==
  ASSUME NEW f, Summable(f), NEW s \in SUBSET DOMAIN f, NEW t \in SUBSET s
  PROVE  Over(f, s) = Over(f, t) + Over(f, s \ t)
<1>1. /\ Over(f, t) = Cardinality(Units(f, t)) /\ IsFiniteSet(Units(f, t))
      /\ Over(f, t) \in Nat
  BY OverCount
<1>2. /\ Over(f, s \ t) = Cardinality(Units(f, s \ t)) /\ IsFiniteSet(Units(f, s \ t))
      /\ Over(f, s \ t) \in Nat
  BY OverCount
<1>3. Over(f, s) = Cardinality(Units(f, s))
  BY OverCount
<1>4. Units(f, s) = Units(f, t) \cup Units(f, s \ t)
  BY DEF Units
<1>5. Units(f, t) \cap Units(f, s \ t) = {}
  BY DEF Units
<1>6. Cardinality(Units(f, t) \cup Units(f, s \ t))
        = Cardinality(Units(f, t)) + Cardinality(Units(f, s \ t))
            - Cardinality(Units(f, t) \cap Units(f, s \ t))
  BY <1>1, <1>2, FS_Union
<1>7. Cardinality(Units(f, t) \cap Units(f, s \ t)) = 0
  BY <1>5, FS_EmptySet
<1> QED
  BY <1>1, <1>2, <1>3, <1>4, <1>6, <1>7

LEMMA OverFew ==
  ASSUME NEW f, Summable(f)
  PROVE  /\ Over(f, {}) = 0
         /\ \A x \in DOMAIN f : Over(f, {x}) = f[x]
<1>1. Over(f, {}) = 0
  <2>1. Units(f, {}) = {}
    BY DEF Units
  <2>2. Over(f, {}) = Cardinality(Units(f, {}))
    BY OverCount
  <2> QED
    BY <2>1, <2>2, FS_EmptySet
<1>2. ASSUME NEW x \in DOMAIN f PROVE Over(f, {x}) = f[x]
  <2>1. /\ Over(f, {x}) = Cardinality(Units(f, {x}))
        /\ Over(f, {}) = Cardinality(Units(f, {}))
    BY OverCount
  <2>2. Cardinality(Units(f, {x})) = f[x] + Cardinality(Units(f, {x} \ {x}))
    BY UnitsLess
  <2>3. {x} \ {x} = {}
    OBVIOUS
  <2>4. f[x] \in Nat
    BY DEF Summable
  <2> QED
    BY <1>1, <2>1, <2>2, <2>3, <2>4
<1> QED
  BY <1>1, <1>2

-----------------------------------------------------------------------------
(* Sequences, whatever their members are.                                  *)
IsSeq(q) == \E S : q \in Seq(S)

LEMMA SeqLength ==
  ASSUME NEW q, IsSeq(q)
  PROVE  /\ Len(q) \in Nat
         /\ DOMAIN q = 1 .. Len(q)
         /\ IsFiniteSet(DOMAIN q)
         /\ q = [k \in DOMAIN q |-> q[k]]
<1>1. PICK S : q \in Seq(S)
  BY DEF IsSeq
<1>2. Len(q) \in Nat /\ DOMAIN q = 1 .. Len(q) /\ q \in [1 .. Len(q) -> S]
  BY <1>1, LenProperties
<1>3. IsFiniteSet(1 .. Len(q))
  BY <1>2, FS_Interval
<1> QED
  BY <1>2, <1>3

(* A function on the numbers up to a count is a sequence.                  *)
LEMMA FunctionIsSeq ==
  ASSUME NEW n \in Nat, NEW q, q = [k \in 1 .. n |-> q[k]]
  PROVE  IsSeq(q) /\ Len(q) = n
<1> DEFINE S == {q[k] : k \in 1 .. n}
<1>1. q \in [1 .. n -> S]
  OBVIOUS
<1>2. q \in Seq(S)
  BY <1>1, SeqDef
<1>3. DOMAIN q = 1 .. Len(q) /\ Len(q) \in Nat
  BY <1>2, LenProperties
<1>4. DOMAIN q = 1 .. n
  BY <1>1
<1>5. Len(q) = n
  BY <1>3, <1>4
<1> QED
  BY <1>2, <1>5 DEF IsSeq

LEMMA JoinIsSeq ==
  ASSUME NEW q, IsSeq(q), NEW r, IsSeq(r)
  PROVE  IsSeq(q \o r)
<1>1. PICK S : q \in Seq(S)
  BY DEF IsSeq
<1>2. PICK T : r \in Seq(T)
  BY DEF IsSeq
<1>3. q \in Seq(S \cup T)
  BY <1>1, SeqMonotonic, S \subseteq S \cup T
<1>4. r \in Seq(S \cup T)
  BY <1>2, SeqMonotonic, T \subseteq S \cup T
<1>5. q \o r \in Seq(S \cup T)
  BY <1>3, <1>4, ConcatProperties
<1> QED
  BY <1>5 DEF IsSeq

LEMMA FrontIsSeq ==
  ASSUME NEW q, IsSeq(q)
  PROVE  IsSeq(Front(q))
<1>1. PICK S : q \in Seq(S)
  BY DEF IsSeq
<1>2. Len(q) \in Nat /\ q \in [1 .. Len(q) -> S]
  BY <1>1, LenProperties
<1>3. \A k \in 1 .. Len(q) - 1 : q[k] \in S
  BY <1>2
<1>4. SubSeq(q, 1, Len(q) - 1) \in Seq(S)
  <2>1. Len(q) - 1 \in Int
    BY <1>2
  <2> QED
    BY <1>3, <2>1, SubSeqProperties
<1> QED
  BY <1>4 DEF IsSeq, Front

LEMMA AscendingIsSeq ==
  ASSUME NEW S, IsFiniteSet(S)
  PROVE  IsSeq(Ascending(S))
<1>1. Cardinality(S) \in Nat
  BY SizeIsNat
<1> DEFINE e(k) == CHOOSE n \in S : Cardinality({m \in S : m < n}) = k - 1
<1>2. PICK q : q = Ascending(S)
  OBVIOUS
<1>3. q = [k \in 1 .. Cardinality(S) |-> e(k)]
  BY <1>2, Zenon DEF Ascending
<1>4. q = [k \in 1 .. Cardinality(S) |-> q[k]]
  <2> HIDE DEF e
  <2> QED
    BY <1>3
<1> QED
  BY <1>1, <1>2, <1>4, FunctionIsSeq

LEMMA ListedIsSeq ==
  ASSUME NEW S, IsFiniteSet(S)
  PROVE  IsSeq(SetToSeq(S))
<1>1. Cardinality(S) \in Nat /\ ExistsBijection(1 .. Cardinality(S), S)
  BY FS_CardinalityType
<1>2. \E f \in [1 .. Cardinality(S) -> S] : IsInjective(f)
  BY <1>1 DEF ExistsBijection, Bijection, Injection, IsInjective
<1>3. SetToSeq(S) \in [1 .. Cardinality(S) -> S]
  BY <1>2 DEF SetToSeq
<1>4. SetToSeq(S) = [k \in 1 .. Cardinality(S) |-> SetToSeq(S)[k]]
  BY <1>3
<1> QED
  BY <1>1, <1>4, FunctionIsSeq

-----------------------------------------------------------------------------
(* A board's moves, labels and rooms are finite.                           *)
LEMMA MovesFinite ==
  ASSUME NEW b \in Boards, NEW room
  PROVE  /\ IsFiniteSet(MovesOf(b, room).steps)
         /\ IsFiniteSet(MovesOf(b, room).pushes)
         /\ IsFiniteSet(MovesOf(b, room).entries)
<1> DEFINE at   == {p \in Inside(b) \X Dirs : Beyond(p[1], p[2]) \in b.open}
           far  == {p \in at : Beyond(Beyond(p[1], p[2]), p[2]) \in b.open}
           move(p) == [from |-> Node(room, p[1]), over |-> Beyond(p[1], p[2]),
                       to |-> Node(room, Beyond(Beyond(p[1], p[2]), p[2]))]
           step(p) == <<Node(room, p[1]), Node(room, Beyond(p[1], p[2]))>>
           all  == {move(p) : p \in far}
           fs   == [p \in at |-> step(p)]
           fm   == [p \in far |-> move(p)]
           outside == {n \in all : n.over \notin room.cells /\ n.to # OutNode}
           fe   == [m \in outside |-> [from |-> m.from, to |-> m.to]]
<1>1. IsFiniteSet(at) /\ IsFiniteSet(far)
  <2>1. IsFiniteSet(Inside(b))
    <3>1. Inside(b) \subseteq b.open
      BY DEF Inside
    <3> QED
      BY <3>1, FoundAssumption, FS_Subset
  <2>2. IsFiniteSet(Dirs)
    <3>1. Dirs = {"U", "D"} \cup {"L", "R"}
      BY DEF Dirs
    <3>2. IsFiniteSet({"U", "D"}) /\ IsFiniteSet({"L", "R"})
      <4>1. {"U", "D"} = {"U"} \cup {"D"} /\ {"L", "R"} = {"L"} \cup {"R"}
        OBVIOUS
      <4>2. IsFiniteSet({"U"}) /\ IsFiniteSet({"L"})
        BY FS_Singleton
      <4>3. IsFiniteSet({"U"} \cup {"D"}) /\ IsFiniteSet({"L"} \cup {"R"})
        BY <4>2, FS_AddElement
      <4> QED
        BY <4>1, <4>3
    <3> QED
      BY <3>1, <3>2, FS_Union
  <2>3. IsFiniteSet(Inside(b) \X Dirs)
    BY <2>1, <2>2, FS_Product
  <2> QED
    BY <2>3, FS_Subset
<1>2. IsFiniteSet({step(p) : p \in at})
  <2>1. DOMAIN fs = at /\ {step(p) : p \in at} = {fs[p] : p \in DOMAIN fs}
          /\ fs = [p \in DOMAIN fs |-> fs[p]]
    OBVIOUS
  <2> HIDE DEF fs, at, step
  <2> QED
    BY <1>1, <2>1, ImageFinite
<1>3. IsFiniteSet(all)
  <2>1. DOMAIN fm = far /\ all = {fm[p] : p \in DOMAIN fm} /\ fm = [p \in DOMAIN fm |-> fm[p]]
    OBVIOUS
  <2> HIDE DEF fm, far, all, move
  <2> QED
    BY <1>1, <2>1, ImageFinite
<1>4. IsFiniteSet({[from |-> m.from, to |-> m.to] : m \in outside})
  <2>1. IsFiniteSet(outside)
    <3> HIDE DEF all
    <3> QED
      BY <1>3, FS_Subset
  <2>2. /\ DOMAIN fe = outside /\ fe = [m \in DOMAIN fe |-> fe[m]]
        /\ {[from |-> m.from, to |-> m.to] : m \in outside} = {fe[m] : m \in DOMAIN fe}
    OBVIOUS
  <2> HIDE DEF fe, outside
  <2> QED
    BY <2>1, <2>2, ImageFinite
<1>5. /\ MovesOf(b, room).steps
             = {step(p) : p \in at} \ {<<u, u>> : u \in room.cells \cup {OutNode}}
      /\ MovesOf(b, room).pushes = {m \in all : m.over \in room.cells}
      /\ MovesOf(b, room).entries = {[from |-> m.from, to |-> m.to] : m \in outside}
  BY Zenon DEF MovesOf
<1>6. IsFiniteSet(MovesOf(b, room).steps)
  <2>1. PICK S : S = {step(p) : p \in at}
    OBVIOUS
  <2>2. IsFiniteSet(S) /\ MovesOf(b, room).steps = S \ {<<u, u>> : u \in room.cells \cup {OutNode}}
    BY <1>2, <1>5, <2>1
  <2> HIDE DEF at, step
  <2> QED
    BY <2>2, FS_Difference
<1>7. IsFiniteSet(MovesOf(b, room).pushes)
  <2> HIDE DEF all
  <2> QED
    BY <1>3, <1>5, FS_Subset
<1> QED
  BY <1>4, <1>5, <1>6, <1>7

LEMMA MovesBytesIsNat ==
  ASSUME NEW b \in Boards, NEW room
  PROVE  MovesBytes(MovesOf(b, room)) \in Nat
<1>1. PICK moves : moves = MovesOf(b, room)
  OBVIOUS
<1>2. /\ Cardinality(moves.steps) \in Nat /\ Cardinality(moves.pushes) \in Nat
      /\ Cardinality(moves.entries) \in Nat
  BY <1>1, MovesFinite, SizeIsNat
<1>3. MovesBytes(moves) \in Nat
  BY <1>2 DEF MovesBytes
<1> QED
  BY <1>1, <1>3

LEMMA LabelsFinite ==
  ASSUME NEW b \in Boards, NEW part
  PROVE  IsFiniteSet(LabelsOn(b, part))
<1> DEFINE there == {j \in DOMAIN b.labels : b.start.boxes[j] \in part}
           fb == [i \in there |-> b.labels[i]]
           fg == [c \in DOMAIN b.goals \cap part |-> b.goals[c]]
<1>1. IsFiniteSet(there) /\ IsFiniteSet(DOMAIN b.goals \cap part)
  BY FoundAssumption, FS_Subset, FS_Intersection
<1>2. IsFiniteSet({fb[i] : i \in DOMAIN fb})
  <2>1. DOMAIN fb = there /\ fb = [i \in DOMAIN fb |-> fb[i]]
    OBVIOUS
  <2> HIDE DEF fb, there
  <2> QED
    BY <1>1, <2>1, ImageFinite
<1>3. IsFiniteSet({fg[c] : c \in DOMAIN fg})
  <2>1. DOMAIN fg = DOMAIN b.goals \cap part /\ fg = [c \in DOMAIN fg |-> fg[c]]
    OBVIOUS
  <2> HIDE DEF fg
  <2> QED
    BY <1>1, <2>1, ImageFinite
<1>4. LabelsOn(b, part) = {fb[i] : i \in DOMAIN fb} \cup {fg[c] : c \in DOMAIN fg}
  BY DEF LabelsOn
<1> HIDE DEF fb, fg
<1> QED
  BY <1>2, <1>3, <1>4, FS_Union

(* Rules with finitely many moves of finitely many labels.                 *)
FiniteRules(r) ==
  /\ IsFiniteSet(r.moves.steps) /\ IsFiniteSet(r.moves.pushes)
  /\ IsFiniteSet(r.moves.entries) /\ IsFiniteSet(r.labels)

LEMMA RulesFinite ==
  ASSUME NEW b \in Boards, NEW heur, NEW room, NEW part
  PROVE  FiniteRules(RulesOf(b, heur, room, part))
<1>1. PICK r : r = RulesOf(b, heur, room, part)
  OBVIOUS
<1>2. r.labels = LabelsOn(b, part) /\ r.moves = MovesOf(b, room)
  BY <1>1 DEF RulesOf
<1>3. FiniteRules(r)
  BY <1>2, MovesFinite, LabelsFinite DEF FiniteRules
<1> QED
  BY <1>1, <1>3

(* A state has finitely many successors.                                   *)
LEMMA SuccessorsFinite ==
  ASSUME NEW rules, FiniteRules(rules), NEW state
  PROVE  IsFiniteSet(Successors(rules, state))
<1> DEFINE layout == state.layout
           u == state.node
           Ok(after, t, l) == TRUE => Allows(rules, after, t, l)
           S == {n \in rules.moves.steps : n[1] = u /\ IsFree(layout, n[2])}
           fs == [m \in S |-> [state EXCEPT !.node = m[2]]]
           P == {n \in rules.moves.pushes :
                     /\ n.from = u /\ layout[n.over] # NoBox /\ IsFree(layout, n.to)
                     /\ n.to \in rules.alive[layout[n.over]]
                     /\ Ok(Shifted(layout, n.over, n.to, layout[n.over]), n.to, layout[n.over])}
           fp == [m \in P |-> [layout |-> Shifted(layout, m.over, m.to, layout[m.over]),
                               node |-> m.over]]
           E == {q \in rules.moves.entries \X rules.labels :
                      /\ q[1].from = u /\ IsFree(layout, q[1].to)
                      /\ {q[1].to, OutNode} \subseteq rules.alive[q[2]]
                      /\ Cardinality(Holding(layout, q[2])) < rules.total[q[2]]
                      /\ Ok(Shifted(layout, OutNode, q[1].to, q[2]), q[1].to, q[2])}
           fe == [p \in E |-> [layout |-> Shifted(layout, OutNode, p[1].to, p[2]),
                               node |-> OutNode]]
<1>1. IsFiniteSet(S) /\ IsFiniteSet(P)
  BY FS_Subset DEF FiniteRules
<1>2. IsFiniteSet(E)
  <2>1. IsFiniteSet(rules.moves.entries \X rules.labels)
    BY FS_Product DEF FiniteRules
  <2> QED
    BY <2>1, FS_Subset
<1>3. Successors(rules, state)
        = {[state EXCEPT !.node = m[2]] : m \in S}
            \cup {[layout |-> Shifted(layout, m.over, m.to, layout[m.over]), node |-> m.over]
                     : m \in P}
            \cup {[layout |-> Shifted(layout, OutNode, p[1].to, p[2]), node |-> OutNode] : p \in E}
  BY Zenon DEF Successors, SuccessorsIf
<1>4. /\ DOMAIN fs = S /\ DOMAIN fp = P /\ DOMAIN fe = E
      /\ fs = [m \in DOMAIN fs |-> fs[m]] /\ fp = [m \in DOMAIN fp |-> fp[m]]
      /\ fe = [m \in DOMAIN fe |-> fe[m]]
  OBVIOUS
<1>5. /\ {[state EXCEPT !.node = m[2]] : m \in S} = {fs[m] : m \in DOMAIN fs}
      /\ {[layout |-> Shifted(layout, m.over, m.to, layout[m.over]), node |-> m.over] : m \in P}
            = {fp[m] : m \in DOMAIN fp}
      /\ {[layout |-> Shifted(layout, OutNode, p[1].to, p[2]), node |-> OutNode] : p \in E}
            = {fe[m] : m \in DOMAIN fe}
  OBVIOUS
<1> HIDE DEF S, P, E, fs, fp, fe
<1>6. /\ IsFiniteSet({fs[m] : m \in DOMAIN fs}) /\ IsFiniteSet({fp[m] : m \in DOMAIN fp})
      /\ IsFiniteSet({fe[m] : m \in DOMAIN fe})
  BY <1>1, <1>2, <1>4, ImageFinite
<1>7. IsFiniteSet({fs[m] : m \in DOMAIN fs} \cup {fp[m] : m \in DOMAIN fp}
                    \cup {fe[m] : m \in DOMAIN fe})
  BY <1>6, FS_Union
<1> QED
  BY <1>3, <1>5, <1>7

-----------------------------------------------------------------------------
(* The build of a table: every unit leaves a build, and none but the       *)
(* allocation of the values begins the insertion.                          *)
IsBuild(b) ==
  /\ b = [rules |-> b.rules, root |-> b.root, phase |-> b.phase, at |-> b.at, level |-> b.level,
          states |-> b.states, dist |-> b.dist, cur |-> b.cur, next |-> b.next,
          stored |-> b.stored]
  /\ FiniteRules(b.rules)
  /\ b.at \in Nat /\ b.stored \in Nat
  /\ IsSeq(b.states) /\ IsSeq(b.dist) /\ IsSeq(b.cur) /\ IsSeq(b.next)

(* Once the values are allocated, there is a byte for each.                *)
IsSound(b) == IsBuild(b) /\ (b.phase = "insert" => b.stored = Cardinality(Finite(b)))

LEMMA BytesAreNat ==
  ASSUME NEW b, IsBuild(b)
  PROVE  BytesOf(b) \in Nat /\ b.stored <= BytesOf(b)
<1>1. PICK n \in Nat : n = Len(b.states)
  BY SeqLength DEF IsBuild
<1>2. PICK m \in Nat : m = Len(b.dist)
  BY SeqLength DEF IsBuild
<1>3. PICK k \in Nat : k = Len(b.cur)
  BY SeqLength DEF IsBuild
<1>4. PICK l \in Nat : l = Len(b.next)
  BY SeqLength DEF IsBuild
<1>5. PICK s \in Nat : s = b.stored
  BY DEF IsBuild
<1>6. BytesOf(b) = n * (IF b.phase = "insert" THEN 1 ELSE 2) + m + k + l + s
  BY <1>1, <1>2, <1>3, <1>4, <1>5 DEF BytesOf
<1>7. CASE b.phase = "insert"
  <2>1. BytesOf(b) = n + m + k + l + s
    BY <1>6, <1>7
  <2> QED
    BY <1>5, <2>1
<1>8. CASE b.phase # "insert"
  <2>1. BytesOf(b) = n + n + m + k + l + s
    BY <1>6, <1>8
  <2> QED
    BY <1>5, <2>1
<1> QED
  BY <1>7, <1>8

LEMMA FiniteIsFinite ==
  ASSUME NEW b, IsBuild(b)
  PROVE  IsFiniteSet(Finite(b)) /\ Cardinality(Finite(b)) \in Nat
<1>1. IsFiniteSet(DOMAIN b.dist)
  BY SeqLength DEF IsBuild
<1>2. IsFiniteSet(Finite(b))
  BY <1>1, FS_Subset DEF Finite
<1> QED
  BY <1>2, SizeIsNat

(* A table takes no more bytes than there are states with a value.         *)
LEMMA TableFinite ==
  ASSUME NEW b, IsBuild(b)
  PROVE  /\ IsFiniteSet(TableOf(b).values)
         /\ TableBytes(TableOf(b)) <= Cardinality(Finite(b))
<1> DEFINE f == [k \in Finite(b) |-> [state |-> b.states[k], value |-> b.dist[k]]]
<1>1. TableOf(b).values = {[state |-> b.states[k], value |-> b.dist[k]] : k \in Finite(b)}
  BY DEF TableOf
<1>2. TableOf(b).values = {f[k] : k \in DOMAIN f} /\ DOMAIN f = Finite(b)
        /\ f = [k \in DOMAIN f |-> f[k]]
  BY <1>1
<1> HIDE DEF f
<1>3. IsFiniteSet(DOMAIN f)
  BY <1>2, FiniteIsFinite
<1>4. IsFiniteSet(TableOf(b).values) /\ Cardinality(TableOf(b).values) <= Cardinality(DOMAIN f)
  BY <1>2, <1>3, ImageFinite
<1> QED
  BY <1>2, <1>4 DEF TableBytes

LEMMA BuildMade ==
  ASSUME NEW r, NEW root, NEW phase, NEW at \in Nat, NEW level, NEW states, NEW dist, NEW cur,
         NEW next, NEW stored \in Nat, NEW b,
         b = [rules |-> r, root |-> root, phase |-> phase, at |-> at, level |-> level,
              states |-> states, dist |-> dist, cur |-> cur, next |-> next, stored |-> stored],
         FiniteRules(r), IsSeq(states), IsSeq(dist), IsSeq(cur), IsSeq(next)
  PROVE  /\ IsBuild(b)
         /\ b.rules = r /\ b.phase = phase /\ b.stored = stored /\ b.dist = dist
BY DEF IsBuild

LEMMA NoneIsSeq == IsSeq(<< >>) /\ Len(<< >>) = 0
BY EmptySeq DEF IsSeq

LEMMA NewBuildSound ==
  ASSUME NEW rules, FiniteRules(rules), NEW root
  PROVE  IsSound(NewBuild(rules, root)) /\ BytesOf(NewBuild(rules, root)) = 0
<1>1. PICK b : b = NewBuild(rules, root)
  OBVIOUS
<1>2. b = [rules |-> rules, root |-> root, phase |-> "start", at |-> 1, level |-> 0,
           states |-> << >>, dist |-> << >>, cur |-> << >>, next |-> << >>, stored |-> 0]
  BY <1>1 DEF NewBuild
<1>3. IsBuild(b) /\ b.phase = "start"
  <2>1. PICK e : e = << >>
    OBVIOUS
  <2>2. IsSeq(e) /\ 0 \in Nat /\ 1 \in Nat
    BY <2>1, NoneIsSeq
  <2>3. b = [rules |-> rules, root |-> root, phase |-> "start", at |-> 1, level |-> 0,
             states |-> e, dist |-> e, cur |-> e, next |-> e, stored |-> 0]
    BY <1>2, <2>1
  <2> QED
    BY <2>2, <2>3, BuildMade
<1>4. BytesOf(b) = 0
  BY <1>2, NoneIsSeq DEF BytesOf
<1> QED
  BY <1>1, <1>3, <1>4 DEF IsSound

LEMMA StartedSound ==
  ASSUME NEW b, IsBuild(b)
  PROVE  IsSound(Started(b)) /\ Started(b).phase # "insert"
<1>1. PICK n : n = Started(b)
  OBVIOUS
<1>2. n = [rules |-> b.rules, root |-> b.root, phase |-> "forward", at |-> b.at,
           level |-> b.level, states |-> <<b.root>>, dist |-> b.dist, cur |-> b.cur,
           next |-> b.next, stored |-> b.stored]
  BY <1>1 DEF Started, IsBuild
<1>3. IsSeq(<<b.root>>)
  <2>1. <<b.root>> \in Seq({b.root})
    OBVIOUS
  <2> QED
    BY <2>1 DEF IsSeq
<1>4. IsBuild(n) /\ n.phase = "forward"
  BY <1>2, <1>3, BuildMade DEF IsBuild
<1> QED
  BY <1>1, <1>4 DEF IsSound

LEMMA ForwardSound ==
  ASSUME NEW b, IsBuild(b), b.phase = "forward"
  PROVE  IsSound(Forward(b)) /\ Forward(b).phase # "insert"
<1> DEFINE states == b.states \o SetToSeq(Successors(b.rules, b.states[b.at]) \ ToSet(b.states))
<1>1. IsSeq(states)
  <2>1. IsFiniteSet(Successors(b.rules, b.states[b.at]) \ ToSet(b.states))
    BY SuccessorsFinite, FS_Subset DEF IsBuild
  <2> QED
    BY <2>1, ListedIsSeq, JoinIsSeq DEF IsBuild
<1>2. Forward(b) = IF b.at < Len(states) THEN [b EXCEPT !.states = states, !.at = @ + 1]
                   ELSE [b EXCEPT !.phase = "seed", !.at = 1,
                                  !.dist = [k \in DOMAIN states |-> Inf]]
  BY Zenon DEF Forward
<1> HIDE DEF states
<1>3. CASE b.at < Len(states)
  <2>1. PICK n : n = Forward(b)
    OBVIOUS
  <2>2. n = [rules |-> b.rules, root |-> b.root, phase |-> b.phase, at |-> b.at + 1,
             level |-> b.level, states |-> states, dist |-> b.dist, cur |-> b.cur,
             next |-> b.next, stored |-> b.stored]
    BY <1>2, <1>3, <2>1 DEF IsBuild
  <2>3. b.at + 1 \in Nat
    BY DEF IsBuild
  <2>4. IsBuild(n) /\ n.phase = "forward"
    BY <1>1, <2>2, <2>3, BuildMade DEF IsBuild
  <2> QED
    BY <2>1, <2>4 DEF IsSound
<1>4. CASE ~(b.at < Len(states))
  <2> DEFINE dist == [k \in DOMAIN states |-> Inf]
  <2>1. PICK n : n = Forward(b)
    OBVIOUS
  <2>2. IsSeq(dist)
    <3>1. DOMAIN states = 1 .. Len(states) /\ Len(states) \in Nat
      BY <1>1, SeqLength
    <3>2. dist = [k \in 1 .. Len(states) |-> dist[k]]
      BY <3>1
    <3> HIDE DEF dist
    <3> QED
      BY <3>1, <3>2, FunctionIsSeq
  <2>3. n = [rules |-> b.rules, root |-> b.root, phase |-> "seed", at |-> 1,
             level |-> b.level, states |-> b.states, dist |-> dist, cur |-> b.cur,
             next |-> b.next, stored |-> b.stored]
    BY <1>2, <1>4, <2>1 DEF IsBuild
  <2> HIDE DEF dist
  <2>4. IsBuild(n) /\ n.phase = "seed"
    BY <2>2, <2>3, BuildMade DEF IsBuild
  <2> QED
    BY <2>1, <2>4 DEF IsSound
<1> QED
  BY <1>3, <1>4

(* A sequence changed member by member is a sequence.                      *)
LEMMA ChangedIsSeq ==
  ASSUME NEW q, IsSeq(q), NEW r, r = [k \in DOMAIN q |-> r[k]]
  PROVE  IsSeq(r)
BY SeqLength, FunctionIsSeq

LEMMA SeedSound ==
  ASSUME NEW b, IsBuild(b)
  PROVE  IsSound(Seed(b)) /\ Seed(b).phase # "insert"
<1> DEFINE scanned == b.at .. Smaller(b.at + ScanSize - 1, Len(b.states))
           goals   == {k \in scanned : b.states[k].layout = b.rules.goal}
           done    == b.at + ScanSize > Len(b.states)
           dist    == [k \in DOMAIN b.dist |-> IF k \in goals THEN 0 ELSE b.dist[k]]
           cur     == b.cur \o Ascending(goals)
           at      == IF done THEN 1 ELSE b.at + ScanSize
           phase   == IF done THEN "back" ELSE "seed"
<1>1. b.at \in Nat /\ ScanSize \in Nat /\ Len(b.states) \in Nat
  BY SeqLength, TableAssumption DEF IsBuild
<1>2. IsFiniteSet(goals)
  <2>1. Smaller(b.at + ScanSize - 1, Len(b.states)) \in Int
    BY <1>1 DEF Smaller
  <2>2. IsFiniteSet(scanned)
    BY <1>1, <2>1, FS_Interval
  <2> QED
    BY <2>2, FS_Subset
<1>3. IsSeq(dist)
  <2>1. dist = [k \in DOMAIN b.dist |-> dist[k]]
    OBVIOUS
  <2> HIDE DEF dist
  <2> QED
    BY <2>1, ChangedIsSeq DEF IsBuild
<1>4. IsSeq(cur)
  <2> HIDE DEF goals
  <2> QED
    BY <1>2, AscendingIsSeq, JoinIsSeq DEF IsBuild
<1>5. PICK n : n = Seed(b)
  OBVIOUS
<1>6. n = [b EXCEPT !.dist = [k \in DOMAIN @ |-> IF k \in goals THEN 0 ELSE @[k]],
                    !.cur = @ \o Ascending(goals),
                    !.phase = IF done THEN "back" ELSE "seed",
                    !.at = IF done THEN 1 ELSE @ + ScanSize]
  BY <1>5, Zenon DEF Seed
<1>7. n = [rules |-> b.rules, root |-> b.root, phase |-> phase, at |-> at,
           level |-> b.level, states |-> b.states, dist |-> dist, cur |-> cur,
           next |-> b.next, stored |-> b.stored]
  <2> HIDE DEF goals, done
  <2> QED
    BY <1>6 DEF IsBuild
<1>8. at \in Nat
  BY <1>1
<1>9. phase # "insert"
  OBVIOUS
<1> HIDE DEF dist, cur, at, phase
<1>10. IsBuild(n) /\ n.phase = phase
  BY <1>3, <1>4, <1>7, <1>8, BuildMade DEF IsBuild
<1> QED
  BY <1>5, <1>9, <1>10 DEF IsSound

LEMMA BackPopSound ==
  ASSUME NEW b, IsBuild(b), b.phase = "back"
  PROVE  IsSound(BackPop(b)) /\ BackPop(b).phase # "insert"
<1> DEFINE id == Last(b.cur)
           to == Smaller(b.level + (IF Counts(b.rules, b.states[id].node) THEN 1 ELSE 0),
                         MaxValue)
           lower == {k \in DOMAIN b.states :
                       b.states[k] \in Predecessors(b.rules, b.states[id]) /\ to < b.dist[k]}
           rest == Front(b.cur)
           dist == [k \in DOMAIN b.dist |-> IF k \in lower THEN to ELSE b.dist[k]]
           cur  == IF to = b.level THEN rest \o Ascending(lower) ELSE rest
           next == IF to = b.level THEN b.next ELSE b.next \o Ascending(lower)
<1>1. IsSeq(rest)
  BY FrontIsSeq DEF IsBuild
<1>2. IsSeq(Ascending(lower))
  <2>1. IsFiniteSet(lower)
    BY SeqLength, FS_Subset DEF IsBuild
  <2> HIDE DEF lower
  <2> QED
    BY <2>1, AscendingIsSeq
<1>3. IsSeq(dist)
  <2>1. dist = [k \in DOMAIN b.dist |-> dist[k]]
    OBVIOUS
  <2> HIDE DEF dist
  <2> QED
    BY <2>1, ChangedIsSeq DEF IsBuild
<1>4. IsSeq(cur) /\ IsSeq(next)
  <2> HIDE DEF lower, rest, to
  <2> QED
    BY <1>1, <1>2, JoinIsSeq DEF IsBuild
<1>5. CASE b.dist[id] # b.level
  <2>1. PICK n : n = BackPop(b)
    OBVIOUS
  <2>2. n = [b EXCEPT !.cur = Front(@)]
    BY <1>5, <2>1, Zenon DEF BackPop
  <2>3. n = [rules |-> b.rules, root |-> b.root, phase |-> b.phase, at |-> b.at,
             level |-> b.level, states |-> b.states, dist |-> b.dist, cur |-> rest,
             next |-> b.next, stored |-> b.stored]
    BY <2>2 DEF IsBuild
  <2> HIDE DEF rest
  <2>4. IsBuild(n) /\ n.phase = "back"
    BY <1>1, <2>3, BuildMade DEF IsBuild
  <2> QED
    BY <2>1, <2>4 DEF IsSound
<1>6. CASE ~(b.dist[id] # b.level)
  <2>1. PICK n : n = BackPop(b)
    OBVIOUS
  <2>2. n = [b EXCEPT !.dist = [k \in DOMAIN @ |-> IF k \in lower THEN to ELSE @[k]],
                      !.cur = IF to = b.level THEN rest \o Ascending(lower) ELSE rest,
                      !.next = IF to = b.level THEN @ ELSE @ \o Ascending(lower)]
    BY <1>6, <2>1, Zenon DEF BackPop
  <2>3. n = [rules |-> b.rules, root |-> b.root, phase |-> b.phase, at |-> b.at,
             level |-> b.level, states |-> b.states, dist |-> dist, cur |-> cur,
             next |-> next, stored |-> b.stored]
    <3> HIDE DEF lower, rest, to
    <3> QED
      BY <2>2 DEF IsBuild
  <2> HIDE DEF dist, cur, next
  <2>4. IsBuild(n) /\ n.phase = "back"
    BY <1>3, <1>4, <2>3, BuildMade DEF IsBuild
  <2> QED
    BY <2>1, <2>4 DEF IsSound
<1> QED
  BY <1>5, <1>6

LEMMA NextLevelSound ==
  ASSUME NEW b, IsBuild(b), b.phase = "back"
  PROVE  IsSound(NextLevel(b)) /\ NextLevel(b).phase # "insert"
<1>1. PICK n : n = NextLevel(b)
  OBVIOUS
<1>2. PICK e : e = << >>
  OBVIOUS
<1>3. n = [rules |-> b.rules, root |-> b.root, phase |-> b.phase, at |-> b.at,
           level |-> b.level + 1, states |-> b.states, dist |-> b.dist, cur |-> b.next,
           next |-> e, stored |-> b.stored]
  BY <1>1, <1>2 DEF NextLevel, IsBuild
<1>4. IsSeq(e)
  BY <1>2, NoneIsSeq
<1>5. IsBuild(n) /\ n.phase = "back"
  BY <1>3, <1>4, BuildMade DEF IsBuild
<1> QED
  BY <1>1, <1>5 DEF IsSound

(* The values are allocated one byte each.                                 *)
LEMMA AllocatedSound ==
  ASSUME NEW b, IsBuild(b)
  PROVE  IsSound(Allocated(b)) /\ Allocated(b).stored = Cardinality(Finite(b))
<1>1. PICK n : n = Allocated(b)
  OBVIOUS
<1>2. PICK size \in Nat : size = Cardinality(Finite(b))
  BY FiniteIsFinite
<1>3. n = [rules |-> b.rules, root |-> b.root, phase |-> "insert", at |-> 1,
           level |-> b.level, states |-> b.states, dist |-> b.dist, cur |-> b.cur,
           next |-> b.next, stored |-> size]
  BY <1>1, <1>2 DEF Allocated, IsBuild
<1>4. IsBuild(n) /\ n.stored = size /\ n.dist = b.dist
  BY <1>3, BuildMade DEF IsBuild
<1>5. Finite(n) = Finite(b)
  BY <1>4 DEF Finite
<1> QED
  BY <1>1, <1>2, <1>4, <1>5 DEF IsSound

LEMMA InsertSound ==
  ASSUME NEW b, IsSound(b)
  PROVE  IsSound(Insert(b)) /\ Insert(b).stored = b.stored
<1>1. PICK n : n = Insert(b)
  OBVIOUS
<1>2. n = [rules |-> b.rules, root |-> b.root, phase |-> b.phase, at |-> b.at + ScanSize,
           level |-> b.level, states |-> b.states, dist |-> b.dist, cur |-> b.cur,
           next |-> b.next, stored |-> b.stored]
  BY <1>1 DEF Insert, IsSound, IsBuild
<1>3. b.at + ScanSize \in Nat
  BY TableAssumption DEF IsSound, IsBuild
<1>4. IsBuild(n) /\ n.stored = b.stored /\ n.dist = b.dist /\ n.phase = b.phase
  BY <1>2, <1>3, BuildMade DEF IsSound, IsBuild
<1>5. Finite(n) = Finite(b)
  BY <1>4 DEF Finite
<1> QED
  BY <1>1, <1>4, <1>5 DEF IsSound

-----------------------------------------------------------------------------
(* The bytes of tables, of rooms and of the candidates left, as sums.      *)
IsTables(tables) == IsFiniteSet(tables) /\ \A t \in tables : IsFiniteSet(t.values)

IsRooms(b, rooms) ==
  /\ IsFiniteSet(rooms)
  /\ \A r \in rooms : r.room \in Rooms(b) /\ IsTables(r.tables)

LEMMA KeptBytesFacts ==
  ASSUME NEW T, IsTables(T)
  PROVE  /\ KeptBytes(T) \in Nat
         /\ KeptBytes({}) = 0
         /\ \A t \in T : KeptBytes({t}) = TableBytes(t)
         /\ \A U \in SUBSET T, W \in SUBSET T :
              KeptBytes(U \cup W) <= KeptBytes(U) + KeptBytes(W)
<1> DEFINE f == [t \in T |-> TableBytes(t)]
<1>1. Summable(f) /\ DOMAIN f = T
  BY SizeIsNat DEF Summable, IsTables, TableBytes
<1>2. \A U \in SUBSET T : KeptBytes(U) = Over(f, U)
  <2> TAKE U \in SUBSET T
  <2>1. [t \in U |-> TableBytes(t)] = [t \in U |-> f[t]]
    OBVIOUS
  <2> HIDE DEF f
  <2> QED
    BY <2>1 DEF KeptBytes, Over
<1>3. \A t \in T : f[t] = TableBytes(t)
  OBVIOUS
<1> HIDE DEF f
<1>4. KeptBytes(T) \in Nat
  BY <1>1, <1>2, OverCount
<1>5. KeptBytes({}) = 0
  BY <1>1, <1>2, OverFew
<1>6. \A t \in T : KeptBytes({t}) = TableBytes(t)
  BY <1>1, <1>2, <1>3, OverFew
<1>7. ASSUME NEW U \in SUBSET T, NEW W \in SUBSET T
      PROVE  KeptBytes(U \cup W) <= KeptBytes(U) + KeptBytes(W)
  <2>1. Over(f, U \cup W) <= Over(f, U) + Over(f, W)
    BY <1>1, OverUnion
  <2>2. /\ KeptBytes(U) = Over(f, U) /\ KeptBytes(W) = Over(f, W)
        /\ KeptBytes(U \cup W) = Over(f, U \cup W)
    BY <1>2
  <2> QED
    BY <2>1, <2>2
<1> QED
  BY <1>4, <1>5, <1>6, <1>7

LEMMA KeptOfFacts ==
  ASSUME NEW b, NEW R, IsRooms(b, R)
  PROVE  /\ KeptOf(R) \in Nat
         /\ KeptOf({}) = 0
         /\ \A r \in R : KeptOf({r}) = KeptBytes(r.tables)
         /\ \A S \in SUBSET R : KeptOf(R) = KeptOf(S) + KeptOf(R \ S)
         /\ \A U \in SUBSET R, W \in SUBSET R :
              KeptOf(U \cup W) <= KeptOf(U) + KeptOf(W)
<1> DEFINE f == [r \in R |-> KeptBytes(r.tables)]
<1>1. Summable(f) /\ DOMAIN f = R
  BY KeptBytesFacts DEF Summable, IsRooms
<1>2. \A U \in SUBSET R : KeptOf(U) = Over(f, U)
  <2> TAKE U \in SUBSET R
  <2>1. [r \in U |-> KeptBytes(r.tables)] = [r \in U |-> f[r]]
    OBVIOUS
  <2> HIDE DEF f
  <2> QED
    BY <2>1 DEF KeptOf, Over
<1>3. \A r \in R : f[r] = KeptBytes(r.tables)
  OBVIOUS
<1> HIDE DEF f
<1>4. KeptOf(R) \in Nat
  BY <1>1, <1>2, OverCount
<1>5. KeptOf({}) = 0
  BY <1>1, <1>2, OverFew
<1>6. \A r \in R : KeptOf({r}) = KeptBytes(r.tables)
  BY <1>1, <1>2, <1>3, OverFew
<1>7. ASSUME NEW S \in SUBSET R
      PROVE  KeptOf(R) = KeptOf(S) + KeptOf(R \ S)
  <2>1. Over(f, R) = Over(f, S) + Over(f, R \ S)
    BY <1>1, OverSplit
  <2>2. KeptOf(R) = Over(f, R) /\ KeptOf(S) = Over(f, S) /\ KeptOf(R \ S) = Over(f, R \ S)
    BY <1>2
  <2> QED
    BY <2>1, <2>2
<1>8. ASSUME NEW U \in SUBSET R, NEW W \in SUBSET R
      PROVE  KeptOf(U \cup W) <= KeptOf(U) + KeptOf(W)
  <2>1. Over(f, U \cup W) <= Over(f, U) + Over(f, W)
    BY <1>1, OverUnion
  <2>2. /\ KeptOf(U) = Over(f, U) /\ KeptOf(W) = Over(f, W)
        /\ KeptOf(U \cup W) = Over(f, U \cup W)
    BY <1>2
  <2> QED
    BY <2>1, <2>2
<1> QED
  BY <1>4, <1>5, <1>6, <1>7, <1>8

LEMMA RoomBytesFacts ==
  ASSUME NEW b \in Boards, NEW room \in Rooms(b)
  PROVE  /\ CandidateBytes(room) \in Nat
         /\ Cardinality(b.open) \in Nat
         /\ RoomBytes(b, room) = CandidateBytes(room) + Cardinality(b.open)
<1>1. IsFiniteSet(b.open)
  BY FoundAssumption
<1>2. room.cells \in SUBSET b.open /\ room.doors \in SUBSET b.open
  BY DEF Rooms
<1>3. IsFiniteSet(room.cells) /\ IsFiniteSet(room.doors)
  BY <1>1, <1>2, FS_Subset
<1>4. Cardinality(room.cells) \in Nat /\ Cardinality(room.doors) \in Nat
  BY <1>3, SizeIsNat
<1> QED
  BY <1>1, <1>4, SizeIsNat DEF CandidateBytes, RoomBytes

LEMMA GeometryFacts ==
  ASSUME NEW b \in Boards, NEW R, IsRooms(b, R)
  PROVE  /\ GeometryOf(b, R) \in Nat
         /\ GeometryOf(b, {}) = 0
         /\ \A r \in R : GeometryOf(b, {r}) = RoomBytes(b, r.room)
         /\ \A S \in SUBSET R : GeometryOf(b, R) = GeometryOf(b, S) + GeometryOf(b, R \ S)
         /\ \A U \in SUBSET R, W \in SUBSET R :
              GeometryOf(b, U \cup W) <= GeometryOf(b, U) + GeometryOf(b, W)
<1> DEFINE f == [r \in R |-> RoomBytes(b, r.room)]
<1>1. Summable(f) /\ DOMAIN f = R
  <2>1. ASSUME NEW r \in R PROVE RoomBytes(b, r.room) \in Nat
    <3>1. r.room \in Rooms(b)
      BY DEF IsRooms
    <3>2. /\ CandidateBytes(r.room) \in Nat /\ Cardinality(b.open) \in Nat
          /\ RoomBytes(b, r.room) = CandidateBytes(r.room) + Cardinality(b.open)
      BY <3>1, RoomBytesFacts
    <3> QED
      BY <3>2
  <2> QED
    BY <2>1 DEF Summable, IsRooms
<1>2. \A U \in SUBSET R : GeometryOf(b, U) = Over(f, U)
  <2> TAKE U \in SUBSET R
  <2>1. [r \in U |-> RoomBytes(b, r.room)] = [r \in U |-> f[r]]
    OBVIOUS
  <2> HIDE DEF f
  <2> QED
    BY <2>1 DEF GeometryOf, Over
<1>3. \A r \in R : f[r] = RoomBytes(b, r.room)
  OBVIOUS
<1> HIDE DEF f
<1>4. GeometryOf(b, R) \in Nat
  BY <1>1, <1>2, OverCount
<1>5. GeometryOf(b, {}) = 0
  BY <1>1, <1>2, OverFew
<1>6. \A r \in R : GeometryOf(b, {r}) = RoomBytes(b, r.room)
  BY <1>1, <1>2, <1>3, OverFew
<1>7. ASSUME NEW S \in SUBSET R
      PROVE  GeometryOf(b, R) = GeometryOf(b, S) + GeometryOf(b, R \ S)
  <2>1. Over(f, R) = Over(f, S) + Over(f, R \ S)
    BY <1>1, OverSplit
  <2>2. /\ GeometryOf(b, R) = Over(f, R) /\ GeometryOf(b, S) = Over(f, S)
        /\ GeometryOf(b, R \ S) = Over(f, R \ S)
    BY <1>2
  <2> QED
    BY <2>1, <2>2
<1>8. ASSUME NEW U \in SUBSET R, NEW W \in SUBSET R
      PROVE  GeometryOf(b, U \cup W) <= GeometryOf(b, U) + GeometryOf(b, W)
  <2>1. Over(f, U \cup W) <= Over(f, U) + Over(f, W)
    BY <1>1, OverUnion
  <2>2. /\ GeometryOf(b, U) = Over(f, U) /\ GeometryOf(b, W) = Over(f, W)
        /\ GeometryOf(b, U \cup W) = Over(f, U \cup W)
    BY <1>2
  <2> QED
    BY <2>1, <2>2
<1> QED
  BY <1>4, <1>5, <1>6, <1>7, <1>8

(* A candidate taken off the queue takes its bytes with it.                *)
LEMMA QueueFacts ==
  ASSUME NEW b \in Boards, NEW q \in Seq(Rooms(b)), IsInjective(q)
  PROVE  /\ QueuedBytes(ToSet(q)) \in Nat
         /\ q # << >> =>
              /\ Head(q) \in Rooms(b)
              /\ Tail(q) \in Seq(Rooms(b)) /\ IsInjective(Tail(q))
              /\ QueuedBytes(ToSet(Tail(q))) \in Nat
              /\ QueuedBytes(ToSet(q))
                    = CandidateBytes(Head(q)) + QueuedBytes(ToSet(Tail(q)))
<1> DEFINE R == ToSet(q)
           f == [r \in R |-> CandidateBytes(r)]
<1>1. /\ Len(q) \in Nat /\ q \in [1 .. Len(q) -> Rooms(b)] /\ DOMAIN q = 1 .. Len(q)
  BY LenProperties
<1>2. IsFiniteSet(R) /\ R \subseteq Rooms(b)
  <2>1. IsFiniteSet(DOMAIN q)
    BY <1>1, FS_Interval
  <2>2. R = {q[k] : k \in DOMAIN q}
    BY DEF ToSet
  <2>3. q = [k \in DOMAIN q |-> q[k]]
    BY <1>1
  <2> HIDE DEF R
  <2>4. IsFiniteSet(R)
    BY <2>1, <2>2, <2>3, ImageFinite
  <2> QED
    BY <1>1, <2>2, <2>4
<1>3. Summable(f) /\ DOMAIN f = R
  BY <1>2, RoomBytesFacts DEF Summable
<1>4. \A U \in SUBSET R : QueuedBytes(U) = Over(f, U)
  <2> TAKE U \in SUBSET R
  <2>1. [r \in U |-> CandidateBytes(r)] = [r \in U |-> f[r]]
    OBVIOUS
  <2> HIDE DEF f
  <2> QED
    BY <2>1 DEF QueuedBytes, Over
<1>5. \A r \in R : f[r] = CandidateBytes(r)
  OBVIOUS
<1> HIDE DEF f
<1>6. QueuedBytes(R) \in Nat
  <2> HIDE DEF R
  <2> QED
    BY <1>3, <1>4, OverCount
<1>7. ASSUME q # << >>
      PROVE  /\ Head(q) \in Rooms(b)
             /\ Tail(q) \in Seq(Rooms(b)) /\ IsInjective(Tail(q))
             /\ QueuedBytes(ToSet(Tail(q))) \in Nat
             /\ QueuedBytes(R) = CandidateBytes(Head(q)) + QueuedBytes(ToSet(Tail(q)))
  <2> DEFINE t == Tail(q)
             h == Head(q)
  <2>1. /\ h \in Rooms(b) /\ t \in Seq(Rooms(b)) /\ Len(t) = Len(q) - 1
        /\ \A i \in 1 .. Len(t) : t[i] = q[i + 1]
    BY <1>7, HeadTailProperties
  <2>2. Len(q) >= 1 /\ h = q[1]
    BY <1>7, <1>1, EmptySeq
  <2>3. DOMAIN t = 1 .. Len(t)
    BY <2>1, LenProperties
  <2> HIDE DEF t, h
  <2>4. IsInjective(t)
    <3>1. ASSUME NEW i \in DOMAIN t, NEW j \in DOMAIN t, t[i] = t[j] PROVE i = j
      <4>1. i \in 1 .. Len(t) /\ j \in 1 .. Len(t)
        BY <2>3, <3>1
      <4>2. i + 1 \in DOMAIN q /\ j + 1 \in DOMAIN q
        BY <1>1, <2>1, <4>1
      <4>3. q[i + 1] = q[j + 1]
        BY <2>1, <3>1, <4>1
      <4>4. i + 1 = j + 1
        BY <4>2, <4>3 DEF IsInjective
      <4> QED
        BY <4>1, <4>4
    <3> QED
      BY <3>1 DEF IsInjective
  <2>5. ToSet(t) = R \ {h} /\ h \in R
    <3>1. h \in R
      BY <1>1, <2>2 DEF ToSet
    <3>2. ASSUME NEW r \in ToSet(t) PROVE r \in R \ {h}
      <4>1. PICK i \in 1 .. Len(t) : r = t[i]
        BY <2>3, <3>2 DEF ToSet
      <4>2. r = q[i + 1] /\ i + 1 \in DOMAIN q /\ i + 1 # 1 /\ 1 \in DOMAIN q
        BY <1>1, <2>1, <4>1
      <4>3. r # q[1]
        BY <4>2 DEF IsInjective
      <4> QED
        BY <2>2, <4>2, <4>3 DEF ToSet
    <3>3. ASSUME NEW r \in R \ {h} PROVE r \in ToSet(t)
      <4>1. PICK i \in 1 .. Len(q) : r = q[i]
        BY <1>1, <3>3 DEF ToSet
      <4>2. i # 1
        BY <2>2, <3>3, <4>1
      <4>3. i - 1 \in 1 .. Len(t) /\ (i - 1) + 1 = i
        BY <1>1, <2>1, <4>2
      <4>4. t[i - 1] = q[i]
        BY <2>1, <4>3
      <4> QED
        BY <2>3, <4>1, <4>3, <4>4 DEF ToSet
    <3> QED
      BY <3>1, <3>2, <3>3
  <2> HIDE DEF R
  <2>6. Over(f, R) = Over(f, {h}) + Over(f, R \ {h})
    BY <1>3, <2>5, OverSplit
  <2>7. Over(f, {h}) = CandidateBytes(h)
    BY <1>3, <1>5, <2>5, OverFew
  <2>8. Over(f, R \ {h}) \in Nat
    BY <1>3, OverCount
  <2>9. QueuedBytes(ToSet(t)) = Over(f, R \ {h}) /\ QueuedBytes(R) = Over(f, R)
    BY <1>4, <2>5
  <2>10. QueuedBytes(R) = CandidateBytes(h) + QueuedBytes(ToSet(t))
    BY <2>6, <2>7, <2>9
  <2> QED
    BY <2>1, <2>4, <2>8, <2>9, <2>10 DEF t, h
<1> QED
  BY <1>6, <1>7

-----------------------------------------------------------------------------
(* The build's accounts, of the board b, the limits lim and klim, the      *)
(* queue q, the rooms kept, the trial t, the table's build d and the       *)
(* ledger l.  What is held is charged, and what is charged is within the   *)
(* limit.  The kept bytes cover the rooms kept, less those the trial would *)
(* replace, and the trial's tables; they may pass their own limit, since   *)
(* a trial that is given up leaves its tables charged, but not while there *)
(* are tables to keep.                                                     *)
EnclosedIn(rooms, room) == {r \in rooms : Encloses(room.cells, r.room)}

IsTrial(b, t) ==
  /\ t = [is |-> "trial", room |-> t.room, parts |-> t.parts, tables |-> t.tables,
          failed |-> t.failed, replaces |-> t.replaces]
  /\ t.room \in Rooms(b)
  /\ IsTables(t.tables)

Base(b) == 2 * Cardinality(b.open) + 2 * Len(Found[b])

TrialBytes(b, t) ==
  IF t = NoTrial THEN 0
  ELSE RoomBytes(b, t.room) + MovesBytes(MovesOf(b, t.room)) + KeptBytes(t.tables)

BuildBytes(d) == IF d = NoBuild THEN 0 ELSE BytesOf(d)

HeldIn(b, q, rooms, t, d) ==
  HeldBy(b, rooms) + Base(b) + QueuedBytes(ToSet(q)) + TrialBytes(b, t) + BuildBytes(d)

Typed(b, q, rooms, t, d, l) ==
  /\ q \in Seq(Rooms(b)) /\ IsInjective(q)
  /\ IsRooms(b, rooms)
  /\ t = NoTrial \/ IsTrial(b, t)
  /\ d = NoBuild \/ (t # NoTrial /\ IsSound(d))
  /\ l = [live |-> l.live, kept |-> l.kept] /\ l.live \in Int /\ l.kept \in Int

Accounts(b, lim, klim, q, rooms, t, d, l) ==
  /\ HeldIn(b, q, rooms, t, d) <= l.live
  /\ l.live <= lim
  /\ KeptOf(rooms) <= klim
  /\ t = NoTrial => KeptOf(rooms) <= l.kept
  /\ t # NoTrial =>
       /\ KeptOf(rooms \ EnclosedIn(rooms, t.room)) + KeptBytes(t.tables) <= l.kept
       /\ t.tables # {} => l.kept <= klim
       /\ d # NoBuild /\ d.phase = "insert" => l.kept + d.stored <= klim

Good(b, lim, klim, q, rooms, t, d, l) ==
  /\ b \in Boards /\ lim \in Int /\ klim \in Int
  /\ Typed(b, q, rooms, t, d, l)
  /\ Accounts(b, lim, klim, q, rooms, t, d, l)

(* Every part of what is held is a number of bytes.                        *)
LEMMA BaseIsNat ==
  ASSUME NEW b \in Boards
  PROVE  Base(b) \in Nat
<1>1. Cardinality(b.open) \in Nat
  BY FoundAssumption, SizeIsNat
<1>2. Len(Found[b]) \in Nat
  BY FoundAssumption, LenProperties
<1> QED
  BY <1>1, <1>2 DEF Base

LEMMA TrialBytesFacts ==
  ASSUME NEW b \in Boards, NEW t, IsTrial(b, t)
  PROVE  /\ t # NoTrial
         /\ RoomBytes(b, t.room) \in Nat /\ MovesBytes(MovesOf(b, t.room)) \in Nat
         /\ KeptBytes(t.tables) \in Nat
         /\ TrialBytes(b, t) = RoomBytes(b, t.room) + MovesBytes(MovesOf(b, t.room))
                                 + KeptBytes(t.tables)
         /\ TrialBytes(b, t) \in Nat
<1>1. t # NoTrial
  <2>1. t.is = "trial"
    BY DEF IsTrial
  <2> QED
    BY <2>1 DEF NoTrial
<1>2. RoomBytes(b, t.room) \in Nat
  BY RoomBytesFacts DEF IsTrial
<1>3. MovesBytes(MovesOf(b, t.room)) \in Nat
  BY MovesBytesIsNat
<1>4. KeptBytes(t.tables) \in Nat
  BY KeptBytesFacts DEF IsTrial
<1>5. TrialBytes(b, t) = RoomBytes(b, t.room) + MovesBytes(MovesOf(b, t.room))
                           + KeptBytes(t.tables)
  BY <1>1 DEF TrialBytes
<1> QED
  BY <1>1, <1>2, <1>3, <1>4, <1>5

LEMMA HeldFacts ==
  ASSUME NEW b \in Boards, NEW q, NEW rooms, NEW t, NEW d, NEW l, Typed(b, q, rooms, t, d, l)
  PROVE  /\ HeldBy(b, rooms) \in Nat /\ HeldBy(b, rooms) = KeptOf(rooms) + GeometryOf(b, rooms)
         /\ KeptOf(rooms) \in Nat /\ GeometryOf(b, rooms) \in Nat
         /\ Base(b) \in Nat /\ QueuedBytes(ToSet(q)) \in Nat
         /\ TrialBytes(b, t) \in Nat /\ BuildBytes(d) \in Nat
         /\ l.live \in Int /\ l.kept \in Int
         /\ HeldIn(b, q, rooms, t, d) = HeldBy(b, rooms) + Base(b) + QueuedBytes(ToSet(q))
                                        + TrialBytes(b, t) + BuildBytes(d)
<1>1. KeptOf(rooms) \in Nat /\ GeometryOf(b, rooms) \in Nat
  BY KeptOfFacts, GeometryFacts DEF Typed
<1>2. HeldBy(b, rooms) \in Nat /\ HeldBy(b, rooms) = KeptOf(rooms) + GeometryOf(b, rooms)
  BY <1>1 DEF HeldBy
<1>3. QueuedBytes(ToSet(q)) \in Nat
  BY QueueFacts DEF Typed
<1>4. TrialBytes(b, t) \in Nat
  <2>1. CASE t = NoTrial
    BY <2>1 DEF TrialBytes
  <2>2. CASE IsTrial(b, t)
    BY <2>2, TrialBytesFacts
  <2> QED
    BY <2>1, <2>2 DEF Typed
<1>5. BuildBytes(d) \in Nat
  <2>1. CASE d = NoBuild
    BY <2>1 DEF BuildBytes
  <2>2. CASE d # NoBuild
    BY <2>2, BytesAreNat DEF BuildBytes, Typed, IsSound
  <2> QED
    BY <2>1, <2>2
<1> QED
  BY <1>1, <1>2, <1>3, <1>4, <1>5, BaseIsNat DEF HeldIn, Typed

(* A candidate is dropped.                                                 *)
LEMMA GoodDrop ==
  ASSUME NEW b, NEW lim, NEW klim, NEW q, NEW rooms, NEW t, NEW d, NEW l,
         Good(b, lim, klim, q, rooms, t, d, l), q # << >>, NEW m,
         m = [l EXCEPT !.live = @ - CandidateBytes(Head(q))]
  PROVE  Good(b, lim, klim, Tail(q), rooms, t, d, m)
<1>1. b \in Boards /\ Typed(b, q, rooms, t, d, l)
  BY DEF Good
<1>2. PICK c \in Nat : c = CandidateBytes(Head(q))
  BY <1>1, QueueFacts, RoomBytesFacts DEF Typed
<1>3. PICK k \in Nat : k = QueuedBytes(ToSet(Tail(q)))
  BY <1>1, QueueFacts DEF Typed
<1>4. QueuedBytes(ToSet(q)) = c + k
  BY <1>1, <1>2, <1>3, QueueFacts DEF Typed
<1>5. PICK live \in Int : live = l.live
  BY <1>1 DEF Typed
<1>6. m = [live |-> live - c, kept |-> l.kept]
  BY <1>1, <1>2, <1>5 DEF Typed
<1>7. Typed(b, Tail(q), rooms, t, d, m)
  BY <1>1, <1>6, QueueFacts DEF Typed
<1>8. PICK h \in Nat : h = HeldBy(b, rooms)
  BY <1>1, HeldFacts
<1>9. PICK e \in Nat : e = Base(b)
  BY <1>1, HeldFacts
<1>10. PICK x \in Nat : x = TrialBytes(b, t)
  BY <1>1, HeldFacts
<1>11. PICK y \in Nat : y = BuildBytes(d)
  BY <1>1, HeldFacts
<1>12. HeldIn(b, q, rooms, t, d) = h + e + (c + k) + x + y
  BY <1>1, <1>4, <1>8, <1>9, <1>10, <1>11, HeldFacts
<1>13. HeldIn(b, Tail(q), rooms, t, d) = h + e + k + x + y
  BY <1>1, <1>3, <1>7, <1>8, <1>9, <1>10, <1>11, HeldFacts
<1>14. h + e + (c + k) + x + y <= live /\ live <= lim /\ lim \in Int
  BY <1>5, <1>12 DEF Good, Accounts
<1>15. h + e + k + x + y <= live - c /\ live - c <= lim
  BY <1>14
<1>16. Accounts(b, lim, klim, Tail(q), rooms, t, d, m)
  <2>1. m.live = live - c /\ m.kept = l.kept
    BY <1>6
  <2> QED
    BY <1>13, <1>15, <2>1 DEF Good, Accounts
<1> QED
  BY <1>7, <1>16 DEF Good

(* A room kept is one that is enclosed by the trial's or stays.            *)
LEMMA EnclosedFacts ==
  ASSUME NEW b, NEW rooms, IsRooms(b, rooms), NEW room
  PROVE  /\ EnclosedIn(rooms, room) \in SUBSET rooms
         /\ IsRooms(b, EnclosedIn(rooms, room))
         /\ IsRooms(b, rooms \ EnclosedIn(rooms, room))
         /\ KeptOf(EnclosedIn(rooms, room)) \in Nat
         /\ KeptOf(rooms \ EnclosedIn(rooms, room)) \in Nat
         /\ KeptOf(rooms) = KeptOf(EnclosedIn(rooms, room))
                              + KeptOf(rooms \ EnclosedIn(rooms, room))
<1> DEFINE E == EnclosedIn(rooms, room)
<1>1. E \in SUBSET rooms
  BY DEF EnclosedIn
<1> HIDE DEF E
<1>2. IsFiniteSet(E) /\ IsFiniteSet(rooms \ E)
  BY <1>1, FS_Subset DEF IsRooms
<1>3. IsRooms(b, E) /\ IsRooms(b, rooms \ E)
  BY <1>1, <1>2 DEF IsRooms
<1>4. KeptOf(E) \in Nat /\ KeptOf(rooms \ E) \in Nat
  BY <1>3, KeptOfFacts
<1>5. KeptOf(rooms) = KeptOf(E) + KeptOf(rooms \ E)
  BY <1>1, KeptOfFacts
<1> QED
  BY <1>1, <1>3, <1>4, <1>5 DEF E

(* The charge of a candidate moves to the trial, which adds its own.       *)
LEMMA MovedToTrial ==
  ASSUME NEW h \in Int, NEW e \in Int, NEW c \in Int, NEW k \in Int, NEW o \in Int,
         NEW v \in Int, NEW live \in Int, NEW n \in Int, NEW r \in Int, NEW kept \in Int,
         h + e + (c + k) + 0 + 0 <= live, n + r <= kept
  PROVE  h + e + k + ((c + o) + v) + 0 <= live + (o + v) /\ r + 0 <= kept - n
OBVIOUS

(* The next candidate is tried.                                            *)
LEMMA GoodBegin ==
  ASSUME NEW b, NEW lim, NEW klim, NEW q, NEW rooms, NEW l,
         Good(b, lim, klim, q, rooms, NoTrial, NoBuild, l), q # << >>,
         NEW extra, extra = Cardinality(b.open) + MovesBytes(MovesOf(b, Head(q))),
         l.live + extra <= lim, NEW m,
         m = [live |-> l.live + extra,
              kept |-> l.kept - KeptOf(EnclosedIn(rooms, Head(q)))],
         NEW u, IsTrial(b, u), u.room = Head(q), u.tables = {}
  PROVE  Good(b, lim, klim, Tail(q), rooms, u, NoBuild, m)
<1> DEFINE room == Head(q)
<1>1. b \in Boards /\ Typed(b, q, rooms, NoTrial, NoBuild, l)
  BY DEF Good
<1>2. room \in Rooms(b)
  BY <1>1, QueueFacts DEF Typed
<1>3. PICK c \in Nat : c = CandidateBytes(room)
  BY <1>1, <1>2, RoomBytesFacts
<1>4. PICK k \in Nat : k = QueuedBytes(ToSet(Tail(q)))
  BY <1>1, QueueFacts DEF Typed
<1>5. QueuedBytes(ToSet(q)) = c + k
  BY <1>1, <1>3, <1>4, QueueFacts DEF Typed
<1>6. PICK o \in Nat : o = Cardinality(b.open)
  BY <1>1, <1>2, RoomBytesFacts
<1>7. PICK v \in Nat : v = MovesBytes(MovesOf(b, room))
  BY <1>1, MovesBytesIsNat
<1>8. RoomBytes(b, room) = c + o
  BY <1>1, <1>2, <1>3, <1>6, RoomBytesFacts
<1>9. PICK live \in Int : live = l.live
  BY <1>1 DEF Typed
<1>10. PICK kept \in Int : kept = l.kept
  BY <1>1 DEF Typed
<1>11. PICK n \in Nat : n = KeptOf(EnclosedIn(rooms, room))
  BY <1>1, EnclosedFacts DEF Typed
<1>12. PICK r \in Nat : r = KeptOf(rooms \ EnclosedIn(rooms, room))
  BY <1>1, EnclosedFacts DEF Typed
<1>13. KeptOf(rooms) = n + r
  BY <1>1, <1>11, <1>12, EnclosedFacts DEF Typed
<1>14. m = [live |-> live + (o + v), kept |-> kept - n] /\ live + (o + v) <= lim
  BY <1>6, <1>7, <1>9, <1>10, <1>11
<1>15. u # NoTrial /\ TrialBytes(b, u) = (c + o) + v
  <2>1. KeptBytes({}) = 0
    BY KeptBytesFacts DEF IsTrial
  <2>2. /\ u # NoTrial
        /\ TrialBytes(b, u) = RoomBytes(b, u.room) + MovesBytes(MovesOf(b, u.room))
                                 + KeptBytes(u.tables)
    BY <1>1, TrialBytesFacts
  <2>3. TrialBytes(b, u) = (c + o) + v + 0
    BY <1>7, <1>8, <2>1, <2>2
  <2> QED
    BY <2>2, <2>3
<1>16. Typed(b, Tail(q), rooms, u, NoBuild, m)
  <2>1. Tail(q) \in Seq(Rooms(b)) /\ IsInjective(Tail(q))
    BY <1>1, QueueFacts DEF Typed
  <2>2. m.live = live + (o + v) /\ m.kept = kept - n
    BY <1>14
  <2>3. m = [live |-> m.live, kept |-> m.kept] /\ m.live \in Int /\ m.kept \in Int
    BY <1>14, <2>2
  <2> QED
    BY <1>1, <2>1, <2>3 DEF Typed
<1>17. PICK h \in Nat : h = HeldBy(b, rooms)
  BY <1>1, HeldFacts
<1>18. PICK e \in Nat : e = Base(b)
  BY <1>1, HeldFacts
<1>19. TrialBytes(b, NoTrial) = 0 /\ BuildBytes(NoBuild) = 0
  BY DEF TrialBytes, BuildBytes
<1>20. HeldIn(b, q, rooms, NoTrial, NoBuild) = h + e + (c + k) + 0 + 0
  BY <1>1, <1>5, <1>17, <1>18, <1>19, HeldFacts
<1>21. HeldIn(b, Tail(q), rooms, u, NoBuild) = h + e + k + ((c + o) + v) + 0
  BY <1>4, <1>15, <1>17, <1>18, <1>19 DEF HeldIn
<1>22. h + e + (c + k) + 0 + 0 <= live /\ n + r <= kept
  BY <1>9, <1>10, <1>13, <1>20 DEF Good, Accounts
<1>23. h + e + k + ((c + o) + v) + 0 <= live + (o + v) /\ r + 0 <= kept - n
  BY <1>22, MovedToTrial
<1>24. KeptBytes(u.tables) = 0
  BY KeptBytesFacts DEF IsTrial
<1>25. Accounts(b, lim, klim, Tail(q), rooms, u, NoBuild, m)
  <2>1. m.live = live + (o + v) /\ m.kept = kept - n
    BY <1>14
  <2>2. KeptOf(rooms \ EnclosedIn(rooms, u.room)) + KeptBytes(u.tables) = r + 0
    BY <1>12, <1>24
  <2> QED
    BY <1>14, <1>15, <1>21, <1>23, <2>1, <2>2 DEF Good, Accounts
<1> QED
  BY <1>16, <1>25 DEF Good

(* A change of the trial that keeps its room and its tables.               *)
LEMMA GoodSame ==
  ASSUME NEW b, NEW lim, NEW klim, NEW q, NEW rooms, NEW t, NEW d, NEW l,
         Good(b, lim, klim, q, rooms, t, d, l), IsTrial(b, t),
         NEW u, IsTrial(b, u), u.room = t.room, u.tables = t.tables
  PROVE  Good(b, lim, klim, q, rooms, u, d, l)
<1>1. b \in Boards /\ Typed(b, q, rooms, t, d, l)
  BY DEF Good
<1>2. t # NoTrial /\ u # NoTrial
  BY <1>1, TrialBytesFacts
<1>3. TrialBytes(b, u) = TrialBytes(b, t)
  BY <1>2 DEF TrialBytes
<1>4. HeldIn(b, q, rooms, u, d) = HeldIn(b, q, rooms, t, d)
  BY <1>3 DEF HeldIn
<1>5. Typed(b, q, rooms, u, d, l)
  BY <1>1, <1>2 DEF Typed
<1>6. Accounts(b, lim, klim, q, rooms, u, d, l)
  BY <1>2, <1>4 DEF Good, Accounts
<1> QED
  BY <1>5, <1>6 DEF Good

LEMMA BuildIsSome ==
  ASSUME NEW d, IsBuild(d)
  PROVE  d # NoBuild /\ BuildBytes(d) = BytesOf(d)
<1>1. "stored" \in DOMAIN d
  BY DEF IsBuild
<1>2. "stored" \notin DOMAIN NoBuild
  BY DEF NoBuild
<1> QED
  BY <1>1, <1>2 DEF BuildBytes

(* The table's build is begun or goes on, within the limit.                *)
LEMMA GoodGo ==
  ASSUME NEW b, NEW lim, NEW klim, NEW q, NEW rooms, NEW t, NEW d, NEW l,
         Good(b, lim, klim, q, rooms, t, d, l), IsTrial(b, t), NEW n, IsSound(n),
         NEW m, m = [live |-> l.live + BytesOf(n) - BuildBytes(d), kept |-> l.kept],
         m.live <= lim, n.phase = "insert" => l.kept + n.stored <= klim
  PROVE  Good(b, lim, klim, q, rooms, t, n, m)
<1>1. b \in Boards /\ Typed(b, q, rooms, t, d, l)
  BY DEF Good
<1>2. n # NoBuild /\ BuildBytes(n) = BytesOf(n) /\ t # NoTrial
  BY <1>1, BuildIsSome, TrialBytesFacts DEF IsSound
<1>3. PICK x \in Nat : x = BytesOf(n)
  BY BytesAreNat DEF IsSound
<1>4. PICK y \in Nat : y = BuildBytes(d)
  BY <1>1, HeldFacts
<1>5. PICK live \in Int : live = l.live
  BY <1>1, HeldFacts
<1>6. m = [live |-> live + x - y, kept |-> l.kept] /\ l.kept \in Int
  BY <1>1, <1>3, <1>4, <1>5, HeldFacts
<1>7. Typed(b, q, rooms, t, n, m)
  BY <1>1, <1>2, <1>6 DEF Typed
<1>8. PICK h \in Nat : h = HeldBy(b, rooms) + Base(b) + QueuedBytes(ToSet(q)) + TrialBytes(b, t)
  <2>1. /\ HeldBy(b, rooms) \in Nat /\ Base(b) \in Nat /\ QueuedBytes(ToSet(q)) \in Nat
        /\ TrialBytes(b, t) \in Nat
    BY <1>1, HeldFacts
  <2> QED
    BY <2>1
<1>9. HeldIn(b, q, rooms, t, d) = h + y
  BY <1>1, <1>4, <1>8, HeldFacts
<1>10. HeldIn(b, q, rooms, t, n) = h + x
  BY <1>2, <1>3, <1>7, <1>8 DEF HeldIn
<1>11. h + y <= live
  BY <1>5, <1>9 DEF Good, Accounts
<1>12. m.live = live + x - y /\ m.kept = l.kept
  BY <1>6
<1>13. HeldIn(b, q, rooms, t, n) <= m.live
  BY <1>10, <1>11, <1>12
<1>14. Accounts(b, lim, klim, q, rooms, t, n, m)
  BY <1>2, <1>12, <1>13 DEF Good, Accounts
<1> QED
  BY <1>7, <1>14 DEF Good

(* The table's build is freed.                                             *)
LEMMA GoodFree ==
  ASSUME NEW b, NEW lim, NEW klim, NEW q, NEW rooms, NEW t, NEW d, NEW l,
         Good(b, lim, klim, q, rooms, t, d, l), IsTrial(b, t),
         NEW m, m = [live |-> l.live - BuildBytes(d), kept |-> l.kept]
  PROVE  Good(b, lim, klim, q, rooms, t, NoBuild, m)
<1>1. b \in Boards /\ Typed(b, q, rooms, t, d, l)
  BY DEF Good
<1>2. BuildBytes(NoBuild) = 0
  BY DEF BuildBytes
<1>3. PICK y \in Nat : y = BuildBytes(d)
  BY <1>1, HeldFacts
<1>4. PICK live \in Int : live = l.live
  BY <1>1, HeldFacts
<1>5. m = [live |-> live - y, kept |-> l.kept] /\ l.kept \in Int
  BY <1>1, <1>3, <1>4, HeldFacts
<1>6. Typed(b, q, rooms, t, NoBuild, m)
  BY <1>1, <1>5 DEF Typed
<1>7. PICK h \in Nat : h = HeldBy(b, rooms) + Base(b) + QueuedBytes(ToSet(q)) + TrialBytes(b, t)
  <2>1. /\ HeldBy(b, rooms) \in Nat /\ Base(b) \in Nat /\ QueuedBytes(ToSet(q)) \in Nat
        /\ TrialBytes(b, t) \in Nat
    BY <1>1, HeldFacts
  <2> QED
    BY <2>1
<1>8. HeldIn(b, q, rooms, t, d) = h + y
  BY <1>1, <1>3, <1>7, HeldFacts
<1>9. HeldIn(b, q, rooms, t, NoBuild) = h + 0
  BY <1>2, <1>7 DEF HeldIn
<1>10. h + y <= live /\ live <= lim /\ lim \in Int
  BY <1>4, <1>8 DEF Good, Accounts
<1>11. m.live = live - y /\ m.kept = l.kept
  BY <1>5
<1>12. HeldIn(b, q, rooms, t, NoBuild) <= m.live /\ m.live <= lim
  BY <1>9, <1>10, <1>11
<1>13. Accounts(b, lim, klim, q, rooms, t, NoBuild, m)
  BY <1>11, <1>12 DEF Good, Accounts
<1> QED
  BY <1>6, <1>13 DEF Good

(* The table's build ends with its table.                                  *)
LEMMA GoodEnd ==
  ASSUME NEW b, NEW lim, NEW klim, NEW q, NEW rooms, NEW t, NEW d, NEW l,
         Good(b, lim, klim, q, rooms, t, d, l), IsTrial(b, t), d # NoBuild,
         d.phase = "insert", NEW u, u = [t EXCEPT !.tables = @ \cup {TableOf(d)}],
         NEW m, m = [live |-> l.live - BytesOf(d) + KeptBytes({TableOf(d)}),
                     kept |-> l.kept + KeptBytes({TableOf(d)})]
  PROVE  Good(b, lim, klim, q, rooms, u, NoBuild, m)
<1> DEFINE x == TableOf(d)
<1>1. b \in Boards /\ Typed(b, q, rooms, t, d, l) /\ IsSound(d) /\ IsBuild(d)
  BY DEF Good, Typed, IsSound
<1>2. /\ u = [is |-> "trial", room |-> t.room, parts |-> t.parts, tables |-> t.tables \cup {x},
              failed |-> t.failed, replaces |-> t.replaces]
      /\ u.room = t.room /\ u.tables = t.tables \cup {x} /\ IsTables(u.tables)
  <2>1. u = [is |-> "trial", room |-> t.room, parts |-> t.parts, tables |-> t.tables \cup {x},
             failed |-> t.failed, replaces |-> t.replaces]
    BY DEF IsTrial
  <2>2. IsFiniteSet(x.values)
    BY <1>1, TableFinite
  <2>3. IsFiniteSet(t.tables \cup {x})
    BY FS_AddElement DEF IsTrial, IsTables
  <2>4. u.room = t.room /\ u.tables = t.tables \cup {x}
    BY <2>1
  <2>5. \A y \in t.tables : IsFiniteSet(y.values)
    BY DEF IsTrial, IsTables
  <2> HIDE DEF x
  <2>6. \A y \in t.tables \cup {x} : IsFiniteSet(y.values)
    BY <2>2, <2>5
  <2>7. IsTables(u.tables)
    BY <2>3, <2>4, <2>6 DEF IsTables
  <2> QED
    BY <2>1, <2>4, <2>7
<1>3. IsTrial(b, u) /\ t # NoTrial /\ u # NoTrial
  <2>1. IsTrial(b, u)
    <3> HIDE DEF x
    <3> QED
      BY <1>2 DEF IsTrial
  <2> QED
    BY <1>1, <2>1, TrialBytesFacts
<1>4. PICK w \in Nat : w = KeptBytes({x})
  <2>1. IsTables({x})
    <3>1. IsFiniteSet(x.values)
      BY <1>1, TableFinite
    <3> QED
      BY <3>1, FS_Singleton DEF IsTables
  <2> QED
    BY <2>1, KeptBytesFacts
<1>5. PICK s \in Nat : s = d.stored
  BY <1>1 DEF IsBuild
<1>6. PICK y \in Nat : y = BytesOf(d)
  BY <1>1, BytesAreNat
<1>7. w <= s /\ s <= y
  <2>1. KeptBytes({x}) = TableBytes(x)
    BY <1>2, KeptBytesFacts
  <2>2. TableBytes(x) <= Cardinality(Finite(d))
    BY <1>1, TableFinite
  <2>3. d.stored = Cardinality(Finite(d))
    BY <1>1 DEF IsSound
  <2>4. d.stored <= BytesOf(d)
    BY <1>1, BytesAreNat
  <2> HIDE DEF x
  <2> QED
    BY <1>4, <1>5, <1>6, <2>1, <2>2, <2>3, <2>4
<1>8. PICK v \in Nat : v = KeptBytes(t.tables)
  BY KeptBytesFacts DEF IsTrial
<1>9. PICK z \in Nat : z = KeptBytes(u.tables)
  BY <1>2, KeptBytesFacts
<1>10. z <= v + w
  <2>1. t.tables \in SUBSET u.tables /\ {x} \in SUBSET u.tables
    BY <1>2
  <2>2. KeptBytes(t.tables \cup {x}) <= KeptBytes(t.tables) + KeptBytes({x})
    BY <1>2, <2>1, KeptBytesFacts
  <2>3. KeptBytes(u.tables) = KeptBytes(t.tables \cup {x})
    BY <1>2
  <2> HIDE DEF x
  <2> QED
    BY <1>4, <1>8, <1>9, <2>2, <2>3
<1> HIDE DEF x
<1>11. PICK g \in Nat : g = RoomBytes(b, t.room) + MovesBytes(MovesOf(b, t.room))
  BY <1>1, TrialBytesFacts
<1>12. TrialBytes(b, t) = g + v
  BY <1>1, <1>8, <1>11, TrialBytesFacts
<1>13. TrialBytes(b, u) = g + z
  BY <1>1, <1>2, <1>3, <1>9, <1>11, TrialBytesFacts
<1>14. BuildBytes(d) = y /\ BuildBytes(NoBuild) = 0
  BY <1>1, <1>6, BuildIsSome DEF BuildBytes
<1>15. PICK live \in Int : live = l.live
  BY <1>1, HeldFacts
<1>16. PICK kept \in Int : kept = l.kept
  BY <1>1, HeldFacts
<1>17. m = [live |-> live - y + w, kept |-> kept + w]
  BY <1>4, <1>6, <1>15, <1>16 DEF x
<1>18. Typed(b, q, rooms, u, NoBuild, m)
  BY <1>1, <1>3, <1>17 DEF Typed
<1>19. PICK h \in Nat : h = HeldBy(b, rooms) + Base(b) + QueuedBytes(ToSet(q))
  <2>1. /\ HeldBy(b, rooms) \in Nat /\ Base(b) \in Nat /\ QueuedBytes(ToSet(q)) \in Nat
    BY <1>1, HeldFacts
  <2> QED
    BY <2>1
<1>20. HeldIn(b, q, rooms, t, d) = h + (g + v) + y
  BY <1>12, <1>14, <1>19 DEF HeldIn
<1>21. HeldIn(b, q, rooms, u, NoBuild) = h + (g + z) + 0
  BY <1>13, <1>14, <1>19 DEF HeldIn
<1>22. PICK r \in Nat : r = KeptOf(rooms \ EnclosedIn(rooms, t.room))
  BY <1>1, EnclosedFacts DEF Typed
<1>23. /\ h + (g + v) + y <= live /\ live <= lim /\ r + v <= kept /\ kept + s <= klim
       /\ lim \in Int /\ klim \in Int
  BY <1>3, <1>5, <1>8, <1>15, <1>16, <1>20, <1>22 DEF Good, Accounts
<1>24. /\ h + (g + z) + 0 <= live - y + w /\ live - y + w <= lim
       /\ r + z <= kept + w /\ kept + w <= klim
  BY <1>7, <1>10, <1>23
<1>25. m.live = live - y + w /\ m.kept = kept + w
  BY <1>17
<1>26. KeptOf(rooms \ EnclosedIn(rooms, u.room)) + KeptBytes(u.tables) = r + z
  BY <1>2, <1>9, <1>22
<1>27. Accounts(b, lim, klim, q, rooms, u, NoBuild, m)
  BY <1>3, <1>21, <1>24, <1>25, <1>26 DEF Good, Accounts
<1> QED
  BY <1>18, <1>27 DEF Good

(* The trial's room is kept, in place of those it encloses.                *)
LEMMA GoodKeep ==
  ASSUME NEW b, NEW lim, NEW klim, NEW q, NEW rooms, NEW t, NEW l,
         Good(b, lim, klim, q, rooms, t, NoBuild, l), IsTrial(b, t), t.tables # {},
         NEW new, new = (rooms \ EnclosedIn(rooms, t.room))
                          \cup {[room |-> t.room, tables |-> t.tables]},
         NEW m, m = [live |-> l.live - MovesBytes(MovesOf(b, t.room))
                                - HeldBy(b, EnclosedIn(rooms, t.room)),
                     kept |-> l.kept]
  PROVE  Good(b, lim, klim, q, new, NoTrial, NoBuild, m)
<1> DEFINE E == EnclosedIn(rooms, t.room)
           x == [room |-> t.room, tables |-> t.tables]
<1>1. b \in Boards /\ Typed(b, q, rooms, t, NoBuild, l) /\ IsRooms(b, rooms)
  BY DEF Good, Typed
<1>2. x.room = t.room /\ x.tables = t.tables
  OBVIOUS
<1> HIDE DEF x
<1>3. E \in SUBSET rooms /\ IsRooms(b, E) /\ IsRooms(b, rooms \ E)
  BY <1>1, EnclosedFacts
<1> HIDE DEF E
<1>4. IsRooms(b, new) /\ rooms \ E \in SUBSET new /\ {x} \in SUBSET new /\ x \in new
        /\ new = (rooms \ E) \cup {x}
  <2>1. new = (rooms \ E) \cup {x}
    BY DEF E, x
  <2>2. IsFiniteSet(new)
    <3>1. PICK S : S = rooms \ E
      OBVIOUS
    <3>2. IsFiniteSet(S)
      BY <1>3, <3>1 DEF IsRooms
    <3>3. IsFiniteSet(S \cup {x})
      BY <3>2, FS_AddElement
    <3> QED
      BY <2>1, <3>1, <3>3
  <2>3. x.room \in Rooms(b) /\ IsTables(x.tables)
    BY <1>2 DEF IsTrial
  <2>4. \A y \in rooms \ E : y.room \in Rooms(b) /\ IsTables(y.tables)
    BY <1>3 DEF IsRooms
  <2>5. \A y \in new : y.room \in Rooms(b) /\ IsTables(y.tables)
    BY <2>1, <2>3, <2>4
  <2>6. IsRooms(b, new)
    BY <2>2, <2>5 DEF IsRooms
  <2> QED
    BY <2>1, <2>6
<1>5. PICK n \in Nat : n = KeptOf(E)
  BY <1>3, KeptOfFacts
<1>6. PICK r \in Nat : r = KeptOf(rooms \ E)
  BY <1>3, KeptOfFacts
<1>7. PICK ge \in Nat : ge = GeometryOf(b, E)
  BY <1>1, <1>3, GeometryFacts
<1>8. PICK gr \in Nat : gr = GeometryOf(b, rooms \ E)
  BY <1>1, <1>3, GeometryFacts
<1>9. KeptOf(rooms) = n + r
  BY <1>1, <1>3, <1>5, <1>6, KeptOfFacts
<1>10. GeometryOf(b, rooms) = ge + gr
  BY <1>1, <1>3, <1>7, <1>8, GeometryFacts
<1>11. PICK v \in Nat : v = KeptBytes(t.tables)
  BY KeptBytesFacts DEF IsTrial
<1>12. PICK o \in Nat : o = RoomBytes(b, t.room)
  BY <1>1, TrialBytesFacts
<1>13. PICK c \in Nat : c = MovesBytes(MovesOf(b, t.room))
  BY <1>1, TrialBytesFacts
<1>14. TrialBytes(b, t) = o + c + v /\ t # NoTrial
  BY <1>1, <1>11, <1>12, <1>13, TrialBytesFacts
<1>15. PICK kn \in Nat : kn = KeptOf(new)
  BY <1>4, KeptOfFacts
<1>16. PICK gn \in Nat : gn = GeometryOf(b, new)
  BY <1>1, <1>4, GeometryFacts
<1>17. kn <= r + v
  <2>1. KeptOf((rooms \ E) \cup {x}) <= KeptOf(rooms \ E) + KeptOf({x})
    BY <1>4, KeptOfFacts
  <2>2. KeptOf({x}) = v
    BY <1>2, <1>4, <1>11, KeptOfFacts
  <2>3. KeptOf(new) = KeptOf((rooms \ E) \cup {x})
    BY <1>4
  <2> QED
    BY <1>6, <1>15, <2>1, <2>2, <2>3
<1>18. gn <= gr + o
  <2>1. GeometryOf(b, (rooms \ E) \cup {x}) <= GeometryOf(b, rooms \ E) + GeometryOf(b, {x})
    BY <1>1, <1>4, GeometryFacts
  <2>2. GeometryOf(b, {x}) = o
    BY <1>1, <1>2, <1>4, <1>12, GeometryFacts
  <2>3. GeometryOf(b, new) = GeometryOf(b, (rooms \ E) \cup {x})
    BY <1>4
  <2> QED
    BY <1>8, <1>16, <2>1, <2>2, <2>3
<1>19. PICK live \in Int : live = l.live
  BY <1>1, HeldFacts
<1>20. PICK kept \in Int : kept = l.kept
  BY <1>1, HeldFacts
<1>21. m = [live |-> live - c - (n + ge), kept |-> kept]
  BY <1>5, <1>7, <1>13, <1>19, <1>20 DEF E, HeldBy
<1>22. Typed(b, q, new, NoTrial, NoBuild, m)
  BY <1>1, <1>4, <1>21 DEF Typed
<1>23. PICK h \in Nat : h = Base(b) + QueuedBytes(ToSet(q))
  <2>1. Base(b) \in Nat /\ QueuedBytes(ToSet(q)) \in Nat
    BY <1>1, HeldFacts
  <2> QED
    BY <2>1
<1>24. /\ BuildBytes(NoBuild) = 0 /\ TrialBytes(b, NoTrial) = 0
       /\ Base(b) \in Nat /\ QueuedBytes(ToSet(q)) \in Nat
  BY <1>1, HeldFacts DEF BuildBytes, TrialBytes
<1>25. HeldIn(b, q, rooms, t, NoBuild) = ((n + r) + (ge + gr)) + h + (o + c + v)
  <2>1. HeldBy(b, rooms) = (n + r) + (ge + gr)
    BY <1>9, <1>10 DEF HeldBy
  <2>2. HeldIn(b, q, rooms, t, NoBuild)
          = ((n + r) + (ge + gr)) + Base(b) + QueuedBytes(ToSet(q)) + (o + c + v) + 0
    BY <1>14, <1>24, <2>1 DEF HeldIn
  <2> QED
    BY <1>23, <1>24, <2>2
<1>26. HeldIn(b, q, new, NoTrial, NoBuild) = (kn + gn) + h
  <2>1. HeldBy(b, new) = kn + gn
    BY <1>15, <1>16 DEF HeldBy
  <2>2. HeldIn(b, q, new, NoTrial, NoBuild)
          = (kn + gn) + Base(b) + QueuedBytes(ToSet(q)) + 0 + 0
    BY <1>24, <2>1 DEF HeldIn
  <2> QED
    BY <1>23, <1>24, <2>2
<1>27. /\ ((n + r) + (ge + gr)) + h + (o + c + v) <= live /\ live <= lim
       /\ r + v <= kept /\ kept <= klim /\ lim \in Int /\ klim \in Int
  BY <1>6, <1>11, <1>14, <1>19, <1>20, <1>25 DEF Good, Accounts, E
<1>28. /\ (kn + gn) + h <= live - c - (n + ge) /\ live - c - (n + ge) <= lim
       /\ kn <= klim /\ kn <= kept
  BY <1>17, <1>18, <1>27
<1>29. m.live = live - c - (n + ge) /\ m.kept = kept
  BY <1>21
<1>30. Accounts(b, lim, klim, q, new, NoTrial, NoBuild, m)
  BY <1>15, <1>26, <1>28, <1>29 DEF Accounts
<1> QED
  BY <1>1, <1>22, <1>30 DEF Good

(* The trial's room is given up; its tables stay charged.                  *)
LEMMA GoodLeave ==
  ASSUME NEW b, NEW lim, NEW klim, NEW q, NEW rooms, NEW t, NEW l,
         Good(b, lim, klim, q, rooms, t, NoBuild, l), IsTrial(b, t),
         NEW m, m = [live |-> l.live - MovesBytes(MovesOf(b, t.room)) - RoomBytes(b, t.room),
                     kept |-> l.kept + KeptOf(EnclosedIn(rooms, t.room))]
  PROVE  Good(b, lim, klim, q, rooms, NoTrial, NoBuild, m)
<1>1. b \in Boards /\ Typed(b, q, rooms, t, NoBuild, l) /\ IsRooms(b, rooms)
  BY DEF Good, Typed
<1>2. PICK n \in Nat : n = KeptOf(EnclosedIn(rooms, t.room))
  BY <1>1, EnclosedFacts
<1>3. PICK r \in Nat : r = KeptOf(rooms \ EnclosedIn(rooms, t.room))
  BY <1>1, EnclosedFacts
<1>4. KeptOf(rooms) = n + r
  BY <1>1, <1>2, <1>3, EnclosedFacts
<1>5. PICK v \in Nat : v = KeptBytes(t.tables)
  BY KeptBytesFacts DEF IsTrial
<1>6. PICK o \in Nat : o = RoomBytes(b, t.room)
  BY <1>1, TrialBytesFacts
<1>7. PICK c \in Nat : c = MovesBytes(MovesOf(b, t.room))
  BY <1>1, TrialBytesFacts
<1>8. TrialBytes(b, t) = o + c + v /\ t # NoTrial
  BY <1>1, <1>5, <1>6, <1>7, TrialBytesFacts
<1>9. PICK live \in Int : live = l.live
  BY <1>1, HeldFacts
<1>10. PICK kept \in Int : kept = l.kept
  BY <1>1, HeldFacts
<1>11. m = [live |-> live - c - o, kept |-> kept + n]
  BY <1>2, <1>6, <1>7, <1>9, <1>10
<1>12. Typed(b, q, rooms, NoTrial, NoBuild, m)
  BY <1>1, <1>11 DEF Typed
<1>13. PICK h \in Nat : h = HeldBy(b, rooms) + Base(b) + QueuedBytes(ToSet(q))
  <2>1. HeldBy(b, rooms) \in Nat /\ Base(b) \in Nat /\ QueuedBytes(ToSet(q)) \in Nat
    BY <1>1, HeldFacts
  <2> QED
    BY <2>1
<1>14. BuildBytes(NoBuild) = 0 /\ TrialBytes(b, NoTrial) = 0
  BY DEF BuildBytes, TrialBytes
<1>15. HeldIn(b, q, rooms, t, NoBuild) = h + (o + c + v) + 0
  BY <1>8, <1>13, <1>14 DEF HeldIn
<1>16. HeldIn(b, q, rooms, NoTrial, NoBuild) = h + 0 + 0
  BY <1>13, <1>14 DEF HeldIn
<1>17. /\ h + (o + c + v) + 0 <= live /\ live <= lim /\ r + v <= kept
       /\ n + r <= klim /\ lim \in Int /\ klim \in Int
  BY <1>3, <1>4, <1>5, <1>8, <1>9, <1>10, <1>15 DEF Good, Accounts
<1>18. h + 0 + 0 <= live - c - o /\ live - c - o <= lim /\ n + r <= kept + n
  BY <1>17
<1>19. m.live = live - c - o /\ m.kept = kept + n
  BY <1>11
<1>20. Accounts(b, lim, klim, q, rooms, NoTrial, NoBuild, m)
  BY <1>4, <1>16, <1>17, <1>18, <1>19 DEF Accounts
<1> QED
  BY <1>1, <1>12, <1>20 DEF Good

-----------------------------------------------------------------------------
(* Each action keeps the accounts good.                                    *)
GoodNow == Good(maze, Limit, KeptLimit, queue, built, trial, build, ledger)

GoodNext == Good(maze, Limit, KeptLimit, queue', built', trial', build', ledger')

LEMMA NowFacts ==
  ASSUME GoodNow
  PROVE  /\ maze \in Boards /\ Limit \in Int /\ KeptLimit \in Int
         /\ Typed(maze, queue, built, trial, build, ledger)
         /\ trial # NoTrial => IsTrial(maze, trial)
         /\ build # NoBuild => trial # NoTrial /\ IsSound(build) /\ IsBuild(build)
                                /\ BuildBytes(build) = BytesOf(build)
                                /\ BytesOf(build) \in Int
         /\ ledger = [live |-> ledger.live, kept |-> ledger.kept]
         /\ ledger.live \in Int /\ ledger.kept \in Int
         /\ \A room : Enclosed(room) = EnclosedIn(built, room)
<1>1. Typed(maze, queue, built, trial, build, ledger)
  BY DEF GoodNow, Good
<1>2. build # NoBuild => trial # NoTrial /\ IsSound(build) /\ IsBuild(build)
  BY <1>1 DEF Typed, IsSound
<1>3. build # NoBuild => BuildBytes(build) = BytesOf(build) /\ BytesOf(build) \in Int
  BY <1>2, BytesAreNat DEF BuildBytes
<1>4. \A room : Enclosed(room) = EnclosedIn(built, room)
  BY DEF Enclosed, EnclosedIn
<1> QED
  BY <1>1, <1>2, <1>3, <1>4 DEF Typed, GoodNow, Good

LEMMA SkipKeeps ==
  ASSUME GoodNow, Skip
  PROVE  GoodNext
<1>1. /\ queue # << >> /\ queue' = Tail(queue) /\ built' = built /\ trial' = trial
      /\ build' = build
      /\ ledger' = [ledger EXCEPT !.live = @ - CandidateBytes(Head(queue))]
  BY DEF Skip
<1>2. PICK m : m = [ledger EXCEPT !.live = @ - CandidateBytes(Head(queue))]
  OBVIOUS
<1>3. Good(maze, Limit, KeptLimit, Tail(queue), built, trial, build, m)
  BY <1>1, <1>2, GoodDrop DEF GoodNow
<1> QED
  BY <1>1, <1>2, <1>3 DEF GoodNext

LEMMA BeginKeeps ==
  ASSUME GoodNow, Begin
  PROVE  GoodNext
<1> DEFINE room  == Head(queue)
           extra == Cardinality(maze.open) + MovesBytes(MovesOf(maze, room))
<1>1. /\ queue # << >> /\ queue' = Tail(queue) /\ built' = built /\ build' = build
      /\ trial = NoTrial
  BY DEF Begin, Idle
<1>2. build = NoBuild
  BY <1>1, NowFacts
<1>3. CASE trial' = trial /\ ledger' = [ledger EXCEPT !.live = @ - CandidateBytes(room)]
  <2>1. PICK m : m = [ledger EXCEPT !.live = @ - CandidateBytes(room)]
    OBVIOUS
  <2>2. Good(maze, Limit, KeptLimit, Tail(queue), built, trial, build, m)
    BY <1>1, <2>1, GoodDrop DEF GoodNow
  <2> QED
    BY <1>1, <1>3, <2>1, <2>2 DEF GoodNext
<1>4. CASE /\ Fits(extra)
           /\ trial' = [is |-> "trial", room |-> room, parts |-> <<room.cells>>, tables |-> {},
                        failed |-> FALSE, replaces |-> Enclosed(room) # {}]
           /\ ledger' = [live |-> ledger.live + extra,
                         kept |-> ledger.kept - KeptOf(Enclosed(room))]
  <2>1. PICK m : m = [live |-> ledger.live + extra,
                      kept |-> ledger.kept - KeptOf(EnclosedIn(built, room))]
    OBVIOUS
  <2>2. PICK more : more = (Enclosed(room) # {})
    OBVIOUS
  <2>3. PICK u : u = [is |-> "trial", room |-> room, parts |-> <<room.cells>>, tables |-> {},
                      failed |-> FALSE, replaces |-> more]
    OBVIOUS
  <2>4. room \in Rooms(maze)
    BY <1>1, NowFacts, QueueFacts DEF Typed
  <2>5. IsTables({})
    BY FS_EmptySet DEF IsTables
  <2>6. IsTrial(maze, u) /\ u.room = room /\ u.tables = {}
    <3> HIDE DEF room
    <3> QED
      BY <2>3, <2>4, <2>5 DEF IsTrial
  <2>7. Good(maze, Limit, KeptLimit, queue, built, NoTrial, NoBuild, ledger)
    BY <1>1, <1>2 DEF GoodNow
  <2>8. ledger.live + extra <= Limit
    BY <1>4 DEF Fits
  <2>9. Good(maze, Limit, KeptLimit, Tail(queue), built, u, NoBuild, m)
    BY <1>1, <2>1, <2>6, <2>7, <2>8, GoodBegin
  <2>10. trial' = u
    BY <1>4, <2>2, <2>3
  <2>11. ledger' = m
    BY <1>4, <2>1, NowFacts
  <2> QED
    BY <1>1, <1>2, <2>9, <2>10, <2>11 DEF GoodNext
<1>5. \/ trial' = trial /\ ledger' = [ledger EXCEPT !.live = @ - CandidateBytes(room)]
      \/ /\ Fits(extra)
         /\ trial' = [is |-> "trial", room |-> room, parts |-> <<room.cells>>, tables |-> {},
                      failed |-> FALSE, replaces |-> Enclosed(room) # {}]
         /\ ledger' = [live |-> ledger.live + extra,
                       kept |-> ledger.kept - KeptOf(Enclosed(room))]
  BY Zenon DEF Begin
<1> QED
  BY <1>3, <1>4, <1>5

LEMMA PartKeeps ==
  ASSUME GoodNow, Part
  PROVE  GoodNext
<1> DEFINE part  == Head(trial.parts)
           rules == RulesOf(maze, guide, trial.room, part)
           rest  == [trial EXCEPT !.parts = Tail(@)]
<1>1. /\ queue' = queue /\ built' = built /\ ledger' = ledger /\ trial # NoTrial
      /\ build = NoBuild
  BY DEF Part, Trying
<1>2. \/ build' = NewBuild(rules, Projected(maze, rules, maze.start)) /\ trial' = rest
      \/ trial' = [rest EXCEPT !.parts = Split(maze, rest, part)] /\ build' = build
  BY Zenon DEF Part
<1>3. IsTrial(maze, trial) /\ maze \in Boards
  BY <1>1, NowFacts
<1>4. /\ IsTrial(maze, trial') /\ trial'.room = trial.room /\ trial'.tables = trial.tables
  <2>1. PICK u : u = trial'
    OBVIOUS
  <2>2. PICK one : one = Tail(trial.parts)
    OBVIOUS
  <2>3. PICK two : two = Split(maze, rest, part)
    OBVIOUS
  <2>4. rest = [is |-> "trial", room |-> trial.room, parts |-> one, tables |-> trial.tables,
                failed |-> trial.failed, replaces |-> trial.replaces]
    <3>1. trial = [is |-> "trial", room |-> trial.room, parts |-> trial.parts,
                   tables |-> trial.tables, failed |-> trial.failed,
                   replaces |-> trial.replaces]
      BY <1>3 DEF IsTrial
    <3>2. rest = [trial EXCEPT !.parts = one]
      BY <2>2
    <3> HIDE DEF rest
    <3> QED
      BY <3>1, <3>2
  <2> HIDE DEF rest
  <2>5. \/ u = rest
        \/ u = [rest EXCEPT !.parts = two]
    BY <1>2, <2>1, <2>3
  <2>6. \E parts : u = [is |-> "trial", room |-> trial.room, parts |-> parts,
                        tables |-> trial.tables, failed |-> trial.failed,
                        replaces |-> trial.replaces]
    BY <2>4, <2>5
  <2>7. IsTrial(maze, u) /\ u.room = trial.room /\ u.tables = trial.tables
    BY <1>3, <2>6 DEF IsTrial
  <2> QED
    BY <2>1, <2>7
<1>5. Good(maze, Limit, KeptLimit, queue, built, trial', NoBuild, ledger)
  BY <1>1, <1>3, <1>4, GoodSame DEF GoodNow
<1>6. CASE build' = build
  BY <1>1, <1>5, <1>6 DEF GoodNext
<1>7. CASE build' = NewBuild(rules, Projected(maze, rules, maze.start))
  <2>1. PICK n : n = build'
    OBVIOUS
  <2>2. IsSound(n) /\ BytesOf(n) = 0 /\ n.phase = "start"
    <3>1. FiniteRules(rules)
      BY <1>3, RulesFinite
    <3> HIDE DEF rules
    <3>2. n = NewBuild(rules, Projected(maze, rules, maze.start))
      BY <1>7, <2>1
    <3>3. n.phase = "start"
      BY <3>2 DEF NewBuild
    <3> QED
      BY <3>1, <3>2, <3>3, NewBuildSound
  <2>3. BuildBytes(NoBuild) = 0
    BY DEF BuildBytes
  <2>4. ledger = [live |-> ledger.live + BytesOf(n) - BuildBytes(NoBuild), kept |-> ledger.kept]
    BY <2>2, <2>3, NowFacts
  <2>5. ledger.live <= Limit
    BY DEF GoodNow, Good, Accounts
  <2>6. Good(maze, Limit, KeptLimit, queue, built, trial', n, ledger)
    BY <1>4, <1>5, <2>2, <2>4, <2>5, GoodGo
  <2> QED
    BY <1>1, <2>1, <2>6 DEF GoodNext
<1> QED
  BY <1>2, <1>6, <1>7

(* A build that fails is freed, and its trial goes on or splits.           *)
LEMMA FailKeeps ==
  ASSUME GoodNow, build # NoBuild, Fail, UNCHANGED <<queue, built>>
  PROVE  GoodNext
<1>1. /\ build' = NoBuild /\ queue' = queue /\ built' = built
      /\ trial' = [trial EXCEPT !.failed = TRUE, !.parts = Split(maze, trial, build.rules.part)]
      /\ ledger' = [ledger EXCEPT !.live = @ - BytesOf(build)]
  BY DEF Fail
<1>2. PICK u : u = trial'
  OBVIOUS
<1>3. PICK m : m = ledger'
  OBVIOUS
<1>4. PICK parts : parts = Split(maze, trial, build.rules.part)
  OBVIOUS
<1>5. IsTrial(maze, trial) /\ maze \in Boards
  BY NowFacts
<1>6. IsTrial(maze, u) /\ u.room = trial.room /\ u.tables = trial.tables
  <2>1. u = [trial EXCEPT !.failed = TRUE, !.parts = parts]
    BY <1>1, <1>2, <1>4
  <2>2. trial = [is |-> "trial", room |-> trial.room, parts |-> trial.parts,
                 tables |-> trial.tables, failed |-> trial.failed,
                 replaces |-> trial.replaces]
    BY <1>5 DEF IsTrial
  <2>3. PICK v : v = TRUE
    OBVIOUS
  <2>4. PICK w : w = [trial EXCEPT !.failed = v]
    OBVIOUS
  <2>5. w = [is |-> "trial", room |-> trial.room, parts |-> trial.parts,
             tables |-> trial.tables, failed |-> v, replaces |-> trial.replaces]
    BY <2>2, <2>4
  <2>6. u = [w EXCEPT !.parts = parts]
    BY <2>1, <2>3, <2>4
  <2>7. u = [is |-> "trial", room |-> trial.room, parts |-> parts, tables |-> trial.tables,
             failed |-> v, replaces |-> trial.replaces]
    BY <2>5, <2>6
  <2> QED
    BY <1>5, <2>7 DEF IsTrial
<1>7. m = [live |-> ledger.live - BuildBytes(build), kept |-> ledger.kept]
  BY <1>1, <1>3, NowFacts
<1>8. Good(maze, Limit, KeptLimit, queue, built, trial, NoBuild, m)
  BY <1>5, <1>7, GoodFree DEF GoodNow
<1>9. Good(maze, Limit, KeptLimit, queue, built, u, NoBuild, m)
  BY <1>5, <1>6, <1>8, GoodSame
<1> QED
  BY <1>1, <1>2, <1>3, <1>9 DEF GoodNext

(* A unit of the build is charged before it is done, or fails.             *)
LEMMA GoesKeeps ==
  ASSUME GoodNow, build # NoBuild, NEW n, Goes(n), UNCHANGED <<queue, built>>,
         IsSound(n), n.phase = "insert" => ledger.kept + n.stored <= KeptLimit
  PROVE  GoodNext
<1> DEFINE fits == Len(n.states) <= Cap /\ Fits(BytesOf(n) - BytesOf(build))
<1>1. \/ /\ fits
         /\ build' = n
         /\ ledger' = [ledger EXCEPT !.live = @ + BytesOf(n) - BytesOf(build)]
         /\ UNCHANGED trial
      \/ Fail
  BY Zenon DEF Goes
<1>2. CASE /\ fits
           /\ build' = n
           /\ ledger' = [ledger EXCEPT !.live = @ + BytesOf(n) - BytesOf(build)]
           /\ UNCHANGED trial
  <2>1. PICK m : m = ledger'
    OBVIOUS
  <2>2. PICK x \in Int : x = BytesOf(n)
    BY BytesAreNat DEF IsSound
  <2>3. PICK y \in Int : y = BuildBytes(build) /\ y = BytesOf(build)
    BY NowFacts
  <2>4. PICK live \in Int : live = ledger.live
    BY NowFacts
  <2>5. m = [live |-> live + x - y, kept |-> ledger.kept]
    BY <1>2, <2>1, <2>2, <2>3, <2>4, NowFacts
  <2>6. live + (x - y) <= Limit /\ Limit \in Int
    BY <1>2, <2>2, <2>3, <2>4, NowFacts DEF Fits
  <2>7. m = [live |-> ledger.live + BytesOf(n) - BuildBytes(build), kept |-> ledger.kept]
    BY <2>2, <2>3, <2>4, <2>5
  <2>8. m.live <= Limit
    <3>1. m.live = live + x - y
      BY <2>5
    <3>2. live + x - y = live + (x - y)
      OBVIOUS
    <3> QED
      BY <2>6, <3>1, <3>2
  <2>9. IsTrial(maze, trial)
    BY NowFacts
  <2>10. Good(maze, Limit, KeptLimit, queue, built, trial, n, m)
    BY <2>7, <2>8, <2>9, GoodGo DEF GoodNow
  <2> QED
    BY <1>2, <2>1, <2>10 DEF GoodNext
<1>3. CASE Fail
  BY <1>3, FailKeeps
<1> QED
  BY <1>1, <1>2, <1>3

(* A build that leaves no table is freed.                                  *)
LEMMA EndsWithNone ==
  ASSUME GoodNow, build # NoBuild, Ends({}), UNCHANGED <<queue, built>>
  PROVE  GoodNext
<1>1. /\ build' = NoBuild /\ queue' = queue /\ built' = built
      /\ trial' = [trial EXCEPT !.tables = @ \cup {}]
      /\ ledger' = [live |-> ledger.live - BytesOf(build) + KeptBytes({}),
                    kept |-> ledger.kept + KeptBytes({})]
  BY DEF Ends
<1>2. PICK u : u = trial'
  OBVIOUS
<1>3. PICK m : m = ledger'
  OBVIOUS
<1>4. IsTrial(maze, trial)
  BY NowFacts
<1>5. u = trial
  <2>1. trial.tables \cup {} = trial.tables
    OBVIOUS
  <2>2. u = [trial EXCEPT !.tables = trial.tables]
    BY <1>1, <1>2, <2>1
  <2> QED
    BY <1>4, <2>2 DEF IsTrial
<1>6. KeptBytes({}) = 0
  BY <1>4, KeptBytesFacts DEF IsTrial
<1>7. m = [live |-> ledger.live - BuildBytes(build), kept |-> ledger.kept]
  BY <1>1, <1>3, <1>6, NowFacts
<1>8. Good(maze, Limit, KeptLimit, queue, built, trial, NoBuild, m)
  BY <1>4, <1>7, GoodFree DEF GoodNow
<1> QED
  BY <1>1, <1>2, <1>3, <1>5, <1>8 DEF GoodNext

(* The table built goes to the trial.                                      *)
LEMMA EndsWithTable ==
  ASSUME GoodNow, build # NoBuild, build.phase = "insert", Ends({TableOf(build)}),
         UNCHANGED <<queue, built>>
  PROVE  GoodNext
<1>1. /\ build' = NoBuild /\ queue' = queue /\ built' = built
      /\ trial' = [trial EXCEPT !.tables = @ \cup {TableOf(build)}]
      /\ ledger' = [live |-> ledger.live - BytesOf(build) + KeptBytes({TableOf(build)}),
                    kept |-> ledger.kept + KeptBytes({TableOf(build)})]
  BY DEF Ends
<1>2. PICK u : u = trial'
  OBVIOUS
<1>3. PICK m : m = ledger'
  OBVIOUS
<1>4. IsTrial(maze, trial)
  BY NowFacts
<1>5. Good(maze, Limit, KeptLimit, queue, built, u, NoBuild, m)
  BY <1>1, <1>2, <1>3, <1>4, GoodEnd DEF GoodNow
<1> QED
  BY <1>1, <1>2, <1>3, <1>5 DEF GoodNext

LEMMA Phases ==
  ASSUME GoodNow, NEW phase, At(phase), phase # "none", Build
  PROVE  /\ build # NoBuild /\ build.phase = phase /\ IsSound(build) /\ IsBuild(build)
         /\ UNCHANGED <<queue, built>>
<1>1. build.phase = phase
  BY DEF At
<1>2. build # NoBuild
  BY <1>1 DEF NoBuild
<1> QED
  BY <1>1, <1>2, NowFacts DEF Build

LEMMA UnitsKeep ==
  ASSUME GoodNow, StartBuild \/ ForwardUnit \/ SeedUnit \/ BackUnit
  PROVE  GoodNext
<1>1. CASE StartBuild
  <2>1. At("start") /\ Goes(Started(build)) /\ Build
    BY <1>1 DEF StartBuild
  <2>2. build # NoBuild /\ IsBuild(build) /\ UNCHANGED <<queue, built>>
    BY <2>1, Phases
  <2>3. PICK n : n = Started(build)
    OBVIOUS
  <2>4. IsSound(n) /\ n.phase # "insert"
    BY <2>2, <2>3, StartedSound
  <2>5. Goes(n)
    BY <2>1, <2>3 DEF Goes
  <2> QED
    BY <2>2, <2>4, <2>5, GoesKeeps
<1>2. CASE ForwardUnit
  <2>1. At("forward") /\ Goes(Forward(build)) /\ Build
    BY <1>2 DEF ForwardUnit
  <2>2. /\ build # NoBuild /\ IsBuild(build) /\ build.phase = "forward"
        /\ UNCHANGED <<queue, built>>
    BY <2>1, Phases
  <2>3. PICK n : n = Forward(build)
    OBVIOUS
  <2>4. IsSound(n) /\ n.phase # "insert"
    BY <2>2, <2>3, ForwardSound
  <2>5. Goes(n)
    BY <2>1, <2>3 DEF Goes
  <2> QED
    BY <2>2, <2>4, <2>5, GoesKeeps
<1>3. CASE SeedUnit
  <2>1. At("seed") /\ Goes(Seed(build)) /\ Build
    BY <1>3 DEF SeedUnit
  <2>2. build # NoBuild /\ IsBuild(build) /\ UNCHANGED <<queue, built>>
    BY <2>1, Phases
  <2>3. PICK n : n = Seed(build)
    OBVIOUS
  <2>4. IsSound(n) /\ n.phase # "insert"
    BY <2>2, <2>3, SeedSound
  <2>5. Goes(n)
    BY <2>1, <2>3 DEF Goes
  <2> QED
    BY <2>2, <2>4, <2>5, GoesKeeps
<1>4. CASE BackUnit
  <2>1. At("back") /\ Goes(BackPop(build)) /\ Build
    BY <1>4 DEF BackUnit
  <2>2. /\ build # NoBuild /\ IsBuild(build) /\ build.phase = "back"
        /\ UNCHANGED <<queue, built>>
    BY <2>1, Phases
  <2>3. PICK n : n = BackPop(build)
    OBVIOUS
  <2>4. IsSound(n) /\ n.phase # "insert"
    BY <2>2, <2>3, BackPopSound
  <2>5. Goes(n)
    BY <2>1, <2>3 DEF Goes
  <2> QED
    BY <2>2, <2>4, <2>5, GoesKeeps
<1> QED
  BY <1>1, <1>2, <1>3, <1>4

LEMMA BackLevelKeeps ==
  ASSUME GoodNow, BackLevel
  PROVE  GoodNext
<1>1. At("back") /\ Build /\ (Goes(NextLevel(build)) \/ Fail)
  BY DEF BackLevel
<1>2. build # NoBuild /\ IsBuild(build) /\ build.phase = "back" /\ UNCHANGED <<queue, built>>
  BY <1>1, Phases
<1>3. CASE Goes(NextLevel(build))
  <2>1. PICK n : n = NextLevel(build)
    OBVIOUS
  <2>2. IsSound(n) /\ n.phase # "insert"
    BY <1>2, <2>1, NextLevelSound
  <2>3. Goes(n)
    BY <1>3, <2>1 DEF Goes
  <2> QED
    BY <1>2, <2>2, <2>3, GoesKeeps
<1>4. CASE Fail
  BY <1>2, <1>4, FailKeeps
<1> QED
  BY <1>1, <1>3, <1>4

(* The values are allocated only where they fit what may be kept.          *)
LEMMA BackEndKeeps ==
  ASSUME GoodNow, BackEnd
  PROVE  GoodNext
<1>1. /\ At("back") /\ Build
      /\ \/ Ends({})
         \/ FitsKept(Cardinality(Finite(build))) /\ Goes(Allocated(build))
         \/ Fail
  BY DEF BackEnd
<1>2. build # NoBuild /\ IsBuild(build) /\ UNCHANGED <<queue, built>>
  BY <1>1, Phases
<1>3. CASE Ends({})
  BY <1>2, <1>3, EndsWithNone
<1>4. CASE FitsKept(Cardinality(Finite(build))) /\ Goes(Allocated(build))
  <2>1. PICK n : n = Allocated(build)
    OBVIOUS
  <2>2. IsSound(n) /\ n.stored = Cardinality(Finite(build))
    BY <1>2, <2>1, AllocatedSound
  <2>3. ledger.kept + n.stored <= KeptLimit
    BY <1>4, <2>2 DEF FitsKept
  <2>4. Goes(n)
    BY <1>4, <2>1 DEF Goes
  <2> QED
    BY <1>2, <2>2, <2>3, <2>4, GoesKeeps
<1>5. CASE Fail
  BY <1>2, <1>5, FailKeeps
<1> QED
  BY <1>1, <1>3, <1>4, <1>5

LEMMA InsertUnitKeeps ==
  ASSUME GoodNow, InsertUnit
  PROVE  GoodNext
<1>1. At("insert") /\ Build /\ (Goes(Insert(build)) \/ Ends({TableOf(build)}))
  BY DEF InsertUnit
<1>2. build # NoBuild /\ IsSound(build) /\ build.phase = "insert" /\ UNCHANGED <<queue, built>>
  BY <1>1, Phases
<1>3. CASE Goes(Insert(build))
  <2>1. PICK n : n = Insert(build)
    OBVIOUS
  <2>2. IsSound(n) /\ n.stored = build.stored
    BY <1>2, <2>1, InsertSound
  <2>3. trial # NoTrial
    BY <1>2, NowFacts
  <2>4. ledger.kept + build.stored <= KeptLimit
    BY <1>2, <2>3 DEF GoodNow, Good, Accounts
  <2>5. Goes(n)
    BY <1>3, <2>1 DEF Goes
  <2> QED
    BY <1>2, <2>2, <2>4, <2>5, GoesKeeps
<1>4. CASE Ends({TableOf(build)})
  BY <1>2, <1>4, EndsWithTable
<1> QED
  BY <1>1, <1>3, <1>4

(* The trial's end, its build freed and its moves no longer charged.       *)
LEMMA ConcludesKeeps ==
  ASSUME NEW l, Good(maze, Limit, KeptLimit, queue, built, trial, NoBuild, l),
         trial # NoTrial, l.kept = ledger.kept, ledger = [live |-> ledger.live, kept |-> ledger.kept],
         NEW u, IsTrial(maze, u), u.room = trial.room, u.tables = trial.tables,
         NEW live, live = l.live - MovesBytes(MovesOf(maze, u.room)),
         Concludes(u, live), queue' = queue
  PROVE  GoodNext
<1>1. /\ trial' = NoTrial /\ build' = NoBuild
      /\ \/ /\ u.tables # {}
            /\ built' = (built \ Enclosed(u.room)) \cup {[room |-> u.room, tables |-> u.tables]}
            /\ ledger' = [ledger EXCEPT !.live = live - HeldBy(maze, Enclosed(u.room))]
         \/ /\ ledger' = [live |-> live - RoomBytes(maze, u.room),
                          kept |-> ledger.kept + KeptOf(Enclosed(u.room))]
            /\ built' = built
  BY DEF Concludes, Keeps
<1>2. IsTrial(maze, trial)
  BY DEF Good, Typed
<1>3. Good(maze, Limit, KeptLimit, queue, built, u, NoBuild, l)
  BY <1>2, GoodSame
<1>4. Enclosed(u.room) = EnclosedIn(built, u.room)
  BY DEF Enclosed, EnclosedIn
<1>5. CASE /\ u.tables # {}
           /\ built' = (built \ Enclosed(u.room)) \cup {[room |-> u.room, tables |-> u.tables]}
           /\ ledger' = [ledger EXCEPT !.live = live - HeldBy(maze, Enclosed(u.room))]
  <2>1. PICK m : m = [live |-> l.live - MovesBytes(MovesOf(maze, u.room))
                                 - HeldBy(maze, EnclosedIn(built, u.room)),
                      kept |-> l.kept]
    OBVIOUS
  <2>2. PICK new : new = (built \ EnclosedIn(built, u.room))
                            \cup {[room |-> u.room, tables |-> u.tables]}
    OBVIOUS
  <2>3. Good(maze, Limit, KeptLimit, queue, new, NoTrial, NoBuild, m)
    BY <1>3, <1>5, <2>1, <2>2, GoodKeep
  <2>4. built' = new
    BY <1>4, <1>5, <2>2
  <2>5. ledger' = m
    <3>1. PICK left : left = live - HeldBy(maze, Enclosed(u.room))
      OBVIOUS
    <3>2. ledger' = [ledger EXCEPT !.live = left]
      BY <1>5, <3>1
    <3>3. ledger' = [live |-> left, kept |-> ledger.kept]
      BY <3>2
    <3>4. m = [live |-> left, kept |-> l.kept]
      BY <1>4, <2>1, <3>1
    <3> QED
      BY <3>3, <3>4
  <2> QED
    BY <1>1, <2>3, <2>4, <2>5 DEF GoodNext
<1>6. CASE /\ ledger' = [live |-> live - RoomBytes(maze, u.room),
                         kept |-> ledger.kept + KeptOf(Enclosed(u.room))]
           /\ built' = built
  <2>1. PICK m : m = [live |-> l.live - MovesBytes(MovesOf(maze, u.room)) - RoomBytes(maze, u.room),
                      kept |-> l.kept + KeptOf(EnclosedIn(built, u.room))]
    OBVIOUS
  <2>2. Good(maze, Limit, KeptLimit, queue, built, NoTrial, NoBuild, m)
    BY <1>3, <2>1, GoodLeave
  <2>3. ledger' = m
    BY <1>4, <1>6, <2>1
  <2> QED
    BY <1>1, <1>6, <2>2, <2>3 DEF GoodNext
<1> QED
  BY <1>1, <1>5, <1>6

LEMMA ConcludeKeeps ==
  ASSUME GoodNow, Conclude
  PROVE  GoodNext
<1>1. /\ trial # NoTrial /\ build = NoBuild /\ queue' = queue
      /\ Concludes(trial, ledger.live - MovesBytes(MovesOf(maze, trial.room)))
  BY DEF Conclude, Trying
<1>2. IsTrial(maze, trial) /\ ledger = [live |-> ledger.live, kept |-> ledger.kept]
  BY <1>1, NowFacts
<1>3. Good(maze, Limit, KeptLimit, queue, built, trial, NoBuild, ledger)
  BY <1>1 DEF GoodNow
<1> QED
  BY <1>1, <1>2, <1>3, ConcludesKeeps

LEMMA AbandonKeeps ==
  ASSUME GoodNow, Abandon
  PROVE  GoodNext
<1> DEFINE flying == build # NoBuild
           live   == ledger.live - MovesBytes(MovesOf(maze, trial.room))
<1>1. trial # NoTrial /\ queue' = queue
  BY DEF Abandon
<1>2. Concludes([trial EXCEPT !.failed = @ \/ flying], IF flying THEN live - BytesOf(build) ELSE live)
  BY Zenon DEF Abandon
<1>3. IsTrial(maze, trial) /\ maze \in Boards
  BY <1>1, NowFacts
<1>4. PICK l : l = [live |-> ledger.live - BuildBytes(build), kept |-> ledger.kept]
  OBVIOUS
<1>5. Good(maze, Limit, KeptLimit, queue, built, trial, NoBuild, l)
  BY <1>3, <1>4, GoodFree DEF GoodNow
<1>6. PICK u : u = [trial EXCEPT !.failed = @ \/ flying]
  OBVIOUS
<1>7. PICK v : v = (trial.failed \/ flying)
  OBVIOUS
<1>8. IsTrial(maze, u) /\ u.room = trial.room /\ u.tables = trial.tables
  <2>1. trial = [is |-> "trial", room |-> trial.room, parts |-> trial.parts,
                 tables |-> trial.tables, failed |-> trial.failed,
                 replaces |-> trial.replaces]
    BY <1>3 DEF IsTrial
  <2>2. u = [trial EXCEPT !.failed = v]
    BY <1>6, <1>7
  <2>3. u = [is |-> "trial", room |-> trial.room, parts |-> trial.parts,
             tables |-> trial.tables, failed |-> v, replaces |-> trial.replaces]
    BY <2>1, <2>2
  <2> QED
    BY <1>3, <2>3 DEF IsTrial
<1>9. PICK left : left = IF flying THEN live - BytesOf(build) ELSE live
  OBVIOUS
<1>10. left = l.live - MovesBytes(MovesOf(maze, u.room))
  <2>1. PICK a \in Int : a = ledger.live
    BY NowFacts
  <2>2. PICK c \in Nat : c = MovesBytes(MovesOf(maze, trial.room))
    BY <1>3, TrialBytesFacts
  <2>3. l.live = a - BuildBytes(build)
    BY <1>4, <2>1
  <2>4. CASE flying
    <3>1. PICK y \in Int : y = BytesOf(build) /\ y = BuildBytes(build)
      BY <2>4, NowFacts
    <3>2. left = (a - c) - y /\ l.live = a - y
      BY <1>9, <2>1, <2>2, <2>3, <2>4, <3>1
    <3> QED
      BY <1>8, <2>2, <3>2
  <2>5. CASE ~flying
    <3>1. BuildBytes(build) = 0
      BY <2>5 DEF BuildBytes
    <3>2. left = a - c /\ l.live = a
      BY <1>9, <2>1, <2>2, <2>3, <2>5, <3>1
    <3> QED
      BY <1>8, <2>2, <3>2
  <2> QED
    BY <2>4, <2>5
<1>11. Concludes(u, left)
  BY <1>2, <1>6, <1>9 DEF Concludes
<1>12. l.kept = ledger.kept /\ ledger = [live |-> ledger.live, kept |-> ledger.kept]
  BY <1>4, NowFacts
<1> QED
  BY <1>1, <1>5, <1>8, <1>10, <1>11, <1>12, ConcludesKeeps

-----------------------------------------------------------------------------
(* The accounts are good from the moment there is a build to speak of.     *)
IInv ==
  /\ maze \in Boards /\ budget \in Searches
  /\ bound.is # "none" => GoodNow

LEMMA LimitsAreInts ==
  ASSUME budget \in Searches
  PROVE  Limit \in Int /\ KeptLimit \in Nat
<1>1. PICK m \in Nat : m = budget.memory
  BY BoundAssumption
<1>2. PICK h \in Nat : h = budget.held
  BY BoundAssumption
<1>3. PICK k \in Nat \ {0} : k = KeptShare
  BY BoundAssumption
<1>4. m \div k \in Nat
  BY <1>3
<1> QED
  BY <1>1, <1>2, <1>3, <1>4 DEF Limit, KeptLimit

LEMMA InitHolds == Init => IInv
<1> SUFFICES ASSUME Init, bound.is # "none"
             PROVE  GoodNow
  BY DEF Init, IInv
<1>1. /\ maze \in Boards /\ budget \in Searches
      /\ queue = Found[maze] /\ built = {} /\ trial = NoTrial /\ build = NoBuild
      /\ ledger = [live |-> FirstBytes(maze), kept |-> 0] /\ ledger.live <= Limit
  BY DEF Init
<1>2. Limit \in Int /\ KeptLimit \in Nat
  BY <1>1, LimitsAreInts
<1>3. queue \in Seq(Rooms(maze)) /\ IsInjective(queue)
  BY <1>1, FoundAssumption
<1>4. IsRooms(maze, {})
  BY FS_EmptySet DEF IsRooms
<1>5. KeptOf({}) = 0 /\ GeometryOf(maze, {}) = 0
  BY <1>1, <1>4, KeptOfFacts, GeometryFacts
<1>6. PICK o \in Nat : o = Cardinality(maze.open)
  BY <1>1, FoundAssumption, SizeIsNat
<1>7. PICK f \in Nat : f = Len(Found[maze])
  BY <1>1, FoundAssumption, LenProperties
<1>8. PICK s \in Nat : s = QueuedBytes(ToSet(queue))
  BY <1>1, <1>3, QueueFacts
<1>9. FirstBytes(maze) = o + o + 2 * f + s
  BY <1>1, <1>6, <1>7, <1>8 DEF FirstBytes, HallBytes
<1>10. ledger = [live |-> o + o + 2 * f + s, kept |-> 0]
  BY <1>1, <1>9
<1>11. Typed(maze, queue, built, trial, build, ledger)
  BY <1>1, <1>3, <1>4, <1>10 DEF Typed
<1>12. HeldIn(maze, queue, built, trial, build) = 0 + 0 + (2 * o + 2 * f) + s + 0 + 0
  <2>1. HeldBy(maze, {}) = 0 + 0
    BY <1>5 DEF HeldBy
  <2>2. Base(maze) = 2 * o + 2 * f
    BY <1>6, <1>7 DEF Base
  <2>3. TrialBytes(maze, NoTrial) = 0 /\ BuildBytes(NoBuild) = 0
    BY DEF TrialBytes, BuildBytes
  <2> QED
    BY <1>1, <1>8, <2>1, <2>2, <2>3 DEF HeldIn
<1>13. HeldIn(maze, queue, built, trial, build) <= o + o + 2 * f + s
  BY <1>12
<1>14. Accounts(maze, Limit, KeptLimit, queue, built, trial, build, ledger)
  BY <1>1, <1>2, <1>5, <1>10, <1>13 DEF Accounts
<1> QED
  BY <1>1, <1>2, <1>11, <1>14 DEF GoodNow, Good

LEMMA StepKeeps == IInv /\ [Next]_vars => IInv'
<1> SUFFICES ASSUME IInv, [Next]_vars
             PROVE  IInv'
  OBVIOUS
<1>1. maze' = maze /\ budget' = budget
  BY DEF vars, Next, BuildStep, Skip, Begin, Part, StartBuild, ForwardUnit, SeedUnit, BackUnit,
         BackLevel, BackEnd, InsertUnit, Conclude, Abandon, Finish, ExpandBounded, PopBounded,
         Rest, Build
<1>2. GoodNext => GoodNow'
  BY <1>1 DEF GoodNext, GoodNow, Limit, KeptLimit
<1>3. CASE BuildStep /\ ~Finish
  <2>1. bound.is # "none"
    BY <1>3 DEF BuildStep, Skip, Begin, Part, StartBuild, ForwardUnit, SeedUnit, BackUnit,
                BackLevel, BackEnd, InsertUnit, Conclude, Abandon, Idle, Trying, At
  <2>2. GoodNow
    BY <2>1 DEF IInv
  <2>3. GoodNext
    BY <1>3, <2>2, SkipKeeps, BeginKeeps, PartKeeps, UnitsKeep, BackLevelKeeps, BackEndKeeps,
       InsertUnitKeeps, ConcludeKeeps, AbandonKeeps, Zenon DEF BuildStep
  <2> QED
    BY <1>1, <1>2, <2>3 DEF IInv
<1>4. CASE Finish \/ ExpandBounded \/ PopBounded \/ UNCHANGED vars
  <2>1. UNCHANGED <<queue, built, trial, build, ledger>>
    BY <1>4 DEF Finish, ExpandBounded, PopBounded, vars, buildVars
  <2>2. bound'.is # "none" => bound.is # "none"
    BY <1>4 DEF Finish, Idle, ExpandBounded, PopBounded, vars, buildVars
  <2>3. GoodNow => GoodNow'
    BY <1>1, <2>1 DEF GoodNow, Limit, KeptLimit
  <2> QED
    BY <1>1, <2>2, <2>3 DEF IInv
<1> QED
  BY <1>3, <1>4 DEF Next

LEMMA KeptFollows == IInv => MemoryKept
<1> SUFFICES ASSUME IInv, bound.is # "none"
             PROVE  Holds <= ledger.live /\ ledger.live <= Limit /\ KeptOf(built) <= KeptLimit
  BY DEF MemoryKept
<1>1. /\ HeldIn(maze, queue, built, trial, build) <= ledger.live
      /\ ledger.live <= Limit /\ KeptOf(built) <= KeptLimit
  BY DEF IInv, GoodNow, Good, Accounts
<1>2. Holds = HeldIn(maze, queue, built, trial, build)
  <2>1. maze \in Boards /\ Typed(maze, queue, built, trial, build, ledger)
    BY DEF IInv, GoodNow, Good
  <2>2. PICK h \in Nat : h = HeldBy(maze, built)
    BY <2>1, HeldFacts
  <2>3. PICK s \in Nat : s = QueuedBytes(ToSet(queue))
    BY <2>1, HeldFacts
  <2>4. PICK t \in Nat : t = TrialBytes(maze, trial)
    BY <2>1, HeldFacts
  <2>5. PICK d \in Nat : d = BuildBytes(build)
    BY <2>1, HeldFacts
  <2>6. PICK o \in Nat : o = Cardinality(maze.open)
    BY <2>1, FoundAssumption, SizeIsNat
  <2>7. PICK f \in Nat : f = Len(Found[maze])
    BY <2>1, FoundAssumption, LenProperties
  <2>8. HeldIn(maze, queue, built, trial, build) = h + (2 * o + 2 * f) + s + t + d
    BY <2>2, <2>3, <2>4, <2>5, <2>6, <2>7 DEF HeldIn, Base
  <2>9. Holds = h + 2 * o + 2 * f + s + t + d
    BY <2>2, <2>3, <2>4, <2>5, <2>6, <2>7 DEF Holds, TrialBytes, BuildBytes
  <2> QED
    BY <2>8, <2>9
<1> QED
  BY <1>1, <1>2

(* The build of the room bound stays within the memory the search gives    *)
(* it, whatever the board, its candidates and the limits: what it holds is *)
(* charged before it is held, through every unit of every table, every     *)
(* failure, split, replacement and give-up, and the kept tables stay       *)
(* within their share.                                                     *)
THEOREM RoomMemoryKept == Spec => []MemoryKept
<1>1. Init => IInv
  BY InitHolds
<1>2. IInv /\ [Next]_vars => IInv'
  BY StepKeeps
<1>3. IInv => MemoryKept
  BY KeptFollows
<1> QED
  BY <1>1, <1>2, <1>3, PTL DEF Spec

=============================================================================
