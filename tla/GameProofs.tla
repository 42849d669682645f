----------------------------- MODULE GameProofs -----------------------------
(***************************************************************************)
(* Proofs that a play session is the replay of its own route, for every    *)
(* board, route limit and length of play.                                  *)
(***************************************************************************)
EXTENDS Game, FiniteSetTheorems, SequenceTheorems, WellFoundedInduction, TLAPS

-----------------------------------------------------------------------------
(* Sets of numbers and functions defined by recursion on them.             *)

(* Every set of natural numbers but the empty one has a least member.      *)
LEMMA LeastNumber ==
  ASSUME NEW S \in SUBSET Nat, S # {}
  PROVE  \E m \in S : \A k \in S : m <= k
<1>1. PICK m \in S : \A k \in S : ~(<<k, m>> \in OpToRel(<, Nat))
  BY NatLessThanWellFounded, WFMin
<1>2. \A k \in S : ~(k < m)
  BY <1>1 DEF OpToRel
<1> QED
  BY <1>2

(* The games along a route are what their definition says: the new game,   *)
(* then every legal next one.                                              *)
Along(b, r, f, n) ==
  f = [k \in 0 .. n |-> IF k = 0 THEN {NewGame(b)}
                        ELSE UNION {Played(b, g, r[k]) : g \in f[k - 1]}]

LEMMA AlongExists ==
  ASSUME NEW b, NEW r, NEW n \in Nat
  PROVE  \E f : Along(b, r, f, n)
<1> DEFINE T == {k \in Nat : ~ \E f : Along(b, r, f, k)}
<1> SUFFICES ASSUME T # {} PROVE FALSE
  OBVIOUS
<1> HIDE DEF T
<1>1. PICK m \in T : \A k \in T : m <= k
  BY LeastNumber DEF T
<1>m. m \in Nat
  BY DEF T
<1>2. CASE m = 0
  <2>1. Along(b, r, [k \in 0 .. 0 |-> {NewGame(b)}], 0)
    BY DEF Along
  <2> QED
    BY <1>1, <1>2, <2>1 DEF T
<1>3. CASE m # 0
  <2>1. m - 1 \in Nat /\ m - 1 \notin T
    BY <1>1, <1>m, <1>3
  <2>2. PICK f : Along(b, r, f, m - 1)
    BY <2>1 DEF T
  <2> DEFINE h == [k \in 0 .. m |-> IF k = 0 THEN {NewGame(b)}
                                    ELSE UNION {Played(b, g, r[k]) : g \in f[k - 1]}]
  <2>3. \A k \in 0 .. m - 1 : h[k] = f[k]
    <3> SUFFICES ASSUME NEW k \in 0 .. m - 1 PROVE h[k] = f[k]
      OBVIOUS
    <3>1. k \in 0 .. m
      BY <1>m
    <3> QED
      BY <2>2, <3>1 DEF Along
  <2>4. \A k \in 0 .. m : k # 0 => f[k - 1] = h[k - 1]
    <3> HIDE DEF h
    <3> SUFFICES ASSUME NEW k \in 0 .. m, k # 0 PROVE f[k - 1] = h[k - 1]
      OBVIOUS
    <3>1. k - 1 \in 0 .. m - 1
      BY <1>m
    <3> QED
      BY <2>3, <3>1
  <2>5. h = [k \in 0 .. m |-> IF k = 0 THEN {NewGame(b)}
                              ELSE UNION {Played(b, g, r[k]) : g \in h[k - 1]}]
    BY <2>4
  <2>6. Along(b, r, h, m)
    BY <2>5 DEF Along
  <2> QED
    BY <1>1, <2>6 DEF T
<1> QED
  BY <1>2, <1>3

LEMMA AlongUnfolds ==
  ASSUME NEW b, NEW r, Len(r) \in Nat
  PROVE  LET f == GamesAlong(b, r)
         IN  /\ f[0] = {NewGame(b)}
             /\ \A n \in 1 .. Len(r) : f[n] = UNION {Played(b, g, r[n]) : g \in f[n - 1]}
<1> DEFINE f == GamesAlong(b, r)
<1>1. \E h : Along(b, r, h, Len(r))
  BY AlongExists
<1>2. Along(b, r, f, Len(r))
  BY <1>1 DEF Along, GamesAlong
<1>3. f[0] = {NewGame(b)}
  BY <1>2 DEF Along
<1>4. ASSUME NEW n \in 1 .. Len(r)
      PROVE  f[n] = UNION {Played(b, g, r[n]) : g \in f[n - 1]}
  <2>1. n \in 0 .. Len(r) /\ n # 0
    OBVIOUS
  <2> QED
    BY <1>2, <2>1 DEF Along
<1> QED
  BY <1>3, <1>4

-----------------------------------------------------------------------------
(* One step, and the undo that takes it back.                              *)

Positions(b) == [player : b.open, boxes : [DOMAIN b.labels -> b.open]]

Undos(b) == [player : b.open, pushed : SUBSET DOMAIN b.labels]

Sessions(b) ==
  [state : Positions(b), pushes : Nat, history : Seq(Undos(b)), actions : Seq(Dirs)]

Proper(b, g) ==
  g \in Sessions(b) /\ Legal(b, g.state) /\ Len(g.history) = Len(g.actions)

LEMMA FrontOfAppend ==
  ASSUME NEW S, NEW q \in Seq(S), NEW e \in S
  PROVE  Front(Append(q, e)) = q
<1>1. /\ Append(q, e) \in Seq(S) /\ Len(Append(q, e)) = Len(q) + 1
      /\ \A i \in 1 .. Len(q) : Append(q, e)[i] = q[i]
      /\ Len(q) \in Nat
  BY AppendProperties, LenProperties
<1>2. Front(Append(q, e)) = [i \in 1 .. Len(q) |-> Append(q, e)[i]]
  BY <1>1 DEF Front
<1>3. q = [i \in 1 .. Len(q) |-> q[i]]
  BY LenProperties
<1> QED
  BY <1>1, <1>2, <1>3

(* A cell and the next one differ.                                         *)
LEMMA BeyondMoves ==
  ASSUME NEW c \in Int \X Int, NEW d \in Dirs
  PROVE  Beyond(c, d) # c
<1>1. c = <<c[1], c[2]>> /\ c[1] \in Int /\ c[2] \in Int
  OBVIOUS
<1>2. \/ Beyond(c, d) = <<c[1] - 1, c[2]>>
      \/ Beyond(c, d) = <<c[1] + 1, c[2]>>
      \/ Beyond(c, d) = <<c[1], c[2] - 1>>
      \/ Beyond(c, d) = <<c[1], c[2] + 1>>
  BY DEF Beyond, Dirs
<1> QED
  BY <1>1, <1>2

(* A step leaves a legal position, and putting the box it pushed where the *)
(* player stands, and the player back, restores the one before.            *)
LEMMA StepFacts ==
  ASSUME NEW b \in Boards, NEW s \in Positions(b), Legal(b, s), NEW d \in Dirs,
         NEW p \in Steps(b, s, d)
  PROVE  /\ p.state \in Positions(b) /\ Legal(b, p.state)
         /\ p.pushed \subseteq DOMAIN b.labels
         /\ Cardinality(p.pushed) \in Nat
         /\ s.boxes = [i \in DOMAIN p.state.boxes |->
                         IF i \in p.pushed THEN p.state.player ELSE p.state.boxes[i]]
<1> DEFINE next == Beyond(s.player, d)
           far  == Beyond(next, d)
           hit  == {i \in DOMAIN s.boxes : s.boxes[i] = next}
           moved == [i \in DOMAIN s.boxes |-> IF i \in hit THEN far ELSE s.boxes[i]]
<1>1. /\ s.player \in b.open /\ s.boxes \in [DOMAIN b.labels -> b.open]
      /\ DOMAIN s.boxes = DOMAIN b.labels
      /\ b.open \subseteq Int \X Int
  BY GameAssumption DEF Positions
<1>2. /\ p.state = [player |-> next, boxes |-> moved] /\ p.pushed = hit
      /\ next \in b.open
      /\ hit # {} => /\ far \in b.open
                     /\ \A i \in DOMAIN s.boxes : s.boxes[i] # far
  BY DEF Steps
<1>3. p.state.player = next /\ p.state.boxes = moved
  BY <1>2
<1>4. far # next
  BY <1>1, <1>2, BeyondMoves
<1>5. \A i \in DOMAIN b.labels : moved[i] = IF i \in hit THEN far ELSE s.boxes[i]
  BY <1>1
<1>6. /\ \A i \in DOMAIN s.boxes : s.boxes[i] \in b.open \ {s.player}
      /\ \A i, j \in DOMAIN s.boxes : i # j => s.boxes[i] # s.boxes[j]
  BY DEF Legal
<1>7. moved \in [DOMAIN b.labels -> b.open]
  BY <1>1, <1>2
<1>8. p.state \in Positions(b)
  BY <1>2, <1>7 DEF Positions
<1>9. Legal(b, p.state)
  <2>1. DOMAIN moved = DOMAIN b.labels
    BY <1>1
  <2> HIDE DEF moved, far, next
  <2>2. ASSUME NEW i \in DOMAIN moved PROVE moved[i] \in b.open \ {next}
    BY <1>1, <1>2, <1>4, <1>5, <2>1
  <2>3. ASSUME NEW i \in DOMAIN moved, NEW j \in DOMAIN moved, i # j
        PROVE  moved[i] # moved[j]
    BY <1>1, <1>2, <1>5, <1>6, <2>1, <2>3
  <2> QED
    BY <1>2, <1>3, <2>2, <2>3 DEF Legal
<1>10. Cardinality(hit) \in Nat
  <2>1. \A i, j \in hit : i = j
    BY <1>6
  <2>2. hit = {} \/ \E i \in hit : hit = {i}
    BY <2>1
  <2> QED
    BY <2>2, FS_EmptySet, FS_Singleton
<1>11. s.boxes = [i \in DOMAIN moved |-> IF i \in hit THEN next ELSE moved[i]]
  BY <1>1
<1> QED
  BY <1>1, <1>2, <1>3, <1>8, <1>9, <1>10, <1>11

(* A move adds to the route what undo takes off, and leads to one game.    *)
LEMMA PlayedFacts ==
  ASSUME NEW b \in Boards, NEW g, Proper(b, g), NEW d \in Dirs, NEW h \in Played(b, g, d)
  PROVE  /\ Proper(b, h)
         /\ h.actions = Append(g.actions, d)
         /\ Moves(g) < MaxRoute
         /\ Undone(h) = g
         /\ \A k \in Played(b, g, d) : k = h
<1>1. /\ g \in Sessions(b) /\ Legal(b, g.state) /\ Len(g.history) = Len(g.actions)
      /\ g.state \in Positions(b) /\ g.pushes \in Nat /\ g.actions \in Seq(Dirs)
      /\ g.history \in Seq(Undos(b))
  BY DEF Proper, Sessions
<1> DEFINE After(p) == [state   |-> p.state,
                        pushes  |-> g.pushes + Cardinality(p.pushed),
                        history |-> Append(g.history, [player |-> g.state.player,
                                                       pushed |-> p.pushed]),
                        actions |-> Append(g.actions, d)]
<1>2. PICK p \in Steps(b, g.state, d) : h = After(p)
  BY DEF Played
<1>3. ~(SolvedIn(b, g.state) \/ Moves(g) >= MaxRoute)
  BY DEF Played
<1>4. Moves(g) < MaxRoute
  BY <1>1, <1>3, GameAssumption, LenProperties DEF Moves
<1>5. /\ p.state \in Positions(b) /\ Legal(b, p.state)
      /\ p.pushed \subseteq DOMAIN b.labels
      /\ Cardinality(p.pushed) \in Nat
      /\ g.state.boxes = [i \in DOMAIN p.state.boxes |->
                            IF i \in p.pushed THEN p.state.player ELSE p.state.boxes[i]]
  BY <1>1, StepFacts
<1> DEFINE u == [player |-> g.state.player, pushed |-> p.pushed]
<1>6. u \in Undos(b)
  BY <1>1, <1>5 DEF Positions, Undos
<1>7. /\ h.state = p.state /\ h.pushes = g.pushes + Cardinality(p.pushed)
      /\ h.history = Append(g.history, u) /\ h.actions = Append(g.actions, d)
  BY <1>2
<1>8. Proper(b, h)
  BY <1>1, <1>2, <1>5, <1>6, <1>7, AppendProperties DEF Proper, Sessions
<1>9. Undone(h) = g
  <2>1. Last(h.history) = u
    BY <1>1, <1>6, <1>7, AppendProperties, LenProperties DEF Last
  <2>2. Front(h.history) = g.history /\ Front(h.actions) = g.actions
    <3> HIDE DEF u
    <3>1. Front(Append(g.history, u)) = g.history
      BY <1>1, <1>6, FrontOfAppend
    <3>2. Front(Append(g.actions, d)) = g.actions
      BY <1>1, FrontOfAppend
    <3> QED
      BY <1>7, <3>1, <3>2
  <2>3. h.pushes - Cardinality(p.pushed) = g.pushes
    BY <1>1, <1>5, <1>7
  <2>4. g = [state |-> g.state, pushes |-> g.pushes, history |-> g.history,
             actions |-> g.actions]
    BY <1>1 DEF Sessions
  <2>5. g.state = [player |-> g.state.player, boxes |-> g.state.boxes]
    BY <1>1 DEF Positions
  <2>6. u.player = g.state.player /\ u.pushed = p.pushed
    OBVIOUS
  <2> HIDE DEF u
  <2> QED
    BY <1>5, <1>7, <2>1, <2>2, <2>3, <2>4, <2>5, <2>6 DEF Undone
<1>10. ASSUME NEW k \in Played(b, g, d) PROVE k = h
  <2>1. PICK q \in Steps(b, g.state, d) : k = After(q)
    BY <1>10 DEF Played
  <2>2. p = q
    BY DEF Steps
  <2> QED
    BY <1>2, <2>1, <2>2
<1> QED
  BY <1>4, <1>7, <1>8, <1>9, <1>10

-----------------------------------------------------------------------------
(* The games along a route.                                                *)

LEMMA NewGameFits ==
  ASSUME NEW b \in Boards
  PROVE  Proper(b, NewGame(b)) /\ NewGame(b).actions = << >>
<1>1. /\ << >> \in Seq(Dirs) /\ Len(<< >>) = 0
      /\ << >> \in Seq(Undos(b))
  BY EmptySeq
<1> QED
  BY <1>1, GameAssumption DEF NewGame, Proper, Sessions, Positions

(* After n moves there is at most one game, and it has played them.        *)
LEMMA AlongFacts ==
  ASSUME NEW b \in Boards, NEW r \in Seq(Dirs), NEW n \in 0 .. Len(r),
         NEW g \in GamesAlong(b, r)[n]
  PROVE  /\ Proper(b, g)
         /\ Len(g.actions) = n /\ \A i \in 1 .. n : g.actions[i] = r[i]
         /\ \A h \in GamesAlong(b, r)[n] : h = g
<1> DEFINE f == GamesAlong(b, r)
           Good(k, h) == /\ Proper(b, h)
                         /\ Len(h.actions) = k /\ \A i \in 1 .. k : h.actions[i] = r[i]
                         /\ \A j \in f[k] : j = h
           T == {k \in 0 .. Len(r) : \E h \in f[k] : ~Good(k, h)}
<1>1. Len(r) \in Nat
  BY LenProperties
<1>2. /\ f[0] = {NewGame(b)}
      /\ \A k \in 1 .. Len(r) : f[k] = UNION {Played(b, h, r[k]) : h \in f[k - 1]}
  BY <1>1, AlongUnfolds
<1> SUFFICES ASSUME T # {} PROVE FALSE
  OBVIOUS
<1> HIDE DEF f, Good, T
<1>3. PICK m \in T : \A k \in T : m <= k
  <2>1. T \in SUBSET Nat
    BY <1>1 DEF T
  <2> QED
    BY <2>1, LeastNumber
<1>4. m \in 0 .. Len(r)
  BY DEF T
<1>5. PICK h \in f[m] : ~Good(m, h)
  BY DEF T
<1>6. CASE m = 0
  <2>1. h = NewGame(b)
    BY <1>2, <1>5, <1>6
  <2>2. Len(<< >>) = 0
    OBVIOUS
  <2>3. Good(0, h)
    BY <1>2, <2>1, <2>2, NewGameFits DEF Good
  <2> QED
    BY <1>5, <1>6, <2>3
<1>7. CASE m # 0
  <2>1. m - 1 \in 0 .. Len(r) /\ m \in 1 .. Len(r) /\ ~(m <= m - 1)
    BY <1>1, <1>4, <1>7
  <2>2. \A j \in f[m - 1] : Good(m - 1, j)
    BY <1>3, <2>1 DEF T
  <2>3. f[m] = UNION {Played(b, j, r[m]) : j \in f[m - 1]}
    BY <1>2, <2>1
  <2>4. PICK j \in f[m - 1] : h \in Played(b, j, r[m])
    BY <1>5, <2>3
  <2>5. Good(m - 1, j)
    BY <2>2
  <2>6. r[m] \in Dirs
    BY <2>1, ElementOfSeq
  <2>7. /\ Proper(b, h) /\ h.actions = Append(j.actions, r[m])
        /\ \A k \in Played(b, j, r[m]) : k = h
    BY <2>4, <2>5, <2>6, PlayedFacts DEF Good
  <2>8. \A k \in f[m] : k = h
    BY <2>3, <2>5, <2>7 DEF Good
  <2>9. j.actions \in Seq(Dirs) /\ Len(j.actions) = m - 1
    BY <2>5 DEF Good, Proper, Sessions
  <2>10. /\ Len(h.actions) = (m - 1) + 1
         /\ \A i \in 1 .. m - 1 : h.actions[i] = j.actions[i]
         /\ h.actions[(m - 1) + 1] = r[m]
    BY <2>6, <2>7, <2>9, AppendProperties
  <2>11. \A i \in 1 .. m : h.actions[i] = r[i]
    <3> SUFFICES ASSUME NEW i \in 1 .. m PROVE h.actions[i] = r[i]
      OBVIOUS
    <3>1. CASE i \in 1 .. m - 1
      BY <2>5, <2>10, <3>1 DEF Good
    <3>2. CASE i = m
      BY <2>1, <2>10, <3>2
    <3> QED
      BY <2>1, <3>1, <3>2
  <2>12. Len(h.actions) = m
    BY <2>1, <2>10
  <2>13. Good(m, h)
    BY <2>7, <2>8, <2>11, <2>12 DEF Good
  <2> QED
    BY <1>5, <2>13
<1> QED
  BY <1>6, <1>7

(* On any board, the game a number of moves leads to has as many undo      *)
(* records.                                                                *)
LEMMA AlongRecords ==
  ASSUME NEW b, NEW r, Len(r) \in Nat, NEW n \in 0 .. Len(r),
         NEW g \in GamesAlong(b, r)[n]
  PROVE  Moves(g) = n
<1> DEFINE f == GamesAlong(b, r)
           Good(k, h) == h.history = [i \in 1 .. k |-> h.history[i]]
           T == {k \in 0 .. Len(r) : \E h \in f[k] : ~Good(k, h)}
<1>1. /\ f[0] = {NewGame(b)}
      /\ \A k \in 1 .. Len(r) : f[k] = UNION {Played(b, h, r[k]) : h \in f[k - 1]}
  BY AlongUnfolds
<1>2. T = {}
  <2> SUFFICES ASSUME T # {} PROVE FALSE
    OBVIOUS
  <2> HIDE DEF f, Good, T
  <2>1. PICK m \in T : \A k \in T : m <= k
    <3>1. T \in SUBSET Nat
      BY DEF T
    <3> QED
      BY <3>1, LeastNumber
  <2>2. m \in 0 .. Len(r)
    BY DEF T
  <2>3. PICK h \in f[m] : ~Good(m, h)
    BY DEF T
  <2>4. CASE m = 0
    <3>1. h.history = << >>
      BY <1>1, <2>3, <2>4 DEF NewGame
    <3>2. << >> = [i \in 1 .. 0 |-> h.history[i]]
      OBVIOUS
    <3> QED
      BY <2>3, <2>4, <3>1, <3>2 DEF Good
  <2>5. CASE m # 0
    <3>1. m - 1 \in 0 .. Len(r) /\ m \in 1 .. Len(r) /\ ~(m <= m - 1)
      BY <2>2, <2>5
    <3>2. PICK j \in f[m - 1] : h \in Played(b, j, r[m])
      BY <1>1, <2>3, <3>1
    <3>3. j.history = [i \in 1 .. m - 1 |-> j.history[i]]
      BY <2>1, <3>1, <3>2 DEF T, Good
    <3>4. PICK u : h.history = Append(j.history, u)
      <4>1. PICK p : h = [state   |-> p.state,
                          pushes  |-> j.pushes + Cardinality(p.pushed),
                          history |-> Append(j.history, [player |-> j.state.player,
                                                         pushed |-> p.pushed]),
                          actions |-> Append(j.actions, r[m])]
        BY <3>2 DEF Played
      <4>2. h.history = Append(j.history, [player |-> j.state.player, pushed |-> p.pushed])
        BY <4>1
      <4> QED
        BY <4>2, Zenon
    <3> DEFINE S == {j.history[i] : i \in 1 .. m - 1} \cup {u}
    <3>5. j.history \in Seq(S) /\ Len(j.history) = m - 1
      <4>1. j.history \in [1 .. m - 1 -> S] /\ m - 1 \in Nat
        BY <3>1, <3>3
      <4>2. j.history \in Seq(S)
        BY <4>1, SeqDef
      <4> QED
        BY <4>1, <4>2, LenProperties
    <3>6. h.history \in Seq(S) /\ Len(h.history) = (m - 1) + 1
      BY <3>4, <3>5, AppendProperties
    <3>7. DOMAIN h.history = 1 .. m
      BY <3>1, <3>6, LenProperties
    <3>8. h.history = [i \in DOMAIN h.history |-> h.history[i]]
      BY <3>6, LenProperties
    <3> QED
      BY <2>3, <3>7, <3>8 DEF Good
  <2> QED
    BY <2>4, <2>5
<1>3. g.history = [i \in 1 .. n |-> g.history[i]]
  BY <1>2
<1>4. DOMAIN g.history = 1 .. n /\ n \in Nat
  BY <1>3
<1>5. g.history \in Seq({g.history[i] : i \in 1 .. n})
  <2>1. g.history \in [1 .. n -> {g.history[i] : i \in 1 .. n}]
    BY <1>3
  <2> QED
    BY <1>4, <2>1, SeqDef
<1> QED
  BY <1>4, <1>5, LenProperties DEF Moves

(* Two routes share their games as far as they are alike.                  *)
LEMMA AlongShares ==
  ASSUME NEW b, NEW r, NEW s, Len(r) \in Nat, Len(s) \in Nat, Len(r) <= Len(s),
         \A k \in 1 .. Len(r) : s[k] = r[k],
         NEW n \in 0 .. Len(r)
  PROVE  GamesAlong(b, s)[n] = GamesAlong(b, r)[n]
<1> DEFINE f == GamesAlong(b, r)
           h == GamesAlong(b, s)
           T == {k \in 0 .. Len(r) : h[k] # f[k]}
<1>1. /\ f[0] = {NewGame(b)}
      /\ \A k \in 1 .. Len(r) : f[k] = UNION {Played(b, g, r[k]) : g \in f[k - 1]}
  BY AlongUnfolds
<1>2. /\ h[0] = {NewGame(b)}
      /\ \A k \in 1 .. Len(s) : h[k] = UNION {Played(b, g, s[k]) : g \in h[k - 1]}
  BY AlongUnfolds
<1> SUFFICES ASSUME T # {} PROVE FALSE
  OBVIOUS
<1> HIDE DEF f, h, T
<1>3. PICK m \in T : \A k \in T : m <= k
  <2>1. T \in SUBSET Nat
    BY DEF T
  <2> QED
    BY <2>1, LeastNumber
<1>4. m \in 0 .. Len(r) /\ h[m] # f[m]
  BY DEF T
<1>5. m - 1 \in 0 .. Len(r) /\ m \in 1 .. Len(r) /\ m \in 1 .. Len(s) /\ ~(m <= m - 1)
  <2>1. m # 0
    BY <1>1, <1>2, <1>4
  <2> QED
    BY <1>4, <2>1
<1>6. h[m - 1] = f[m - 1]
  BY <1>3, <1>5 DEF T
<1>7. h[m] = f[m]
  <2>1. f[m] = UNION {Played(b, g, r[m]) : g \in f[m - 1]}
    BY <1>1, <1>5
  <2>2. h[m] = UNION {Played(b, g, s[m]) : g \in h[m - 1]}
    BY <1>2, <1>5
  <2>3. s[m] = r[m]
    BY <1>5
  <2> QED
    BY <1>6, <2>1, <2>2, <2>3
<1> QED
  BY <1>4, <1>7

(* A route and one that is longer by a move share their games so far.      *)
LEMMA AlongExtends ==
  ASSUME NEW b \in Boards, NEW r \in Seq(Dirs), NEW d \in Dirs, NEW n \in 0 .. Len(r)
  PROVE  GamesAlong(b, Append(r, d))[n] = GamesAlong(b, r)[n]
<1>1. PICK s : s = Append(r, d)
  OBVIOUS
<1>2. /\ Len(r) \in Nat /\ Len(s) = Len(r) + 1 /\ Len(s) \in Nat /\ Len(r) <= Len(s)
      /\ \A k \in 1 .. Len(r) : s[k] = r[k]
  BY <1>1, AppendProperties, LenProperties
<1>3. GamesAlong(b, s)[n] = GamesAlong(b, r)[n]
  BY <1>2, AlongShares
<1> QED
  BY <1>1, <1>3

(* Replaying one move more plays it in the game replayed so far.           *)
LEMMA ReplayedNext ==
  ASSUME NEW b \in Boards, NEW r \in Seq(Dirs), NEW d \in Dirs, Len(r) < MaxRoute
  PROVE  Replayed(b, Append(r, d)) = UNION {Played(b, g, d) : g \in Replayed(b, r)}
<1> DEFINE s == Append(r, d)
<1>1. /\ s \in Seq(Dirs) /\ Len(s) = Len(r) + 1 /\ Len(r) \in Nat /\ MaxRoute \in Nat
      /\ s[Len(r) + 1] = d
  BY AppendProperties, LenProperties, GameAssumption
<1>2. Replayed(b, s) = GamesAlong(b, s)[Len(r) + 1]
  BY <1>1 DEF Replayed
<1>3. Replayed(b, r) = GamesAlong(b, r)[Len(r)]
  BY <1>1 DEF Replayed
<1>4. GamesAlong(b, s)[Len(r)] = GamesAlong(b, r)[Len(r)]
  <2>1. Len(r) \in 0 .. Len(r)
    BY <1>1
  <2> QED
    BY <2>1, AlongExtends
<1>5. GamesAlong(b, s)[Len(r) + 1]
        = UNION {Played(b, g, s[Len(r) + 1]) : g \in GamesAlong(b, s)[(Len(r) + 1) - 1]}
  <2> HIDE DEF s
  <2>1. Len(r) + 1 \in 1 .. Len(s) /\ Len(s) \in Nat
    BY <1>1
  <2> QED
    BY <2>1, AlongUnfolds
<1>6. (Len(r) + 1) - 1 = Len(r)
  BY <1>1
<1> HIDE DEF s
<1> QED
  BY <1>1, <1>2, <1>3, <1>4, <1>5, <1>6 DEF s

-----------------------------------------------------------------------------
(* The session.  Its route is one of moves, which the invariant leaves out *)
(* but every replay of it needs.                                           *)

GInv == board \in Boards /\ game.actions \in Seq(Dirs) /\ GameIsReplay

(* A game that a route's replay gives is the replay of its own route.      *)
LEMMA ReplayKeeps ==
  ASSUME NEW b \in Boards, NEW r \in Seq(Dirs), NEW g \in Replayed(b, r)
  PROVE  /\ Proper(b, g) /\ g.actions = r /\ Replayed(b, r) = {g} /\ Len(r) <= MaxRoute
<1>1. /\ ~(Len(r) > MaxRoute) /\ g \in GamesAlong(b, r)[Len(r)]
      /\ Replayed(b, r) = GamesAlong(b, r)[Len(r)]
  BY DEF Replayed
<1>2. Len(r) \in 0 .. Len(r) /\ Len(r) \in Nat
  BY LenProperties
<1>3. /\ Proper(b, g)
      /\ Len(g.actions) = Len(r) /\ \A i \in 1 .. Len(r) : g.actions[i] = r[i]
      /\ \A h \in GamesAlong(b, r)[Len(r)] : h = g
  BY <1>1, <1>2, AlongFacts
<1>4. g.actions \in Seq(Dirs)
  BY <1>3 DEF Proper, Sessions
<1>5. g.actions = r
  BY <1>3, <1>4, SeqEqual
<1> QED
  BY <1>1, <1>2, <1>3, <1>5, GameAssumption

LEMMA NewGameReplays ==
  ASSUME NEW b \in Boards
  PROVE  Replayed(b, << >>) = {NewGame(b)}
<1>1. Len(<< >>) = 0 /\ Len(<< >>) \in Nat /\ MaxRoute \in Nat
  BY GameAssumption
<1>2. GamesAlong(b, << >>)[0] = {NewGame(b)}
  BY <1>1, AlongUnfolds
<1> QED
  BY <1>1, <1>2 DEF Replayed

LEMMA NewGameHolds ==
  ASSUME NEW b \in Boards, board' = b, game' = NewGame(b)
  PROVE  GInv'
<1>1. Proper(b, NewGame(b)) /\ NewGame(b).actions = << >> /\ << >> \in Seq(Dirs)
  BY NewGameFits, EmptySeq
<1> QED
  BY <1>1, NewGameReplays DEF GInv, GameIsReplay, Proper

(* Undo leads to the replay of the route without its last move.            *)
LEMMA UndoneReplays ==
  ASSUME NEW b \in Boards, NEW g, g.actions \in Seq(Dirs), Replayed(b, g.actions) = {g},
         g.history # << >>
  PROVE  /\ Proper(b, Undone(g)) /\ Undone(g).actions \in Seq(Dirs)
         /\ Replayed(b, Undone(g).actions) = {Undone(g)}
         /\ Moves(g) \in Nat \ {0} /\ Moves(Undone(g)) = Moves(g) - 1
<1>1. Proper(b, g) /\ Len(g.actions) <= MaxRoute
  BY ReplayKeeps
<1>2. g.actions # << >> /\ Len(g.history) = Len(g.actions)
  <2>1. /\ Len(g.history) = Len(g.actions)
        /\ g.history \in Seq(Undos(b))
    BY <1>1 DEF Proper, Sessions
  <2> QED
    BY <2>1, EmptySeq, LenProperties
<1>3. PICK r \in Seq(Dirs), d \in Dirs : g.actions = Append(r, d)
  BY <1>2, SequenceEmptyOrAppend
<1>4. Len(Append(r, d)) = Len(r) + 1 /\ Len(r) \in Nat
  BY AppendProperties, LenProperties
<1>5. Len(r) < MaxRoute
  BY <1>1, <1>3, <1>4, GameAssumption
<1>6. g \in UNION {Played(b, h, d) : h \in Replayed(b, r)}
  <2>1. {g} = UNION {Played(b, h, d) : h \in Replayed(b, r)}
    BY <1>3, <1>5, ReplayedNext
  <2> QED
    BY <2>1, Zenon
<1>7. PICK h \in Replayed(b, r) : g \in Played(b, h, d)
  BY <1>6
<1>8. Proper(b, h) /\ h.actions = r /\ Replayed(b, r) = {h}
  BY ReplayKeeps
<1>9. Undone(g) = h
  BY <1>7, <1>8, PlayedFacts
<1>10. Moves(g) = Len(r) + 1 /\ Moves(h) = Len(r)
  BY <1>2, <1>3, <1>4, <1>8 DEF Proper, Moves
<1> QED
  BY <1>4, <1>8, <1>9, <1>10

LEMMA SessionStepKeeps == GInv /\ [GameNext]_gameVars => GInv'
<1> SUFFICES ASSUME GInv, [GameNext]_gameVars PROVE GInv'
  OBVIOUS
<1>1. /\ board \in Boards /\ game.actions \in Seq(Dirs)
      /\ Replayed(board, game.actions) = {game}
  BY DEF GInv, GameIsReplay
<1>2. Proper(board, game) /\ Len(game.actions) <= MaxRoute
  BY <1>1, ReplayKeeps
<1>3. ASSUME NEW d \in Dirs, Step(d) PROVE GInv'
  <2>1. game' \in Played(board, game, d) /\ board' = board
    BY <1>3 DEF Step
  <2>2. /\ Proper(board, game') /\ game'.actions = Append(game.actions, d)
        /\ Moves(game) < MaxRoute /\ \A k \in Played(board, game, d) : k = game'
    BY <1>1, <1>2, <2>1, PlayedFacts
  <2>3. Len(game.actions) < MaxRoute
    BY <1>2, <2>2 DEF Moves, Proper
  <2>4. Replayed(board, game'.actions) = UNION {Played(board, g, d) : g \in {game}}
    BY <1>1, <2>2, <2>3, ReplayedNext
  <2>5. Replayed(board, game'.actions) = {game'}
    BY <2>1, <2>2, <2>4
  <2> QED
    BY <1>1, <2>1, <2>2, <2>5 DEF GInv, GameIsReplay, Proper, Sessions
<1>4. CASE Undo
  <2>1. game.history # << >> /\ game' = Undone(game) /\ board' = board
    BY <1>4 DEF Undo
  <2>2. /\ Proper(board, game') /\ game'.actions \in Seq(Dirs)
        /\ Replayed(board, game'.actions) = {game'}
    BY <1>1, <2>1, UndoneReplays
  <2> QED
    BY <1>1, <2>1, <2>2 DEF GInv, GameIsReplay, Proper
<1>5. CASE Reset
  BY <1>1, <1>5, NewGameHolds DEF Reset
<1>6. ASSUME NEW r \in Routes, Replay(r) PROVE GInv'
  <2>1. game' \in Replayed(board, r) /\ board' = board /\ r \in Seq(Dirs)
    BY <1>6, GameAssumption DEF Replay
  <2>2. Proper(board, game') /\ game'.actions = r /\ Replayed(board, r) = {game'}
    BY <1>1, <2>1, ReplayKeeps
  <2> QED
    BY <1>1, <2>1, <2>2 DEF GInv, GameIsReplay, Proper
<1>7. CASE UNCHANGED gameVars
  BY <1>7 DEF gameVars, GInv, GameIsReplay
<1> QED
  BY <1>3, <1>4, <1>5, <1>6, <1>7 DEF GameNext

LEMMA GameInitHolds == GameInit => GInv
<1> SUFFICES ASSUME GameInit PROVE GInv
  OBVIOUS
<1>1. /\ board \in Boards /\ game = NewGame(board)
      /\ Proper(board, NewGame(board)) /\ NewGame(board).actions = << >>
      /\ << >> \in Seq(Dirs)
  BY NewGameFits, EmptySeq DEF GameInit
<1> QED
  BY <1>1, NewGameReplays DEF GInv, GameIsReplay, Proper

(* However a session is played, undone, reset and replayed, its position   *)
(* is legal and is exactly what a strict replay of its own route gives,    *)
(* box slots, pushes and undo records with it (game.rs 119-151, 191-204).  *)
THEOREM SessionIsReplay == GameSpec => []GameIsReplay
<1>1. GameInit => GInv
  BY GameInitHolds
<1>2. GInv /\ [GameNext]_gameVars => GInv'
  BY SessionStepKeeps
<1>3. GInv => GameIsReplay
  BY DEF GInv
<1> QED
  BY <1>1, <1>2, <1>3, PTL DEF GameSpec

(* A session never outgrows the route limit, which check_extension's       *)
(* subtraction relies on (game.rs 172-180).                                *)
THEOREM RouteFits == GameSpec => [](Moves(game) <= MaxRoute)
<1>1. GInv => Moves(game) <= MaxRoute
  <2> SUFFICES ASSUME GInv PROVE Moves(game) <= MaxRoute
    OBVIOUS
  <2>1. /\ board \in Boards /\ game.actions \in Seq(Dirs)
        /\ Replayed(board, game.actions) = {game}
    BY DEF GInv, GameIsReplay
  <2>2. Proper(board, game) /\ Len(game.actions) <= MaxRoute
    BY <2>1, ReplayKeeps
  <2> QED
    BY <2>2 DEF Proper, Moves
<1>2. GameInit => GInv
  BY GameInitHolds
<1>3. GInv /\ [GameNext]_gameVars => GInv'
  BY SessionStepKeeps
<1> QED
  BY <1>1, <1>2, <1>3, PTL DEF GameSpec

=============================================================================
