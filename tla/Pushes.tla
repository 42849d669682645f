------------------------------- MODULE Pushes -------------------------------
(***************************************************************************)
(* Boards as the push searches see them, and the expansion steps that the  *)
(* engine and the stage ladder share (crates/search/src/push.rs).          *)
(*                                                                         *)
(* A board is its graph of pushes, each position's in the order the code   *)
(* tries them.  A push leads to one position, costs the keeper's walk and  *)
(* the push itself, starts from a stand the estimate charges, and may have *)
(* a stand walk ahead of it that the estimate leaves out.  The estimates   *)
(* and prunes are given per board by what they compute: that they are      *)
(* admissible is this module's assumption, not its subject.                *)
(***************************************************************************)
EXTENDS Arena

CONSTANTS
  Boards,        \* the boards; a behaviour searches one of them
  Start, Goals,  \* the start position and the solved ones
  Inf            \* no bound, no moves, no estimate; any count from it on is saturated

VARIABLES
  board,         \* the one searched
  expanded,      \* nodes expanded, each counted once
  cur            \* the expansion under way

Range1(q) == {q[k] : k \in 1 .. Len(q)}

Least(S) == CHOOSE m \in S : \A k \in S : m <= k

(* dist is the least total cost of the pushes to a solved position, or     *)
(* Inf: as every push costs, the one solution of these equations.          *)
Shortest(b) ==
  \A s \in States :
    b.dist[s] = IF s \in Goals THEN 0
                ELSE Least({Inf} \cup {e.cost + b.dist[e.to] : e \in Range1(b.succ[s])})

(* What the crate's unit tests hold of the estimates: est is the           *)
(* assignment's M, first the root's stand walk, room the room bound's S,   *)
(* term the walk term on top of it, corral the sealed states.  The last    *)
(* conjunct is what push::excess rests on.                                 *)
Admissible(b) ==
  /\ b.est[Start] + b.first <= b.dist[Start]
  /\ \A s \in States :
       /\ b.est[s] <= b.dist[s] /\ b.room[s] <= b.dist[s] /\ b.term[s] <= b.dist[s]
       /\ s \in b.corral => b.dist[s] >= Inf
       /\ s \in Goals => b.est[s] = 0
       /\ \A e \in Range1(b.succ[s]) :
            /\ e.cost >= 1 /\ e.charge \in 0 .. e.cost - 1
            /\ b.dist[e.to] < Inf => b.est[e.to] + e.ahead <= b.dist[e.to]
            /\ s # Start => b.est[s] <= 1 + e.charge + b.est[e.to]

Typed(b) ==
  /\ b.succ \in [States -> Seq([to : States, cost : Nat, charge : Nat, ahead : Nat])]
  /\ {b.est, b.room, b.term, b.dist} \subseteq [States -> 0 .. Inf]
  /\ b.level \in [States -> Nat] /\ b.first \in Nat /\ b.corral \subseteq States

ASSUME BoardAssumption ==
  /\ Start \in States /\ Goals \subseteq States /\ Inf \in Nat \ {0}
  /\ \A b \in Boards :
       Typed(b) /\ Shortest(b) /\ b.opt = b.dist[Start] /\ Admissible(b)

(* The policies, as engine.rs lists them: exact, fast and the three of     *)
(* Quality mode; "next" takes over in place at a goal, "restart" after the *)
(* arena is emptied.                                                       *)
Policies ==
  LET quality == [weight |-> 3, goalPop |-> FALSE, goalPush |-> FALSE, reopen |-> TRUE,
                  prunePopped |-> TRUE, next |-> "none", restart |-> "none",
                  stage |-> FALSE, partial |-> FALSE, polish |-> TRUE, rooms |-> FALSE]
      fast    == [weight |-> 5, goalPop |-> TRUE, goalPush |-> TRUE, reopen |-> FALSE,
                  prunePopped |-> TRUE, next |-> "none", restart |-> "none",
                  stage |-> TRUE, partial |-> FALSE, polish |-> FALSE, rooms |-> FALSE]
  IN  [ exact   |-> [weight |-> 1, goalPop |-> TRUE, goalPush |-> FALSE, reopen |-> TRUE,
                     prunePopped |-> FALSE, next |-> "none", restart |-> "none",
                     stage |-> FALSE, partial |-> TRUE, polish |-> FALSE, rooms |-> TRUE],
        fast    |-> fast,
        quality |-> quality,
        quality_restart |-> [quality EXCEPT !.weight = 2, !.restart = "quality"],
        fast_then_quality_restart |->
          [fast EXCEPT !.next = "quality_restart", !.restart = "quality", !.polish = TRUE] ]

Solved(s) == s \in Goals

-----------------------------------------------------------------------------
(* The expansion under way: the node popped, the h it was queued at, the   *)
(* pushes left to try, whether it is partial and the least f left out.     *)
Idle == [id |-> NoId, h |-> 0, todo |-> << >>, deferred |-> Inf, partial |-> FALSE]

Expansion(i, h, partial) ==
  [id |-> i, h |-> h, deferred |-> Inf, partial |-> partial,
   todo |-> IF arena.recs[i].st \in board.corral THEN << >> ELSE board.succ[arena.recs[i].st]]

Stale(p) == arena.recs[p.id].sup

(* Closes the popped node p and counts it unless it was closed before.     *)
Opened(p) == Close(Dequeue(arena), p.id)

Count(p) == expanded' = IF arena.recs[p.id].closed THEN expanded ELSE expanded + 1

ChildOf(i, e) == [st |-> e.to, g |-> arena.recs[i].g + e.cost, h |-> board.est[e.to], par |-> i]

(* Every prune of push::admit: a position with no solution by the static   *)
(* checks, a duplicate no cheaper, or of a closed node unless it may       *)
(* reopen, and the bounds against the incumbent's moves.                   *)
Admits(i, e, reopen, best) ==
  LET c    == ChildOf(i, e)
      prev == Find(arena, c.st)
  IN  /\ c.h < Inf
      /\ prev # NoId => c.g < arena.recs[prev].g /\ (reopen \/ ~arena.recs[prev].closed)
      /\ best < Inf => c.g + c.h + e.ahead < best

(* push::excess: the least f of a child, read without building it; Inf     *)
(* stands for "cannot rule out a solved child".                            *)
\* Faulty: takes a push to lower the estimate by one at most.
ExcessFNoWalk(i, e) ==
  LET n == arena.recs[i]
  IN  IF n.h > 1 + e.charge THEN n.g + n.h + e.cost ELSE Inf

ExcessF(i, e) ==
  LET n == arena.recs[i]
  IN  IF n.h > 1 + e.charge THEN n.g + n.h + e.cost - 1 - e.charge ELSE Inf

=============================================================================
