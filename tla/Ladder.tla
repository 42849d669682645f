------------------------------- MODULE Ladder -------------------------------
(***************************************************************************)
(* The stage ladder: a chain of committed stages, each a bounded search    *)
(* for a rise above its root's level, in the engine's own arena            *)
(* (crates/search/src/stage/ladder.rs).                                    *)
(*                                                                         *)
(* One action is one unit, or one push of the one expansion a search unit  *)
(* runs.  Which boxes a stage freezes, which rises its checks pass and     *)
(* which frame a failure blames are the verdicts of rank.rs, movers.rs and *)
(* checks.rs; any verdict is allowed here.                                 *)
(***************************************************************************)
EXTENDS Pushes

CONSTANTS
  Caps,                       \* inserts per stage at each rung (CAPS)
  MaxRises, MaxBans,          \* MAX_RISES, MAX_BANS
  StageWork, StageChecks, Backtracks, \* the inserts, checks, backjumps allowed
  Grant                       \* what the allocator may answer to a growth

VARIABLES
  ladder,     \* the ladder's own state
  discarded   \* records dropped by restarts and reseeds

(* Frames, bottom first: the id of the frame's root on the kept path, its  *)
(* level, rung and bans taken.                                             *)
NoLadder == [phase |-> "none", frames |-> << >>, rises |-> << >>, at |-> NoId,
             base |-> 0, work |-> 0, checks |-> 0, backtracks |-> 0]

Running == ladder.phase \notin {"none", "solved", "gaveup"}

TopFrame == ladder.frames[Len(ladder.frames)]

StageCap == ladder.base + Caps[TopFrame.rung]

(* The ladder runs at the weight and reopen flag of the policy that stages. *)
LadderWeight == Policies["fast"].weight

LadderReopen == Policies["fast"].reopen

(* Prunes the arena to the path of i and queues a live copy of its state,  *)
(* which keeps the kept record's parent.                                   *)
\* Faulty: makes the copy a child of the record it copies.
ReseededBelow(a, i, ok) ==
  LET k == ClearKeeping(a, i)
      n == k.recs[Len(k.recs)]
      b == Insert(k, [st |-> n.st, g |-> n.g, h |-> n.h, par |-> Len(k.recs)], ok)
  IN  Enqueue(b, n.g + LadderWeight * n.h, n.h, Len(b.recs))

Reseeded(a, i, ok) ==
  LET k == ClearKeeping(a, i)
      n == k.recs[Len(k.recs)]
      b == Insert(k, [st |-> n.st, g |-> n.g, h |-> n.h, par |-> n.par], ok)
  IN  Enqueue(b, n.g + LadderWeight * n.h, n.h, Len(b.recs))

Dropped(a, i) == Len(a.recs) - Cardinality(Path(a, i))

Frame(i, s) == [depth |-> i, level |-> board.level[s], rung |-> 1, bans |-> 0]

(* begin: the ladder starts on a search whose first record is the start.   *)
Begin ==
  \E ok \in Grant :
    /\ arena' = Reseeded(arena, 1, ok)
    /\ discarded' = discarded + Dropped(arena, 1)
    /\ ladder' = [phase |-> "select", frames |-> <<Frame(1, Start)>>, rises |-> << >>,
                  at |-> NoId, base |-> 2, work |-> StageWork, checks |-> StageChecks,
                  backtracks |-> Backtracks]

Ended(how, i) == [ladder EXCEPT !.phase = how, !.at = i, !.rises = << >>]

Fails == [ladder EXCEPT !.phase = "fail", !.rises = << >>]

(* Every unit but an expansion first spends a check, or gives up with none *)
(* left.                                                                   *)
OutOfChecks ==
  /\ ladder.phase \in {"select", "accept", "commit", "fail"}
  /\ ladder.checks = 0
  /\ ladder' = Ended("gaveup", NoId)
  /\ UNCHANGED <<arena, expanded, cur, discarded>>

Unit(phase) == ladder.phase = phase /\ ladder.checks > 0

Charged(l) == [l EXCEPT !.checks = @ - 1]

(* A unit of ranking the root's candidates or choosing the movers, which   *)
(* goes on or begins the stage's search.                                   *)
SelectUnit ==
  /\ Unit("select")
  /\ \E phase \in {"select", "search"} : ladder' = Charged([ladder EXCEPT !.phase = phase])
  /\ UNCHANGED <<arena, expanded, cur, discarded>>

(* A search unit pops: an empty queue fails the stage, a stale entry is    *)
(* dropped, a solved start ends the ladder, any other node is opened.      *)
SearchPop ==
  /\ ladder.phase = "search" /\ cur = Idle
  /\ IF arena.queue = {} THEN ladder' = Fails /\ UNCHANGED <<arena, expanded, cur>>
     ELSE LET p == Top(arena) IN
       IF Stale(p) THEN arena' = Dequeue(arena) /\ UNCHANGED <<expanded, cur, ladder>>
       ELSE IF Solved(arena.recs[p.id].st)
       THEN /\ arena' = Dequeue(arena)
            /\ ladder' = Ended("solved", p.id)
            /\ UNCHANGED <<expanded, cur>>
       ELSE /\ arena' = Opened(p)
            /\ Count(p)
            /\ cur' = Expansion(p.id, p.h, FALSE)
            /\ ladder' = [ladder EXCEPT !.rises = << >>]
  /\ UNCHANGED discarded

Push == Head(cur.todo)

Tried == [cur EXCEPT !.todo = Tail(@)]

(* A push of a frozen box, or one that admit prunes.                       *)
SearchSkip ==
  /\ ladder.phase = "search" /\ cur # Idle /\ cur.todo # << >>
  /\ cur' = Tried
  /\ UNCHANGED <<arena, expanded, ladder, discarded>>

Rises(s) == board.level[s] > TopFrame.level

(* An admitted child: the cap and the work first, then the insert.         *)
SearchChild ==
  /\ ladder.phase = "search" /\ cur # Idle /\ cur.todo # << >>
  /\ Admits(cur.id, Push, LadderReopen, Inf)
  /\ LET c  == ChildOf(cur.id, Push)
         id == Len(arena.recs) + 1
         rise == Rises(c.st)
         spent == [ladder EXCEPT !.work = @ - 1]
     IN  IF Len(arena.recs) >= StageCap \/ IsFull(arena) \/ ladder.work = 0
         THEN ladder' = Fails /\ cur' = Idle /\ UNCHANGED arena
         ELSE \E ok \in Grant :
           LET b == Insert(arena, c, ok) IN
           IF Solved(c.st)
           THEN /\ arena' = b /\ cur' = Idle
                /\ ladder' = [Ended("solved", id) EXCEPT !.work = @ - 1]
           ELSE /\ arena' = IF rise THEN b ELSE Enqueue(b, c.g + LadderWeight * c.h, c.h, id)
                /\ IF b.starved
                   THEN ladder' = [Ended("gaveup", NoId) EXCEPT !.work = @ - 1] /\ cur' = Idle
                   ELSE /\ cur' = Tried
                        /\ ladder' = IF rise /\ Len(ladder.rises) < MaxRises
                                     THEN [spent EXCEPT !.rises = Append(@, id)]
                                     ELSE spent
  /\ UNCHANGED <<expanded, discarded>>

(* enter_rise: on to the first of these rises that nothing superseded, or  *)
(* back to the search when none is left.                                   *)
Enter(rises) ==
  LET live == {k \in 1 .. Len(rises) : ~arena.recs[rises[k]].sup}
  IN  IF live = {} THEN [ladder EXCEPT !.rises = << >>, !.phase = "search"]
      ELSE [ladder EXCEPT !.rises = SubSeq(rises, Least(live), Len(rises)), !.phase = "accept"]

SearchDone ==
  /\ ladder.phase = "search" /\ cur # Idle /\ cur.todo = << >>
  /\ cur' = Idle
  /\ ladder' = Enter(ladder.rises)
  /\ UNCHANGED <<arena, expanded, discarded>>

(* A ban or one check of the first rise: on to its next check, passed, or  *)
(* rejected in favour of the next rise.                                    *)
AcceptUnit ==
  /\ Unit("accept")
  /\ \/ ladder' = Charged(ladder)
     \/ ladder' = Charged([ladder EXCEPT !.phase = "commit"])
     \/ ladder' = Charged(Enter(Tail(ladder.rises)))
  /\ UNCHANGED <<arena, expanded, cur, discarded>>

Commit ==
  /\ Unit("commit")
  /\ LET i == Head(ladder.rises) IN
     IF Keepable(arena, i)
     THEN \E ok \in Grant :
            /\ arena' = Reseeded(arena, i, ok)
            /\ discarded' = discarded + Dropped(arena, i)
            /\ LET k == Cardinality(Path(arena, i))
               IN  ladder' = Charged([ladder EXCEPT
                               !.phase = "select", !.rises = << >>, !.base = k + 1,
                               !.frames = Append(@, Frame(k, arena.recs[i].st))])
     ELSE ladder' = Charged(Ended("gaveup", NoId)) /\ UNCHANGED <<arena, discarded>>
  /\ UNCHANGED <<expanded, cur>>

(* Restarts the stage of the top one of frames from its root.              *)
Restage(frames, back) ==
  LET i == frames[Len(frames)].depth IN
  IF Keepable(arena, i)
  THEN \E ok \in Grant :
         /\ arena' = Reseeded(arena, i, ok)
         /\ discarded' = discarded + Dropped(arena, i)
         /\ ladder' = Charged([ladder EXCEPT !.phase = "select", !.frames = frames,
                                 !.backtracks = @ - back,
                                 !.base = Cardinality(Path(arena, i)) + 1])
  ELSE ladder' = Charged(Ended("gaveup", NoId)) /\ UNCHANGED <<arena, discarded>>

(* One pass of the fail loop: give up, climb a rung, or jump back to a     *)
(* lower frame, which takes a ban and, with its last ban, the last rung.   *)
FailUnit ==
  /\ Unit("fail")
  /\ LET top == Len(ladder.frames)
         backTo(q) == SubSeq(ladder.frames, 1, q)
     IN  IF ladder.work = 0 \/ ladder.backtracks = 0
         THEN ladder' = Charged(Ended("gaveup", NoId)) /\ UNCHANGED <<arena, discarded>>
         ELSE IF TopFrame.rung < Len(Caps)
         THEN Restage([ladder.frames EXCEPT ![top].rung = @ + 1], 0)
         ELSE IF top = 1
         THEN ladder' = Charged(Ended("gaveup", NoId)) /\ UNCHANGED <<arena, discarded>>
         ELSE \E q \in 1 .. top - 1 :
           IF backTo(q)[q].bans + 1 >= MaxBans
           THEN /\ ladder' = Charged([ladder EXCEPT !.backtracks = @ - 1,
                     !.frames = [backTo(q) EXCEPT ![q].bans = @ + 1, ![q].rung = Len(Caps)]])
                /\ UNCHANGED <<arena, discarded>>
           ELSE Restage([backTo(q) EXCEPT ![q].bans = @ + 1, ![q].rung = 1], 1)
  /\ UNCHANGED <<expanded, cur>>

LadderUnit ==
  \/ OutOfChecks
  \/ SelectUnit
  \/ SearchPop
  \/ SearchSkip
  \/ SearchChild
  \/ SearchDone
  \/ AcceptUnit
  \/ Commit
  \/ FailUnit

=============================================================================
