------------------------------- MODULE Engine -------------------------------
(***************************************************************************)
(* The push search (crates/search/src/engine.rs) over the arena, the       *)
(* boards and the stage ladder: its phases, limits, restarts and bounds,   *)
(* from construction to a final status, and the proof read from it         *)
(* (crates/search/src/exact.rs).                                           *)
(*                                                                         *)
(* A step is one pop, one push of the expansion under way, or one unit of  *)
(* a build, the ladder or a polish.  advance() runs any number of them and *)
(* returns only between pops, so its slicing shows in nothing but where    *)
(* the caller may stop the search.  The room bound's build, the walk       *)
(* term's solve and the route polish are modelled by their outcomes, and   *)
(* the doorway guidance, which an environment variable turns on, is left   *)
(* out.                                                                    *)
(***************************************************************************)
EXTENDS Ladder

CONSTANTS
  Modes,         \* the root policies searched
  Limits,        \* the node limits a budget may give
  PartialFill,   \* percent of the limit from which EXACT expands partially
  StageAt, MinStates, \* stage::STAGE_AT and stage::MIN_STATES
  Declines,      \* whether the ladder's buffers may fail to be reserved
  EpisodeFloor,  \* EPISODE_FLOOR
  WalkAt,        \* WALK_TERM_AT
  BuildMin       \* BUILD_MIN_STATES

ASSUME EngineAssumption ==
  /\ Modes \subseteq DOMAIN Policies /\ Limits \subseteq 1 .. MaxLimit
  /\ Grant \subseteq Grants /\ Declines \in BOOLEAN
  /\ Caps \in Seq(Nat) /\ Len(Caps) >= 1
  /\ {MaxRises, MaxBans, StageWork, StageChecks, Backtracks} \subseteq Nat
  /\ {PartialFill, StageAt, EpisodeFloor, WalkAt, BuildMin} \subseteq Nat
  /\ MinStates \in Nat /\ MinStates >= 2

VARIABLES
  policy,      \* the running phase's policy
  status,
  incumbent,   \* id of the best solved record, or NoId
  interrupted, \* f of an expansion a limit cut short, or Inf
  staging,     \* what the ladder's end needs: its trigger and whether early
  fillAt,      \* arena length that hands over to the ladder
  mayStage,
  polish,      \* the polisher: what follows it and its best route's length
  episodeAt,   \* expansion count of the incumbent's episode, or Inf
  polished,    \* length of the best episode route, or Inf
  room,        \* where the room bound and its walk term stand
  sealed       \* quality_bound, or Inf

vars == <<arena, board, expanded, cur, ladder, discarded, policy, status, incumbent,
          interrupted, staging, fillAt, mayStage, polish, episodeAt, polished, room, sealed>>

P == Policies[policy]

-----------------------------------------------------------------------------
(* What the engine reports.                                                *)

MovesOf(a, id) == IF id = NoId THEN Inf ELSE a.recs[id].g

IncumbentMoves == MovesOf(arena, incumbent)

NoPolish == [ending |-> "none", best |-> Inf]

BestMoves == Lesser(polish.best, Lesser(polished, IncumbentMoves))

Generated == discarded + Len(arena.recs)

\* Faulty: leaves out the expansion a limit cut short.
FrontierQueued == MinF(arena, Inf)

Frontier == Lesser(MinF(arena, Inf), interrupted)

(* ExactSearch::lower_bound: the frontier capped by the incumbent.         *)
LowerBound == IF BestMoves < Inf /\ Frontier >= BestMoves THEN BestMoves ELSE Frontier

(* certify.                                                                *)
Proof ==
  IF status = "running" THEN [kind |-> "none"]
  ELSE IF status = "exhausted" /\ BestMoves = Inf THEN [kind |-> "unsolvable"]
  ELSE IF BestMoves = Inf \/ LowerBound = Inf THEN [kind |-> "none"]
  ELSE IF LowerBound >= BestMoves THEN [kind |-> "optimal", moves |-> BestMoves]
  ELSE [kind |-> "bounded", lower |-> LowerBound, upper |-> BestMoves]

-----------------------------------------------------------------------------
(* Ending, starting over and the next phase.                               *)

NotStaging == [trigger |-> 0, early |-> FALSE]

(* record: the incumbent's episode is scheduled and an episode route that  *)
(* is no longer shorter dropped.                                           *)
\* Faulty: drops the episode's route even while it is the shorter.
ScheduleDropping(g) ==
  IF P.polish
  THEN /\ episodeAt' = expanded + (IF expanded > EpisodeFloor THEN expanded ELSE EpisodeFloor)
       /\ polished' = Inf
  ELSE UNCHANGED <<episodeAt, polished>>

Schedule(g) ==
  IF P.polish
  THEN /\ episodeAt' = expanded + (IF expanded > EpisodeFloor THEN expanded ELSE EpisodeFloor)
       /\ polished' = IF polished < g THEN polished ELSE Inf
  ELSE UNCHANGED <<episodeAt, polished>>

KeepSchedule == UNCHANGED <<episodeAt, polished>>

SpendStage == fillAt' = arena.limit /\ mayStage' = FALSE

KeepStage == UNCHANGED <<fillAt, mayStage>>

(* seal_quality_bound, from arena a and incumbent id under policy p.       *)
SealedBound(a, id, p, cut) ==
  LET frontier == Lesser(MinGH(a, Policies[p].weight, Inf), cut)
  IN  IF ~Policies[p].reopen THEN sealed
      ELSE IF id # NoId /\ frontier >= MovesOf(a, id) THEN MovesOf(a, id)
      ELSE IF frontier < Inf THEN frontier
      ELSE sealed

(* Ends the search with st, or hands a polishing search's route to the end *)
(* polish, which holds st until it ends.                                   *)
End(st, a, id, p, cut) ==
  /\ interrupted' = cut
  /\ sealed' = IF st \in {"state_limit", "memory_limit"} THEN SealedBound(a, id, p, cut)
               ELSE sealed
  /\ policy' = p
  /\ cur' = Idle
  /\ ladder' = NoLadder /\ staging' = NotStaging
  /\ IF Policies[p].polish /\ id # NoId
     THEN /\ polish' = [ending |-> st, best |-> MovesOf(a, id)]
          /\ incumbent' = NoId
          /\ arena' = Release(a)
          /\ UNCHANGED status
     ELSE /\ status' = st
          /\ incumbent' = id
          /\ arena' = a
          /\ UNCHANGED polish

StopAtLimit(a, id, p, f) == End(LimitStatus(a), a, id, p, f)

(* limit_f of the expansion under way.                                     *)
LimitF == arena.recs[cur.id].g + (IF cur.h >= 1 THEN cur.h ELSE 1)

RootH == board.est[Start] + board.first

(* Inserts and queues the start at weight w, or finds that it has no       *)
(* assignment.                                                             *)
Seed(a, w, h, ok) ==
  LET b == Insert(a, [st |-> Start, g |-> 0, h |-> board.est[Start], par |-> NoId], ok)
  IN  IF board.est[Start] = Inf THEN b ELSE Enqueue(b, w * h, h, Len(b.recs))

MayStartOver(a, id, p) == p # "none" /\ (id # NoId => Keepable(a, id))

(* start_over: only the incumbent's path is kept, detached, and the start  *)
(* is searched again under p.                                              *)
StartOver(a, id, p) ==
  \E ok \in Grant :
    LET b == IF id # NoId THEN ClearKeeping(a, id) ELSE Clear(a)
    IN  /\ arena' = Seed(b, Policies[p].weight, RootH, ok)
        /\ incumbent' = Len(b.recs)
        /\ discarded' = discarded + Len(a.recs) - Len(b.recs)
        /\ policy' = p
        /\ ladder' = NoLadder /\ staging' = NotStaging
        /\ SpendStage
        /\ UNCHANGED <<status, polish, interrupted, sealed>>

(* next_phase: goes on in the same arena, re-keyed, or ends as solved; the *)
(* stage it spends is the caller's conjunct.                               *)
NextPhaseOrEnd(a, id) ==
  IF P.next = "none"
  THEN End("solved", a, id, policy, interrupted)
  ELSE /\ arena' = Reweight(a, Policies[P.next].weight)
       /\ incumbent' = id
       /\ policy' = P.next
       /\ UNCHANGED <<status, polish, interrupted, sealed, ladder, staging>>

-----------------------------------------------------------------------------
(* Pops.                                                                   *)

Ready ==
  /\ status = "running" /\ cur = Idle /\ ladder = NoLadder /\ polish = NoPolish
  /\ room \notin {"building", "solving"}

PopEmpty ==
  /\ Ready /\ arena.queue = {}
  /\ End(IF incumbent # NoId THEN "solved" ELSE "exhausted", arena, incumbent, policy,
         interrupted)
  /\ KeepSchedule /\ KeepStage
  /\ UNCHANGED <<board, expanded, discarded, room>>

Popped == Top(arena)

PoppedLive == Ready /\ arena.queue # {} /\ ~Stale(Popped)

PopStale ==
  /\ Ready /\ arena.queue # {} /\ Stale(Popped)
  /\ arena' = Dequeue(arena)
  /\ UNCHANGED <<board, expanded, cur, ladder, discarded, policy, status, incumbent,
                 interrupted, staging, fillAt, mayStage, polish, episodeAt, polished,
                 room, sealed>>

PoppedSolved == Popped.h = 0 /\ Solved(arena.recs[Popped.id].st)

PopSolved ==
  /\ PoppedLive /\ PoppedSolved
  /\ LET g  == arena.recs[Popped.id].g
         id == IF g < IncumbentMoves THEN Popped.id ELSE incumbent
     IN  /\ IF g < IncumbentMoves THEN Schedule(g) ELSE KeepSchedule
         /\ IF P.goalPop
            THEN /\ NextPhaseOrEnd(Dequeue(arena), id)
                 /\ cur' = Idle
                 /\ IF P.next # "none" THEN SpendStage ELSE KeepStage
            ELSE /\ arena' = Dequeue(arena) /\ incumbent' = id
                 /\ KeepStage
                 /\ UNCHANGED <<cur, ladder, policy, status, interrupted, staging, polish,
                                sealed>>
  /\ UNCHANGED <<board, expanded, discarded, room>>

\* Faulty: prunes a pop that may still save one move.
PoppedDominatedEarly ==
  LET g == arena.recs[Popped.id].g
  IN  /\ IncumbentMoves < Inf
      /\ g >= IncumbentMoves \/ (P.prunePopped /\ g + Popped.h + 1 >= IncumbentMoves)

PoppedDominated ==
  LET g == arena.recs[Popped.id].g
  IN  /\ IncumbentMoves < Inf
      /\ g >= IncumbentMoves \/ (P.prunePopped /\ g + Popped.h >= IncumbentMoves)

PopPruned ==
  /\ PoppedLive /\ ~PoppedSolved /\ PoppedDominated
  /\ arena' = Dequeue(arena)
  /\ UNCHANGED <<board, expanded, cur, ladder, discarded, policy, status, incumbent,
                 interrupted, staging, fillAt, mayStage, polish, episodeAt, polished,
                 room, sealed>>

(* Near its limit EXACT expands partially, but never the root.             *)
Partial(i) ==
  /\ P.partial /\ arena.recs[i].g > 0
  /\ Len(arena.recs) >= (arena.limit * PartialFill) \div 100

PopExpand ==
  /\ PoppedLive /\ ~PoppedSolved /\ ~PoppedDominated
  /\ arena' = Opened(Popped)
  /\ Count(Popped)
  /\ cur' = Expansion(Popped.id, Popped.h, Partial(Popped.id))
  /\ UNCHANGED <<board, ladder, discarded, policy, status, incumbent, interrupted, staging,
                 fillAt, mayStage, polish, episodeAt, polished, room, sealed>>

-----------------------------------------------------------------------------
(* The pushes of the expansion under way.                                  *)

Expanding == status = "running" /\ ladder = NoLadder /\ cur # Idle

CurF == arena.recs[cur.id].g + cur.h

(* The room bound's estimate, with the walk term once it is attached.      *)
RoomH(s) ==
  IF room \in {"off", "building"} THEN 0
  ELSE IF room = "term" /\ board.term[s] > board.room[s] THEN board.term[s]
  ELSE board.room[s]

Child == ChildOf(cur.id, Push)

ChildH == IF RoomH(Child.st) > Child.h THEN RoomH(Child.st) ELSE Child.h

(* Engine::admit: the shared prunes, then the room bound's.                *)
Admitted ==
  /\ Admits(cur.id, Push, P.reopen, IncumbentMoves)
  /\ RoomH(Child.st) < Inf
  /\ IncumbentMoves < Inf => Child.g + ChildH < IncumbentMoves

\* Faulty: defers a push whose child is within the node's own f.
LeftUnbuiltWithin == cur.partial /\ ExcessF(cur.id, Push) \in CurF .. Inf - 1

LeftUnbuilt == cur.partial /\ ExcessF(cur.id, Push) \in CurF + 1 .. Inf - 1

LeftBuilt == cur.partial /\ Admitted /\ ChildH > 0 /\ Child.g + ChildH > CurF

\* Faulty: remembers the last push left out, not the least.
LeavingLast(f) == [Tried EXCEPT !.deferred = f]

Leaving(f) == [Tried EXCEPT !.deferred = Lesser(@, f)]

(* A push that is deferred or pruned.                                      *)
PushDropped ==
  /\ Expanding /\ cur.todo # << >>
  /\ \/ LeftUnbuilt /\ cur' = Leaving(ExcessF(cur.id, Push))
     \/ ~LeftUnbuilt /\ LeftBuilt /\ cur' = Leaving(Child.g + ChildH)
     \/ ~LeftUnbuilt /\ ~Admitted /\ cur' = Tried
  /\ UNCHANGED <<arena, board, expanded, ladder, discarded, policy, status, incumbent,
                 interrupted, staging, fillAt, mayStage, polish, episodeAt, polished,
                 room, sealed>>

ToStore == Expanding /\ cur.todo # << >> /\ ~LeftUnbuilt /\ ~LeftBuilt /\ Admitted

IsGoal == ChildH = 0 /\ Solved(Child.st)

AtFill == Len(arena.recs) >= fillAt \/ arena.starved

(* start_staging goes ahead, or declines for want of records or buffers.   *)
MayLadder == ~arena.starved /\ Len(arena.recs) >= MinStates

StartStaging ==
  /\ MayLadder
  /\ Begin
  /\ staging' = [trigger |-> LimitF, early |-> ~IsFull(arena)]
  /\ SpendStage
  /\ cur' = Idle
  /\ KeepSchedule
  /\ UNCHANGED <<board, expanded, policy, status, incumbent, interrupted, polish, room,
                 sealed>>

NoStaging == ~MayLadder \/ Declines

(* The stage point, below the limit.                                       *)
StageEarly == ToStore /\ AtFill /\ ~IsFull(arena) /\ ~IsGoal /\ StartStaging

(* The full arena with no route and the stage unspent.                     *)
StageFull == ToStore /\ IsFull(arena) /\ ~IsGoal /\ mayStage /\ incumbent = NoId /\ StartStaging

(* The normal insert: stores and queues the child, and records a solved    *)
(* one, which may end the phase; an arena that could not grow ends the     *)
(* search before another find.                                             *)
PushStored ==
  /\ ToStore /\ ~IsFull(arena)
  /\ AtFill /\ ~IsGoal => NoStaging
  /\ \E ok \in Grant :
       LET id == Len(arena.recs) + 1
           h  == ChildH
           b  == Enqueue(Insert(arena, Child, ok), Child.g + P.weight * h, h, id)
           best == IF IsGoal THEN id ELSE incumbent
           handsOver == IsGoal /\ P.goalPush
           p == IF handsOver THEN P.next ELSE policy
       IN  /\ IF IsGoal THEN Schedule(Child.g) ELSE KeepSchedule
           /\ IF AtFill \/ (handsOver /\ P.next # "none") THEN SpendStage ELSE KeepStage
           /\ IF handsOver /\ P.next = "none"
              THEN NextPhaseOrEnd(b, best)
              ELSE IF b.starved
              THEN StopAtLimit(IF handsOver THEN Reweight(b, Policies[p].weight) ELSE b,
                               best, p, LimitF)
              ELSE /\ cur' = Tried
                   /\ IF handsOver THEN NextPhaseOrEnd(b, best)
                      ELSE /\ arena' = b /\ incumbent' = best
                           /\ UNCHANGED <<ladder, policy, status, interrupted, staging,
                                          polish, sealed>>
  /\ UNCHANGED <<board, expanded, discarded, room>>

(* The full arena: a solved child is kept in the spare slot, and the       *)
(* search starts over or stops.                                            *)
PushAtLimit ==
  /\ ToStore /\ IsFull(arena)
  /\ mayStage /\ ~IsGoal /\ incumbent = NoId => NoStaging
  /\ \E ok \in Grant :
       LET a  == IF IsGoal THEN Insert(arena, Child, ok) ELSE arena
           id == IF IsGoal THEN Len(a.recs) ELSE incumbent
       IN  /\ IF IsGoal THEN Schedule(Child.g) ELSE KeepSchedule
           /\ IF MayStartOver(a, id, P.restart)
              THEN /\ StartOver(a, id, P.restart)
                   /\ cur' = [Tried EXCEPT !.todo = << >>]
              ELSE /\ StopAtLimit(a, id, policy, LimitF)
                   /\ SpendStage
                   /\ UNCHANGED discarded
  /\ UNCHANGED <<board, expanded, room>>

(* The last push is done: a partial expansion queues its node again, then  *)
(* an episode or the walk term's solve may start.                          *)
FinishExpansion ==
  /\ Expanding /\ cur.todo = << >>
  /\ LET g == arena.recs[cur.id].g
         h == cur.deferred - g
     IN  arena' = IF cur.deferred = Inf THEN arena
                  ELSE Enqueue(arena, g + P.weight * h, h, cur.id)
  /\ cur' = Idle
  /\ IF expanded >= episodeAt
     THEN /\ episodeAt' = Inf
          /\ \/ UNCHANGED polish
             \/ P.polish /\ incumbent # NoId
                /\ polish' = [ending |-> "running", best |-> IncumbentMoves]
     ELSE UNCHANGED <<episodeAt, polish>>
  /\ IF room = "due" /\ expanded >= WalkAt THEN room' \in {"solving", "plain"}
     ELSE UNCHANGED room
  /\ UNCHANGED <<board, expanded, ladder, discarded, policy, status, incumbent, interrupted,
                 staging, fillAt, mayStage, polished, sealed>>

-----------------------------------------------------------------------------
(* The ladder, the builds and the polish in place of pops.                 *)

Rest == <<board, policy, status, incumbent, interrupted, staging, fillAt, mayStage, polish,
          episodeAt, polished, room, sealed>>

StageUnit == LadderUnit /\ UNCHANGED Rest

(* A ladder's route goes to the policy as a full arena's would.            *)
StageSolved ==
  /\ ladder.phase = "solved"
  /\ Schedule(arena.recs[ladder.at].g)
  /\ IF ~arena.starved /\ MayStartOver(arena, ladder.at, P.restart)
     THEN StartOver(arena, ladder.at, P.restart) /\ UNCHANGED cur
     ELSE /\ IF P.next # "none"
             THEN LET a == Reweight(arena, Policies[P.next].weight) IN
                  /\ SpendStage
                  /\ IF arena.starved
                     THEN StopAtLimit(a, ladder.at, P.next, staging.trigger)
                     ELSE /\ arena' = a /\ incumbent' = ladder.at /\ policy' = P.next
                          /\ ladder' = NoLadder /\ staging' = NotStaging
                          /\ UNCHANGED <<cur, status, polish, interrupted, sealed>>
             ELSE End("solved", arena, ladder.at, policy, interrupted) /\ KeepStage
          /\ UNCHANGED discarded
  /\ UNCHANGED <<board, expanded, room>>

(* A ladder with no route: stop, start over, or resume the plain search.   *)
StageGaveUp ==
  /\ ladder.phase = "gaveup"
  /\ KeepSchedule
  /\ IF ~arena.starved /\ MayStartOver(arena, NoId, P.restart)
     THEN StartOver(arena, NoId, P.restart) /\ UNCHANGED cur
     ELSE IF ~arena.starved /\ staging.early
     THEN StartOver(arena, NoId, policy) /\ UNCHANGED cur
     ELSE /\ StopAtLimit(arena, NoId, policy, staging.trigger)
          /\ KeepStage
          /\ UNCHANGED discarded
  /\ UNCHANGED <<board, expanded, room>>

(* The room bound's build ends: without tables, or with tables the arena   *)
(* leaves no room for, or re-sized, with the start queued again.           *)
BuildDone ==
  /\ status = "running" /\ room = "building"
  /\ \/ room' = "off" /\ UNCHANGED <<arena, status, fillAt>>
     \/ \E limit \in 1 .. arena.limit :
          /\ Rechargeable(arena, limit)
          /\ room' \in {"plain", "due"}
          /\ fillAt' = limit
          /\ LET a == Dequeue(Recharge(arena, limit))
                 h == IF board.room[Start] > Popped.h THEN board.room[Start] ELSE Popped.h
             IN  IF board.room[Start] = Inf
                 THEN arena' = a /\ status' = "exhausted"
                 ELSE arena' = Enqueue(a, P.weight * h, h, Popped.id) /\ UNCHANGED status
  /\ UNCHANGED <<board, expanded, cur, ladder, discarded, policy, incumbent, interrupted,
                 staging, mayStage, polish, episodeAt, polished, sealed>>

(* The walk term's solve ends, and a term that solved is attached.         *)
WalkDone ==
  /\ status = "running" /\ room = "solving"
  /\ room' \in {"plain", "term"}
  /\ UNCHANGED <<arena, board, expanded, cur, ladder, discarded, policy, status, incumbent,
                 interrupted, staging, fillAt, mayStage, polish, episodeAt, polished, sealed>>

Polishing == status = "running" /\ polish # NoPolish

(* A polish unit finds a shorter route.                                    *)
PolishUnit ==
  /\ Polishing
  /\ \E best \in board.opt .. polish.best - 1 : polish' = [polish EXCEPT !.best = best]
  /\ UNCHANGED <<arena, board, expanded, cur, ladder, discarded, policy, status, incumbent,
                 interrupted, staging, fillAt, mayStage, episodeAt, polished, room, sealed>>

(* The end polish gives the search the status it ended with; an episode's  *)
(* route is kept only if shorter than every other.                         *)
PolishDone ==
  /\ Polishing
  /\ IF polish.ending # "running"
     THEN status' = polish.ending /\ UNCHANGED <<polish, polished>>
     ELSE /\ polish' = NoPolish
          /\ polished' = IF polish.best < Lesser(polished, IncumbentMoves) THEN polish.best
                         ELSE polished
          /\ UNCHANGED status
  /\ UNCHANGED <<arena, board, expanded, cur, ladder, discarded, policy, incumbent,
                 interrupted, staging, fillAt, mayStage, episodeAt, room, sealed>>

-----------------------------------------------------------------------------
(* Between two pops the caller may stop the search.  The seal comes first, *)
(* and refuses the queues and arenas it could not read a bound from.       *)
Stop(reason) ==
  /\ status = "running" /\ cur = Idle /\ ladder.phase \notin {"solved", "gaveup"}
  /\ status' = reason
  /\ sealed' = IF reason = "time_limit" /\ Ready
               THEN SealedBound(arena, incumbent, policy, interrupted) ELSE sealed
  /\ ladder' = NoLadder /\ staging' = NotStaging
  /\ room' = IF room = "building" THEN "off" ELSE IF room = "solving" THEN "plain" ELSE room
  /\ UNCHANGED <<arena, board, expanded, cur, discarded, policy, incumbent, interrupted,
                 fillAt, mayStage, polish, episodeAt, polished>>

Terminated == status # "running" /\ UNCHANGED vars

Init ==
  /\ board \in Boards
  /\ policy \in Modes
  /\ expanded = 0 /\ discarded = 0
  /\ cur = Idle /\ ladder = NoLadder /\ staging = NotStaging
  /\ incumbent = NoId /\ interrupted = Inf /\ sealed = Inf
  /\ polish = NoPolish /\ episodeAt = Inf /\ polished = Inf
  /\ \E limit \in Limits, ok \in Grant :
       /\ arena = Seed(NewArena(limit, limit < MaxLimit), P.weight, RootH, ok)
       /\ fillAt = IF P.stage THEN Lesser(StageAt, limit) ELSE limit
       /\ status = IF board.est[Start] = Inf THEN "exhausted" ELSE "running"
       /\ room = IF P.rooms /\ status = "running" /\ limit >= BuildMin THEN "building"
                 ELSE "off"
  /\ mayStage = P.stage

(* What advance does when it is given pops.                                *)
Advance ==
  \/ PopEmpty
  \/ PopStale
  \/ PopSolved
  \/ PopPruned
  \/ PopExpand
  \/ PushDropped
  \/ StageEarly
  \/ StageFull
  \/ PushStored
  \/ PushAtLimit
  \/ FinishExpansion
  \/ StageUnit
  \/ StageSolved
  \/ StageGaveUp
  \/ BuildDone
  \/ WalkDone
  \/ PolishUnit
  \/ PolishDone

Next ==
  \/ Advance
  \/ \E reason \in {"time_limit", "cancelled"} : Stop(reason)
  \/ Terminated

(* The worker and the server give a running search pops until it ends or   *)
(* is stopped.  The fairness is WF_vars(Advance) written out: that a        *)
(* running search can always advance is what TLC's deadlock check shows of *)
(* this next-state relation.                                               *)
FairAdvance == []<><<Advance>>_vars \/ []<>(status # "running")

Spec == Init /\ [][Next]_vars /\ FairAdvance

-----------------------------------------------------------------------------
Kinds == {"running", "solved", "exhausted", "state_limit", "memory_limit", "time_limit",
          "cancelled"}

(* Every stored record is reached by the pushes its parents name, at what  *)
(* they cost, from the start, through restarts that keep a path and stages *)
(* that reseed on a copy; the incumbent's is solved.  So the route read    *)
(* from it replays (engine.rs 1652-1709).                                  *)
RouteReal ==
  /\ \A i \in 1 .. Len(arena.recs) :
       LET r == arena.recs[i] IN
       IF r.par = NoId THEN r.st = Start /\ r.g = 0
       ELSE /\ r.par < i
            /\ \E e \in Range1(board.succ[arena.recs[r.par].st]) :
                 e.to = r.st /\ r.g = arena.recs[r.par].g + e.cost
  /\ incumbent # NoId => Solved(arena.recs[incumbent].st)
  /\ ladder.phase = "solved" => Solved(arena.recs[ladder.at].st)

(* Whenever the caller can read it, Optimal's lower bound is at most the   *)
(* optimum, if there is one: through reopenings, deferred pushes, raised   *)
(* keys and an expansion that a limit cut short (exact.rs 36-44,           *)
(* engine.rs 776-790).                                                     *)
LowerBoundSound ==
  policy = "exact" /\ cur = Idle => LowerBound <= board.opt \/ board.opt >= Inf

(* What a proof certifies is true, and a search that ends as solved or     *)
(* exhausted certifies its answer, unless the only route it has is as long *)
(* as a saturated count (exact.rs 45-75, lib.rs 238-251).                  *)
ProofSound ==
  policy = "exact" =>
    /\ Proof.kind = "optimal" => Proof.moves = board.opt
    /\ Proof.kind = "unsolvable" => board.opt >= Inf
    /\ Proof.kind = "bounded" => Proof.lower <= board.opt /\ board.opt <= Proof.upper
    /\ status = "solved" =>
         /\ incumbent # NoId
         /\ IncumbentMoves < Inf => Proof.kind = "optimal"
    /\ status = "exhausted" => Proof.kind = "unsolvable"

(* Exact loses no route: of every shorter one through an expanded node,    *)
(* the next position is stored as cheaply, or the node is queued again for *)
(* it, or the limit that cut the expansion short accounts for it; and a    *)
(* node not yet expanded is queued at no more than its shortest way on     *)
(* (engine.rs 372-390, 1440-1447, exact.rs 36-44).                         *)
FrontierComplete ==
  policy = "exact" /\ cur = Idle =>
    \A i \in {k \in 1 .. Len(arena.recs) : ~arena.recs[k].sup} :
      LET r == arena.recs[i]
          queuedBelow(f) == \E q \in arena.queue : q.id = i /\ q.f <= f
          covered(e) ==
            LET f == r.g + e.cost + board.dist[e.to]
            IN  \/ f >= Lesser(Inf, IncumbentMoves)
                \/ \E k \in 1 .. Len(arena.recs) :
                     arena.recs[k].st = e.to /\ arena.recs[k].g <= r.g + e.cost
                \/ queuedBelow(f)
                \/ interrupted <= f
      IN  IF r.closed THEN \A e \in Range1(board.succ[r.st]) : covered(e)
          ELSE r.g + board.dist[r.st] < Lesser(Inf, IncumbentMoves) =>
                 queuedBelow(r.g + board.dist[r.st])

(* The plain search never goes on with an arena that cannot grow, and      *)
(* while it runs the next insert has its room, the spare slot of a full    *)
(* arena and the ladder's reseeds included (arena.rs 315-329, 650-694,     *)
(* engine.rs 668-670, 1563-1567).  A route the ladder found always leaves  *)
(* room below the limit to start over: its path leaves out the copy its    *)
(* last stage began on, so only a table that never grew or a starved arena *)
(* refuses the restart that carries it (engine.rs 1168-1188).              *)
GrowthAhead ==
  /\ status = "running" /\ ladder = NoLadder /\ polish = NoPolish => ~arena.starved
  /\ Len(arena.recs) <= Room(arena) \/ arena.reserved = 0
  /\ status = "running" /\ polish = NoPolish /\ ~arena.starved =>
       Len(arena.recs) < Room(arena) \/ Len(arena.recs) > arena.limit
  /\ ladder.phase = "solved" /\ ~arena.starved =>
       Cardinality(Path(arena, ladder.at)) < arena.limit

(* A pop is dropped for the bound only when no route through it is shorter *)
(* than the incumbent (engine.rs 1333-1341).                               *)
PrunesSound ==
  PoppedLive /\ ~PoppedSolved /\ PoppedDominated =>
    LET r == arena.recs[Popped.id] IN r.g + board.dist[r.st] >= IncumbentMoves

(* Every bound that Quality seals is at most the optimum (README.md        *)
(* 349-353, lib.rs 526-536).                                               *)
QualityBoundSound == sealed < Inf => sealed <= board.opt

(* A search that keeps getting pops ends, whatever the ladder, the builds  *)
(* and the allocator answer (engine.rs 1202-1301).                         *)
Termination == <>(status # "running")

-----------------------------------------------------------------------------
(* The contract of a search, of which the engine shows the best of its     *)
(* routes, the records it stored or dropped and the boards' optimum; a     *)
(* route being polished is one already.                                    *)
Contract == INSTANCE Search WITH
  exact <- policy = "exact", opt <- board.opt, best <- Lesser(Inf, BestMoves),
  routed <- incumbent # NoId \/ polish # NoPolish, generated <- Generated

(* Whatever mode runs, and whatever stages, restarts, polishes and limits  *)
(* it goes through, the search keeps what a caller is promised: a route is *)
(* never lost, and the best only shortens and is never shorter than the    *)
(* optimum; a status is final; Optimal's solved is the optimum, and no     *)
(* mode says exhausted of a puzzle that has a solution (lib.rs 223-287,    *)
(* 585-662).                                                               *)
KeepsPromise == Contract!Promise

=============================================================================
