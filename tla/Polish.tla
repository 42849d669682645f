------------------------------- MODULE Polish -------------------------------
(***************************************************************************)
(* The route polish (Polish of crates/search/src/polish.rs) of a route     *)
(* that a search found: runs of single-box jobs from the search's route,   *)
(* each in its own order, then pair jobs from the best, then kicks, one at *)
(* a time or a round of them raced on a pool of threads.  A step is one    *)
(* unit.  An episode hands back to the search; an end polish does not.     *)
(***************************************************************************)
EXTENDS Expansion, Reschedule

CONSTANTS
  Seeds,       \* the routes that a search may have found, by board
  Asks,        \* how each may be polished
  Runs,        \* RUNS, the most runs
  KickWork,    \* KICK_WORK, the kicks' units for each state of the limit
  Doublings    \* a job or a descent on a thread takes at most 2^Doublings units

VARIABLE
  polish       \* the polisher

ASSUME PolishAssumption == {Runs, KickWork, Doublings} \subseteq Nat \ {0}

polishVars == <<maze, guide, facts, pos, out, check, polish>>

----------------------------------------------------------------------------
(* strides, run_cap and order: the box orders of the runs.                 *)
Coprime(a, n) == \A q \in 2 .. a : a % q # 0 \/ n % q # 0

Strides(n) == SelectSeq([k \in 1 .. n |-> k], LAMBDA a : Coprime(a, n))

RunCap(n) == Smaller(n * Len(Strides(n)), Runs)

FirstSlot(n, run) == 1 + ((run \div Len(Strides(n))) % n)

StrideOf(n, run) == Strides(n)[1 + (run % Len(Strides(n)))]

(* same_label and pairs: every pair, those that end a route nearest first. *)
SameLabel(b, pair) == pair[2] \in Group(b, pair[1])

PairsBy(b, route) ==
  LET end == Last(Trail(b, route)).boxes
      n   == Len(b.labels)
      all == SelectSeq([k \in 1 .. n * n |-> <<1 + (k - 1) \div n, 1 + ((k - 1) % n)>>],
                       LAMBDA pair : pair[1] < pair[2])
      heft == [k \in DOMAIN all |-> 100 * Apart(end[all[k][1]], end[all[k][2]]) + k]
      order == SortSeq([k \in DOMAIN all |-> k], LAMBDA j, k : heft[j] < heft[k])
  IN  [k \in DOMAIN all |-> all[order[k]]]

----------------------------------------------------------------------------
NoPolish == [is |-> "none"]
NoJob    == [is |-> "none"]
NoRound  == [is |-> "none"]

FirstJob(jobs) == IF jobs = {} THEN NoJob ELSE CHOOSE job \in jobs : TRUE

(* fits: whether any job may start.                                        *)
FitsPolish(allowance, moves) == allowance >= 2 * moves + NodeCost * MinNodes + MinQueue

NewPolish(b, route, ask) ==
  [is |-> "polishing", seed |-> route, best |-> route, route |-> route,
   ending |-> ask.ending, workers |-> ask.workers,
   allowance |-> Max({0, ask.allowance - 2 * Len(route)}),
   run |-> 0, runs |-> RunCap(Len(b.labels)), next |-> 1, stride |-> 1, idle |-> 0,
   pairs |-> << >>, pair |-> 1, pairIdle |-> 0,
   swaps |-> 0, kick |-> 1, kickIdle |-> 0, work |-> KickWork * ask.states, kicking |-> FALSE,
   job |-> NoJob, round |-> NoRound]

----------------------------------------------------------------------------
(* run_job: a job run to its end; its route, cut at its first solved       *)
(* position, is empty where there is none.                                 *)
RECURSIVE Driven(_, _, _, _)
Driven(b, h, r, n) ==
  IF r.job.is # "running" THEN r
  ELSE IF n = 0 THEN [job |-> JobStep(b, h, r.job), units |-> r.units + 1]
  ELSE Driven(b, h, Driven(b, h, r, n - 1), n - 1)

\* Faulty: never cuts.
CutRouteWhole(b, route) == IF ReplayOf(b, route) = {} THEN << >> ELSE route

CutRoute(b, route) ==
  LET At(legs) == IF legs = {} THEN << >> ELSE SubSeq(route, 1, Min(legs))
  IN  At(ReplayOf(b, route))

RunJob(b, h, jobs) ==
  LET Of(r) == [route |-> IF r.job.is = "found" THEN CutRoute(b, r.job.found) ELSE << >>,
                units |-> r.units]
  IN  Of(Driven(b, h, [job |-> FirstJob(jobs), units |-> 0], Doublings))

(* descend: the single-box jobs until a cycle gains nothing, then the      *)
(* pairs of the route they converged on, each gain sending the boxes back. *)
Gains(d, r) == r.route # << >> /\ Len(r.route) < Len(d.route)

DescendOne(b, h, allowance, d) ==
  LET With(r) == [d EXCEPT !.units = @ + r.units, !.next = 1 + (@ % Len(b.labels)),
                           !.route = IF Gains(d, r) THEN r.route ELSE @,
                           !.idle = IF Gains(d, r) THEN 1 ELSE @ + 1]
  IN  With(RunJob(b, h, JobsFor(b, h, d.route, <<d.next>>, allowance)))

DescendPair(b, h, allowance, d) ==
  LET With(r) == [d EXCEPT !.units = @ + r.units, !.pair = 1 + (@ % Len(d.pairs)),
                           !.route = IF Gains(d, r) THEN r.route ELSE @,
                           !.idle = IF Gains(d, r) THEN 0 ELSE @,
                           !.pairIdle = IF Gains(d, r) THEN 1 ELSE @ + 1]
  IN  With(RunJob(b, h, JobsFor(b, h, d.route, d.pairs[d.pair], allowance)))

DescendStep(b, h, allowance, d) ==
  IF d.idle < Len(b.labels) THEN DescendOne(b, h, allowance, d)
  ELSE IF d.pairs = << >> THEN [d EXCEPT !.pairs = PairsBy(b, d.route)]
  ELSE IF d.pairIdle < Len(d.pairs) THEN DescendPair(b, h, allowance, d)
  ELSE [d EXCEPT !.over = TRUE]

RECURSIVE Descended(_, _, _, _, _)
Descended(b, h, allowance, d, n) ==
  IF d.over THEN d
  ELSE IF n = 0 THEN DescendStep(b, h, allowance, d)
  ELSE Descended(b, h, allowance, Descended(b, h, allowance, d, n - 1), n - 1)

(* kick_trial: a kick and its descent; a kick that fails reports neither   *)
(* route nor units.                                                        *)
KickTrial(b, h, best, pair, allowance) ==
  LET Down(r) == Descended(b, h, allowance,
                           [route |-> r.route, units |-> r.units, next |-> 1, idle |-> 0,
                            pairs |-> << >>, pair |-> 1, pairIdle |-> 0, over |-> FALSE], Doublings)
      Result(d) == [route |-> d.route, units |-> d.units]
      Over(r) == IF r.route = << >> THEN [route |-> << >>, units |-> 0] ELSE Result(Down(r))
  IN  Over(RunJob(b, h, KicksFor(b, h, best, pair, allowance)))

----------------------------------------------------------------------------
(* The search hands over a route: an episode's only where a job may fit.   *)
AtStart ==
  /\ out = NotYet /\ check.unit = "idle" /\ ~guide.sided
  /\ pos = Canonical(maze, maze.start)

Boxes == Len(maze.labels)

Found ==
  /\ AtStart /\ polish = NoPolish
  /\ \E route \in Seeds[maze], ask \in Asks :
       /\ ask.ending = "running" => FitsPolish(ask.allowance, Len(route))
       /\ polish' = NewPolish(maze, route, ask)
  /\ UNCHANGED vars

(* step: out of kick work, the polish ends; else every unit once the kicks *)
(* began takes one.                                                        *)
Stepping == polish.is = "polishing" /\ polish.round = NoRound

Spent == polish.kicking /\ polish.work = 0

Paid == [polish EXCEPT !.work = IF polish.kicking THEN @ - 1 ELSE @]

OutOfWork ==
  /\ Stepping /\ Spent
  /\ polish' = [polish EXCEPT !.job = NoJob, !.is = "over"]
  /\ UNCHANGED vars

(* A found route replaces the one worked on when it replays, cut at its    *)
(* first solved position, and is shorter, or a kick's.                     *)
IdleAfter(job) ==
  IF Len(job.freed) = 1 THEN <<1, 0>> ELSE IF job.kick THEN <<0, 0>> ELSE <<0, 1>>

Taken(p, job) ==
  LET With(route) ==
        LET better == Len(route) < Len(p.best) IN
        IF route = << >> \/ ~(job.kick \/ Len(route) < Len(p.route)) THEN p
        ELSE [p EXCEPT !.route = route,
                       !.idle = IdleAfter(job)[1], !.pairIdle = IdleAfter(job)[2],
                       !.best = IF better THEN route ELSE @,
                       !.kickIdle = IF better THEN 0 ELSE @]
  IN  With(CutRoute(maze, job.found))

Working == Stepping /\ ~Spent /\ polish.job # NoJob

JobUnit ==
  /\ Working
  /\ LET Now(job) ==
           IF job.is = "running" THEN [Paid EXCEPT !.job = job]
           ELSE IF job.is = "failed" THEN [Paid EXCEPT !.job = NoJob]
           ELSE Taken([Paid EXCEPT !.job = NoJob], job)
     IN  polish' = Now(JobStep(maze, guide, polish.job))
  /\ UNCHANGED vars

(* With no job under way, the next box's, the next run from the seed, the  *)
(* pairs of the best route, the next pair's, or the next kick.             *)
Choosing == Stepping /\ ~Spent /\ polish.job = NoJob

StartBox ==
  /\ Choosing /\ polish.idle < Boxes
  /\ polish' = [Paid EXCEPT !.idle = @ + 1,
                            !.next = 1 + ((@ - 1 + polish.stride) % Boxes),
                            !.job = FirstJob(JobsFor(maze, guide, polish.route, <<polish.next>>,
                                                     polish.allowance))]
  /\ UNCHANGED vars

Cycled == Choosing /\ polish.idle >= Boxes

NextRun ==
  /\ Cycled /\ polish.run + 1 < polish.runs
  /\ polish' = [Paid EXCEPT !.run = @ + 1, !.route = polish.seed, !.idle = 0,
                            !.next = FirstSlot(Boxes, polish.run + 1),
                            !.stride = StrideOf(Boxes, polish.run + 1)]
  /\ UNCHANGED vars

(* An episode never kicks.                                                 *)
StartPairs ==
  /\ Cycled /\ polish.run + 1 = polish.runs
  /\ LET With(pairs) ==
           [Paid EXCEPT !.run = polish.runs, !.route = polish.best, !.pairs = pairs,
                        !.allowance = Max({0, @ - Len(pairs)}),
                        !.next = 1, !.stride = 1, !.pairIdle = 0,
                        !.swaps = IF polish.ending = "running" THEN 0
                                  ELSE Len(SelectSeq(pairs, LAMBDA pair : SameLabel(maze, pair)))]
     IN  polish' = With(PairsBy(maze, polish.best))
  /\ UNCHANGED vars

PairPhase == Cycled /\ polish.run = polish.runs

StartPair ==
  /\ PairPhase /\ polish.pairIdle < Len(polish.pairs)
  /\ polish' = [Paid EXCEPT !.pairIdle = @ + 1, !.pair = 1 + (@ % Len(polish.pairs)),
                            !.job = FirstJob(JobsFor(maze, guide, polish.route,
                                                     polish.pairs[polish.pair], polish.allowance))]
  /\ UNCHANGED vars

KickPhase == PairPhase /\ polish.pairIdle >= Len(polish.pairs)

(* The pairs of one label from the kick's on, in the order of a round.     *)
AfterPair(at) == 1 + (at % Len(polish.pairs))

Trading ==
  SelectSeq([k \in DOMAIN polish.pairs |-> 1 + ((polish.kick + k - 2) % Len(polish.pairs))],
            LAMBDA at : SameLabel(maze, polish.pairs[at]))

StartKick ==
  /\ KickPhase /\ polish.kickIdle < polish.swaps /\ polish.workers = 1
  /\ polish' = [Paid EXCEPT !.kickIdle = @ + 1, !.kicking = TRUE, !.route = polish.best,
                            !.kick = AfterPair(Trading[1]),
                            !.job = FirstJob(KicksFor(maze, guide, polish.best,
                                                      polish.pairs[Trading[1]], polish.allowance))]
  /\ UNCHANGED vars

(* start_round: every trade at once, each with its descent, on a pool.     *)
StartRound ==
  /\ KickPhase /\ polish.kickIdle < polish.swaps /\ polish.workers > 1
  /\ polish' = [Paid EXCEPT !.kickIdle = @ + 1, !.kicking = TRUE, !.kick = AfterPair(Last(Trading)),
                            !.round = [is |-> "raced", kicked |-> Trading, arrived |-> << >>]]
  /\ UNCHANGED vars

Concluded ==
  /\ KickPhase /\ polish.kickIdle >= polish.swaps
  /\ polish' = [Paid EXCEPT !.is = "over"]
  /\ UNCHANGED vars

(* merge_round: the first improver in dispatch order wins, the trials up   *)
(* to it are charged, and the next round starts after its pair.            *)
\* Faulty: in the order of arrival.
AsArrived(arrived) == arrived

InOrderSent(arrived) == SortSeq(arrived, LAMBDA r, q : r.order < q.order)

MergedOver(p, results) ==
  LET winners == {k \in DOMAIN results : results[k].route # << >> /\ Len(results[k].route) < Len(p.best)}
      last    == IF winners = {} THEN Len(results) ELSE Min(winners)
      charge  == FoldLeft(LAMBDA sum, r : sum + r.units, 0, SubSeq(results, 1, last))
      left    == p.work - Smaller(charge, p.work)
      won     == [p EXCEPT !.work = left, !.route = results[last].route, !.best = results[last].route,
                           !.kickIdle = 0, !.kick = AfterPair(p.round.kicked[last])]
      lost    == [p EXCEPT !.work = left, !.kickIdle = p.swaps]
      Close(q) == [q EXCEPT !.round = NoRound,
                            !.is = IF left = 0 \/ q.kickIdle >= q.swaps THEN "over" ELSE @]
  IN  Close(IF winners = {} THEN lost ELSE won)

Merged(p, arrived) == MergedOver(p, InOrderSent(arrived))

(* A round is over once every trial has reported, found or failed.         *)
\* Faulty: a kick that fails does not report.
RoundOverFound(sent, arrived) == Len(SelectSeq(arrived, LAMBDA r : r.route # << >>)) = Len(sent)

RoundOver(sent, arrived) == Len(arrived) = Len(sent)

(* poll_round: a trial's result arrives, in any order, or the last does.   *)
Racing == polish.is = "polishing" /\ polish.round # NoRound

Unreported ==
  DOMAIN polish.round.kicked \ {r.order : r \in ToSet(polish.round.arrived)}

Arrive ==
  /\ Racing
  /\ \E k \in Unreported :
       LET trial == KickTrial(maze, guide, polish.best, polish.pairs[polish.round.kicked[k]],
                              polish.allowance)
           all   == Append(polish.round.arrived, [order |-> k] @@ trial)
       IN  polish' = IF RoundOver(polish.round.kicked, all) THEN Merged(polish, all)
                     ELSE [polish EXCEPT !.round.arrived = all]
  /\ UNCHANGED vars

(* An episode ended: the search goes on.                                   *)
Resume ==
  /\ polish.is = "over" /\ polish.ending = "running"
  /\ polish' = NoPolish
  /\ UNCHANGED vars

----------------------------------------------------------------------------
PolishInit == Init /\ polish = NoPolish

Unit ==
  \/ OutOfWork \/ JobUnit \/ StartBox \/ NextRun \/ StartPairs \/ StartPair
  \/ StartKick \/ StartRound \/ Concluded \/ Arrive \/ Resume

PolishNext ==
  \/ polish = NoPolish /\ Next /\ UNCHANGED polish
  \/ Found
  \/ Unit

(* Where Unit is enabled, from the guards of its disjuncts.                *)
UnitReady ==
  /\ polish # NoPolish
  /\ \/ Stepping /\ Spent
     \/ Working
     \/ Choosing /\ polish.idle < Boxes
     \/ Cycled /\ polish.run + 1 <= polish.runs
     \/ PairPhase
     \/ Racing /\ Unreported # {}
     \/ polish.is = "over" /\ polish.ending = "running"

(* The caller goes on advancing, and the pool's threads run: weak fairness *)
(* of Unit, written out because TLC evaluates ENABLED Unit far too slowly. *)
PolishFairness == []<>~UnitReady \/ []<><<Unit>>_polishVars

PolishSpec == PolishInit /\ [][PolishNext]_polishVars /\ PolishFairness

----------------------------------------------------------------------------
(* The routes a polisher holds replay and are solved by their last move    *)
(* alone; the best is never longer than the search's own; a job holds no   *)
(* more than its allowance, and a goal it pops rebuilds to a route of its  *)
(* cost that replays (Polish::step's debug_assert, room, rebuild).         *)
RealRoute(route) == ReplayOf(maze, route) = {Len(route)}

Fresh(job) == job # NoJob /\ job.pending = 0

AtGoal(job) ==
  job.heap # {} /\ ~Stale(job, TopOf(job)) /\ GoalAt(job, TopOf(job))

RebuiltReal(job) ==
  LET Fits(route, cost) ==
        /\ Len(route) = cost /\ ReplayOf(maze, route) # {}
        /\ job.kick \/ Len(CutRoute(maze, route)) < Len(polish.route)
  IN  Fits(Rebuilt(maze, job, TopOf(job).id), TopOf(job).f - TopOf(job).h)

PolishedReal ==
  polish # NoPolish =>
    /\ polish.job = NoJob =>
         /\ \A route \in {polish.best, polish.route} : RealRoute(route)
         /\ Len(polish.best) <= Smaller(Len(polish.seed), Len(polish.route))
    /\ polish.job # NoJob => HeldBytes(polish.job) <= polish.job.allowance
    /\ Fresh(polish.job) /\ AtGoal(polish.job) => RebuiltReal(polish.job)

(* A job's answer is the fewest moves any rescheduling of its boxes takes, *)
(* as the rules alone have it, and one that runs dry has none below its    *)
(* bound: the walk layers, the tails and the push distances never cut off  *)
(* a shorter route (polish.rs, docs/route-polish.md).                      *)
JobExact ==
  polish # NoPolish /\ Fresh(polish.job) =>
    /\ polish.job.heap = {} => Rescheduled(maze, polish.job) = Inf
    /\ AtGoal(polish.job) =>
         Rescheduled(maze, polish.job) = TopOf(polish.job).f - TopOf(polish.job).h

(* The round a race of kicks ends as does not depend on the order in which *)
(* their results arrive: the first in the order sent that beats the best   *)
(* wins, the trials up to it are charged, and the next round starts after  *)
(* its pair (merge_round, docs/parallel-polish.md).                        *)
RaceInOrder ==
  LET Trial(k) == KickTrial(maze, guide, polish.best, polish.pairs[polish.round.kicked[k]],
                            polish.allowance)
      Beats(r) == r.route # << >> /\ Len(r.route) < Len(polish.best)
      Cost(trials, k) == MapThenSumSet(LAMBDA j : trials[j].units, 1 .. k)
      Fair(trials, wins) ==
        IF wins = {}
          THEN /\ polish'.best = polish.best /\ polish'.is = "over"
               /\ polish'.work = Max({0, polish.work - Cost(trials, Len(trials))})
          ELSE /\ polish'.best = trials[Min(wins)].route
               /\ polish'.work = Max({0, polish.work - Cost(trials, Min(wins))})
               /\ polish'.kick = AfterPair(polish.round.kicked[Min(wins)])
      Among(trials) == Fair(trials, {k \in DOMAIN trials : Beats(trials[k])})
  IN  Among([k \in DOMAIN polish.round.kicked |-> Trial(k)])

RaceFair ==
  [][polish # NoPolish /\ polish.round # NoRound /\ polish'.round = NoRound => RaceInOrder]_polishVars

(* A polish ends, however its jobs and races come out: each trial of a     *)
(* round reports once, and each gain restarts only what it must            *)
(* (polish.rs 553-740).                                                    *)
PolishEnds == polish.is = "polishing" ~> polish.is # "polishing"

=============================================================================
