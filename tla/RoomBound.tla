----------------------------- MODULE RoomBound ------------------------------
(***************************************************************************)
(* The room bound of the exact search (crates/search/src/room_bound.rs):   *)
(* the resumable build that tries the candidate rooms under a ledger of    *)
(* bytes and two shares of work (RoomBuild), one unit of work a step, and  *)
(* the bound it leaves, read at every position a search expands            *)
(* (RoomBound::root and child_estimate).                                   *)
(*                                                                         *)
(* A buffer is charged one byte an item; a kept room is a record of the    *)
(* room and its tables.                                                    *)
(***************************************************************************)
EXTENDS Kernel, RoomTable

CONSTANTS
  Searches,                           \* what searches give the build
  StatesPerNode, MinCap, MaxCap,      \* how its cap follows from their nodes
  WorkPerCap, WideWorkPerCap,         \* the shares of work, in caps
  WideDoors,                          \* the fewest doors of a wide room
  EnclosedShare, KeptShare            \* the cap and the memory over these

ASSUME BoundAssumption ==
  /\ {StatesPerNode, MinCap, MaxCap, WorkPerCap, WideWorkPerCap, WideDoors,
      EnclosedShare, KeptShare} \subseteq Nat \ {0}
  /\ MinCap <= MaxCap
  /\ Searches \subseteq [nodes : Nat, memory : Nat, held : Nat]

Found == [b \in Boards |-> Candidates(b)]

(* A board is finite, and no candidate is found twice.                     *)
ASSUME FoundAssumption ==
  \A b \in Boards :
    /\ IsFiniteSet(b.open) /\ IsFiniteSet(DOMAIN b.goals) /\ IsFiniteSet(DOMAIN b.labels)
    /\ Found[b] \in Seq(Rooms(b)) /\ IsInjective(Found[b])

VARIABLES
  maze, guide,     \* the board and the heuristic of the exact search
  budget,          \* the search's nodes and memory, and what its arena holds
  queue,           \* the candidates still to try
  failed,          \* the rooms that size-failed
  built,           \* the rooms kept, with their tables
  trial,           \* the room being tried
  build,           \* the table being built
  ledger,          \* the bytes charged, and those of them that are kept
  shares,          \* the work left for the rooms and for the wide ones
  bound,           \* the bound, once the build ends
  pos, out         \* the position popped, its pushes and its children

buildVars == <<queue, failed, built, trial, build, ledger, shares, bound>>
vars == <<maze, guide, budget, buildVars, pos, out>>

NoTrial == [is |-> "none"]
NoBuild == [phase |-> "none"]

----------------------------------------------------------------------------
(* The limits of RoomBuild::new.                                           *)
Cap       == Max({MinCap, Smaller(StatesPerNode * (budget.nodes + 1), MaxCap)})
Limit     == budget.memory - budget.held
KeptLimit == budget.memory \div KeptShare

\* Faulty: looks at what is charged already.
FitsBefore(bytes) == ledger.live <= Limit

Fits(bytes) == ledger.live + bytes <= Limit

FitsKept(bytes) == ledger.kept + bytes <= KeptLimit

CandidateBytes(room) == Cardinality(room.cells) + Cardinality(room.doors)

RoomBytes(b, room) == CandidateBytes(room) + Cardinality(b.open)

MovesBytes(moves) ==
  Cardinality(moves.steps) + 2 * Cardinality(moves.pushes) + 2 * Cardinality(moves.entries)

HallBytes(b) == Cardinality(b.open)

QueuedBytes(rooms) == SumFunction([r \in rooms |-> CandidateBytes(r)])

(* What new charges for good: the hall part, the floor, the two lists and  *)
(* the candidates.                                                         *)
FirstBytes(b) ==
  HallBytes(b) + Cardinality(b.open) + 2 * Len(Found[b])
    + QueuedBytes(ToSet(Found[b]))

KeptBytes(tables) == SumFunction([t \in tables |-> TableBytes(t)])
KeptOf(rooms)     == SumFunction([r \in rooms |-> KeptBytes(r.tables)])
ReachedBy(rooms)  == MapThenSumSet(LAMBDA r : MapThenSumSet(LAMBDA t : t.reached, r.tables), rooms)

Wide(room)  == Cardinality(room.doors) >= WideDoors
Share(room) == IF Wide(room) THEN "wide" ELSE "rooms"

(* Once a wide room is next, the rooms' leftover flows to the wide share.  *)
Folded(room) ==
  IF Wide(room) THEN [rooms |-> 0, wide |-> shares.wide + shares.rooms] ELSE shares

----------------------------------------------------------------------------
(* The tables' sum, Inf where a projection is missing, and the cells the   *)
(* tables count.                                                           *)
TablesSum(b, rooms, s) ==
  LET tables == UNION {r.tables : r \in rooms}
      values == [t \in tables |-> ValueIn(b, t, s)]
  IN  Smaller(Inf, MapThenSumSet(LAMBDA t : values[t], tables))

CountedBy(rooms) == UNION {t.rules.part : t \in UNION {r.tables : r \in rooms}}

SumWith(b, tables, hall, s) ==
  Smaller(Inf, tables + Max({0, EstimateOf(b, hall, s) - hall.charge[s.player]}))

(* start_sum: S at the start over some rooms.                              *)
StartSum(b, rooms) ==
  LET With(hall) == SumWith(b, TablesSum(b, rooms, b.start), hall, b.start)
  IN  With(Heuristic(b, TRUE, CountedBy(rooms)))

(* RoomBound::root and child_estimate: S from scratch, and S of a child    *)
(* from its parent's hall part.                                            *)
RootBound(b, s) == SumWith(b, TablesSum(b, built, s), bound.hall, s)

\* Faulty: starts from the parent's estimate of M.
ChildBoundFromM(b, s, k) ==
  Smaller(Inf, TablesSum(b, built, k.state)
                 + ChildEstimate(b, bound.hall, EstimateOf(b, guide, s), s, k.box, k.to, k.dir))

ChildBound(b, s, k) ==
  Smaller(Inf, TablesSum(b, built, k.state)
                 + ChildEstimate(b, bound.hall, EstimateOf(b, bound.hall, s), s, k.box, k.to, k.dir))

----------------------------------------------------------------------------
Init ==
  /\ maze \in Boards
  /\ guide = Heuristic(maze, TRUE, {})
  /\ budget \in Searches
  /\ queue = Found[maze] /\ failed = {} /\ built = {}
  /\ trial = NoTrial /\ build = NoBuild
  /\ ledger = [live |-> FirstBytes(maze), kept |-> 0]
  /\ shares = [rooms |-> WorkPerCap * Cap, wide |-> WideWorkPerCap * Cap]
  /\ bound = [is |-> IF queue # << >> /\ ledger.live <= Limit THEN "building" ELSE "none"]
  /\ pos = Canonical(maze, maze.start)
  /\ out = NotYet

Idle   == bound.is = "building" /\ trial = NoTrial
Trying == bound.is = "building" /\ trial # NoTrial /\ shares[Share(trial.room)] > 0

Rest == <<maze, guide, budget, bound, pos, out>>

(* begin: why a candidate is skipped.                                      *)
\* Faulty: takes every room kept for enclosed.
AllBuilt(room) == built

Enclosed(room) == {r \in built : Encloses(room.cells, r.room)}

InsideBuilt(room) ==
  \E r \in built : /\ Cardinality(r.room.cells) > Cardinality(room.cells)
                   /\ FirstCell(room.cells) \in r.room.cells

Crossing(room) == \E r \in built : Crosses(room.cells, r.room.cells)

Poisoned(room) ==
  \E f \in failed : /\ BoundaryWidth(maze, room) >= f.width
                    /\ f.size < Cardinality(room.cells)
                    /\ f.first \in room.cells

\* Faulty: tries rooms that cross a built one.
SkipsLaminar(room) ==
  \/ InsideBuilt(room) \/ Poisoned(room)
  \/ ReachedBy(Enclosed(room)) > Cap \div EnclosedShare

Skips(room) ==
  \/ InsideBuilt(room) \/ Crossing(room) \/ Poisoned(room)
  \/ ReachedBy(Enclosed(room)) > Cap \div EnclosedShare

Mark(room) == [first |-> FirstCell(room.cells), width |-> BoundaryWidth(maze, room),
               size |-> Cardinality(room.cells)]

(* The next candidate is dropped: its share is spent, or it is skipped.    *)
Skip ==
  /\ Idle /\ queue # << >>
  /\ Folded(Head(queue))[Share(Head(queue))] = 0 \/ Skips(Head(queue))
  /\ shares' = Folded(Head(queue))
  /\ queue' = Tail(queue)
  /\ ledger' = [ledger EXCEPT !.live = @ - CandidateBytes(Head(queue))]
  /\ UNCHANGED <<Rest, failed, built, trial, build>>

(* It is started on, with its index and moves charged; the tables of the   *)
(* rooms it encloses are not kept meanwhile.                               *)
Begin ==
  LET room  == Head(queue)
      extra == Cardinality(maze.open) + MovesBytes(MovesOf(maze, room))
  IN  /\ Idle /\ queue # << >>
      /\ Folded(room)[Share(room)] > 0 /\ ~Skips(room)
      /\ shares' = Folded(room)
      /\ queue' = Tail(queue)
      /\ \/ /\ ~Fits(extra)
            /\ failed' = failed \cup {Mark(room)}
            /\ ledger' = [ledger EXCEPT !.live = @ - CandidateBytes(room)]
            /\ UNCHANGED trial
         \/ /\ Fits(extra)
            /\ trial' = [is |-> "trial", room |-> room, parts |-> <<room.cells>>, tables |-> {},
                         failed |-> FALSE, replaces |-> Enclosed(room) # {}]
            /\ ledger' = [live |-> ledger.live + extra,
                          kept |-> ledger.kept - KeptOf(Enclosed(room))]
            /\ UNCHANGED failed
      /\ UNCHANGED <<Rest, built, build>>

----------------------------------------------------------------------------
(* Attempt::split: after the whole room, its halves with some of its       *)
(* labels but not all, unless it would replace others.                     *)
Split(b, t, part) ==
  IF part # t.room.cells \/ t.replaces THEN t.parts
  ELSE SelectSeq(Halves(b, t.room),
                 LAMBDA half : LabelsOn(b, half) \notin {{}, LabelsOn(b, part)})

(* The next part's table is begun, where there is one.                     *)
Part ==
  LET part  == Head(trial.parts)
      rules == RulesOf(maze, guide, trial.room, part)
      rest  == [trial EXCEPT !.parts = Tail(@)]
  IN  /\ Trying /\ build = NoBuild /\ trial.parts # << >>
      /\ \/ /\ Buildable(rules)
            /\ build' = NewBuild(rules, Projected(maze, rules, maze.start))
            /\ trial' = rest
         \/ /\ ~Buildable(rules)
            /\ trial' = [rest EXCEPT !.parts = Split(maze, rest, part)]
            /\ UNCHANGED build
      /\ UNCHANGED <<Rest, queue, failed, built, ledger, shares>>

(* A size failure frees the build and marks the room.                      *)
Fail ==
  /\ build' = NoBuild
  /\ trial' = [trial EXCEPT !.failed = TRUE, !.parts = Split(maze, trial, build.rules.part)]
  /\ ledger' = [ledger EXCEPT !.live = @ - BytesOf(build)]

(* The build goes on as next, where its states and its bytes fit.          *)
Goes(next) ==
  LET fits == Len(next.states) <= Cap /\ Fits(BytesOf(next) - BytesOf(build)) IN
  \/ /\ fits
     /\ build' = next
     /\ ledger' = [ledger EXCEPT !.live = @ + BytesOf(next) - BytesOf(build)]
     /\ UNCHANGED trial
  \/ ~fits /\ Fail

(* The build ends, with the tables it adds: every other buffer is freed.   *)
Ends(tables) ==
  /\ build' = NoBuild
  /\ trial' = [trial EXCEPT !.tables = @ \cup tables]
  /\ ledger' = [live |-> ledger.live - BytesOf(build) + KeptBytes(tables),
                kept |-> ledger.kept + KeptBytes(tables)]

At(phase) == Trying /\ build.phase = phase

Spends == shares' = [shares EXCEPT ![Share(trial.room)] = @ - 1]

Build == UNCHANGED <<Rest, queue, failed, built>>

StartBuild  == At("start") /\ Goes(Started(build)) /\ Spends /\ Build
ForwardUnit == At("forward") /\ Goes(Forward(build)) /\ Spends /\ Build
SeedUnit    == At("seed") /\ Goes(Seed(build)) /\ Spends /\ Build
BackUnit    == At("back") /\ build.cur # << >> /\ Goes(BackPop(build)) /\ Spends /\ Build

(* The next level, unless the values already pass the kept limit.          *)
BackLevel ==
  /\ At("back") /\ build.cur = << >> /\ build.next # << >>
  /\ \/ ~(RootReached(build) /\ ~FitsKept(Cardinality(Finite(build)))) /\ Goes(NextLevel(build))
     \/ RootReached(build) /\ ~FitsKept(Cardinality(Finite(build))) /\ Fail
  /\ UNCHANGED shares /\ Build

(* The last level done, the values are allocated; an unreached root leaves *)
(* no table.                                                               *)
BackEnd ==
  /\ At("back") /\ build.cur = << >> /\ build.next = << >>
  /\ \/ ~RootReached(build) /\ Ends({})
     \/ RootReached(build) /\ FitsKept(Cardinality(Finite(build))) /\ Goes(Allocated(build))
     \/ RootReached(build) /\ ~FitsKept(Cardinality(Finite(build))) /\ Fail
  /\ UNCHANGED shares /\ Build

InsertUnit ==
  /\ At("insert") /\ Spends /\ Build
  /\ \/ ~Inserted(build) /\ Goes(Insert(build))
     \/ Inserted(build) /\ Ends({TableOf(build)})

----------------------------------------------------------------------------
(* conclude: a one-door room is kept with any table, a room of more doors  *)
(* only where its tables raise S at the start, with the rooms it encloses  *)
(* replaced.  The bytes of tables not kept stay charged.                   *)
Raises(t, live) ==
  /\ live + Cardinality(maze.open) <= Limit
  /\ StartSum(maze, (built \ Enclosed(t.room)) \cup {[room |-> t.room, tables |-> t.tables]})
       > StartSum(maze, built)

Keeps(t, live) == t.tables # {} /\ (Cardinality(t.room.doors) = 1 \/ Raises(t, live))

GeometryOf(b, rooms) == SumFunction([r \in rooms |-> RoomBytes(b, r.room)])

HeldBy(b, rooms) == KeptOf(rooms) + GeometryOf(b, rooms)

Concludes(t, live) ==
  /\ failed' = IF t.failed THEN failed \cup {Mark(t.room)} ELSE failed
  /\ \/ /\ Keeps(t, live)
        /\ built' = (built \ Enclosed(t.room)) \cup {[room |-> t.room, tables |-> t.tables]}
        /\ ledger' = [ledger EXCEPT !.live = live - HeldBy(maze, Enclosed(t.room))]
     \/ /\ ~Keeps(t, live)
        /\ ledger' = [live |-> live - RoomBytes(maze, t.room),
                      kept |-> ledger.kept + KeptOf(Enclosed(t.room))]
        /\ UNCHANGED built
  /\ trial' = NoTrial
  /\ build' = NoBuild

Conclude ==
  /\ Trying /\ build = NoBuild /\ trial.parts = << >>
  /\ Concludes(trial, ledger.live - MovesBytes(MovesOf(maze, trial.room)))
  /\ UNCHANGED <<Rest, queue, shares>>

(* abandon: the share ran out; a build in flight is freed and marks the    *)
(* room, and what it built already stands to the keep test.                *)
Abandon ==
  LET flying == build # NoBuild
      live   == ledger.live - MovesBytes(MovesOf(maze, trial.room))
  IN  /\ bound.is = "building" /\ trial # NoTrial /\ shares[Share(trial.room)] = 0
      /\ Concludes([trial EXCEPT !.failed = @ \/ flying],
                   IF flying THEN live - BytesOf(build) ELSE live)
      /\ UNCHANGED <<Rest, queue, shares>>

(* finish: the bound of the rooms kept, over the cells they count.         *)
Finish ==
  /\ Idle /\ queue = << >>
  /\ bound' = IF built = {} THEN [is |-> "none"]
              ELSE [is |-> "ready", hall |-> Heuristic(maze, TRUE, CountedBy(built))]
  /\ UNCHANGED <<maze, guide, budget, queue, failed, built, trial, build, ledger, shares, pos, out>>

----------------------------------------------------------------------------
(* The search on the bound: a popped position is expanded, each child that *)
(* the estimate admits is bounded, and a missing projection drops it.      *)
Bounded(kids) == {k @@ [s |-> ChildBound(maze, pos, k)] : k \in kids}

ExpandBounded ==
  /\ bound.is = "ready" /\ out = NotYet
  /\ LET With(e) == out' = [pushes |-> e.pushes, kids |-> Bounded(e.kids)]
     IN  With(Expanded(maze, guide, pos, FloodOf(maze, pos)))
  /\ UNCHANGED <<maze, guide, budget, buildVars, pos>>

PopBounded ==
  /\ \E k \in out.kids : k.s < Inf /\ pos' = k.state
  /\ out' = NotYet
  /\ UNCHANGED <<maze, guide, budget, buildVars>>

BuildStep ==
  \/ Skip \/ Begin \/ Part \/ StartBuild \/ ForwardUnit \/ SeedUnit \/ BackUnit \/ BackLevel
  \/ BackEnd \/ InsertUnit \/ Conclude \/ Abandon \/ Finish

Next == BuildStep \/ ExpandBounded \/ PopBounded

Spec == Init /\ [][Next]_vars

----------------------------------------------------------------------------
(* A candidate is what its tables take it for: small, marked, and with its *)
(* doors for its whole boundary, though floods are cut short and pieces of *)
(* a large component are left behind; one-door candidates nest or lie      *)
(* apart (candidates, try_cut, Room::new).                                 *)
CandidatesSealed ==
  /\ \A k \in DOMAIN queue :
       /\ queue[k].doors = Boundary(maze, queue[k].cells)
       /\ Cardinality(queue[k].cells) <= MaxRoom
       /\ queue[k].cells \cap Marked(maze) # {}
  /\ \A j, k \in DOMAIN queue :
       Cardinality(queue[j].doors) = 1 /\ Cardinality(queue[k].doors) = 1 =>
         ~Crosses(queue[j].cells, queue[k].cells)

(* A table holds the states of the relaxed problem that reach a goal, each *)
(* with its fewest counted moves, though the search forward refuses the    *)
(* frozen and the crowded and the search back stores no edges (table.rs).  *)
TablesExact ==
  build.phase = "insert" /\ build.at = 1 => TableExact(TableOf(build), build.root)

(* The build stays within the search's memory: what it holds is charged,   *)
(* the charge is within the limit, and the kept tables are within theirs   *)
(* (Ledger).                                                               *)
Holds ==
  HeldBy(maze, built) + 2 * Cardinality(maze.open) + 2 * Len(Found[maze])
    + QueuedBytes(ToSet(queue))
    + (IF trial = NoTrial THEN 0
       ELSE RoomBytes(maze, trial.room) + MovesBytes(MovesOf(maze, trial.room))
              + KeptBytes(trial.tables))
    + (IF build = NoBuild THEN 0 ELSE BytesOf(build))

MemoryKept ==
  bound.is # "none" =>
    /\ Holds <= ledger.live /\ ledger.live <= Limit
    /\ KeptOf(built) <= KeptLimit

(* The ledger's kept bytes are those of the built tables, as its comment   *)
(* says; while a room that may replace others is tried, theirs do not      *)
(* count.                                                                  *)
KeptIsBuilt ==
  trial = NoTrial => ledger.kept = KeptOf(built)

(* A replacement never lowers the tables' sum, in any position, and drops  *)
(* none that can still be solved (RoomBuild).                              *)
SumNeverFalls ==
  [][built' # built =>
       \A s \in Reachable(maze) :
         MovesLeft(maze, s) < Inf =>
           TablesSum(maze, built, s) <= TablesSum(maze, built', s)]_vars

(* S is a lower bound that never falls faster than the route: at the start *)
(* and at every child it is within the moves left, so that a missing       *)
(* projection means there is no route, and a push lowers it by the walk    *)
(* and the push at most.  So no cell is counted by two tables or by one    *)
(* and the hall, whatever was skipped, split, replaced or abandoned        *)
(* (begin, conclude, docs/room-bound.md).  A child's S, from its parent's  *)
(* hall part, is the one worked out afresh, and every child the estimate   *)
(* admits has a hall part, as child_estimate expects.                      *)
BoundSound ==
  LET Fits2(s, flood) ==
        /\ s <= MovesLeft(maze, pos)
        /\ \A k \in out.kids : /\ k.s <= MovesLeft(maze, k.state)
                               /\ s <= flood.at[k.stand] + 1 + k.s
                               /\ k.s = RootBound(maze, k.state)
                               /\ EstimateOf(maze, bound.hall, k.state) < Inf
  IN  bound.is = "ready" => Fits2(RootBound(maze, pos), FloodOf(maze, pos))

=============================================================================
