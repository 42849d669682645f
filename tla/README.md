# A verification project for Sokomind

Sokomind is a labelled Sokoban game with an exact and an anytime solver. The
rules and the solver are Rust crates; they run in the browser as WebAssembly,
in a worker the page starts, or behind `POST /api/solve` on a small server. The
page checks whatever an engine answers before it shows it.

This directory holds TLA+ models of the parts where state, order and failure
matter, TLC runs that check them on small instances, and TLAPS proofs of the
invariants that the rest leans on. Paths below are relative to `src/`; line
numbers name the code at the commit modelled. Run the tools in this directory:

    tlc -workers 2 -config MCSearch.cfg MCEngine.tla
    tlapm ArenaProofs.tla

- [The system](#the-system)
- [The modules](#the-modules)
- [The runs](#the-runs)
- [Fairness](#fairness)
- [The proofs](#the-proofs)
- [Disagreements between the code and its words](#disagreements-between-the-code-and-its-words)
- [What is not modelled](#what-is-not-modelled)
- [The plan](#the-plan)

## The system

### Components, their state and their operations

| Component | Code | State it keeps | Operations |
|---|---|---|---|
| Rules and game | `crates/core/src/board.rs`, `game.rs` | a position, the route played, undo records | step, undo, reset, replay, start a search at |
| Node arena and queue | `crates/search/src/arena.rs`, `arena/queue.rs` | records, the table that binds a state to its latest record, queue entries, chunk and table sizes | find, insert, close, push, pop, grow, clear, clear keeping a path, re-weight, recharge, release |
| Push kernel | `push.rs`, `reach.rs`, `heuristic.rs`, `deadlock.rs`, `corral.rs` | scratch only | admit a push, its prunes and estimates |
| Engine | `engine.rs`, `exact.rs`, `proof.rs`, `lib.rs` | policy, status, incumbent, what a limit cut off, stage point, episode, bounds | construct, advance, stop, lower bound, proof, route |
| Stage ladder | `stage.rs`, `stage/*.rs` | frames, rungs, bans, rises, work and check budgets | one unit at a time: search, check, commit, restart, backjump |
| Room bound, walk term, polish | `room_bound.rs`, `heuristic/walk_term.rs`, `polish.rs` | tables, an LP, candidate routes | build, solve, improve, one unit at a time |
| Rate limiter | `crates/server/src/limit.rs` | a bounded map of clients to windows, behind a mutex | allow |
| Solve endpoint | `crates/server/src/solve.rs`, `api.rs` | a semaphore of solve slots, a cancel flag per request | check, admit, charge, search on a blocking thread, answer, drop |
| Solver client | `web/src/solver-client.ts`, `solver.worker.ts`, `transport.ts` | one search, its timers, worker or request, its verified route | solve, cancel, reset, drop the route, accept a reply, fail, time out |
| Play page | `web/src/play.ts`, `main.ts`, `playback.ts` | the game, a solver client, a hint's client, a playback, the pause | every button and key, every tick, every update |
| Solver Lab | `web/src/lab-page.ts` | a room, a position, a solver client | render, choose a room, run, cancel, update |
| Proven optima | `web/src/optimal.ts` | the least certified count of each room | record |
| Progress, timer, storage | `web/src/progress.ts`, `timer.ts`, `storage.ts`, `idb.ts` | sessions, bests, a clock, a database connection | save later, flush, compare, retry |
| Journal, replays, statistics | `web/src/journal.ts`, `replays.ts`, ... | stored events and routes | merge, promote, sum |
| Editor and generator | `web/src/editor*.ts`, `generator*.ts` | a grid with its undo stack; an attempt's candidates | edit, playtest, generate |
| Offline shell | `web/public/sw.js`, `offline-shell.ts` | cache generations | install, activate, fetch |
| Router, presentation, scripts, deployment | the rest of `web/src`, `scripts`, `deploy` | none that others rest on | |

### How they interact

The worker (`solver.worker.ts` 68-100) and the server's `drive` (`solve.rs`
206-216) call the engine's `advance` in batches until the search ends or is
stopped; between batches they read its bound, its best route and its counters.
The engine owns the arena, and hands it to the ladder, which searches its
stages in the very same arena and gives it back with a route, with none, or
unable to grow. The solver client posts one request to a worker or to the
server, and hears messages, timers, promise resolutions and rejections, which
may come after the search they belong to was replaced. The page passes each
update on: to its buttons, to a playback that steps the game on a timer, and to
the proven optima.

### What is hard in it

- *Resources at their limit.* The arena grows one insert ahead of need, so that
  no insert ever allocates; a refused growth makes it "starved", and the search
  must keep its route and stop. A full arena has one spare slot for a solved
  child.
- *Long protocols over shared state.* A Quality search runs Fast, may stage,
  starts over in an emptied arena that keeps the incumbent's path, or goes on
  in place under other weights; bounds are read from a queue that several
  phases filled.
- *Interruption.* A limit cuts an expansion short; a stop lands between any two
  pops, also in a build, a stage or a polish.
- *Order.* Clock reads and locks of the limiter, a dropped request and its
  running search, a reply and the reset that made it late, a hint's answer and
  a route that started to play meanwhile, the results of kicks that race.
- *Stale state.* Which room and position an answer belongs to is read when the
  answer comes; a child's assignment is repaired from its parent's potentials.
- *Geometry that must never be wrong by one.* A prune or a bound that is wrong
  on one layout in a million loses the optimum, and no fixture shows it: side
  tables, freezes, corrals, matchings, charges, the backward search of a room's
  table.
- *A build that may stop anywhere.* The room bound's tables are built under two
  shares of work and a ledger of bytes; any of them may end in the middle of a
  table that was to replace others.

### What makes each part correct

- *Game*: it is always exactly the strict replay of its own route.
- *Arena*: the table binds exactly the live records, one per state; a probe
  ends; an insert has its place; parents lead to the start.
- *Engine*: Optimal's bound never exceeds the optimum and its certificates are
  true; a route replays; the best route never gets longer; a search ends.
- *Ladder*: its frames are on the kept path and climb; its route leaves room
  to start over.
- *Push kernel, estimates, prunes*: a push offered can be walked and leads to
  the state it names; the estimate is admissible, falls no faster than the
  route is paid and is the same repaired as afresh; a prune costs no solution.
- *Room bound*: rooms are sealed by their doors, tables hold the least counted
  moves, the sum over tables and hall counts no move twice, the build stays
  within its memory.
- *Polish*: its routes replay and are solved by their last move alone, the best
  is never longer than the search's own; a job finds the fewest moves any
  rescheduling takes; a race of kicks ends alike whatever arrives first; a
  polish ends.
- *Limiter*: bounded memory, honest counts, no budget reset early.
- *Endpoint*: slots are neither lost nor made.
- *Solver client*: nothing of a search outlives it; only verified routes and
  fitting proofs are shown; a late reply changes nothing; a search ends.
- *Pages*: a kept route fits the game and a playback stays on its route, unless
  a hint and another answer crossed; a certificate is true of its own room.

## The modules

| Module | Models | Built on |
|---|---|---|
| `Arena` | the arena as a value, its operations as operators | |
| `ArenaClient` | an arena in the hands of any search that keeps its contract | `Arena` |
| `ArenaLemmas` | what each operator of the arena returns and keeps | `Arena` |
| `ArenaProofs` | its inductive invariant and six theorems | `ArenaClient`, `ArenaLemmas` |
| `Pushes` | boards as push graphs, the policies, the prunes shared by engine and ladder | `Arena` |
| `Ladder` | the stage ladder, one unit or one push per action | `Pushes` |
| `Search` | what any search promises its caller, and nothing of how it searches | |
| `Engine` | the search from construction to its proof; how it maps to `Search` | `Ladder`, an instance of `Search` |
| `EngineProofs` | its inductive invariant: real routes, sound prunes, growth ahead; what an exact search keeps: no lost route, a sound bound, true certificates | `Engine`, `ArenaLemmas` |
| `SearchProofs` | in every mode the engine implements `Search` | `EngineProofs` |
| `Floor` | floods, walks, and the sides of every cell (`reach.rs`, `reach/blocks.rs`) | `Rules` |
| `Estimate` | push distances, dead masks, charges, assignment and repair (`heuristic.rs`) | `Floor` |
| `Deadlocks` | freezes, goals reached alone, matchings, sink lines (`deadlock.rs`, `deadlock/goals.rs`) | `Estimate` |
| `Corrals` | sealed corrals and the stepwise pocket check (`corral.rs`) | `Deadlocks` |
| `Kernel` | settling, legal pushes, `admit`, the stand walk (`push.rs`); the moves left, by brute force | `Corrals` |
| `Expansion` | a search on real boards and the accept checks of the stage (`stage/checks.rs`) | `Kernel` |
| `Reschedule` | a polish job: the walk layers, the tails and the A* over where freed boxes' pushes go among the kept ones (`polish.rs`) | `Kernel` |
| `Polish` | the polisher: runs, pairs, kicks, raced rounds | `Expansion`, `Reschedule` |
| `Rooms` | the candidate rooms, of one to five doors | `Estimate` |
| `RoomTable` | a table: the relaxed problem and its two searches, one unit at a time | `Rooms` |
| `RoomBound` | the build over all candidates, its ledger and shares, and the bound it leaves | `Kernel`, `RoomTable` |
| `BoundProofs` | the build holds no more memory than the search gives it | `RoomBound` |
| `RateLimiter` | the limiter, clock read and locked part apart | |
| `SolveServer` | requests, slots, blocking searches over the limiter | `RateLimiter` |
| `Rules` | steps, undo, replay as operators | |
| `Game` | a play session | `Rules` |
| `GameProofs` | a session is the replay of its route | `Game` |
| `SolverClient` | a client, its worker or request, sound or faulty engines | `Rules` |
| `ClientProofs` | what the client promises whatever the engine sends, and that it refuses no sound reply | `SolverClient`, `GameProofs` |
| `Optimal` | the record of proven optima | `Rules` |
| `Pages` | what the two pages share | `Optimal` |
| `PlayPage` | the page: a game, two `SolverClient` instances, a playback | `Game`, `Pages` |
| `LabPage` | the lab: a room and one `SolverClient` instance | `Pages` |
| `WebProofs` | the page's game, answers and certificates; the lab's certificates, of a user who waits; the limiter's invariants, the solve slots, and that the server implements its limiter | `PlayPage`, `LabPage`, `SolveServer`, `GameProofs`, instances of `ClientProofs` |

`MC*` modules give TLC its boards, routes and tables; `Drawings` turns rows of
characters into a board.

### Arena, ArenaClient

`arena` is one record: `recs` is the append-only list of records (`closed` and
`sup`, superseded, are the flag bits), `index` the ids the table binds, `queue`
the set of entries. The hash function and the probing are abstracted to what a
probe returns; the table's *size* stays, because growth, its refusal and the
end of a probe depend on it. `Insert` is the whole of `Arena::insert`, the
growth check at its end included, with the allocator's two answers as the
parameter `ok`. Starved, released and emptied arenas are fields, not separate
states. Since an operation is an operator on a value, a handler that calls
several of them composes them in one step, as the code does.

`ArenaClient` is the contract as guards: probe before inserting, insert only a
cheaper version, one insert into the spare, enqueue only what was inserted.
That the engine and the ladder keep it is argued from their guards and checked
through `Engine`'s own invariants, not proved as a refinement.

### Pushes, Ladder, Engine

A board is a graph of pushes with, for every position, the value of each
estimate and the verdict of each prune. What the estimates must satisfy is
`BoardAssumption`: their types (`Typed`), that the reference `dist` is the
shortest way to a solved position (`Shortest`, least over the pushes, up to
`Inf`, the saturated count), and `Admissible`, which is what the crate's unit
tests hold of them. TLC evaluates it on every board. Geometry, floods and LP solving are thus outside
these three modules, and every decision *made from* their values is inside.
That the code's own estimates and prunes are as `BoardAssumption` says is what
`EstimateSound` and `PrunesSound` check of `Expansion`, on real boards.

The steps of `Engine` are one pop, one push of the expansion under way, one
unit of a build, the ladder or a polish. `advance` runs any number of them and
returns only between pops, so that its slicing shows in nothing but where a
caller may stop: `Stop` is enabled exactly there. Correspondence:

| Action | Code (`engine.rs` unless named) |
|---|---|
| `PopEmpty`, `PopStale`, `PopSolved`, `PopPruned`, `PopExpand` | `pop`, 1300-1345 |
| `PushDropped`, `PushStored`, `PushAtLimit`, `StageEarly`, `StageFull` | `expand`'s loop, 1385-1600 |
| `FinishExpansion` | the end of `expand`: requeue, episode, walk term |
| `End`, `StopAtLimit`, `StartOver`, `NextPhaseOrEnd`, `SealedBound` | 791-900 |
| `StageUnit` | `stage/ladder.rs`, `LadderUnit` in `Ladder` |
| `StageSolved`, `StageGaveUp` | 1130-1205 |
| `BuildDone`, `WalkDone`, `PolishUnit`, `PolishDone` | the units in place of pops, by outcome |
| `Stop` | `lib.rs` `stop`, 836 |

`Ladder` lets the stage's rankings and checks answer anything, so its
properties hold whatever `rank.rs`, `movers.rs` and `checks.rs` decide.

Two branches of the model fire in no run because no board reaches them in the
code either: a solved start popped by the ladder's own search (the engine ends
first) and the in-place handover of a ladder's route in an arena that still
grows (its restart is never refused, which is part of `GrowthAhead`).

### Search

The variables of `Search` are what a caller can read between two calls:
the status, the best route's length, whether there is a route, the two
counters. `Work` is some pops with all they may bring, `StopFor` is `stop`.
`Engine` substitutes its own state (`Contract`): `best` is `best_moves`, `routed`
a kept record or a polish that holds the route, `generated` the records stored
and those that restarts discarded. That the counters only rise is not evident
there, since a restart empties the arena and counts its kept path once.

### Floor, Estimate, Deadlocks, Corrals, Kernel, Expansion

A board is its open cells, goals, labels and start, drawn in rows. The first
five modules are operators, each a translation of a function: a flood is the
order its queue takes, a depth-first search is a recursion that carries
preorder numbers and low-links, the assignment keeps its potentials and its
matching, the pocket check is a record stepped one pop at a time, with its
caps. Their references are definitions of another kind: `SidesAgree` floods
around every blocked cell, `LeastMatching` tries every pairing, and `MovesLeft`
walks all states that the rules reach, backward from the solved ones, counting
keeper steps. Stamped buffers become sets, since a stamp that outlives its
round would show as a cell too many in the set.

`Expansion` gives them actors: a position is popped, expanded into pushes and
admitted children, and one of these is popped next, so that every position the
kernel can reach with its own prunes off the path comes up, each with what its
parent handed on. For the Fast policy (no keeper sides) the ladder may weigh a
position instead, one accept check or one pocket unit at a time, as `accept`
calls them.

### Reschedule, Polish

A job is a record stepped one unit at a time: its kept pushes, the keeper's walk
layers between them, the tails, the queue and the nodes, with the bytes it
holds. A packed key is a record, and a byte is one element. `Rescheduled` is the
reference: the fewest moves, by the rules alone, of any solution that makes the
kept pushes in their order and any pushes of the freed boxes in between (for a
kick, one that ends in the goals exchanged).

| Action | Code (`polish.rs` unless named) |
|---|---|
| `Found` | `engine.rs` 927-950 (at the end), 1589-1651 (an episode, and its test of what fits); `Polish::new` |
| `JobUnit` | `step`: one unit of the job, the route taken, what its gain restarts |
| `OutOfWork`, `StartBox`, `NextRun`, `StartPairs`, `StartPair`, `StartKick`, `Concluded` | `step` with no job under way |
| `StartRound` | `start_round` |
| `Arrive` | `poll_round` and, with the last result, `merge_round` |
| `Resume` | the engine takes an episode's route and searches on |

A trial of a round runs on its own thread and reads nothing that moves, so it is
one step, at the moment it reports: `KickTrial` is the kick and its whole
descent, and the order in which results arrive is left open. An allocator that
refuses within the allowance and a thread that panics are left out.

`Polish` is checked in the run of `Expansion`, on its boards: where a board has
routes in `Seeds`, a polish may begin at the start position instead of a search.

### Rooms, RoomTable, RoomBound

A candidate is a set of doors and cells; each pass of `candidates` is the
sequence of cuts it tries under its budgets, and `TryCut` floods piece by piece
with the flood cut short, as the code does. `RulesOf` is `TableBuild::new`; a
state of a table is a layout and the keeper's node instead of a packed key, and
the hash tables are sets. The build's phases are actions: `StartBuild`,
`ForwardUnit`, `SeedUnit`, `BackUnit`, `BackLevel`, `BackEnd`, `InsertUnit`.
`Begin` is `begin` with its charge, its failure and the un-keeping of what may
be replaced; `Concludes` is `conclude`; `Abandon` and `Finish` are the two ways
out of the loop of `step`. A byte is one item, so that the ledger's arithmetic
is kept and the layout of items is not.

A step of the build in the code runs many units and returns when they are
spent; each unit is a step here, and nothing but the build reads its state.

### RateLimiter, SolveServer

`allow` is two steps, `Call` (the clock is read) and `Allow` (all of
`allow_at`, under the lock), because the code reads the clock before it takes
the lock. A request in `SolveServer` is a caller of the limiter; its handler
moves through `req`, its blocking search through `job`. The permit belongs to
whoever the code moved it to: the handler until the charge, the closure after.
A request may go away only where its handler awaits; the guard then raises
`cancel`. The search ends at the deadline, when it hears the flag, or by
itself; what it finds is left out.

### Rules, Game

Translated from `Board::step`, `Board::solved`, `Board::validate_state`,
`Game::step`, `undo`, `replay`, `check_extension` and `at`. A refused move is
an empty set of results. Boxes are slots with labels, as in the code, so that
an undo which restores the wrong slot is visible.

### SolverClient

State: the client's `state` union, what it `held` (timers, worker, request) by
search, the `jobs` with the engine's side of each search, the last update
`shown`. Searches keep their ids for ever, so that a message, timer or promise
of an old one can still come. Time is left out: a set timer may fire at any
moment. The engine side follows `solver.worker.ts`: building may fail, routes
are sampled while counts are not, the last update brings the best route unless
it was sent. `Endings` states which ends and proofs the engine's contract
allows. `Rogue` are replies a faulty engine may send instead; `honest` is a
history field that says whether one did.

### PlayPage, LabPage, Pages, Optimal

One action per button, key, timer tick and update; the page's two clients are
instances of `SolverClient`. Every handler is modelled with all the calls it
makes: `Invalidate` is `invalidate()`, the playback's end includes `dropRoute`.
`PlayPage` covers moves, both undos, reset, replaying a pasted route, loading a
board, walking by tap, replaying a best, playing from the shelf, solve, cancel,
play/pause of a route, hints, opening the panel and the pause.

## The runs

Passing runs:

| Run | Question | States |
|---|---|---|
| `arena` (`MCArena.cfg`) | Does an arena stay consistent, with room ahead, under any client that keeps its contract? | 173,324 |
| `search` (`MCSearch.cfg`) | Is a search in any mode sound (its bound, certificates, route, prunes, deferrals), does it keep what `Search` promises, and does it end? | 1,167,377 |
| `expansion` (`MCExpansion.cfg`) | Are pushes, estimates, prunes and accept checks right on real boards? Is a polish's every job exact, its route real, its race fair, and does it end? | 7,117 |
| `rooms` (`MCRoomBound.cfg`) | Does the room bound's build leave exact tables and a sound bound within its memory, however it ends? | 3,966 |
| `server` (`MCServer.cfg`) | Are slots conserved and returned, and the limiter bounded and honest under interleaved requests? | 1,085,184 |
| `client` (`MCClient.cfg`) | Does a client leak nothing, show only what holds, refuse no sound engine, and end every search? | 1,020,347 |
| `play` (`MCPlay.cfg`) | Is the game the replay of its route, and do routes, playbacks, hints and certificates fit it under any user? | 421,467 |
| `lab` (`MCLab.cfg`) | Are the lab's certificates true for a user who waits? | 243,194 |

Runs that end in a violation are described [below](#disagreements-between-the-code-and-its-words).

### Bounds, and why they are enough

- `arena`: four interchangeable positions, chunks of four records, limits 1, 3
  and 4, four inserts. The limits put the spare slot below, at and past the end
  of the first chunk; four inserts fill the first table to where it must grow,
  bring a cheaper version of a state, and leave a path with a gap to renumber.
  Positions are compared only for equality, so symmetry is sound. The proofs
  cover every other size.
- `search`: 99 boards of five positions. Nine are drawn by hand for
  one situation each (a dear push that competes with a cheap detour, paths of
  unequal cost that meet, a position with no solution or no assignment, a
  sealed corral, an uncharged walk, two rises of level before the goal, three
  successively shorter routes), 90 vary costs, charges, a way back and what the
  room bound knows. Limits from 1 to 8 stop, stage, starve or complete the
  search; `StageWork`, `StageChecks`, `Backtracks`, `MaxRises` and `MaxBans`
  are 1 to 6, so that each of the ladder's caps is reached.
- `expansion`: eight boards of at most twenty-five cells and three boxes, drawn
  so that each prune and each check both passes and rejects: an open room,
  two labels around a block, three boxes of one label (the repair's crossover
  is 2 here, so that both a repair and a fresh assignment come up), a corridor a
  box can shut, a closet, goals that must be entered in order, a lane no keeper
  gets round, a slide. `CorralCap`, `PocketNodes` and `Depth` are small enough to be
  met on some boards. `MaxDistance` stands for the widest distance stored.
  Five boards have seeds, routes with detours: on one a found route is cut at
  its first solved position and a pair then gains, on one a kick gains where no
  job does. Four asks: an episode with 250 bytes; an end polish with the same
  kick work on one thread and on two; one whose kick work runs out. Runs
  are 3 and pairs stop after 30 expansions, so that some give up; a node costs
  two bytes and the least buffers hold eight, so that memory fails in some jobs.
- `rooms`: seven boards: rooms that nest, a loop without a one-door room, two
  labels with a niche each, a room too large for one key (halved), a shaft that
  size-fails, a room whose table misses a position, a board without a route.
  Eight pairs of nodes and memory: ample, the least cap, shares that run out in
  each phase, and four shortages of bytes. `ScanSize`, `KeyBits` and `MaxValue`
  are small, so that a scan takes several units, a key can be too wide and a
  value saturates.
- `server`: three requests of two clients for two slots and a map of one
  client, a budget of one, three ticks: the map is full, a slot is missing, a
  budget is spent and a window is left, each in some behaviour.
- `client`: two searches, of which the second may start while mail, timers and
  promises of the first are under way; three puzzles (one after a prefix, one
  unsolvable), routes of length 2 and 4 (the shortest, and one too long after
  the prefix), one message in the mail. `Rogue` has four replies: a bound past
  its route, a route that does not solve, a proof of nothing shown and a false
  "unsolvable".
- `play`: a corridor with a box in a niche beside it (in the lower slot, so that
  an undo of the wrong slot shows), three moves at most in a found route, two searches shared
  by solver and hint. `UndoRun` is 2 instead of 5, since games here are short.
- `lab`: two rooms, of which one's solution is a rest of the other's.

`Posts`, `Searches`, `MaxStored`, `LastTick`, `MaxRoute`, `Found`, `Logs` and
`Routes` are bounds of the model checking, named as such where declared
(`MaxRoute` is also the code's `MAX_ROUTE`, here small).

`CHECK_DEADLOCK FALSE` is set for the server, the client and the pages, which
may well have nothing left to do once every bound is used up, and for
`expansion` and `rooms`, which end in a position without children. The search
run checks deadlock: a running search can always go on.

## Fairness

- `FairAdvance` in `Engine` is weak fairness of `Advance`: the worker's loop
  (`solver.worker.ts` 68-100) and the server's (`solve.rs` 206-216) call
  `advance` while the status is running, and nothing else is asked of them.
  `Stop` is a step that may come and need not. The fairness is written out with the status in place of `ENABLED`; that the two
  agree is what the deadlock check of the same run shows.
- `ServerSpec`: a handler that can go on is polled, and a blocking thread runs
  (`tokio`'s contract); no client is assumed to go away, and no clock to tick.
- `ClientSpec`: a timer that is set fires. Nothing is assumed of workers, the
  server or the user: `SearchEnds` holds although an engine may never answer.
- The pages have no liveness properties and no fairness.
- `PolishFairness` in `Polish`: the caller goes on advancing, as above, and the
  threads of a race run. It is written out with `UnitReady`, the guards of the
  unit's disjuncts, in place of `ENABLED`, since TLC would run whole jobs to
  evaluate that.
- The steps of `Expansion` itself and `RoomBound` are checked for safety only. A
  room bound's build ends because every unit spends a share or moves a phase on;
  its steps too run whole algorithms.

## The proofs

All of these hold for every value of the constants that satisfies the named
assumptions, for any number of steps.

**The arena** (`ArenaProofs`, from `ArenaAssumption` and `ClientAssumption`:
chunks and first tables of at least four, a final table of at least two slots a
record). `TypeCorrect`, `BindingSound`, `LiveUnique`, `ProbesTerminate`,
`InsertsHaveRoom` and `QueueSound` follow from one inductive invariant `IInv`:

- `Consistent`: types, the table binds the live records, one per state, and
  `resident` counts them. None of these is inductive alone: what keeps two live
  records of one state apart on the next insert is that `find` sees every live
  record, which is the binding.
- `QueueBacked`: entries name stored records at the running weight.
- `SpareLast`: once the spare is used the arena is full until it is emptied.
- `TableAhead`: at most half of the table is bound, but for the spare. This is
  what makes the insert that skips the growth check safe.
- `ChunksAhead`: room for the next record and, unless starved, the one after,
  or up to the limit and its spare. `RoomAhead` alone says nothing about the
  insert after the next, and so does not survive one.

One lemma per action shows that it is kept; the lemmas of `ArenaLemmas`
(`AppendFacts`, `GrowFacts`, `FindFacts`, `PathFacts`, ...) say what the arena's
operators return.

**The engine** (`EngineProofs`, from `ArenaAssumption`, `BoardAssumption` and
`EngineAssumption`, for any boards with admissible estimates, any limits, any
answers of the allocator, and every phase, restart, stage, build, polish and
stop). `Inductive` shows `IInv`, whose parts are

- `Given`, `SolvedId`: the board and the policy are among those given, and an
  incumbent is a stored, solved record.
- `Sound`: the arena is `Consistent`, every record follows from its parent by a
  real push of its cost (`Real`), queued ids are stored (`Queued`), and there is
  room for what is stored (`Housed`). `RouteReal` is nearly this, but says
  nothing of the table, without which a dropped record could not be told.
- `LowOk`: outside the exact search no queued h exceeds the true distance; this
  is what `PrunesSound` needs, since a popped key is all that a prune reads.
- `GrowOk`, `FillOk`: while searching, the arena grows ahead; a starved one has
  only a ladder's route left to commit or a failure to report.
- `CurOk`: the pushes left of the expansion under way belong to its record.
- `LadderOk`: the seed is a kept path, a copy of its last record, and
  descendants of that copy; the frames' roots lie along the path in order, and
  the ladder's route is one of those descendants. Without `Seeded` a commit
  could keep a path that is too long for the room left to it.
- `PolishOk`, `RoomOk`: what a polish and a build exclude.

From it `RoutesAreReal`, `PrunesAreSound` and `GrowthRunsAhead`. `GrowthAhead`
says of a kept path only what the code's own table check enforces: the comment
at `arena.rs` 913-921 counts a kept path and a new stage's path apart, and
together they may exceed what it derives, in which case the growth is refused
and the search ends at its limit.

**The exact search** (`EngineProofs` too, from the same assumptions). `LosesNoRoute`,
`BoundIsSound` and `CertificatesHold` rest on `ExactInv`, kept by every step
together with `IInv` (`ExactInductive`):

- `Complete` is `FrontierComplete` also in the middle of an expansion, for every
  record but the one expanded; `Opening` says of that one that each push is
  useless, recorded, still to be tried at no more than its f, or covered by what
  the expansion has deferred so far. `FrontierComplete` alone is not inductive: between two pushes of
  one expansion it does not hold.
- `Charted`: no record is on a route shorter than the optimum, each position's
  live record is its cheapest, and a closed one is not solved. That a dropped
  push's position is recorded as cheaply *by a live record* is what survives a
  later reopening.
- `Keyed`: a key is its record's moves and its h, so that a goal is popped at
  its own length.
- `Ends`: what holds once the search has ended; `Plain`: an exact search stages,
  polishes and restarts nothing.

From these `OptimumAhead` is the heart: as long as no route of the optimum's
length is in hand, some record of a shortest route lies at the edge of what is
closed (the one with the least distance left), and what accounts for its next
push is an entry, or the cut, at or below the optimum. The least is taken by the
minimum principle for natural numbers, `LeastNumber`. Only an exact search starts as one (`ExactFromStart`), so that nothing
is claimed of the arena another phase leaves.

**The search's promise** (`SearchProofs`, from the same assumptions).
`SearchKeepsPromise` is a refinement: every step of `Engine`, in every mode and
through every phase, is a step of `Search` or leaves what a caller sees alone.
Its invariant `PromiseInv` joins four parts to `IInv` and `ExactInv`:

- `BestOk`: a polish's route and the length an episode keeps are never below the
  optimum. Without it, a best that only shortens could pass below it when a
  polish hands its route back.
- `CountOk`: the records expanded are among those generated, at any point of a
  restart: each stored record that is still open has not been counted yet, so
  that the expansion of one more stays within what was generated.
- `SpreadOk`: while a weighted search runs without a route and without the
  ladder, a live record from which a solution can be reached is queued as long as
  it is open, and once it is closed each next position that has a solution is
  recorded or still to be tried. It is why the weighted modes, which prove nothing and drop cheaper ways
  to closed positions, still never say *exhausted* of a puzzle that has a
  solution: the start is such a record, and with an empty queue the records it
  leads to would go on for ever, each closer to a solution than the last. The
  crate promises that of Optimal alone (`lib.rs` 248-250).
- For Optimal, that it ends solved at the optimum comes from `ExactInv`.

Nothing of an arena's order or a policy's weight is left in the promise, and
what it says of *solved* under the other modes is only that there is a route.

`LowerBoundSound` and `ProofSound` are stated with saturation: a board whose
optimum reaches `Inf` counts as having none, and a search whose only route is
that long certifies nothing.

**The room bound's memory** (`BoundProofs`, from `FoundAssumption`,
`BoundAssumption` and `TableAssumption`; any finite boards whose candidates are
rooms listed once, any limits, any heuristic). `RoomMemoryKept` shows
`MemoryKept`: what the build holds has been charged, the charge is within the
limit, and the kept tables are within their share. The ledger has no such check of its own: it only refuses a charge that
does not fit, and it is the order of charges and refunds in every path (a unit
that grows four buffers, a size failure, a room skipped, split, kept, replaced,
given up or abandoned) that must add up. Its invariant, `GoodNow`, is

- `Typed`: the candidates left are distinct, the rooms kept and the trial have
  finite tables, and the build of a table is a build (`IsSound`): from the
  moment its values are allocated, the bytes stored are the states that reach a
  goal, so that the table it ends in is never larger than what was charged.
- `Accounts`: what is held, item by item, is at most `live`, and `live` at most
  the limit; the tables of the rooms kept are within the kept limit. Between two
  trials they are at most the ledger's `kept` (not equal to it: see the run
  `kept_leak`). During a trial, the tables of the rooms that it does *not*
  enclose, with those it has built, are at most `kept`, which is at most the
  limit once the trial has a table, or a table's values with it; without one,
  `kept` may be past the limit, since giving a trial up adds back the tables it
  enclosed to what its own left behind. `MemoryKept` alone says none of this and
  is not inductive.

Below it are the sums: `SumFunction` folds in an order of its choice, so that
its value is shown to be the number of points under the function's graph
(`SumIsCount`), from which sums over a union, a part and a difference follow.
That a unit of a table's build leaves a build needs only that its rules are
finite, and nothing of which states it finds.

**The game** (`GameProofs`, from `GameAssumption`). `SessionIsReplay`: for any
board, route limit and length of play, steps, undos, resets and loads included,
the position is legal and equals the strict replay of the session's own route;
`RouteFits`: the route never outgrows the limit, so the subtraction in the check
of the room left does not underflow. The replay is a function on the route's
indices; that it exists and is unique is proved by the minimum principle.

**The limiter** (`WebProofs`, from `LimiterAssumption`). `TrackedBounded`,
`CountsHonest` and `NoEarlyReset` rest on `LimiterInv`, whose part `CallsPast`,
that no call under way carries a time ahead of the clock, is what makes a
window that looks old to a call old in truth.

**The server** (`WebProofs`, from `ServerAssumption` and
`LimiterAssumption`). `SlotsNeverLeak`: free permits and holders add up, from
`ChargedFirst`: no search before its charge, so that no request holds two
permits. `ServerLimits`: every step of the server is a step of the limiter's
specification or leaves the limiter alone, so that the limiter's three results
hold in the server too (`ServerStaysBounded`).

**The client** (`ClientProofs`). `NothingEverLeaks`, `ProofAlwaysFits`,
`LateAlwaysIgnored` and `RouteAlwaysSolves` use no assumption and hold for *any*
set `Rogue` of replies and any boards: a page cannot be made to show a route
that does not solve or a proof that does not fit it. `RouteInv` adds that the
searches asked are a sequence, that none changes its board, and that the state
names one of them.

`HonestAlwaysTaken` (from `ClientAssumption`: routes are sequences of moves) is
the converse: no reply of a sound engine is refused, with faulty engines beside
it. A check reads the route on hand when a reply is *heard*, which is not the
one the worker knew when it *posted* it: replies wait in the mail, and the worker
sends a better route only now and then. `HonestInv` therefore says of the
running search (`Works`) that its mail can be heard to the end: there is a
sequence of lengths on hand, each made from the one before by the next reply,
each reply passing at its place (`Heard`), and its last is what the worker last
sent. A post extends the sequence (`HeardMore`), a delivery takes its first
(`HeardFirst`). That an honest route also *replays* on the page is `WaysSolve`:
what `Walked` finds is what the strict replay of prefix and route finds, from
the lemmas of `GameProofs`.

`OptimaTrue` says what this is worth to a user: a final update of an honest
search that shows a proof `optimal` shows the length of the shortest solution of
the position that search was asked about. No late reply, none of another search
and none the sampling cut down passes for one. It rests on `HonestInv` alone.

Where all engines are sound, as on the pages, `SoundInv` adds that every search
is honest and that routes on hand and in the mail are sequences of moves. The
pages take single steps of a client (`AnyNext`: any of its operations, in any
order), since it is their handlers that decide when a client is asked or reset.

**The play page** (`WebProofs`, from `PageAssumption` and `GameAssumption`; any
boards, any set of found routes, any number of searches). `PageKeepsGame`: the
page's game is the replay of its own route through moves, both undos, replays,
loads, walks, hints and playbacks. `PageAnswersFit`: the kept route fits the
game, and what plays plays on its route, unless a hint and another answer
crossed. `PageCertifiesTruly`: every certificate is the length of its board's
shortest solution. All three come from one invariant, `PageInv`:

- `GInv`, the game's invariant from `GameProofs`: the undo of a run of moves and
  a replay are several of its steps in one (`UndoneRunReplays`).
- `SolverInv` and `HintInv`: what `ClientProofs` proves of a client, of each of
  the page's two. The page's clients are instances of `SolverClient`, and the
  theorems speak of other instances of it; the first part of the module shows
  their definitions equal, action by action, with the page's variables in place.
- `Fitting`: as long as no hint crossed another answer, the kept route fits, what
  plays plays on its route, and (`SearchesFit`) while a search is under way
  nothing plays and the game stands where that search was asked from. The last
  is the strengthening: whether a kept route fits is decided when it is asked
  for, not when it comes. Every handler that moves the game ends the searches,
  but for the playback and the hint that `crossed` records.
- `StartKnown`: a search said to run from the start was asked with an empty
  prefix, which is what makes a certificate one of the board and not of a
  position on the way.
- `PlaybackTyped` and `CertificatesTrue`.

**The lab** (`WebProofs`, from `LabAssumption`). `LabCertifiesTruly` assumes
`Patient`, a user who waits for a search to end before leaving its room, which
the code does not enforce: without it the run `lab_moved_on` shows a false
certificate. `LabInv` adds to the client's invariant that the search under way
is of the room and of the position on show, since the certificate is recorded
for whatever is on show when the reply comes.

**Only model-checked.** What the grid algorithms compute (`Floor` to
`Expansion`), the candidates, the tables and the sums of the room bound
(`CandidatesSealed`, `TablesExact`, `BoundSound`, `SumNeverFalls`), the polish
and every liveness property are checked by TLC alone. Liveness and `ENABLED` are
beyond the prover here. Induction over natural numbers goes through the minimum
principle, as in `GameProofs` and `OptimumAhead`; induction over data does not,
and every statement about what a flood, a matching or a table's search finds
would need it. No module with theorems reaches a `RECURSIVE` operator: recursion
is a recursive function in every module but `Polish` and `Reschedule`, which
hold no theorem. That the code's own estimates satisfy `BoardAssumption` is
therefore model-checked (`EstimateSound`, `PrunesSound` of `Expansion`) and not
proved. The strengthenings `IInv`, `ExactInv`, `PromiseInv`, `HonestInv`,
`PageInv` and `Accounts` are in no run; they were checked with TLC on the boards
of the runs before they were proved.

## Disagreements between the code and its words

Shown by a run:

- **A hint's nudge under a running search** (`hint_during_solve`,
  `KeptRouteFits`). A hint may be asked for while the solver runs; its answer
  moves the game, and the solver's route, found for the position before, is
  kept when it comes. `play.ts` 150-151 says a hint "goes with the search". In
  the same way, a hint asked before *Play route* answers in the middle of the
  playback and replaces it (`main.ts` 381-383); `AnswersFit` therefore says nothing
  once a hint's answer and another one have crossed.
- **A certificate for the wrong room** (`lab_moved_on`, `RoomRecordsTrue`).
  The lab certifies the room on show when a last reply comes, though navigation
  may have changed it since the search was asked.
- **Quality's sealed bound** (`quality_bound`, `QualityBoundSound`). The phase
  that takes over Fast's arena seals a bound from a queue in which Fast had
  dropped cheaper pushes to closed positions; it can exceed the optimum.
- **Tables dropped, bytes kept** (`kept_leak`, `KeptIsBuilt`). When a room of
  several doors does not raise the bound at the start, `conclude` drops its
  tables with the list that holds them and refunds the list only
  (`room_bound.rs` 1288): their bytes stay in `live` and in `kept`, so that
  later rooms may be refused for memory nobody holds. `room_bound.rs` 172-176
  says each buffer is refunded when it is freed. It errs on the safe side:
  `MemoryKept` holds.

The passing runs state what remains, and the proofs show it for all values: as
long as no hint crosses another answer, answers fit (`AnswersFit`), and the
lab's certificates are true for a user who waits.

Met while reading, each small, and shown by none of the runs kept here:

- `allow` reads the clock before the lock, so that "at most `max` requests per
  client in each `window`" (`limit.rs` 32) holds for windows as they are
  counted (`CountsGrants`), but not always by the times the calls carry.
- A position that does not parse is found on the blocking thread, after the
  charge, though `api.rs` 54-56 says a refused request spends nothing.
- A Quality search whose arena filled without a route restarts under a
  reopening policy and seals a bound with no route in hand, which `engine.rs`
  798-800 rules out.
- The doorway guidance (`engine.rs` 459-461) is said to stay out of the prunes,
  but a pop's prune reads the shifted estimate (1335).
- A polish's run is said to end "only at a local optimum under single-box
  rescheduling" (`docs/route-polish.md`). A route found is cut at its first
  solved position, after which the same box's job may gain again, and a gain
  counts that box as done.
- A race is said to charge "exactly what the sequential path would have spent"
  (`docs/parallel-polish.md`). A kick that fails reports no units, and starting
  a job is not counted, while one at a time both are paid.
- `renderLab` checks a transferred log with `verify`, which accepts only
  solutions, so that the position of an unsolved game is dropped
  (`lab-page.ts` 45-61).

## What is not modelled

- The walk term: its linear programs are solved in floating point, which TLC has
  no values for. Its outcomes, a term or none, are modelled in `Engine`.
- The room bound's portfolio arm, off unless an environment variable is set;
  `gated_rooms`, which only the stage's rooms read.
- The rankings of the stage (`rank.rs`, `movers.rs`, `rooms.rs`): they choose
  what is tried first, and `Ladder` lets them choose anything.
- Within `Engine`, a polish and a room bound are taken by their outcomes; their
  own state is that of `Polish` and `RoomBound`.
- The reuse of stamped buffers between floods (an epoch that wraps), and the
  probing of hash tables, which are sets here.
- Saturation of `g`, `h` and `f` at their widths, which boards this small never
  reach.
- The doorway guidance, off unless an environment variable is set.
- The client's fetch of walk caches, which only changes what the engine knows,
  and a worker that cannot be posted to after it started.
- The page's score, dialogs, sounds, clock, storage, and the cooldown of hints,
  which only leaves out asks. A walk to a tapped cell is one step long.
- The lab's kept runs and their playback, the journal, the editor, the
  generator, the offline shell, the router, the wasm bindings and everything
  that draws.
- HTTP bodies, headers, static files, and the naming of clients behind trusted
  proxies.

## The plan

In this order; what is there already is marked.

1. *Core, done*: `Arena`, `ArenaClient`, `Pushes`, `Ladder`, `Engine`, with
   `ArenaProofs`, `EngineProofs` and `SearchProofs`.
2. *Server, done*: `RateLimiter`, `SolveServer`, with `WebProofs`.
3. *Client and pages, done*: `Rules`, `Game`, `SolverClient`, `PlayPage`,
   `LabPage`, with `GameProofs`, `ClientProofs` and `WebProofs`.
4. *Algorithms on small grids, the room bound and the polish, done*: `Floor` to
   `Expansion`, `Rooms` to `RoomBound`, `Reschedule` and `Polish`, each against
   a reference definition, with `BoundProofs` on the room bound's memory.
   `BoardAssumption` is a result on those grids.
5. *An abstract search, done for the engine*: `Search`, with `Engine` checked and
   proved to implement it. Left: `SolverClient`'s engine side as an instance of
   it, and the same for an abstract client: one search, verified answers, an end.
6. *Queue*: the chunked heap as an array, its order, removal and rekeying, with
   keys of a scaled-down width so that saturation happens; shown to implement
   the queue of `Arena`.
7. *The walk term* with rationals in place of floats, if a bounded instance
   proves small enough.
8. *Storage*: delayed saves across puzzle switches and page closes, bests of
   two tabs, the database connection's retry, the replay shelf's promotion.
9. *Offline shell*: generations of caches across updates and failed fetches.
10. *Journal, editor's undo, router*, as far as they keep state.

Theorems planned: the abstract client of step 5. Runs planned: one per refinement,
one for the heap, one for storage, one for the offline shell, each with two or
three actors and enough keys for a collision.
