---------------------------- MODULE SolverClient ----------------------------
(***************************************************************************)
(* One SolverClient of the web app (web/src/solver-client.ts), the workers *)
(* it starts (web/src/solver.worker.ts) and the server's answers: one      *)
(* search at a time, whose replies are decoded (web/src/transport.ts),     *)
(* checked and replayed before they are shown.                             *)
(*                                                                         *)
(* A search has an id; those of earlier searches stay in the model, since  *)
(* their messages, timers and promises may still come.  An absent route or *)
(* count is {}, a present one a singleton.  Time is left out: a timer that *)
(* is set may fire at any moment.  The engine finds any routes, bounds and *)
(* ends its contract allows (an honest search), or replies with anything   *)
(* in Rogue.                                                               *)
(***************************************************************************)
EXTENDS Rules

CONSTANTS
  Engines,   \* "browser", "native"
  Modes,     \* "fast", "optimal"
  Found,     \* the routes an engine may find; a bound for TLC
  Rogue,     \* the replies a faulty engine may make; {} keeps it honest
  Posts,     \* messages a worker may have under way; a bound for TLC
  Searches   \* the searches a client may start; a bound for TLC

VARIABLES
  state,  \* the client's state: kind, the search's id, prefix and verified route
  held,   \* timers, workers and fetches not yet released, by search
  jobs,   \* each search's request, and where its engine stands
  shown,  \* the last update handed to the page
  tried   \* history: the searches one of whose replies was refused

clientVars == <<state, held, jobs, shown, tried>>

Idle == [kind |-> "idle", id |-> 0, prefix |-> << >>, route |-> {}]

NothingShown == [id |-> 0, type |-> "none", route |-> {}, proof |-> "none", best |-> {}]

ClientInit ==
  /\ state = Idle
  /\ held = {}
  /\ jobs = << >>
  /\ shown = NothingShown
  /\ tried = {}

Busy == state.kind \in {"browser-running", "native-running"}

(* The search the client waits on: this.state === active.                  *)
Active(id) == Busy /\ state.id = id

Lengths(routes) == {Len(r) : r \in routes}

-----------------------------------------------------------------------------
(* Messages.                                                               *)

Failure == [type |-> "error"]

Update(type, status, best, lower, proof, route) ==
  [type |-> type, status |-> status, best |-> best, lower |-> lower,
   proof |-> proof, route |-> route]

(* What transport.ts lets through: a reply that agrees with itself.        *)
Decodes(u) ==
  /\ \A l \in u.lower, b \in u.best : l <= b
  /\ u.proof = "unsolvable" => u.best = {} /\ u.status = "exhausted"
  /\ u.proof = "optimal" => u.best # {}
  /\ u.proof = "bounded" => u.best # {} /\ u.lower # {}
  /\ (u.type = "progress") <=> (u.status = "running")
  /\ u.route # {} => Lengths(u.route) = u.best

\* Faulty: shows a route nobody replayed.
VerifiesUnplayed(u, on) ==
  \A r \in u.route : Len(state.prefix) + Len(r) <= MaxRoute

(* The route a reply brings replays, after the search's prefix, to a solve *)
(* of the board the page verifies on.                                      *)
Verifies(u, on) ==
  \A r \in u.route : /\ Len(state.prefix) + Len(r) <= MaxRoute
                     /\ Solves(on, state.prefix \o r)

RouteAfter(u) == IF u.route = {} THEN state.route ELSE u.route

\* Faulty: a final proof need not fit the route on show.
AgreesLoosely(u, route) ==
  /\ u.status = "solved" => route # {}
  /\ u.proof = "unsolvable" => route = {}
  /\ \A r \in route, l \in u.lower : l <= Len(r)

(* accept's checks of a reply against the verified route.                  *)
Agrees(u, route) ==
  /\ u.status = "solved" => route # {}
  /\ u.proof = "unsolvable" => route = {}
  /\ \A r \in route, l \in u.lower : l <= Len(r)
  /\ u.type = "done" /\ u.proof \in {"optimal", "bounded"} => u.best = Lengths(route)

-----------------------------------------------------------------------------
(* The client.                                                             *)

\* Faulty: leaves the watchdog running.
ReleasedButWatchdog(id) == {h \in held : h.id # id \/ h.what \in {"deadline", "grace"}}

(* release: timers cleared, the worker silenced and terminated or the      *)
(* fetch aborted.                                                          *)
Released(id) == {h \in held : h.id # id}

(* What of the searches is left once the client holds this: a terminated   *)
(* worker's state and mail go with it.                                     *)
Left(all, holds) ==
  [id \in DOMAIN all |->
     IF all[id].engine = "browser" /\ [id |-> id, what |-> "worker"] \notin holds
     THEN [all[id] EXCEPT !.pc = "ended", !.told = FALSE, !.best = {}, !.sent = {},
                          !.mail = << >>]
     ELSE all[id]]

Completed(id, route) ==
  /\ state' = [kind |-> "completed", id |-> id, prefix |-> state.prefix, route |-> route]
  /\ held' = Released(id)

\* Faulty: while a search runs, hears an earlier one's reply as its own.
IgnoresIdle(id) == ~Busy

(* this.state !== active                                                   *)
Ignores(id) == ~Active(id)

(* A reply to search id: accept and fail.  A route that verified is kept   *)
(* even where a later check refuses the reply that brought it.             *)
Receive(id, u, on) ==
  IF Ignores(id) THEN UNCHANGED <<state, held, shown, tried>>
  ELSE IF u.type = "error" THEN Completed(state.id, state.route) /\ UNCHANGED <<shown, tried>>
  ELSE LET verified == Decodes(u) /\ Verifies(u, on)
           route    == IF verified THEN RouteAfter(u) ELSE state.route
       IN  IF verified /\ Agrees(u, route)
           THEN /\ shown' = [id |-> id, type |-> u.type, route |-> route,
                             proof |-> u.proof, best |-> u.best]
                /\ IF u.type = "done" THEN Completed(state.id, route)
                   ELSE state' = [state EXCEPT !.route = route] /\ UNCHANGED held
                /\ UNCHANGED tried
           ELSE /\ Completed(state.id, route)
                /\ tried' = tried \cup {id}
                /\ UNCHANGED shown

ResetClient ==
  /\ held' = IF Busy THEN Released(state.id) ELSE held
  /\ state' = Idle
  /\ jobs' = Left(jobs, held')
  /\ UNCHANGED <<shown, tried>>

DropRoute ==
  /\ state' = IF state.kind = "completed" THEN [state EXCEPT !.route = {}] ELSE state
  /\ UNCHANGED <<held, jobs, shown, tried>>

(* The positions a route leads to, none once it passes a solve.            *)
Walked(on, s, route) ==
  LET at[n \in 0 .. Len(route)] ==
        IF n = 0 THEN {s}
        ELSE UNION {IF SolvedIn(on, q) THEN {}
                    ELSE {p.state : p \in Steps(on, q, route[n])} : q \in at[n - 1]}
  IN  at[Len(route)]

(* The routes that solve a position; a search may find one past MAX_ROUTE. *)
Ways(on, prefix) ==
  {r \in Found : \E g \in SearchableAt(on, prefix) :
                  \E t \in Walked(on, g.state, r) : SolvedIn(on, t)}

(* A search's request and its engine: where it stands (pc), whether it was *)
(* told to stop, its best route, the length it last sent, its mail, and as *)
(* history whether all its replies were a sound engine's.                  *)
NewJob(on, prefix, mode, engine, pc) ==
  [board |-> on, prefix |-> prefix, mode |-> mode, engine |-> engine, pc |-> pc,
   ways |-> Ways(on, prefix), told |-> FALSE, best |-> {}, sent |-> {}, mail |-> << >>,
   honest |-> TRUE]

Running(engine) == IF engine = "browser" THEN "browser-running" ELSE "native-running"

(* solve: a worker that cannot be made or told leaves a completed state.   *)
Solve(on, prefix, mode, engine) ==
  LET id     == Len(jobs) + 1
      kept   == IF engine = "browser" THEN {"timer", "deadline", "worker"}
                ELSE {"timer", "deadline", "fetch"}
      starts == /\ state' = [kind |-> Running(engine), id |-> id,
                             prefix |-> prefix, route |-> {}]
                /\ held' = held \cup {[id |-> id, what |-> w] : w \in kept}
                /\ jobs' = Append(jobs, NewJob(on, prefix, mode, engine, "asked"))
      fails  == /\ state' = [kind |-> "completed", id |-> id, prefix |-> prefix, route |-> {}]
                /\ jobs' = Append(jobs, NewJob(on, prefix, mode, engine, "ended"))
                /\ UNCHANGED held
  IN /\ ~Busy
     /\ id <= Searches
     /\ starts \/ (engine = "browser" /\ fails)
     /\ UNCHANGED <<shown, tried>>

\* Faulty: takes the deadline away and sets no grace.
CancelUngraced ==
  IF state.kind = "browser-running"
  THEN /\ jobs' = [jobs EXCEPT ![state.id].told = TRUE]
       /\ held' = {h \in held : h.id # state.id \/ h.what # "deadline"}
       /\ UNCHANGED <<state, shown, tried>>
  ELSE IF state.kind = "native-running" THEN ResetClient
  ELSE UNCHANGED clientVars

(* cancel: a worker is told, and given a grace; a native search is dropped *)
(* at once.                                                                *)
Cancel ==
  IF state.kind = "browser-running"
  THEN /\ jobs' = [jobs EXCEPT ![state.id].told = TRUE]
       /\ held' = {h \in held : h.id # state.id \/ h.what # "deadline"}
                    \cup {[id |-> state.id, what |-> "grace"]}
       /\ UNCHANGED <<state, shown, tried>>
  ELSE IF state.kind = "native-running" THEN ResetClient
  ELSE UNCHANGED clientVars

(* A watchdog fires: the search is written off, its route kept.            *)
Watchdog(id) ==
  /\ \E h \in held : h.id = id /\ h.what \in {"deadline", "grace"}
  /\ Active(id)
  /\ Completed(id, state.route)
  /\ jobs' = Left(jobs, held')
  /\ UNCHANGED <<shown, tried>>

(* The browser reports that the worker could not start.                    *)
WorkerError(id) ==
  /\ [id |-> id, what |-> "worker"] \in held
  /\ jobs[id].pc = "asked"
  /\ Receive(id, Failure, jobs[id].board)
  /\ jobs' = Left([jobs EXCEPT ![id].pc = "ended"], held')

(* A worker's message reaches the page, unless its worker was released.    *)
Deliver(id, on) ==
  /\ [id |-> id, what |-> "worker"] \in held
  /\ jobs[id].mail # << >>
  /\ Receive(id, Head(jobs[id].mail), on)
  /\ jobs' = Left([jobs EXCEPT ![id].mail = Tail(@)], held')

(* The native request's promises: its response, then its body.  A fetch    *)
(* aborted before then rejects, which nobody hears.                        *)
Respond(id) ==
  /\ jobs[id].pc = "answered"
  /\ jobs' = [jobs EXCEPT ![id].pc = IF Active(id) THEN "body" ELSE "ended"]
  /\ UNCHANGED <<state, held, shown, tried>>

ReadBody(id, on) ==
  /\ jobs[id].pc = "body"
  /\ Receive(id, Head(jobs[id].mail), on)
  /\ jobs' = [jobs EXCEPT ![id].pc = "ended", ![id].mail = << >>]

-----------------------------------------------------------------------------
(* The engine's side.  A released worker is gone.                          *)

HasWorker(id) == [id |-> id, what |-> "worker"] \in held

Post(id, u) == [jobs EXCEPT ![id].mail = Append(@, u)]

Shortest(job) ==
  {n \in Lengths(job.ways) : \A m \in Lengths(job.ways) : n <= m}

(* A worker builds its search, or posts why it could not.                  *)
WorkerStart(id) ==
  /\ HasWorker(id) /\ jobs[id].pc = "asked"
  /\ \/ /\ jobs' = [Post(id, Failure) EXCEPT ![id].pc = "ended"]
     \/ /\ SearchableAt(jobs[id].board, jobs[id].prefix) # {}
        /\ jobs' = [jobs EXCEPT ![id].pc = "search"]
  /\ UNCHANGED <<state, held, shown, tried>>

(* advance finds a first or a shorter route.                               *)
WorkerFind(id) ==
  /\ HasWorker(id) /\ jobs[id].pc = "search"
  /\ jobs[id].mode = "fast" => jobs[id].best = {}
  /\ \E r \in jobs[id].ways :
       /\ \A b \in jobs[id].best : Len(r) < Len(b)
       /\ jobs' = [jobs EXCEPT ![id].best = {r}]
  /\ UNCHANGED <<state, held, shown, tried>>

Fits(job) == \A b \in job.best : Len(job.prefix) + Len(b) <= MaxRoute

(* A certified lower bound, which only Optimal has while it runs: none,    *)
(* the least or the best possible one.                                     *)
Lowers(job) ==
  IF job.mode = "fast" THEN {{}} ELSE {{}, {0}, Shortest(job)}

(* Whether a running search's next update brings its best route: the first *)
(* always, a shorter one when the last is old enough.                      *)
Sampled(job) ==
  IF job.best = {} \/ ~Fits(job) THEN {FALSE}
  ELSE IF job.sent = {} THEN {TRUE}
  ELSE IF Lengths(job.best) = job.sent THEN {FALSE}
  ELSE BOOLEAN

\* Faulty: the sampling holds back the final route too.
FinalRouteSampled(job) == IF job.sent = {} THEN job.best ELSE {}

(* The final update brings the best route unless it was sent.              *)
FinalRoute(job) == IF job.sent = Lengths(job.best) THEN {} ELSE job.best

WorkerReport(id) ==
  LET job == jobs[id] IN
  /\ HasWorker(id) /\ job.pc = "search"
  /\ Len(job.mail) < Posts
  /\ job.mode = "fast" => job.best = {}
  /\ \E lower \in Lowers(job), brings \in Sampled(job) :
       LET route == IF brings THEN job.best ELSE {} IN
       /\ \A b \in Lengths(job.best), l \in lower : l <= b
       /\ jobs' = [Post(id, Update("progress", "running", Lengths(job.best), lower,
                                   "none", route))
                   EXCEPT ![id].sent = IF brings THEN Lengths(job.best) ELSE @]
  /\ UNCHANGED <<state, held, shown, tried>>

(* How a search with this best route may end, its proof and its bound.     *)
Endings(job, stops) ==
  LET best == Lengths(job.best)
      end(status, proof, lower) == [status |-> status, proof |-> proof, lower |-> lower]
  IN  {e \in
         {end("solved", IF job.mode = "fast" THEN "none" ELSE "optimal",
              IF job.mode = "fast" THEN {} ELSE best)}
         \cup {end("exhausted", IF job.mode = "fast" THEN "none" ELSE "unsolvable", {})}
         \cup {end(s, IF best = {} \/ job.mode = "fast" THEN "none"
                      ELSE IF lower = best THEN "optimal" ELSE "bounded", lower) :
                 s \in stops, lower \in Lowers(job)} :
         /\ e.status = "solved" => best # {} /\ (job.mode = "fast" \/ best = Shortest(job))
         /\ e.status = "exhausted" => best = {} /\ (job.mode = "fast" \/ job.ways = {})
         /\ e.status \in stops => /\ job.mode = "fast" => best = {}
                                  /\ job.mode # "fast" /\ best # {} => e.lower # {}
                                  /\ \A b \in best, l \in e.lower : l <= b}

Stops(job) == {"state_limit", "time_limit"} \cup (IF job.told THEN {"cancelled"} ELSE {})

(* The loop's last turn: a best route too long to replay is an error.      *)
WorkerEnd(id) ==
  LET job == jobs[id] IN
  /\ HasWorker(id) /\ job.pc = "search"
  /\ \E e \in Endings(job, Stops(job)) :
       jobs' = [Post(id, IF Fits(job)
                         THEN Update("done", e.status, Lengths(job.best), e.lower, e.proof,
                                     FinalRoute(job))
                         ELSE Failure)
                EXCEPT ![id].pc = "ended"]
  /\ UNCHANGED <<state, held, shown, tried>>

(* The server answers, refuses, or cannot be reached, unless the fetch was *)
(* aborted; it sends a bound only within a proof.                          *)
Answer(id) ==
  /\ [id |-> id, what |-> "fetch"] \in held
  /\ jobs[id].pc = "asked"
  /\ \E best \in {{}} \cup {{r} : r \in jobs[id].ways} :
       LET job == [jobs[id] EXCEPT !.best = best] IN
       \E u \in {Failure}
                \cup {Update("done", e.status, Lengths(best),
                             IF e.proof \in {"optimal", "bounded"} THEN e.lower ELSE {},
                             e.proof, best) :
                        e \in IF Fits(job) THEN Endings(job, Stops(job)) ELSE {}} :
         jobs' = [Post(id, u) EXCEPT ![id].pc = "answered"]
  /\ UNCHANGED <<state, held, shown, tried>>

(* A faulty engine's reply.                                                *)
Misreply(id) ==
  /\ \E u \in Rogue :
       \/ /\ HasWorker(id) /\ Len(jobs[id].mail) < Posts
          /\ jobs' = [Post(id, u) EXCEPT ![id].honest = FALSE]
       \/ /\ [id |-> id, what |-> "fetch"] \in held
          /\ jobs[id].pc = "asked" /\ u.type # "progress"
          /\ jobs' = [Post(id, u) EXCEPT ![id].pc = "answered", ![id].honest = FALSE]
  /\ UNCHANGED <<state, held, shown, tried>>

Ids == DOMAIN jobs

Engine(id) ==
  \/ WorkerStart(id) \/ WorkerFind(id) \/ WorkerReport(id) \/ WorkerEnd(id)
  \/ Answer(id) \/ Misreply(id)

-----------------------------------------------------------------------------
(* A client of its own, asked for any of the given searches and checking   *)
(* routes on the board they were asked for.                                *)

CONSTANT Asks  \* boards with prefixes

(* Routes are moves in order, an asked prefix too.                         *)
ASSUME ClientAssumption ==
  /\ MaxRoute \in Nat /\ Found \subseteq Seq(Dirs)
  /\ \A a \in Asks : a.prefix \in Seq(Dirs)

ClientNext ==
  \/ ResetClient \/ DropRoute \/ Cancel
  \/ \E a \in Asks, m \in Modes, e \in Engines : Solve(a.board, a.prefix, m, e)
  \/ \E id \in Ids : \/ Deliver(id, jobs[id].board) \/ ReadBody(id, jobs[id].board)
                     \/ Respond(id) \/ WorkerError(id) \/ Watchdog(id) \/ Engine(id)

(* A timer that is set fires.                                              *)
ClientSpec ==
  /\ ClientInit /\ [][ClientNext]_clientVars
  /\ WF_clientVars(\E id \in Ids : Watchdog(id))

-----------------------------------------------------------------------------
(* Nothing of a search that ended, failed or was replaced stays behind: no *)
(* timer, no worker, no open request (solver-client.ts 80-94, 107-112).    *)
NothingLeaks == \A h \in held : Active(h.id)

(* The route kept solves its puzzle from its prefix, whatever the engine   *)
(* sent (solver-client.ts 62-63, 120-125).                                 *)
RouteSolves ==
  \A r \in state.route : Solves(jobs[state.id].board, state.prefix \o r)

(* A final proof on show certifies exactly the route on show, and none     *)
(* that no route exists stands beside one (solver-client.ts 126-134).      *)
ProofFits ==
  shown.type = "done" =>
    /\ shown.proof \in {"optimal", "bounded"} => shown.best = Lengths(shown.route)
    /\ shown.proof = "unsolvable" => shown.route = {}

(* A search that ended or was replaced never updates the page again        *)
(* (solver-client.ts 118-119, 190-201).                                    *)
LateIgnored == [][shown' # shown => Active(shown'.id)]_clientVars

(* A sound engine's replies always pass the client's checks, though the    *)
(* worker samples the routes it sends (solver.worker.ts 82-97).            *)
HonestTaken == \A id \in tried : ~jobs[id].honest

(* A search never keeps the client busy for ever.                          *)
SearchEnds == []<>~Busy

=============================================================================
