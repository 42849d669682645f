---------------------------- MODULE ClientProofs ----------------------------
(***************************************************************************)
(* What the client promises whatever engine answers it: nothing of a       *)
(* search outlives it, only the search it waits on is heard, and a proof   *)
(* on show fits the route on show.  Rogue may hold any replies at all.     *)
(***************************************************************************)
EXTENDS SolverClient, GameProofs, SequenceTheorems, TLAPS

(* The client's state is a record of four fields.                          *)
Shaped ==
  state = [kind |-> state.kind, id |-> state.id, prefix |-> state.prefix, route |-> state.route]

ClientInv == Shaped /\ NothingLeaks /\ ProofFits

LEMMA HeldByActive ==
  ASSUME NothingLeaks
  PROVE  /\ ~Busy => held = {}
         /\ \A h \in held : Busy /\ h.id = state.id
         /\ Released(state.id) = {}
  BY DEF NothingLeaks, Active, Released

LEMMA ClientInitially == ClientInit => ClientInv
  BY DEF ClientInit, ClientInv, Shaped, NothingLeaks, ProofFits, Idle, NothingShown

(* A search that completes lets go of all it held.                         *)
LEMMA CompletedKeeps ==
  ASSUME NothingLeaks, NEW route, Completed(state.id, route)
  PROVE  Shaped' /\ NothingLeaks'
<1>1. held' = {}
  BY HeldByActive DEF Completed
<1> QED
  BY <1>1 DEF Completed, Shaped, NothingLeaks

(* What hearing a reply does, to a search other than the active one: all   *)
(* stays as it was.                                                        *)
LEMMA ReceiveHears ==
  ASSUME ClientInv, NEW id, NEW u, NEW on, Receive(id, u, on)
  PROVE  /\ Shaped' /\ NothingLeaks' /\ ProofFits'
         /\ shown' # shown => Active(shown'.id)
<1>1. CASE Ignores(id)
  <2>1. UNCHANGED <<state, held, shown, tried>>
    BY <1>1 DEF Receive
  <2> QED
    BY <2>1 DEF ClientInv, Shaped, NothingLeaks, ProofFits, Active, Busy
<1>2. CASE ~Ignores(id) /\ u.type = "error"
  <2>1. Completed(state.id, state.route) /\ UNCHANGED <<shown, tried>>
    BY <1>2 DEF Receive
  <2> QED
    BY <2>1, CompletedKeeps DEF ClientInv, ProofFits
<1>3. CASE ~Ignores(id) /\ u.type # "error"
  <2> DEFINE verified == Decodes(u) /\ Verifies(u, on)
             route    == IF verified THEN RouteAfter(u) ELSE state.route
  <2>1. CASE verified /\ Agrees(u, route)
    <3>1. shown' = [id |-> id, type |-> u.type, route |-> route,
                    proof |-> u.proof, best |-> u.best]
      BY <1>3, <2>1 DEF Receive
    <3>2. Active(id)
      BY <1>3 DEF Ignores
    <3>3. ProofFits'
      BY <2>1, <3>1 DEF ProofFits, Agrees
    <3>4. CASE u.type = "done"
      <4>1. Completed(state.id, route)
        BY <1>3, <2>1, <3>4 DEF Receive
      <4> QED
        BY <3>1, <3>2, <3>3, <4>1, CompletedKeeps DEF ClientInv
    <3>5. CASE u.type # "done"
      <4>1. state' = [state EXCEPT !.route = route] /\ held' = held
        BY <1>3, <2>1, <3>5 DEF Receive
      <4>2. Shaped' /\ state'.kind = state.kind /\ state'.id = state.id
        BY <4>1 DEF ClientInv, Shaped
      <4>3. NothingLeaks'
        BY <4>1, <4>2 DEF ClientInv, NothingLeaks, Active, Busy
      <4> QED
        BY <3>1, <3>2, <3>3, <4>2, <4>3
    <3> QED
      BY <3>4, <3>5
  <2>2. CASE ~(verified /\ Agrees(u, route))
    <3>1. Completed(state.id, route) /\ UNCHANGED shown
      BY <1>3, <2>2 DEF Receive
    <3> QED
      BY <3>1, CompletedKeeps DEF ClientInv, ProofFits
  <2> QED
    BY <2>1, <2>2
<1> QED
  BY <1>1, <1>2, <1>3

LEMMA ResetKeeps ==
  ASSUME ClientInv, ResetClient
  PROVE  ClientInv' /\ shown' = shown
<1>1. held' = {}
  BY HeldByActive DEF ResetClient, ClientInv
<1> QED
  BY <1>1 DEF ResetClient, Idle, ClientInv, Shaped, NothingLeaks, ProofFits

LEMMA DropRouteKeeps ==
  ASSUME ClientInv, DropRoute
  PROVE  ClientInv' /\ shown' = shown
<1>1. held' = held /\ shown' = shown
  BY DEF DropRoute
<1>2. Shaped' /\ state'.kind = state.kind /\ state'.id = state.id
  BY DEF DropRoute, ClientInv, Shaped
<1> QED
  BY <1>1, <1>2 DEF ClientInv, NothingLeaks, Active, Busy, ProofFits

LEMMA CancelKeeps ==
  ASSUME ClientInv, Cancel
  PROVE  ClientInv' /\ shown' = shown
<1>1. CASE state.kind = "browser-running"
  <2>1. /\ held' = {h \in held : h.id # state.id \/ h.what # "deadline"}
                     \cup {[id |-> state.id, what |-> "grace"]}
        /\ UNCHANGED <<state, shown>>
    BY <1>1 DEF Cancel
  <2>2. NothingLeaks'
    BY <1>1, <2>1 DEF ClientInv, NothingLeaks, Active, Busy
  <2> QED
    BY <2>1, <2>2 DEF ClientInv, Shaped, ProofFits
<1>2. CASE state.kind = "native-running"
  BY <1>2, ResetKeeps DEF Cancel
<1>3. CASE state.kind \notin {"browser-running", "native-running"}
  BY <1>3 DEF Cancel, clientVars, ClientInv, Shaped, NothingLeaks, Active, Busy, ProofFits
<1> QED
  BY <1>1, <1>2, <1>3

(* A new search starts with nothing held, and holds only its own.          *)
LEMMA SolveKeeps ==
  ASSUME ClientInv, NEW on, NEW prefix, NEW mode, NEW engine, Solve(on, prefix, mode, engine)
  PROVE  ClientInv' /\ shown' = shown
<1> DEFINE id == Len(jobs) + 1
<1>1. held = {} /\ shown' = shown
  BY HeldByActive DEF Solve, ClientInv
<1>2. ASSUME NEW kept,
             state' = [kind |-> Running(engine), id |-> id, prefix |-> prefix, route |-> {}],
             held' = held \cup {[id |-> id, what |-> w] : w \in kept}
      PROVE  Shaped' /\ NothingLeaks'
  <2>1. Busy' /\ state'.id = id
    BY <1>2 DEF Busy, Running
  <2>2. \A h \in held' : h.id = id
    BY <1>1, <1>2
  <2> QED
    BY <1>2, <2>1, <2>2 DEF Shaped, NothingLeaks, Active
<1>3. ASSUME state' = [kind |-> "completed", id |-> id, prefix |-> prefix, route |-> {}],
             held' = held
      PROVE  Shaped' /\ NothingLeaks'
  BY <1>1, <1>3 DEF Shaped, NothingLeaks
<1>4. Shaped' /\ NothingLeaks'
  BY <1>2, <1>3 DEF Solve
<1> QED
  BY <1>1, <1>4 DEF ClientInv, ProofFits

LEMMA WatchdogKeeps ==
  ASSUME ClientInv, NEW id, Watchdog(id)
  PROVE  ClientInv' /\ shown' = shown
<1>1. Completed(state.id, state.route) /\ shown' = shown
  BY DEF Watchdog, Active, Completed, Released
<1> QED
  BY <1>1, CompletedKeeps DEF ClientInv, ProofFits

(* The engine's own steps leave the client alone.                          *)
LEMMA EngineApart ==
  ASSUME NEW id, Engine(id) \/ Respond(id)
  PROVE  UNCHANGED <<state, held, shown>>
  BY DEF Engine, Respond, WorkerStart, WorkerFind, WorkerReport, WorkerEnd, Answer, Misreply

LEMMA ApartKeeps ==
  ASSUME ClientInv, UNCHANGED <<state, held, shown>>
  PROVE  ClientInv'
  BY DEF ClientInv, Shaped, NothingLeaks, Active, Busy, ProofFits

(* A step of a client that may be asked for any search at all.             *)
AnyNext ==
  \/ ResetClient \/ DropRoute \/ Cancel
  \/ \E on, m, e : \E prefix \in Seq(Dirs) : Solve(on, prefix, m, e)
  \/ \E id \in Ids : \/ Deliver(id, jobs[id].board) \/ ReadBody(id, jobs[id].board)
                     \/ Respond(id) \/ WorkerError(id) \/ Watchdog(id) \/ Engine(id)

LEMMA NextIsAny == [ClientNext]_clientVars => [AnyNext]_clientVars
  BY ClientAssumption DEF ClientNext, AnyNext

LEMMA ClientStep ==
  ASSUME ClientInv, [AnyNext]_clientVars
  PROVE  ClientInv' /\ (shown' # shown => Active(shown'.id))
<1>1. CASE UNCHANGED clientVars
  BY <1>1, ApartKeeps DEF clientVars
<1>2. CASE ResetClient \/ DropRoute \/ Cancel
  BY <1>2, ResetKeeps, DropRouteKeeps, CancelKeeps
<1>3. CASE \E on, m, e : \E prefix \in Seq(Dirs) : Solve(on, prefix, m, e)
  BY <1>3, SolveKeeps
<1>4. ASSUME NEW id \in Ids,
             Deliver(id, jobs[id].board) \/ ReadBody(id, jobs[id].board) \/ WorkerError(id)
      PROVE  ClientInv' /\ (shown' # shown => Active(shown'.id))
  <2>1. PICK u, on : Receive(id, u, on)
    BY <1>4 DEF Deliver, ReadBody, WorkerError
  <2> QED
    BY <2>1, ReceiveHears DEF ClientInv
<1>5. ASSUME NEW id \in Ids, Watchdog(id)
      PROVE  ClientInv' /\ (shown' # shown => Active(shown'.id))
  BY <1>5, WatchdogKeeps
<1>6. ASSUME NEW id \in Ids, Engine(id) \/ Respond(id)
      PROVE  ClientInv' /\ (shown' # shown => Active(shown'.id))
  BY <1>6, EngineApart, ApartKeeps
<1> QED
  BY <1>1, <1>2, <1>3, <1>4, <1>5, <1>6 DEF AnyNext

LEMMA ClientInductive == ClientSpec => []ClientInv
<1>1. ClientInv /\ [ClientNext]_clientVars => ClientInv'
  BY NextIsAny, ClientStep
<1> QED
  BY <1>1, ClientInitially, PTL DEF ClientSpec

(* However a search ends (done, failed, refused, written off, cancelled or *)
(* replaced), no timer, worker or request of it stays (solver-client.ts    *)
(* 80-94, 107-112, 213-232).                                               *)
THEOREM NothingEverLeaks == ClientSpec => []NothingLeaks
<1>1. ClientInv => NothingLeaks
  BY DEF ClientInv
<1> QED
  BY <1>1, ClientInductive, PTL

(* A final proof on show fits the route on show, whatever an engine sends  *)
(* (solver-client.ts 126-134).                                             *)
THEOREM ProofAlwaysFits == ClientSpec => []ProofFits
<1>1. ClientInv => ProofFits
  BY DEF ClientInv
<1> QED
  BY <1>1, ClientInductive, PTL

(* The page only ever hears the search the client waits on                 *)
(* (solver-client.ts 118-119, 190-201).                                    *)
THEOREM LateAlwaysIgnored == ClientSpec => LateIgnored
<1>1. ClientInv /\ [ClientNext]_clientVars => [shown' # shown => Active(shown'.id)]_clientVars
  BY NextIsAny, ClientStep
<1> QED
  BY <1>1, ClientInductive, PTL DEF ClientSpec, LateIgnored

-----------------------------------------------------------------------------
(* The searches asked for are a sequence of records, each on its board.    *)
JobsTyped ==
  \E n \in Nat : /\ jobs = [i \in 1 .. n |-> jobs[i]]
                 /\ \A i \in 1 .. n : "board" \in DOMAIN jobs[i]

(* The same searches on the same boards, however far they have come.       *)
Alike(all) ==
  /\ all = [i \in DOMAIN jobs |-> all[i]]
  /\ \A i \in DOMAIN jobs : "board" \in DOMAIN all[i] /\ all[i].board = jobs[i].board

(* The search whose route is kept is one of them.                          *)
Asked == Busy \/ state.route # {} => state.id \in DOMAIN jobs

RouteInv == ClientInv /\ JobsTyped /\ Asked /\ RouteSolves

LEMMA JobsSeq ==
  ASSUME JobsTyped, NEW x
  PROVE  /\ jobs \in Seq({jobs[i] : i \in DOMAIN jobs} \cup {x})
         /\ Len(jobs) \in Nat /\ DOMAIN jobs = 1 .. Len(jobs)
<1> DEFINE S == {jobs[i] : i \in DOMAIN jobs} \cup {x}
<1>1. PICK n \in Nat : jobs = [i \in 1 .. n |-> jobs[i]]
  BY DEF JobsTyped
<1>2. jobs \in [1 .. n -> S]
  BY <1>1
<1>3. jobs \in Seq(S)
  BY <1>2, SeqDef
<1> QED
  BY <1>3

LEMMA AlikeTyped ==
  ASSUME JobsTyped, Alike(jobs')
  PROVE  JobsTyped'
<1>1. PICK n \in Nat : jobs = [i \in 1 .. n |-> jobs[i]]
  BY DEF JobsTyped
<1>2. DOMAIN jobs = 1 .. n
  BY <1>1
<1> QED
  BY <1>2 DEF Alike, JobsTyped

LEMMA LeftAlike ==
  ASSUME NEW all, NEW holds, Alike(all)
  PROVE  Alike(Left(all, holds))
<1>1. DOMAIN all = DOMAIN jobs
  BY DEF Alike
<1>2. \A i \in DOMAIN jobs : "board" \in DOMAIN all[i] /\ all[i].board = jobs[i].board
  BY DEF Alike
<1>3. Left(all, holds) = [i \in DOMAIN jobs |-> Left(all, holds)[i]]
  BY <1>1 DEF Left
<1>4. ASSUME NEW i \in DOMAIN jobs
      PROVE  /\ "board" \in DOMAIN Left(all, holds)[i]
             /\ Left(all, holds)[i].board = jobs[i].board
  BY <1>1, <1>2 DEF Left
<1> QED
  BY <1>3, <1>4 DEF Alike

LEMMA SameAlike ==
  ASSUME JobsTyped
  PROVE  Alike(jobs)
  BY DEF JobsTyped, Alike

(* What each step but a new search's makes of the searches.                *)
LEMMA EngineAlike ==
  ASSUME JobsTyped, NEW id \in Ids, Engine(id) \/ Respond(id)
  PROVE  Alike(jobs')
<1>1. Alike(jobs)
  BY SameAlike
<1>2. CASE WorkerStart(id)
  BY <1>1, <1>2 DEF WorkerStart, Post, Alike, Ids
<1>3. CASE WorkerFind(id)
  <2>1. PICK best : jobs' = [jobs EXCEPT ![id].best = best]
    BY <1>3 DEF WorkerFind
  <2> QED
    BY <1>1, <2>1 DEF Alike, Ids
<1>4. CASE WorkerReport(id)
  <2>1. PICK u, sent : jobs' = [Post(id, u) EXCEPT ![id].sent = sent]
    BY <1>4 DEF WorkerReport
  <2> QED
    BY <1>1, <2>1 DEF Post, Alike, Ids
<1>5. CASE WorkerEnd(id)
  <2>1. PICK u : jobs' = [Post(id, u) EXCEPT ![id].pc = "ended"]
    BY <1>5 DEF WorkerEnd
  <2> QED
    BY <1>1, <2>1 DEF Post, Alike, Ids
<1>6. CASE Answer(id)
  <2>1. PICK u : jobs' = [Post(id, u) EXCEPT ![id].pc = "answered"]
    BY <1>6 DEF Answer
  <2> QED
    BY <1>1, <2>1 DEF Post, Alike, Ids
<1>7. CASE Misreply(id)
  BY <1>1, <1>7 DEF Misreply, Post, Alike, Ids
<1>8. CASE Respond(id)
  BY <1>1, <1>8 DEF Respond, Alike, Ids
<1> QED
  BY <1>2, <1>3, <1>4, <1>5, <1>6, <1>7, <1>8 DEF Engine

LEMMA ClientAlike ==
  ASSUME JobsTyped,
         \/ ResetClient \/ DropRoute \/ Cancel
         \/ \E id \in Ids : \/ Deliver(id, jobs[id].board) \/ ReadBody(id, jobs[id].board)
                            \/ WorkerError(id) \/ Watchdog(id)
  PROVE  Alike(jobs')
<1>1. Alike(jobs)
  BY SameAlike
<1>2. CASE ResetClient
  BY <1>1, <1>2, LeftAlike DEF ResetClient
<1>3. CASE DropRoute
  BY <1>1, <1>3 DEF DropRoute
<1>4. CASE Cancel
  <2>1. CASE jobs' = [jobs EXCEPT ![state.id].told = TRUE]
    BY <1>1, <2>1 DEF Alike
  <2> QED
    BY <1>1, <1>2, <1>4, <2>1, LeftAlike DEF Cancel, clientVars, ResetClient
<1>5. ASSUME NEW id \in Ids, Deliver(id, jobs[id].board)
      PROVE  Alike(jobs')
  <2>1. Alike([jobs EXCEPT ![id].mail = Tail(@)])
    BY <1>1 DEF Alike
  <2> QED
    BY <1>5, <2>1, LeftAlike DEF Deliver
<1>6. ASSUME NEW id \in Ids, ReadBody(id, jobs[id].board)
      PROVE  Alike(jobs')
  BY <1>1, <1>6 DEF ReadBody, Alike
<1>7. ASSUME NEW id \in Ids, WorkerError(id)
      PROVE  Alike(jobs')
  <2>1. Alike([jobs EXCEPT ![id].pc = "ended"])
    BY <1>1 DEF Alike
  <2> QED
    BY <1>7, <2>1, LeftAlike DEF WorkerError
<1>8. ASSUME NEW id \in Ids, Watchdog(id)
      PROVE  Alike(jobs')
  BY <1>1, <1>8, LeftAlike DEF Watchdog
<1> QED
  BY <1>2, <1>3, <1>4, <1>5, <1>6, <1>7, <1>8

(* A state that keeps its search, its prefix and nothing but routes known  *)
(* to solve keeps the invariant's last parts.                              *)
LEMMA SolvesOn ==
  ASSUME JobsTyped, Alike(jobs'), Asked,
         state'.id = state.id, state'.prefix = state.prefix, Busy' => Busy,
         state'.route # {} => Busy \/ state.route # {},
         \A r \in state'.route : Solves(jobs[state.id].board, state.prefix \o r)
  PROVE  Asked' /\ RouteSolves'
<1>1. DOMAIN jobs' = DOMAIN jobs
  BY DEF Alike
<1>2. state'.route # {} => jobs'[state.id].board = jobs[state.id].board
  BY DEF Alike, Asked
<1> QED
  BY <1>1, <1>2 DEF Asked, RouteSolves

LEMMA ReceiveSolves ==
  ASSUME RouteInv, Alike(jobs'), NEW id, NEW u, Receive(id, u, jobs[id].board)
  PROVE  Asked' /\ RouteSolves'
<1>1. CASE Ignores(id)
  <2>1. state' = state
    BY <1>1 DEF Receive
  <2> QED
    BY <2>1, SolvesOn DEF RouteInv, RouteSolves, Busy
<1>2. CASE ~Ignores(id)
  <2> DEFINE verified == Decodes(u) /\ Verifies(u, jobs[id].board)
             route    == IF verified THEN RouteAfter(u) ELSE state.route
  <2>1. Busy /\ state.id = id
    BY <1>2 DEF Ignores, Active
  <2>2. \A r \in route : Solves(jobs[state.id].board, state.prefix \o r)
    BY <2>1 DEF Verifies, RouteAfter, RouteInv, RouteSolves
  <2>3. \/ Completed(state.id, state.route)
        \/ Completed(state.id, route)
        \/ state' = [state EXCEPT !.route = route]
    BY <1>2 DEF Receive
  <2>4. CASE state' = [state EXCEPT !.route = route]
    <3>1. /\ state'.id = state.id /\ state'.prefix = state.prefix /\ state'.route = route
          /\ state'.kind = state.kind
      BY <2>4 DEF RouteInv, ClientInv, Shaped
    <3> QED
      BY <2>1, <2>2, <3>1, SolvesOn DEF RouteInv, Busy
  <2>5. CASE Completed(state.id, state.route)
    BY <2>1, <2>5, SolvesOn DEF RouteInv, RouteSolves, Completed, Busy
  <2>6. CASE Completed(state.id, route)
    BY <2>1, <2>2, <2>6, SolvesOn DEF RouteInv, Completed, Busy
  <2> QED
    BY <2>3, <2>4, <2>5, <2>6
<1> QED
  BY <1>1, <1>2

LEMMA SolveSolves ==
  ASSUME RouteInv, NEW on, NEW prefix, NEW mode, NEW engine, Solve(on, prefix, mode, engine)
  PROVE  JobsTyped' /\ Asked' /\ RouteSolves'
<1>1. PICK pc : jobs' = Append(jobs, NewJob(on, prefix, mode, engine, pc))
  BY DEF Solve
<1> DEFINE job == NewJob(on, prefix, mode, engine, pc)
           S == {jobs[i] : i \in DOMAIN jobs} \cup {job}
           n == Len(jobs)
<1>2. jobs \in Seq(S) /\ n \in Nat /\ DOMAIN jobs = 1 .. n
  BY JobsSeq DEF RouteInv
<1>3. "board" \in DOMAIN job
  BY DEF NewJob
<1> HIDE DEF job
<1>4. /\ jobs' \in Seq(S) /\ Len(jobs') = n + 1
      /\ \A i \in 1 .. n : jobs'[i] = jobs[i]
      /\ jobs'[n + 1] = job
  BY <1>1, <1>2, AppendProperties DEF job
<1>5. \A i \in 1 .. n : "board" \in DOMAIN jobs[i]
  BY <1>2 DEF RouteInv, JobsTyped
<1>6. jobs' = [i \in 1 .. n + 1 |-> jobs'[i]]
  BY <1>2, <1>4
<1>7. JobsTyped'
  BY <1>2, <1>3, <1>4, <1>5, <1>6 DEF JobsTyped
<1>8. state'.id = n + 1 /\ state'.route = {}
  BY DEF Solve
<1> QED
  BY <1>2, <1>6, <1>7, <1>8 DEF Asked, RouteSolves

LEMMA RouteInitially == ClientInit => RouteInv
<1> SUFFICES ASSUME ClientInit PROVE RouteInv
  OBVIOUS
<1>1. jobs = [i \in 1 .. 0 |-> jobs[i]]
  BY DEF ClientInit
<1>2. JobsTyped
  BY <1>1 DEF JobsTyped
<1> QED
  BY <1>2, ClientInitially DEF ClientInit, RouteInv, Asked, RouteSolves, Idle, Busy

LEMMA RouteStep == RouteInv /\ [AnyNext]_clientVars => RouteInv'
<1> SUFFICES ASSUME RouteInv, [AnyNext]_clientVars PROVE RouteInv'
  OBVIOUS
<1>0. ClientInv /\ JobsTyped
  BY DEF RouteInv
<1>1. ClientInv'
  BY <1>0, ClientStep
<1>2. CASE UNCHANGED clientVars
  BY <1>1, <1>2 DEF clientVars, RouteInv, JobsTyped, Asked, Busy, RouteSolves
<1>3. CASE \E on, m, e : \E prefix \in Seq(Dirs) : Solve(on, prefix, m, e)
  BY <1>1, <1>3, SolveSolves DEF RouteInv
<1>4. CASE ResetClient \/ DropRoute \/ Cancel
  <2>1. Alike(jobs')
    BY <1>4, ClientAlike DEF RouteInv
  <2>2. \/ state' = Idle \/ state' = state
        \/ state.kind = "completed" /\ state' = [state EXCEPT !.route = {}]
    BY <1>4 DEF ResetClient, DropRoute, Cancel, clientVars
  <2>3. ASSUME state' = Idle
        PROVE  Asked' /\ RouteSolves'
    BY <2>3 DEF Idle, Asked, Busy, RouteSolves
  <2>4. ASSUME state' = state
        PROVE  Asked' /\ RouteSolves'
    BY <2>1, <2>4, SolvesOn DEF RouteInv, RouteSolves, Busy
  <2>5. ASSUME state.kind = "completed" /\ state' = [state EXCEPT !.route = {}]
        PROVE  Asked' /\ RouteSolves'
    <3>1. state'.kind = "completed" /\ state'.route = {}
      BY <2>5 DEF RouteInv, ClientInv, Shaped
    <3> QED
      BY <3>1 DEF Asked, Busy, RouteSolves
  <2>6. Asked' /\ RouteSolves'
    BY <2>2, <2>3, <2>4, <2>5
  <2>7. JobsTyped'
    BY <1>0, <2>1, AlikeTyped
  <2> QED
    BY <1>1, <2>6, <2>7 DEF RouteInv
<1>5. ASSUME NEW id \in Ids,
             \/ Deliver(id, jobs[id].board) \/ ReadBody(id, jobs[id].board)
             \/ WorkerError(id) \/ Watchdog(id)
      PROVE  RouteInv'
  <2>1. Alike(jobs')
    BY <1>5, ClientAlike DEF RouteInv
  <2>2. ASSUME \E u : Receive(id, u, jobs[id].board)
        PROVE  Asked' /\ RouteSolves'
    BY <2>1, <2>2, ReceiveSolves
  <2>3. ASSUME Watchdog(id)
        PROVE  Asked' /\ RouteSolves'
    <3>1. Busy /\ Completed(state.id, state.route)
      BY <2>3 DEF Watchdog, Active, Completed, Released
    <3> QED
      BY <2>1, <3>1, SolvesOn DEF RouteInv, RouteSolves, Completed, Busy
  <2>4. Asked' /\ RouteSolves'
    BY <1>5, <2>2, <2>3 DEF Deliver, ReadBody, WorkerError
  <2>5. JobsTyped'
    BY <1>0, <2>1, AlikeTyped
  <2> QED
    BY <1>1, <2>4, <2>5 DEF RouteInv
<1>6. ASSUME NEW id \in Ids, Engine(id) \/ Respond(id)
      PROVE  RouteInv'
  <2>1. Alike(jobs') /\ state' = state
    BY <1>6, EngineAlike, EngineApart DEF RouteInv
  <2>2. Asked' /\ RouteSolves'
    BY <2>1, SolvesOn DEF RouteInv, RouteSolves, Busy
  <2>3. JobsTyped'
    BY <1>0, <2>1, AlikeTyped
  <2> QED
    BY <1>1, <2>2, <2>3 DEF RouteInv
<1> QED
  BY <1>2, <1>3, <1>4, <1>5, <1>6 DEF AnyNext

(* The route a client keeps solves the puzzle it was asked about, from the *)
(* prefix it was asked with, whatever an engine sends and however its      *)
(* replies, the timers and the user interleave (solver-client.ts 62-63,    *)
(* 107-125).                                                               *)
THEOREM RouteAlwaysSolves == ClientSpec => []RouteSolves
<1>1. RouteInv => RouteSolves
  BY DEF RouteInv
<1>2. RouteInv /\ [ClientNext]_clientVars => RouteInv'
  BY NextIsAny, RouteStep
<1> QED
  BY <1>1, <1>2, RouteInitially, PTL DEF ClientSpec
-----------------------------------------------------------------------------
(* A route that walks from a searchable position to a solve replays to it. *)

(* The positions along a route are what their definition says.             *)
WalkedBy(on, s, r, f, n) ==
  f = [k \in 0 .. n |->
         IF k = 0 THEN {s}
         ELSE UNION {IF SolvedIn(on, q) THEN {} ELSE {p.state : p \in Steps(on, q, r[k])} :
                       q \in f[k - 1]}]

LEMMA WalkedByExists ==
  ASSUME NEW on, NEW s, NEW r, NEW n \in Nat
  PROVE  \E f : WalkedBy(on, s, r, f, n)
<1> DEFINE T == {k \in Nat : ~ \E f : WalkedBy(on, s, r, f, k)}
           Onto(k, ss) == UNION {IF SolvedIn(on, q) THEN {}
                                 ELSE {p.state : p \in Steps(on, q, r[k])} : q \in ss}
<1> SUFFICES ASSUME T # {} PROVE FALSE
  OBVIOUS
<1>u. ASSUME NEW f, NEW k
      PROVE  WalkedBy(on, s, r, f, k) =
               (f = [i \in 0 .. k |-> IF i = 0 THEN {s} ELSE Onto(i, f[i - 1])])
  BY Zenon DEF WalkedBy
<1> HIDE DEF T, Onto
<1>1. PICK m \in T : \A k \in T : m <= k
  BY LeastNumber DEF T
<1>m. m \in Nat
  BY DEF T
<1>2. CASE m = 0
  <2>1. PICK f : f = [k \in 0 .. 0 |-> {s}]
    OBVIOUS
  <2>2. f = [i \in 0 .. 0 |-> IF i = 0 THEN {s} ELSE Onto(i, f[i - 1])]
    BY <2>1
  <2>3. WalkedBy(on, s, r, f, 0)
    BY <1>u, <2>2, Zenon
  <2> QED
    BY <1>1, <1>2, <2>3 DEF T
<1>3. CASE m # 0
  <2>1. m - 1 \in Nat /\ m - 1 \notin T
    BY <1>1, <1>m, <1>3
  <2>2. PICK f : WalkedBy(on, s, r, f, m - 1)
    BY <2>1 DEF T
  <2> DEFINE h == [k \in 0 .. m |-> IF k = 0 THEN {s} ELSE Onto(k, f[k - 1])]
  <2>3. \A k \in 0 .. m - 1 : h[k] = f[k]
    <3> SUFFICES ASSUME NEW k \in 0 .. m - 1 PROVE h[k] = f[k]
      OBVIOUS
    <3>1. k \in 0 .. m
      BY <1>m
    <3>2. f = [i \in 0 .. m - 1 |-> IF i = 0 THEN {s} ELSE Onto(i, f[i - 1])]
      BY <1>u, <2>2
    <3> QED
      BY <3>1, <3>2
  <2>4. \A k \in 0 .. m : k # 0 => f[k - 1] = h[k - 1]
    <3> HIDE DEF h
    <3> SUFFICES ASSUME NEW k \in 0 .. m, k # 0 PROVE f[k - 1] = h[k - 1]
      OBVIOUS
    <3>1. k - 1 \in 0 .. m - 1
      BY <1>m
    <3> QED
      BY <2>3, <3>1
  <2>5. h = [k \in 0 .. m |-> IF k = 0 THEN {s} ELSE Onto(k, h[k - 1])]
    BY <2>4
  <2>6. WalkedBy(on, s, r, h, m)
    <3> HIDE DEF h
    <3> QED
      BY <1>u, <2>5
  <2> QED
    BY <1>1, <2>6 DEF T
<1> QED
  BY <1>2, <1>3

(* They lead from s to what the route walks to, step by step.              *)
Trail(on, s, r, f) ==
  /\ f[0] = {s} /\ f[Len(r)] = Walked(on, s, r)
  /\ \A k \in 1 .. Len(r) : \A t \in f[k] :
       \E q \in f[k - 1] : \E p \in Steps(on, q, r[k]) : ~SolvedIn(on, q) /\ t = p.state

LEMMA WalkedUnfolds ==
  ASSUME NEW on, NEW s, NEW r, Len(r) \in Nat
  PROVE  \E f : Trail(on, s, r, f)
<1>1. PICK h : WalkedBy(on, s, r, h, Len(r))
  BY WalkedByExists
<1>2. PICK f : /\ WalkedBy(on, s, r, f, Len(r)) /\ f[Len(r)] = Walked(on, s, r)
  BY <1>1 DEF WalkedBy, Walked
<1>3. 0 \in 0 .. Len(r) /\ f[0] = {s}
  BY <1>2 DEF WalkedBy
<1>4. ASSUME NEW k \in 1 .. Len(r), NEW t \in f[k]
      PROVE  \E q \in f[k - 1] : \E p \in Steps(on, q, r[k]) : ~SolvedIn(on, q) /\ t = p.state
  <2>1. k \in 0 .. Len(r) /\ k # 0
    OBVIOUS
  <2>2. f[k] = UNION {IF SolvedIn(on, q) THEN {} ELSE {p.state : p \in Steps(on, q, r[k])} :
                        q \in f[k - 1]}
    BY <1>2, <2>1 DEF WalkedBy
  <2> QED
    BY <2>2
<1> QED
  BY <1>2, <1>3, <1>4 DEF Trail

LEMMA WaysSolve ==
  ASSUME NEW on, NEW prefix \in Seq(Dirs), NEW r \in Seq(Dirs), r \in Ways(on, prefix),
         Len(prefix) + Len(r) <= MaxRoute
  PROVE  Solves(on, prefix \o r)
<1> DEFINE all == prefix \o r
           h == GamesAlong(on, all)
           P == Len(prefix)
<1>a. PICK g \in Replayed(on, prefix) : \E t \in Walked(on, g.state, r) : SolvedIn(on, t)
  BY DEF Ways, SearchableAt
<1>1. PICK t \in Walked(on, g.state, r) : SolvedIn(on, t)
  BY <1>a
<1>2. /\ P \in Nat /\ Len(r) \in Nat /\ Len(all) = P + Len(r) /\ all \in Seq(Dirs)
      /\ \A k \in 1 .. P : all[k] = prefix[k]
      /\ \A k \in 1 .. Len(r) : all[P + k] = r[k]
  BY ConcatProperties, LenProperties
<1> HIDE DEF all
<1>f. PICK f : Trail(on, g.state, r, f)
  BY <1>2, WalkedUnfolds
<1>3. /\ f[0] = {g.state} /\ f[Len(r)] = Walked(on, g.state, r)
      /\ \A k \in 1 .. Len(r) : \A u \in f[k] :
           \E q \in f[k - 1] : \E p \in Steps(on, q, r[k]) :
             ~SolvedIn(on, q) /\ u = p.state
  BY <1>f DEF Trail
<1>4. g \in h[P]
  <2>1. g \in GamesAlong(on, prefix)[P]
    BY <1>a DEF Replayed
  <2>2. PICK n \in Nat : n = Len(prefix)
    BY <1>2
  <2>3. n \in 0 .. n /\ n <= Len(all) /\ Len(all) \in Nat /\ \A k \in 1 .. n : all[k] = prefix[k]
    BY <1>2, <2>2
  <2>4. GamesAlong(on, all)[n] = GamesAlong(on, prefix)[n]
    BY <2>2, <2>3, AlongShares
  <2> QED
    BY <2>1, <2>2, <2>4
<1> DEFINE Led(k) == \A u \in f[k] : \E j \in h[P + k] : j.state = u
           T == {k \in 0 .. Len(r) : ~Led(k)}
<1>5. /\ h[0] = {NewGame(on)}
      /\ \A k \in 1 .. Len(all) : h[k] = UNION {Played(on, j, all[k]) : j \in h[k - 1]}
      /\ \A k \in 0 .. Len(all) : \A j \in h[k] : Moves(j) = k
  <2>1. Len(all) \in Nat
    BY <1>2
  <2> QED
    BY <2>1, AlongUnfolds, AlongRecords
<1> HIDE DEF h, P
<1>6. T = {}
  <2> SUFFICES ASSUME T # {} PROVE FALSE
    OBVIOUS
  <2> HIDE DEF T
  <2>1. PICK m \in T : \A k \in T : m <= k
    <3>1. T \in SUBSET Nat
      BY <1>2 DEF T
    <3> QED
      BY <3>1, LeastNumber
  <2>2. m \in 0 .. Len(r) /\ ~Led(m)
    BY DEF T
  <2>3. m # 0
    <3>1. P + 0 = P
      BY <1>2
    <3> QED
      BY <1>3, <1>4, <2>2, <3>1
  <2>4. /\ m - 1 \in 0 .. Len(r) /\ m \in 1 .. Len(r) /\ ~(m <= m - 1)
        /\ P + m \in 1 .. Len(all) /\ (P + m) - 1 = P + (m - 1)
        /\ P + (m - 1) \in 0 .. Len(all) /\ ~(P + (m - 1) >= MaxRoute)
    BY <1>2, <2>2, <2>3, ClientAssumption DEF P
  <2>5. Led(m - 1)
    BY <2>1, <2>4 DEF T
  <2>6. PICK u \in f[m] : \A j \in h[P + m] : j.state # u
    BY <2>2
  <2>q. PICK q \in f[m - 1] : \E p \in Steps(on, q, r[m]) : ~SolvedIn(on, q) /\ u = p.state
    BY <1>3, <2>4
  <2>7. PICK p \in Steps(on, q, r[m]) : ~SolvedIn(on, q) /\ u = p.state
    BY <2>q
  <2>8. PICK j \in h[P + (m - 1)] : j.state = q
    BY <2>5
  <2>9. ~(Moves(j) >= MaxRoute)
    BY <1>5, <2>4
  <2>10. PICK n \in Played(on, j, r[m]) : n.state = u
    <3>1. PICK n : n = [state   |-> p.state,
                        pushes  |-> j.pushes + Cardinality(p.pushed),
                        history |-> Append(j.history, [player |-> j.state.player,
                                                       pushed |-> p.pushed]),
                        actions |-> Append(j.actions, r[m])]
      OBVIOUS
    <3>2. n.state = u
      BY <2>7, <3>1
    <3>3. p \in Steps(on, j.state, r[m]) /\ ~SolvedIn(on, j.state)
      BY <2>7, <2>8
    <3>4. n \in Played(on, j, r[m])
      BY <2>9, <3>1, <3>3, Zenon DEF Played
    <3> QED
      BY <3>2, <3>4
  <2>11. n \in h[P + m]
    BY <1>2, <1>5, <2>4, <2>10
  <2> QED
    BY <2>6, <2>10, <2>11
<1>7. Len(r) \in 0 .. Len(r)
  BY <1>2
<1>8. PICK j \in h[P + Len(r)] : j.state = t
  BY <1>1, <1>3, <1>6, <1>7
<1>9. j \in Replayed(on, all)
  <2>1. ~(Len(all) > MaxRoute)
    BY <1>2, ClientAssumption DEF P
  <2>2. j \in h[Len(all)]
    BY <1>2, <1>8
  <2> QED
    BY <2>1, <2>2 DEF Replayed, h
<1> QED
  BY <1>1, <1>8, <1>9 DEF Solves, all
-----------------------------------------------------------------------------
(* A sound engine's replies pass: what waits in its mail is judged by the  *)
(* lengths of the route on hand when each reply is heard.                  *)

(* The lengths of the route on hand once a reply is taken.                 *)
After(u, lens) == IF u.type = "error" \/ u.route = {} THEN lens ELSE Lengths(u.route)

AgreesBy(u, lens) ==
  /\ u.status = "solved" => lens # {}
  /\ u.proof = "unsolvable" => lens = {}
  /\ \A n \in lens, l \in u.lower : l <= n
  /\ u.type = "done" /\ u.proof \in {"optimal", "bounded"} => u.best = lens

(* A reply's route is one the search may find, and the count it proves     *)
(* optimal is the shortest one's.                                          *)
Founded(on, prefix, u) ==
  /\ u.route \subseteq Ways(on, prefix)
  /\ u.type = "done" /\ u.proof = "optimal" =>
       u.best = Shortest([ways |-> Ways(on, prefix)])

(* A reply passes accept's checks, to a search of this board and prefix,   *)
(* and speaks the truth.                                                   *)
Passes(on, prefix, u, lens) ==
  \/ u.type = "error"
  \/ /\ Decodes(u)
     /\ \A r \in u.route : /\ Len(prefix) + Len(r) <= MaxRoute
                           /\ Solves(on, prefix \o r)
     /\ AgreesBy(u, lens)
     /\ Founded(on, prefix, u)

IsMail(mail) == \E m \in Nat : mail = [i \in 1 .. m |-> mail[i]]

(* Each reply in turn passes; the route on hand has these lengths before   *)
(* and after them.                                                         *)
Heard(on, prefix, mail, lens, last) ==
  \E f : /\ f[0] = lens /\ f[Len(mail)] = last
         /\ \A k \in 1 .. Len(mail) : /\ f[k] = After(mail[k], f[k - 1])
                                      /\ Passes(on, prefix, mail[k], f[k])

LEMMA MailFacts ==
  ASSUME NEW mail, IsMail(mail), NEW u
  PROVE  /\ Len(mail) \in Nat
         /\ IsMail(Append(mail, u)) /\ Len(Append(mail, u)) = Len(mail) + 1
         /\ \A k \in 1 .. Len(mail) : Append(mail, u)[k] = mail[k]
         /\ Append(mail, u)[Len(mail) + 1] = u
         /\ mail # << >> =>
              /\ Len(mail) >= 1 /\ Head(mail) = mail[1]
              /\ IsMail(Tail(mail)) /\ Len(Tail(mail)) = Len(mail) - 1
              /\ \A k \in 1 .. Len(mail) - 1 : Tail(mail)[k] = mail[k + 1]
<1>1. PICK m \in Nat : mail = [i \in 1 .. m |-> mail[i]]
  BY DEF IsMail
<1> DEFINE S == {mail[i] : i \in 1 .. m} \cup {u}
<1>2. mail \in Seq(S) /\ Len(mail) = m
  <2>1. mail \in [1 .. m -> S]
    BY <1>1
  <2>2. mail \in Seq(S)
    BY <2>1, SeqDef
  <2>3. DOMAIN mail = 1 .. m
    BY <1>1
  <2> QED
    BY <2>2, <2>3, LenProperties
<1> HIDE DEF S
<1>3. u \in S
  BY DEF S
<1>4. \A q : q \in Seq(S) => IsMail(q)
  <2> SUFFICES ASSUME NEW q \in Seq(S) PROVE IsMail(q)
    OBVIOUS
  <2>1. Len(q) \in Nat /\ q = [i \in 1 .. Len(q) |-> q[i]]
    BY LenProperties
  <2> QED
    BY <2>1 DEF IsMail
<1>5. /\ Append(mail, u) \in Seq(S) /\ Len(Append(mail, u)) = Len(mail) + 1
      /\ \A k \in 1 .. Len(mail) : Append(mail, u)[k] = mail[k]
      /\ Append(mail, u)[Len(mail) + 1] = u
  BY <1>2, <1>3, AppendProperties
<1>6. ASSUME mail # << >>
      PROVE  /\ Len(mail) >= 1 /\ Head(mail) = mail[1]
             /\ Tail(mail) \in Seq(S) /\ Len(Tail(mail)) = Len(mail) - 1
             /\ \A k \in 1 .. Len(mail) - 1 : Tail(mail)[k] = mail[k + 1]
  BY <1>2, <1>6, HeadTailProperties, LenProperties, EmptySeq
<1> QED
  BY <1>2, <1>4, <1>5, <1>6

LEMMA NoMail ==
  ASSUME NEW on, NEW prefix, NEW lens
  PROVE  IsMail(<< >>) /\ Heard(on, prefix, << >>, lens, lens)
<1>1. << >> = [i \in 1 .. 0 |-> << >>[i]] /\ Len(<< >>) = 0
  BY EmptySeq
<1>2. IsMail(<< >>)
  BY <1>1 DEF IsMail
<1>3. PICK f : f = [k \in 0 .. 0 |-> lens]
  OBVIOUS
<1>4. f[0] = lens /\ f[Len(<< >>)] = lens /\ \A k \in 1 .. Len(<< >>) : FALSE
  BY <1>1, <1>3
<1> QED
  BY <1>2, <1>4 DEF Heard

LEMMA HeardMore ==
  ASSUME NEW on, NEW prefix, NEW mail, IsMail(mail), NEW lens, NEW last,
         Heard(on, prefix, mail, lens, last), NEW u, Passes(on, prefix, u, After(u, last))
  PROVE  Heard(on, prefix, Append(mail, u), lens, After(u, last))
<1>1. PICK f : /\ f[0] = lens /\ f[Len(mail)] = last
               /\ \A k \in 1 .. Len(mail) : /\ f[k] = After(mail[k], f[k - 1])
                                            /\ Passes(on, prefix, mail[k], f[k])
  BY DEF Heard
<1>n. PICK n \in Nat : n = Len(mail)
  BY MailFacts
<1>2. PICK c, more : /\ n = Len(mail) /\ c = After(u, last)
                     /\ more = Append(mail, u)
  BY <1>n
<1>3. Len(more) = n + 1 /\ (\A k \in 1 .. n : more[k] = mail[k]) /\ more[n + 1] = u
  BY <1>2, MailFacts
<1>4. PICK h : h = [k \in 0 .. n + 1 |-> IF k = n + 1 THEN c ELSE f[k]]
  OBVIOUS
<1>5. h[0] = lens /\ h[n + 1] = c /\ h[n] = last /\ \A k \in 0 .. n : h[k] = f[k]
  BY <1>1, <1>2, <1>4
<1>6. ASSUME NEW k \in 1 .. n + 1
      PROVE  h[k] = After(more[k], h[k - 1]) /\ Passes(on, prefix, more[k], h[k])
  <2>1. CASE k = n + 1
    <3>1. k - 1 = n
      BY <2>1
    <3>2. h[k] = c /\ h[k - 1] = last /\ more[k] = u
      BY <1>3, <1>5, <2>1, <3>1
    <3> QED
      BY <1>2, <3>2
  <2>2. CASE k \in 1 .. n
    <3>1. h[k] = f[k] /\ h[k - 1] = f[k - 1] /\ more[k] = mail[k]
      BY <1>3, <1>5, <2>2
    <3> QED
      BY <1>1, <1>2, <2>2, <3>1
  <2> QED
    BY <2>1, <2>2
<1> QED
  BY <1>2, <1>3, <1>5, <1>6 DEF Heard

LEMMA HeardFirst ==
  ASSUME NEW on, NEW prefix, NEW mail, IsMail(mail), mail # << >>, NEW lens, NEW last,
         Heard(on, prefix, mail, lens, last)
  PROVE  /\ Passes(on, prefix, Head(mail), After(Head(mail), lens))
         /\ Heard(on, prefix, Tail(mail), After(Head(mail), lens), last)
<1>1. PICK f : /\ f[0] = lens /\ f[Len(mail)] = last
               /\ \A k \in 1 .. Len(mail) : /\ f[k] = After(mail[k], f[k - 1])
                                            /\ Passes(on, prefix, mail[k], f[k])
  BY DEF Heard
<1>n. PICK n \in Nat : n = Len(mail)
  BY MailFacts
<1>2. PICK u, rest : n = Len(mail) /\ u = Head(mail) /\ rest = Tail(mail)
  BY <1>n
<1>3. /\ n >= 1 /\ u = mail[1] /\ Len(rest) = n - 1
      /\ \A k \in 1 .. n - 1 : rest[k] = mail[k + 1]
  BY <1>2, MailFacts
<1>4. f[1] = After(u, lens) /\ Passes(on, prefix, u, f[1])
  <2>1. 1 \in 1 .. Len(mail) /\ 1 - 1 = 0
    BY <1>2, <1>3
  <2> QED
    BY <1>1, <1>3, <2>1
<1>5. PICK h : h = [k \in 0 .. n - 1 |-> f[k + 1]]
  OBVIOUS
<1>6. h[0] = f[1] /\ h[n - 1] = last
  <2>1. 0 \in 0 .. n - 1 /\ n - 1 \in 0 .. n - 1 /\ 0 + 1 = 1 /\ (n - 1) + 1 = n
    BY <1>3
  <2> QED
    BY <1>1, <1>2, <1>5, <2>1
<1>7. ASSUME NEW k \in 1 .. n - 1
      PROVE  h[k] = After(rest[k], h[k - 1]) /\ Passes(on, prefix, rest[k], h[k])
  <2>1. k \in 0 .. n - 1 /\ k - 1 \in 0 .. n - 1 /\ k + 1 \in 1 .. n /\ (k - 1) + 1 = (k + 1) - 1
    OBVIOUS
  <2>2. h[k] = f[k + 1] /\ h[k - 1] = f[(k + 1) - 1] /\ rest[k] = mail[k + 1]
    BY <1>3, <1>5, <2>1
  <2> QED
    BY <1>1, <1>2, <2>1, <2>2
<1> QED
  BY <1>2, <1>3, <1>4, <1>6, <1>7 DEF Heard
(* A sound search, with a route of these lengths on hand at the page: its  *)
(* mail will pass, and after it the route on hand is the one last sent,    *)
(* which is no shorter than the best.                                      *)
Works(j, lens) ==
  /\ IsMail(j.mail)
  /\ \E last : /\ Heard(j.board, j.prefix, j.mail, lens, last)
               /\ j.pc = "search" => last = j.sent
  /\ j.best = {} \/ \E r \in j.ways : j.best = {r}
  /\ j.best = {} => j.sent = {}
  /\ j.sent \subseteq Nat
  /\ \A s \in j.sent, b \in j.best : Len(b) <= s
  /\ j.pc = "asked" => lens = {} /\ j.mail = << >> /\ j.sent = {} /\ j.best = {}
  /\ j.pc \in {"answered", "body"} => j.mail # << >> /\ j.engine # "browser"

(* What a search was asked: its routes lead from its prefix to a solve.    *)
Posed(j) ==
  j.prefix \in Seq(Dirs) /\ j.ways = Ways(j.board, j.prefix)

IsJob(j) ==
  j = [board |-> j.board, prefix |-> j.prefix, mode |-> j.mode, engine |-> j.engine,
       pc |-> j.pc, ways |-> j.ways, told |-> j.told, best |-> j.best, sent |-> j.sent,
       mail |-> j.mail, honest |-> j.honest]

LEMMA RoutesPosed ==
  ASSUME NEW j, Posed(j)
  PROVE  /\ Lengths(j.ways) \subseteq Nat
         /\ \A r \in j.ways : /\ r \in Seq(Dirs) /\ Len(r) \in Nat
                              /\ Len(j.prefix) + Len(r) <= MaxRoute =>
                                   Solves(j.board, j.prefix \o r)
<1>1. ASSUME NEW r \in j.ways
      PROVE  /\ r \in Seq(Dirs) /\ Len(r) \in Nat
             /\ Len(j.prefix) + Len(r) <= MaxRoute => Solves(j.board, j.prefix \o r)
  <2>1. j.prefix \in Seq(Dirs) /\ r \in Ways(j.board, j.prefix)
    BY DEF Posed
  <2>2. r \in Seq(Dirs)
    BY <2>1, ClientAssumption DEF Ways
  <2>3. Len(j.prefix) + Len(r) <= MaxRoute => Solves(j.board, j.prefix \o r)
    BY <2>1, <2>2, WaysSolve
  <2> QED
    BY <2>2, <2>3, LenProperties
<1> QED
  BY <1>1 DEF Lengths

(* The best route, where it fits: one at most, and it solves.              *)
LEMMA BestFacts ==
  ASSUME NEW j, Posed(j), j.best = {} \/ \E r \in j.ways : j.best = {r}
  PROVE  /\ Lengths(j.best) \subseteq Nat /\ Lengths(j.best) \subseteq Lengths(j.ways)
         /\ \A m, n \in Lengths(j.best) : m = n
         /\ (Lengths(j.best) = {}) = (j.best = {})
         /\ Lengths({}) = {}
         /\ Fits(j) => \A r \in j.best : /\ Len(j.prefix) + Len(r) <= MaxRoute
                                         /\ Solves(j.board, j.prefix \o r)
<1>1. Lengths({}) = {}
  BY DEF Lengths
<1>2. CASE j.best = {}
  BY <1>1, <1>2
<1>3. CASE \E r \in j.ways : j.best = {r}
  <2>1. PICK r \in j.ways : j.best = {r}
    BY <1>3
  <2>2. Len(r) \in Nat /\ (Len(j.prefix) + Len(r) <= MaxRoute => Solves(j.board, j.prefix \o r))
    BY RoutesPosed
  <2>3. Lengths(j.best) = {Len(r)} /\ Len(r) \in Lengths(j.ways)
    BY <2>1 DEF Lengths
  <2>4. Fits(j) => \A q \in j.best : /\ Len(j.prefix) + Len(q) <= MaxRoute
                                     /\ Solves(j.board, j.prefix \o q)
    BY <2>1, <2>2 DEF Fits
  <2> QED
    BY <1>1, <2>1, <2>2, <2>3, <2>4
<1> QED
  BY <1>2, <1>3

(* A search that was wiped is sound whatever is on hand.                   *)
LEMMA QuietWorks ==
  ASSUME NEW j, NEW lens, j.mail = << >>, j.pc = "ended", j.best = {}, j.sent = {}
  PROVE  Works(j, lens)
<1>1. IsMail(j.mail) /\ Heard(j.board, j.prefix, j.mail, lens, lens)
  BY NoMail
<1> QED
  BY <1>1 DEF Works

(* A search that goes on posts what passes and leaves on hand what it has  *)
(* sent.                                                                   *)
LEMMA PostWorks ==
  ASSUME NEW j, NEW k, NEW u, NEW lens, Works(j, lens), j.pc \in {"asked", "search"},
         k.board = j.board, k.prefix = j.prefix, k.ways = j.ways, k.best = j.best,
         k.mail = Append(j.mail, u), k.pc # "asked",
         k.pc \in {"answered", "body"} => k.engine # "browser",
         NEW last, last = (IF j.pc = "search" THEN j.sent ELSE {}),
         Passes(j.board, j.prefix, u, After(u, last)),
         k.pc = "search" => k.sent = After(u, last),
         k.sent \subseteq Nat, k.best = {} => k.sent = {},
         \A s \in k.sent, b \in k.best : Len(b) <= s
  PROVE  Works(k, lens)
<1>1. IsMail(j.mail) /\ Heard(j.board, j.prefix, j.mail, lens, last)
  <2>1. CASE j.pc = "search"
    BY <2>1 DEF Works
  <2>2. CASE j.pc = "asked"
    <3>1. lens = {} /\ j.mail = << >>
      BY <2>2 DEF Works
    <3> QED
      BY <2>2, <3>1, NoMail
  <2> QED
    BY <2>1, <2>2
<1>2. Heard(k.board, k.prefix, k.mail, lens, After(u, last))
  BY <1>1, HeardMore
<1>3. IsMail(k.mail) /\ k.mail # << >>
  <2>1. IsMail(k.mail) /\ Len(j.mail) \in Nat /\ Len(k.mail) = Len(j.mail) + 1
    BY <1>1, MailFacts
  <2>2. PICK n : n = Len(k.mail)
    OBVIOUS
  <2>3. n # 0
    BY <2>1, <2>2
  <2>4. Len(<< >>) = 0
    BY EmptySeq
  <2> QED
    BY <2>1, <2>2, <2>3, <2>4
<1>4. k.best = {} \/ \E r \in k.ways : k.best = {r}
  BY DEF Works
<1> QED
  BY <1>2, <1>3, <1>4, Zenon DEF Works

(* A search that ends with a proof of its best route has the shortest one, *)
(* be it that the bound it was left with has caught up.                    *)
LEMMA OptimalEnds ==
  ASSUME NEW j, Posed(j), j.best = {} \/ \E r \in j.ways : j.best = {r},
         NEW stops \in SUBSET {"state_limit", "time_limit", "cancelled"},
         NEW e \in Endings(j, stops), e.proof = "optimal"
  PROVE  Lengths(j.best) = Shortest(j)
<1>1. PICK best, least : best = Lengths(j.best) /\ least = Shortest(j)
  OBVIOUS
<1>2. \/ e.status = "solved" /\ j.mode # "fast" /\ best = least
      \/ best # {} /\ e.lower = best /\ e.lower \in {{}, {0}, least}
  BY <1>1 DEF Endings, Lowers
<1>3. ASSUME best = {0} PROVE best = least
  <2>1. 0 \in Lengths(j.ways) /\ Lengths(j.ways) \subseteq Nat
    BY <1>1, <1>3, BestFacts, RoutesPosed
  <2>2. PICK all \in SUBSET Nat : all = Lengths(j.ways) /\ 0 \in all
    BY <2>1
  <2>3. least = {n \in all : \A m \in all : n <= m}
    BY <1>1, <2>2 DEF Shortest
  <2>4. least = {0}
    BY <2>2, <2>3
  <2> QED
    BY <1>3, <2>4
<1> QED
  BY <1>1, <1>2, <1>3

(* How a sound search ends passes: its proof, its bound and its route.     *)
LEMMA EndPasses ==
  ASSUME NEW j, Posed(j), j.best = {} \/ \E r \in j.ways : j.best = {r}, Fits(j),
         NEW stops \in SUBSET {"state_limit", "time_limit", "cancelled"},
         NEW e \in Endings(j, stops), NEW lower, NEW route,
         lower = e.lower \/ (lower = {} /\ e.proof \notin {"optimal", "bounded"}),
         route = j.best \/ route = {}
  PROVE  Passes(j.board, j.prefix,
                Update("done", e.status, Lengths(j.best), lower, e.proof, route),
                Lengths(j.best))
<1> DEFINE u == Update("done", e.status, Lengths(j.best), lower, e.proof, route)
<1>1. PICK best : best = Lengths(j.best)
  OBVIOUS
<1>2. /\ best \subseteq Nat /\ (\A m, n \in best : m = n) /\ (best = {}) = (j.best = {})
      /\ Lengths({}) = {}
      /\ \A r \in j.best : /\ Len(j.prefix) + Len(r) <= MaxRoute
                           /\ Solves(j.board, j.prefix \o r)
  BY <1>1, BestFacts
<1>3. /\ e.status \in {"solved", "exhausted"} \cup stops
      /\ e.status = "solved" => best # {} /\ e.proof \in {"none", "optimal"}
                                /\ e.lower \in {{}, best}
      /\ e.status = "exhausted" => best = {} /\ e.lower = {} /\ e.proof \in {"none", "unsolvable"}
      /\ e.status \in stops =>
           /\ e.proof \in {"none", "optimal", "bounded"}
           /\ e.proof # "none" => best # {} /\ e.lower # {}
           /\ \A b \in best, l \in e.lower : l <= b
  <2>1. \/ e.status = "solved" /\ e.proof = (IF j.mode = "fast" THEN "none" ELSE "optimal")
             /\ e.lower = (IF j.mode = "fast" THEN {} ELSE best)
        \/ e.status = "exhausted" /\ e.proof = (IF j.mode = "fast" THEN "none" ELSE "unsolvable")
             /\ e.lower = {}
        \/ /\ e.status \in stops
           /\ e.proof = IF best = {} \/ j.mode = "fast" THEN "none"
                        ELSE IF e.lower = best THEN "optimal" ELSE "bounded"
    BY <1>1 DEF Endings
  <2>2. /\ e.status = "solved" => best # {}
        /\ e.status = "exhausted" => best = {}
        /\ e.status \in stops => /\ j.mode # "fast" /\ best # {} => e.lower # {}
                                 /\ \A b \in best, l \in e.lower : l <= b
    BY <1>1 DEF Endings
  <2> QED
    BY <2>1, <2>2
<1>4. /\ u.type = "done" /\ u.status = e.status /\ u.best = best /\ u.lower = lower
      /\ u.proof = e.proof /\ u.route = route
  BY <1>1 DEF Update
<1>5. \A l \in lower, b \in best : l <= b
  <2> SUFFICES ASSUME NEW l \in lower, NEW b \in best PROVE l <= b
    OBVIOUS
  <2>1. l \in e.lower /\ b \in Nat
    BY <1>2
  <2>2. CASE e.status = "solved"
    <3>1. l = b
      BY <1>2, <1>3, <2>1, <2>2
    <3> QED
      BY <2>1, <3>1
  <2>3. CASE e.status = "exhausted"
    BY <1>3, <2>3
  <2>4. CASE e.status \in stops
    BY <1>3, <2>1, <2>4
  <2> QED
    BY <1>3, <2>2, <2>3, <2>4
<1>6. e.proof = "bounded" => lower # {}
  BY <1>3
<1>7. route # {} => Lengths(route) = best
  BY <1>1
<1> HIDE DEF u
<1>8. Decodes(u)
  BY <1>2, <1>3, <1>4, <1>5, <1>6, <1>7 DEF Decodes
<1>9. AgreesBy(u, best)
  BY <1>3, <1>4, <1>5 DEF AgreesBy
<1>10. \A r \in u.route : Len(j.prefix) + Len(r) <= MaxRoute /\ Solves(j.board, j.prefix \o r)
  BY <1>2, <1>4
<1>11. e.proof = "optimal" => best = Shortest(j)
  BY <1>1, OptimalEnds
<1>12. Founded(j.board, j.prefix, u)
  BY <1>4, <1>11 DEF Founded, Posed, Shortest
<1>13. Passes(j.board, j.prefix, u, best)
  BY <1>8, <1>9, <1>10, <1>12 DEF Passes
<1> QED
  BY <1>1, <1>13 DEF u

(* So does what it reports while it runs.                                  *)
LEMMA ReportPasses ==
  ASSUME NEW j, Posed(j), NEW lens, Works(j, lens), j.pc = "search",
         NEW lower, \A b \in Lengths(j.best), l \in lower : l <= b, lower \subseteq Nat,
         NEW brings \in Sampled(j)
  PROVE  LET route == IF brings THEN j.best ELSE {}
             u     == Update("progress", "running", Lengths(j.best), lower, "none", route)
             on    == IF brings THEN Lengths(j.best) ELSE j.sent
         IN  /\ After(u, j.sent) = on
             /\ Passes(j.board, j.prefix, u, on)
             /\ on \subseteq Nat /\ (j.best = {} => on = {})
             /\ \A s \in on, b \in j.best : Len(b) <= s
<1> DEFINE u == Update("progress", "running", Lengths(j.best), lower, "none",
                       IF brings THEN j.best ELSE {})
<1>1. PICK best, route, on :
        /\ best = Lengths(j.best) /\ route = (IF brings THEN j.best ELSE {})
        /\ on = IF brings THEN best ELSE j.sent
  OBVIOUS
<1>2. brings \in BOOLEAN /\ (brings => j.best # {} /\ Fits(j))
  BY DEF Sampled
<1>3. /\ j.best = {} \/ \E r \in j.ways : j.best = {r}
      /\ j.best = {} => j.sent = {}
      /\ j.sent \subseteq Nat /\ \A s \in j.sent, b \in j.best : Len(b) <= s
  BY DEF Works
<1>4. /\ best \subseteq Nat /\ (\A m, n \in best : m = n) /\ (best = {}) = (j.best = {})
      /\ Lengths({}) = {}
      /\ Fits(j) => \A r \in j.best : /\ Len(j.prefix) + Len(r) <= MaxRoute
                                      /\ Solves(j.board, j.prefix \o r)
  BY <1>1, <1>3, BestFacts
<1>5. /\ u.type = "progress" /\ u.status = "running" /\ u.best = best /\ u.lower = lower
      /\ u.proof = "none" /\ u.route = route
  BY <1>1 DEF Update
<1> HIDE DEF u
<1>6. After(u, j.sent) = on
  BY <1>1, <1>2, <1>5 DEF After
<1>7. \A b \in j.best : Len(b) \in best
  BY <1>1 DEF Lengths
<1>8. \A s \in on, b \in j.best : Len(b) <= s
  BY <1>1, <1>3, <1>4, <1>7
<1>9. on \subseteq Nat /\ (j.best = {} => on = {})
  BY <1>1, <1>2, <1>3, <1>4
<1>10. \A n \in on, l \in lower : l <= n
  <2> SUFFICES ASSUME NEW n \in on, NEW l \in lower PROVE l <= n
    OBVIOUS
  <2>1. j.best # {}
    BY <1>9
  <2>2. PICK b \in j.best : TRUE
    BY <2>1
  <2>3. PICK m \in Nat : m = Len(b) /\ m <= n /\ l <= m
    BY <1>1, <1>4, <1>7, <1>8
  <2> QED
    BY <1>9, <2>3
<1>11. Decodes(u)
  BY <1>1, <1>2, <1>4, <1>5 DEF Decodes
<1>12. AgreesBy(u, on)
  BY <1>5, <1>10 DEF AgreesBy
<1>13. \A r \in u.route : Len(j.prefix) + Len(r) <= MaxRoute /\ Solves(j.board, j.prefix \o r)
  BY <1>1, <1>2, <1>4, <1>5
<1>14. Founded(j.board, j.prefix, u)
  BY <1>1, <1>3, <1>5 DEF Founded, Posed
<1>15. Passes(j.board, j.prefix, u, on)
  BY <1>11, <1>12, <1>13, <1>14 DEF Passes
<1> QED
  BY <1>1, <1>6, <1>8, <1>9, <1>15 DEF u
-----------------------------------------------------------------------------
(* What the steps make of the searches asked.                              *)

(* The same searches, none of them better founded than it was.             *)
Onward(all) ==
  /\ all = [i \in DOMAIN jobs |-> all[i]]
  /\ \A i \in DOMAIN jobs :
       /\ IsJob(all[i]) /\ Posed(all[i]) /\ all[i].prefix = jobs[i].prefix
       /\ all[i].board = jobs[i].board /\ all[i].engine = jobs[i].engine
       /\ all[i].honest => jobs[i].honest

Jobs == JobsTyped /\ \A i \in DOMAIN jobs : IsJob(jobs[i]) /\ Posed(jobs[i])

LEMMA SameOnward == ASSUME Jobs PROVE Onward(jobs)
  BY DEF Jobs, JobsTyped, Onward

LEMMA OnwardJobs == ASSUME Jobs, Onward(jobs') PROVE Jobs'
<1>1. PICK n \in Nat : jobs = [i \in 1 .. n |-> jobs[i]]
  BY DEF Jobs, JobsTyped
<1>2. DOMAIN jobs = 1 .. n /\ DOMAIN jobs' = DOMAIN jobs
  BY <1>1 DEF Onward
<1>3. \A i \in DOMAIN jobs : "board" \in DOMAIN jobs'[i]
  BY DEF Onward, IsJob
<1> QED
  BY <1>2, <1>3 DEF Onward, Jobs, JobsTyped

(* One search goes on to k.                                                *)
LEMMA OneOnward ==
  ASSUME Jobs, NEW id \in DOMAIN jobs, NEW k, IsJob(k), Posed(k),
         k.prefix = jobs[id].prefix, k.board = jobs[id].board, k.engine = jobs[id].engine,
         k.honest => jobs[id].honest
  PROVE  LET all == [jobs EXCEPT ![id] = k]
         IN  /\ Onward(all) /\ all[id] = k
             /\ \A i \in DOMAIN jobs : i # id => all[i] = jobs[i]
<1>1. Onward(jobs)
  BY SameOnward
<1>2. PICK all : all = [jobs EXCEPT ![id] = k]
  OBVIOUS
<1>3. /\ all = [i \in DOMAIN jobs |-> all[i]] /\ all[id] = k
      /\ \A i \in DOMAIN jobs : i # id => all[i] = jobs[i]
  BY <1>2
<1>4. Onward(all)
  BY <1>1, <1>3, Zenon DEF Onward
<1> QED
  BY <1>2, <1>3, <1>4

(* Release wipes a worker's search or leaves it.                           *)
LEMMA LeftOnward ==
  ASSUME NEW all, Onward(all), NEW holds
  PROVE  /\ Onward(Left(all, holds))
         /\ \A i \in DOMAIN jobs :
              \/ Left(all, holds)[i] = all[i]
              \/ \A lens : Works(Left(all, holds)[i], lens)
<1>1. DOMAIN all = DOMAIN jobs
  BY DEF Onward
<1>2. PICK left : left = Left(all, holds)
  OBVIOUS
<1>3. /\ left = [i \in DOMAIN jobs |-> left[i]]
      /\ \A i \in DOMAIN jobs :
           \/ left[i] = all[i]
           \/ left[i] = [all[i] EXCEPT !.pc = "ended", !.told = FALSE, !.best = {},
                                       !.sent = {}, !.mail = << >>]
  BY <1>1, <1>2 DEF Left
<1>4. ASSUME NEW i \in DOMAIN jobs,
             left[i] = [all[i] EXCEPT !.pc = "ended", !.told = FALSE, !.best = {},
                                      !.sent = {}, !.mail = << >>]
      PROVE  /\ IsJob(left[i]) /\ Posed(left[i]) /\ left[i].prefix = all[i].prefix
             /\ left[i].board = all[i].board /\ left[i].engine = all[i].engine
             /\ (left[i].honest => all[i].honest)
             /\ \A lens : Works(left[i], lens)
  <2>1. IsJob(all[i]) /\ Posed(all[i])
    BY DEF Onward
  <2>2. /\ IsJob(left[i]) /\ left[i].prefix = all[i].prefix /\ left[i].board = all[i].board
        /\ left[i].ways = all[i].ways /\ left[i].honest = all[i].honest
        /\ left[i].engine = all[i].engine
        /\ left[i].mail = << >> /\ left[i].pc = "ended" /\ left[i].best = {}
        /\ left[i].sent = {}
    BY <1>4, <2>1 DEF IsJob
  <2>3. Posed(left[i])
    BY <2>1, <2>2 DEF Posed
  <2>4. \A lens : Works(left[i], lens)
    BY <2>2, QuietWorks
  <2> QED
    BY <2>2, <2>3, <2>4
<1>5. Onward(left)
  BY <1>3, <1>4, Zenon DEF Onward
<1>6. \A i \in DOMAIN jobs : left[i] = all[i] \/ \A lens : Works(left[i], lens)
  BY <1>3, <1>4
<1> QED
  BY <1>2, <1>5, <1>6

-----------------------------------------------------------------------------
(* The engine's steps.                                                     *)

(* One search goes on to k, which is sound if it still counts as such.     *)
Next1(id, lens) ==
  \E k : /\ jobs' = [jobs EXCEPT ![id] = k]
         /\ IsJob(k) /\ Posed(k) /\ k.prefix = jobs[id].prefix /\ k.board = jobs[id].board
         /\ k.engine = jobs[id].engine /\ (k.honest => jobs[id].honest)
         /\ k.honest /\ Works(jobs[id], lens) => Works(k, lens)
(* The search after it posts u and comes to pc, having last sent a route   *)
(* of these lengths.                                                       *)
Posting(j, u, pc, sent) == [j EXCEPT !.mail = Append(@, u), !.pc = pc, !.sent = sent]

LEMMA PostedJob ==
  ASSUME NEW j, IsJob(j), Posed(j), NEW u, NEW pc, NEW sent
  PROVE  LET k == Posting(j, u, pc, sent)
         IN  /\ IsJob(k) /\ Posed(k) /\ k.board = j.board /\ k.prefix = j.prefix
             /\ k.ways = j.ways /\ k.best = j.best /\ k.mail = Append(j.mail, u)
             /\ k.pc = pc /\ k.sent = sent /\ k.honest = j.honest /\ k.engine = j.engine
<1>1. PICK k : k = Posting(j, u, pc, sent)
  OBVIOUS
<1>2. /\ IsJob(k) /\ k.board = j.board /\ k.prefix = j.prefix
      /\ k.ways = j.ways /\ k.best = j.best /\ k.mail = Append(j.mail, u)
      /\ k.pc = pc /\ k.sent = sent /\ k.honest = j.honest /\ k.engine = j.engine
  BY <1>1 DEF IsJob, Posting
<1>3. Posed(k)
  BY <1>2 DEF Posed
<1> QED
  BY <1>1, <1>2, <1>3

LEMMA PostFacts ==
  ASSUME Jobs, NEW id \in Ids, NEW u
  PROVE  /\ \A pc, sent : [Post(id, u) EXCEPT ![id].pc = pc] =
                            [jobs EXCEPT ![id] = Posting(jobs[id], u, pc, jobs[id].sent)]
         /\ \A sent : [Post(id, u) EXCEPT ![id].sent = sent] =
                        [jobs EXCEPT ![id] = Posting(jobs[id], u, jobs[id].pc, sent)]
<1>1. PICK j, p : j = jobs[id] /\ p = Post(id, u)
  OBVIOUS
<1>2. jobs = [i \in DOMAIN jobs |-> jobs[i]] /\ IsJob(j)
  BY <1>1 DEF Jobs, JobsTyped, Ids
<1>3. /\ p = [i \in DOMAIN jobs |-> p[i]] /\ p[id] = [j EXCEPT !.mail = Append(@, u)]
      /\ \A i \in DOMAIN jobs : i # id => p[i] = jobs[i]
  BY <1>1, <1>2 DEF Post, Ids
<1>4. ASSUME NEW pc
      PROVE  [p EXCEPT ![id].pc = pc] = [jobs EXCEPT ![id] = Posting(j, u, pc, j.sent)]
  <2>1. [p[id] EXCEPT !.pc = pc] = Posting(j, u, pc, j.sent)
    BY <1>2, <1>3 DEF Posting, IsJob
  <2> QED
    BY <1>2, <1>3, <2>1 DEF Ids
<1>5. ASSUME NEW sent
      PROVE  [p EXCEPT ![id].sent = sent] = [jobs EXCEPT ![id] = Posting(j, u, j.pc, sent)]
  <2>1. [p[id] EXCEPT !.sent = sent] = Posting(j, u, j.pc, sent)
    BY <1>2, <1>3 DEF Posting, IsJob
  <2> QED
    BY <1>2, <1>3, <2>1 DEF Ids
<1> QED
  BY <1>1, <1>4, <1>5, Zenon

(* What a search posts passes, if it is sound.                             *)
Postable(j, lens, u, pc, sent) ==
  /\ j.pc \in {"asked", "search"} /\ pc # "asked"
  /\ pc # "search" => sent = j.sent
  /\ pc \in {"answered", "body"} => j.engine # "browser"
  /\ Works(j, lens) =>
       \E last : /\ last = IF j.pc = "search" THEN j.sent ELSE {}
                 /\ Passes(j.board, j.prefix, u, After(u, last))
                 /\ pc = "search" => sent = After(u, last)
                 /\ sent \subseteq Nat /\ (j.best = {} => sent = {})
                 /\ \A s \in sent, b \in j.best : Len(b) <= s

LEMMA PostNext1 ==
  ASSUME Jobs, NEW id \in Ids, NEW lens, NEW u, NEW pc, NEW sent,
         Postable(jobs[id], lens, u, pc, sent),
         jobs' = [jobs EXCEPT ![id] = Posting(jobs[id], u, pc, sent)]
  PROVE  Next1(id, lens)
<1>1. PICK j, k : j = jobs[id] /\ k = Posting(j, u, pc, sent)
  OBVIOUS
<1>2. IsJob(j) /\ Posed(j)
  BY <1>1 DEF Jobs, Ids
<1>3. /\ IsJob(k) /\ Posed(k) /\ k.board = j.board /\ k.prefix = j.prefix
      /\ k.ways = j.ways /\ k.best = j.best /\ k.mail = Append(j.mail, u)
      /\ k.pc = pc /\ k.sent = sent /\ k.honest = j.honest /\ k.engine = j.engine
  BY <1>1, <1>2, PostedJob
<1>4. ASSUME Works(j, lens) PROVE Works(k, lens)
  <2>0. Postable(j, lens, u, pc, sent)
    BY <1>1
  <2>1. PICK last : /\ last = IF j.pc = "search" THEN j.sent ELSE {}
                    /\ Passes(j.board, j.prefix, u, After(u, last))
                    /\ pc = "search" => sent = After(u, last)
                    /\ sent \subseteq Nat /\ (j.best = {} => sent = {})
                    /\ \A s \in sent, b \in j.best : Len(b) <= s
    BY <1>4, <2>0 DEF Postable
  <2>2. /\ k.pc = "search" => k.sent = After(u, last)
        /\ k.sent \subseteq Nat /\ (k.best = {} => k.sent = {})
        /\ \A s \in k.sent, b \in k.best : Len(b) <= s
    BY <1>3, <2>1
  <2>3. /\ j.pc \in {"asked", "search"} /\ k.pc # "asked"
        /\ k.pc \in {"answered", "body"} => k.engine # "browser"
    BY <1>3, <2>0 DEF Postable
  <2> QED
    BY <1>3, <1>4, <2>1, <2>2, <2>3, PostWorks
<1> QED
  BY <1>1, <1>3, <1>4, Zenon DEF Next1

(* A failure always passes.                                                *)
LEMMA FailurePasses ==
  ASSUME NEW on, NEW prefix, NEW lens
  PROVE  Passes(on, prefix, Failure, lens) /\ After(Failure, lens) = lens
  BY DEF Passes, After, Failure

LEMMA FailNext1 ==
  ASSUME Jobs, NEW id \in Ids, NEW lens, NEW pc \in {"ended", "answered"},
         jobs[id].pc \in {"asked", "search"}, pc = "answered" => jobs[id].engine # "browser",
         jobs' = [Post(id, Failure) EXCEPT ![id].pc = pc]
  PROVE  Next1(id, lens)
<1>1. PICK j, sent, last :
        j = jobs[id] /\ sent = j.sent /\ last = IF j.pc = "search" THEN j.sent ELSE {}
  OBVIOUS
<1>2. jobs' = [jobs EXCEPT ![id] = Posting(j, Failure, pc, sent)]
  BY <1>1, PostFacts
<1>3. Passes(j.board, j.prefix, Failure, After(Failure, last))
  BY FailurePasses
<1>4. Postable(j, lens, Failure, pc, sent)
  BY <1>1, <1>3 DEF Postable, Works
<1> QED
  BY <1>1, <1>2, <1>4, PostNext1

LEMMA StartNext1 ==
  ASSUME Jobs, NEW id \in Ids, NEW lens, WorkerStart(id)
  PROVE  Next1(id, lens)
<1>1. CASE jobs' = [Post(id, Failure) EXCEPT ![id].pc = "ended"]
  BY <1>1, FailNext1 DEF WorkerStart
<1>2. CASE jobs' = [jobs EXCEPT ![id].pc = "search"]
  <2>1. PICK j, k : j = jobs[id] /\ k = [j EXCEPT !.pc = "search"]
    OBVIOUS
  <2>2. IsJob(j) /\ Posed(j) /\ j.pc = "asked"
    BY <2>1 DEF Jobs, Ids, WorkerStart
  <2>3. /\ IsJob(k) /\ k.board = j.board /\ k.prefix = j.prefix /\ k.ways = j.ways
        /\ k.best = j.best /\ k.mail = j.mail /\ k.pc = "search" /\ k.sent = j.sent
        /\ k.honest = j.honest /\ k.engine = j.engine
    BY <2>1, <2>2 DEF IsJob
  <2>4. Posed(k)
    BY <2>2, <2>3 DEF Posed
  <2>5. ASSUME Works(j, lens) PROVE Works(k, lens)
    <3>1. lens = {} /\ j.mail = << >> /\ j.sent = {} /\ j.best = {}
      BY <2>2, <2>5 DEF Works
    <3>2. IsMail(k.mail) /\ Heard(k.board, k.prefix, k.mail, lens, lens)
      BY <2>3, <3>1, NoMail
    <3> QED
      BY <2>3, <3>1, <3>2 DEF Works
  <2> QED
    BY <1>2, <2>1, <2>3, <2>4, <2>5, Zenon DEF Next1
<1> QED
  BY <1>1, <1>2 DEF WorkerStart

LEMMA FindNext1 ==
  ASSUME Jobs, NEW id \in Ids, NEW lens, WorkerFind(id)
  PROVE  Next1(id, lens)
<1>1. PICK j : j = jobs[id]
  OBVIOUS
<1>2. PICK r \in j.ways : /\ \A b \in j.best : Len(r) < Len(b)
                          /\ jobs' = [jobs EXCEPT ![id].best = {r}]
  BY <1>1 DEF WorkerFind
<1>3. PICK k : k = [j EXCEPT !.best = {r}]
  OBVIOUS
<1>4. IsJob(j) /\ Posed(j) /\ j.pc = "search"
  BY <1>1 DEF Jobs, Ids, WorkerFind
<1>5. /\ IsJob(k) /\ k.board = j.board /\ k.prefix = j.prefix /\ k.ways = j.ways
      /\ k.best = {r} /\ k.mail = j.mail /\ k.pc = "search" /\ k.sent = j.sent
      /\ k.honest = j.honest /\ k.engine = j.engine
  BY <1>3, <1>4 DEF IsJob
<1>6. Posed(k)
  BY <1>4, <1>5 DEF Posed
<1>7. ASSUME Works(j, lens) PROVE Works(k, lens)
  <2>1. /\ j.best = {} \/ \E b \in j.ways : j.best = {b}
        /\ j.best = {} => j.sent = {}
        /\ j.sent \subseteq Nat /\ \A s \in j.sent, b \in j.best : Len(b) <= s
        /\ IsMail(j.mail)
        /\ \E last : Heard(j.board, j.prefix, j.mail, lens, last) /\ last = j.sent
    BY <1>4, <1>7 DEF Works
  <2>2. \A s \in j.sent : Len(r) <= s
    <3> SUFFICES ASSUME NEW s \in j.sent PROVE Len(r) <= s
      OBVIOUS
    <3>1. PICK b \in j.ways : b \in j.best
      BY <2>1
    <3>2. PICK m \in Nat, n \in Nat : m = Len(r) /\ n = Len(b)
      BY <1>4, RoutesPosed
    <3>3. m < n /\ n <= s /\ s \in Nat
      BY <1>2, <2>1, <3>1, <3>2
    <3> QED
      BY <3>2, <3>3
  <2> QED
    BY <1>5, <2>1, <2>2, Zenon DEF Works
<1> QED
  BY <1>1, <1>2, <1>3, <1>5, <1>6, <1>7, Zenon DEF Next1
LEMMA ReportNext1 ==
  ASSUME Jobs, NEW id \in Ids, NEW lens, WorkerReport(id)
  PROVE  Next1(id, lens)
<1>1. PICK j : j = jobs[id]
  OBVIOUS
<1>2. IsJob(j) /\ Posed(j) /\ j.pc = "search"
  BY <1>1 DEF Jobs, Ids, WorkerReport
<1>3. PICK lower \in Lowers(j) :
        \E brings \in Sampled(j) :
          LET route == IF brings THEN j.best ELSE {} IN
          /\ \A b \in Lengths(j.best), l \in lower : l <= b
          /\ jobs' = [Post(id, Update("progress", "running", Lengths(j.best), lower,
                                      "none", route))
                      EXCEPT ![id].sent = IF brings THEN Lengths(j.best) ELSE @]
  BY <1>1 DEF WorkerReport
<1>4. PICK brings \in Sampled(j) :
          LET route == IF brings THEN j.best ELSE {} IN
          /\ \A b \in Lengths(j.best), l \in lower : l <= b
          /\ jobs' = [Post(id, Update("progress", "running", Lengths(j.best), lower,
                                      "none", route))
                      EXCEPT ![id].sent = IF brings THEN Lengths(j.best) ELSE @]
  BY <1>3
<1>5. PICK u, on :
        /\ u = Update("progress", "running", Lengths(j.best), lower, "none",
                      IF brings THEN j.best ELSE {})
        /\ on = IF brings THEN Lengths(j.best) ELSE j.sent
  OBVIOUS
<1>6. jobs' = [Post(id, u) EXCEPT ![id].sent = on]
  <2>1. Post(id, u)[id].sent = j.sent
    BY <1>1, <1>2 DEF Post, Ids, IsJob, Jobs, JobsTyped
  <2> QED
    BY <1>4, <1>5, <2>1
<1>7. jobs' = [jobs EXCEPT ![id] = Posting(j, u, j.pc, on)]
  <2>1. [Post(id, u) EXCEPT ![id].sent = on] =
          [jobs EXCEPT ![id] = Posting(jobs[id], u, jobs[id].pc, on)]
    BY PostFacts
  <2> QED
    BY <1>1, <1>6, <2>1
<1>8. lower \subseteq Nat
  <2>1. Lengths(j.ways) \subseteq Nat
    BY <1>2, RoutesPosed
  <2> QED
    BY <2>1 DEF Lowers, Shortest
<1>9. ASSUME Works(j, lens)
      PROVE  /\ After(u, j.sent) = on
             /\ Passes(j.board, j.prefix, u, on)
             /\ on \subseteq Nat /\ (j.best = {} => on = {})
             /\ \A s \in on, b \in j.best : Len(b) <= s
  BY <1>2, <1>4, <1>5, <1>8, <1>9, ReportPasses
<1>10. Postable(j, lens, u, j.pc, on)
  BY <1>2, <1>9 DEF Postable
<1> QED
  BY <1>1, <1>7, <1>10, PostNext1

LEMMA EndNext1 ==
  ASSUME Jobs, NEW id \in Ids, NEW lens, WorkerEnd(id)
  PROVE  Next1(id, lens)
<1>1. PICK j : j = jobs[id]
  OBVIOUS
<1>2. IsJob(j) /\ Posed(j) /\ j.pc = "search"
  BY <1>1 DEF Jobs, Ids, WorkerEnd
<1>3. PICK e \in Endings(j, Stops(j)) :
        jobs' = [Post(id, IF Fits(j)
                          THEN Update("done", e.status, Lengths(j.best), e.lower, e.proof,
                                      FinalRoute(j))
                          ELSE Failure)
                 EXCEPT ![id].pc = "ended"]
  BY <1>1 DEF WorkerEnd
<1>4. CASE ~Fits(j)
  <2>1. jobs' = [Post(id, Failure) EXCEPT ![id].pc = "ended"]
    BY <1>3, <1>4
  <2> QED
    BY <1>1, <1>2, <2>1, FailNext1
<1>5. CASE Fits(j)
  <2>1. PICK best, route, lower : best = Lengths(j.best) /\ route = FinalRoute(j)
                                  /\ lower = e.lower
    OBVIOUS
  <2>2. PICK u : u = Update("done", e.status, best, lower, e.proof, route)
    OBVIOUS
  <2>3. jobs' = [Post(id, u) EXCEPT ![id].pc = "ended"]
    BY <1>3, <1>5, <2>1, <2>2
  <2>4. jobs' = [jobs EXCEPT ![id] = Posting(j, u, "ended", j.sent)]
    BY <1>1, <2>3, PostFacts
  <2>5. ASSUME Works(j, lens)
        PROVE  Passes(j.board, j.prefix, u, After(u, j.sent))
    <3>1. /\ j.best = {} \/ \E r \in j.ways : j.best = {r}
          /\ j.best = {} => j.sent = {}
      BY <2>5 DEF Works
    <3>2. /\ Stops(j) \in SUBSET {"state_limit", "time_limit", "cancelled"}
          /\ route = j.best \/ route = {}
      BY <2>1 DEF Stops, FinalRoute
    <3>3. Passes(j.board, j.prefix, u, best)
      BY <1>2, <1>3, <1>5, <2>1, <2>2, <3>1, <3>2, EndPasses
    <3>4. Lengths({}) = {}
      BY DEF Lengths
    <3>5. u.type = "done" /\ u.route = route
      BY <2>2 DEF Update
    <3>6. After(u, j.sent) = best
      BY <2>1, <3>1, <3>4, <3>5 DEF After, FinalRoute
    <3> QED
      BY <3>3, <3>6
  <2>6. Postable(j, lens, u, "ended", j.sent)
    BY <1>2, <2>5 DEF Postable, Works
  <2> QED
    BY <1>1, <2>4, <2>6, PostNext1
<1> QED
  BY <1>4, <1>5

LEMMA AnswerNext1 ==
  ASSUME Jobs, NEW id \in Ids, NEW lens, Answer(id), jobs[id].engine # "browser"
  PROVE  Next1(id, lens)
<1>1. PICK j : j = jobs[id]
  OBVIOUS
<1>2. IsJob(j) /\ Posed(j) /\ j.pc = "asked"
  BY <1>1 DEF Jobs, Ids, Answer
<1>3. PICK best \in {{}} \cup {{r} : r \in j.ways} :
       LET job == [j EXCEPT !.best = best] IN
       \E u \in {Failure}
                \cup {Update("done", e.status, Lengths(best),
                             IF e.proof \in {"optimal", "bounded"} THEN e.lower ELSE {},
                             e.proof, best) :
                        e \in IF Fits(job) THEN Endings(job, Stops(job)) ELSE {}} :
         jobs' = [Post(id, u) EXCEPT ![id].pc = "answered"]
  BY <1>1 DEF Answer
<1>4. PICK job : job = [j EXCEPT !.best = best]
  OBVIOUS
<1>5. CASE jobs' = [Post(id, Failure) EXCEPT ![id].pc = "answered"]
  BY <1>1, <1>2, <1>5, FailNext1
<1>6. ASSUME Fits(job), NEW e \in Endings(job, Stops(job)), NEW lower,
             lower = IF e.proof \in {"optimal", "bounded"} THEN e.lower ELSE {},
             NEW u, u = Update("done", e.status, Lengths(best), lower, e.proof, best),
             jobs' = [Post(id, u) EXCEPT ![id].pc = "answered"]
      PROVE  Next1(id, lens)
  <2>1. jobs' = [jobs EXCEPT ![id] = Posting(j, u, "answered", j.sent)]
    BY <1>1, <1>6, PostFacts
  <2>2. /\ job.board = j.board /\ job.prefix = j.prefix /\ job.ways = j.ways
        /\ job.best = best /\ job.told = j.told
    BY <1>2, <1>4 DEF IsJob
  <2>3. Posed(job) /\ (best = {} \/ \E r \in j.ways : best = {r})
    BY <1>2, <2>2 DEF Posed
  <2>4. Stops(job) \in SUBSET {"state_limit", "time_limit", "cancelled"}
    BY DEF Stops
  <2>5. PICK lens2 : lens2 = Lengths(best)
    OBVIOUS
  <2>6. Passes(j.board, j.prefix, u, lens2)
    BY <1>6, <2>2, <2>3, <2>4, <2>5, EndPasses
  <2>7. u.type = "done" /\ u.route = best
    BY <1>6 DEF Update
  <2>8. After(u, {}) = lens2
    BY <2>5, <2>7 DEF After, Lengths
  <2>9. Postable(j, lens, u, "answered", j.sent)
    BY <1>1, <1>2, <2>6, <2>8 DEF Postable, Works
  <2> QED
    BY <1>1, <2>1, <2>9, PostNext1
<1> QED
  <2>1. PICK u \in {Failure}
                   \cup {Update("done", e.status, Lengths(best),
                                IF e.proof \in {"optimal", "bounded"} THEN e.lower ELSE {},
                                e.proof, best) :
                           e \in IF Fits(job) THEN Endings(job, Stops(job)) ELSE {}} :
          jobs' = [Post(id, u) EXCEPT ![id].pc = "answered"]
    BY <1>3, <1>4
  <2>2. CASE u = Failure
    BY <1>5, <2>1, <2>2
  <2>3. CASE u # Failure
    <3>1. Fits(job)
      BY <2>1, <2>3
    <3>2. PICK e \in Endings(job, Stops(job)) :
            u = Update("done", e.status, Lengths(best),
                       IF e.proof \in {"optimal", "bounded"} THEN e.lower ELSE {},
                       e.proof, best)
      BY <2>1, <2>3, <3>1
    <3> QED
      BY <1>6, <2>1, <3>1, <3>2
  <2> QED
    BY <2>2, <2>3

(* Misreplies are no longer sound, and responding posts nothing.           *)
LEMMA OtherNext1 ==
  ASSUME Jobs, NEW id \in Ids, NEW lens, Misreply(id) \/ Respond(id)
  PROVE  Next1(id, lens)
<1>1. PICK j : j = jobs[id]
  OBVIOUS
<1>2. IsJob(j) /\ Posed(j) /\ jobs = [i \in DOMAIN jobs |-> jobs[i]]
  BY <1>1 DEF Jobs, JobsTyped, Ids
<1>3. CASE Misreply(id)
  <2>1. PICK u, pc : \/ jobs' = [Post(id, u) EXCEPT ![id].honest = FALSE]
                     \/ jobs' = [Post(id, u) EXCEPT ![id].pc = pc, ![id].honest = FALSE]
    BY <1>3 DEF Misreply
  <2>2. PICK k : /\ jobs' = [jobs EXCEPT ![id] = k]
                 /\ \/ k = [j EXCEPT !.mail = Append(@, u), !.honest = FALSE]
                    \/ k = [j EXCEPT !.mail = Append(@, u), !.pc = pc, !.honest = FALSE]
    BY <1>1, <1>2, <2>1 DEF Post, Ids
  <2>3. /\ IsJob(k) /\ k.board = j.board /\ k.prefix = j.prefix /\ k.ways = j.ways
        /\ k.honest = FALSE /\ k.engine = j.engine
    BY <1>2, <2>2 DEF IsJob
  <2>4. Posed(k)
    BY <1>2, <2>3 DEF Posed
  <2> QED
    BY <1>1, <2>2, <2>3, <2>4, Zenon DEF Next1
<1>4. CASE Respond(id)
  <2>1. PICK pc \in {"body", "ended"} : jobs' = [jobs EXCEPT ![id].pc = pc]
    BY <1>4 DEF Respond
  <2>0. j.pc = "answered"
    BY <1>1, <1>4 DEF Respond
  <2>2. PICK k : k = [j EXCEPT !.pc = pc]
    OBVIOUS
  <2>3. /\ IsJob(k) /\ k.board = j.board /\ k.prefix = j.prefix /\ k.ways = j.ways
        /\ k.best = j.best /\ k.sent = j.sent /\ k.mail = j.mail /\ k.pc = pc
        /\ k.honest = j.honest /\ k.engine = j.engine
    BY <1>2, <2>2 DEF IsJob
  <2>4. Posed(k)
    BY <1>2, <2>3 DEF Posed
  <2>5. Works(j, lens) => Works(k, lens)
    BY <2>0, <2>3 DEF Works
  <2>6. jobs' = [jobs EXCEPT ![id] = k]
    BY <1>1, <2>1, <2>2
  <2> QED
    BY <1>1, <2>3, <2>4, <2>5, <2>6, Zenon DEF Next1
<1> QED
  BY <1>3, <1>4

LEMMA EngineNext1 ==
  ASSUME Jobs, NEW id \in Ids, Engine(id) \/ Respond(id), NEW lens,
         Answer(id) => jobs[id].engine # "browser"
  PROVE  Next1(id, lens)
  BY StartNext1, FindNext1, ReportNext1, EndNext1, AnswerNext1, OtherNext1 DEF Engine
-----------------------------------------------------------------------------
(* The client's steps.                                                     *)

(* The running search has a worker or a fetch as its engine needs, and is  *)
(* heard with the prefix it was asked with; if it is sound, what it sends  *)
(* will pass.                                                              *)
Hearing ==
  Busy =>
    /\ state.prefix = jobs[state.id].prefix
    /\ \A h \in held : /\ h.what = "worker" => jobs[state.id].engine = "browser"
                       /\ h.what = "fetch" => jobs[state.id].engine # "browser"
    /\ jobs[state.id].honest => Works(jobs[state.id], Lengths(state.route))

HonestInv == RouteInv /\ Jobs /\ tried \subseteq DOMAIN jobs /\ HonestTaken /\ Hearing

(* The checks look at no more of a route than its length.                  *)
LEMMA AgreesLengths ==
  ASSUME NEW u, NEW route, AgreesBy(u, Lengths(route))
  PROVE  Agrees(u, route)
<1>1. (Lengths(route) = {}) = (route = {}) /\ \A r \in route : Len(r) \in Lengths(route)
  BY DEF Lengths
<1>2. PICK lens : lens = Lengths(route)
  OBVIOUS
<1> QED
  BY <1>1, <1>2 DEF AgreesBy, Agrees

(* A reply that passes is taken.                                           *)
LEMMA PassTaken ==
  ASSUME Shaped, NEW id, NEW u, NEW on, Receive(id, u, on), Active(id),
         Passes(on, state.prefix, u, After(u, Lengths(state.route)))
  PROVE  /\ tried' = tried
         /\ Busy' => /\ state'.id = state.id /\ state'.prefix = state.prefix
                     /\ Lengths(state'.route) = After(u, Lengths(state.route))
<1>1. ~Ignores(id)
  BY DEF Ignores
<1>2. CASE u.type = "error"
  BY <1>1, <1>2 DEF Receive, Completed, Busy
<1>3. CASE u.type # "error"
  <2>1. /\ Decodes(u) /\ Verifies(u, on)
        /\ AgreesBy(u, After(u, Lengths(state.route)))
    BY <1>3 DEF Passes, Verifies
  <2>2. PICK route : route = RouteAfter(u)
    OBVIOUS
  <2>3. Lengths(route) = After(u, Lengths(state.route))
    BY <1>3, <2>2 DEF RouteAfter, After
  <2>4. Agrees(u, route)
    BY <2>1, <2>3, AgreesLengths
  <2>5. /\ tried' = tried
        /\ \/ Completed(state.id, route)
           \/ state' = [state EXCEPT !.route = route]
    BY <1>1, <1>3, <2>1, <2>2, <2>4 DEF Receive
  <2>6. CASE Completed(state.id, route)
    BY <2>5, <2>6 DEF Completed, Busy
  <2>7. CASE state' = [state EXCEPT !.route = route]
    <3>1. state'.id = state.id /\ state'.prefix = state.prefix /\ state'.route = route
      BY <2>7 DEF Shaped
    <3> QED
      BY <2>3, <2>5, <3>1
  <2> QED
    BY <2>5, <2>6, <2>7
<1> QED
  BY <1>2, <1>3

(* Whatever a reply is, it counts against its own search at most.          *)
LEMMA ReceiveTried ==
  ASSUME Shaped, NEW id, NEW u, NEW on, Receive(id, u, on)
  PROVE  /\ tried' \subseteq tried \cup {id} /\ held' \subseteq held
         /\ ~Active(id) => state' = state /\ tried' = tried
         /\ Busy' => Busy /\ state'.id = state.id /\ state'.prefix = state.prefix
<1>1. CASE Ignores(id)
  BY <1>1 DEF Receive, Ignores, Busy
<1>2. CASE ~Ignores(id)
  <2>0. held' \subseteq held
    BY <1>2 DEF Receive, Completed, Released
  <2>1. Active(id) /\ Busy
    BY <1>2 DEF Ignores, Active
  <2>2. /\ tried' = tried \/ tried' = tried \cup {id}
        /\ \E route : \/ Completed(state.id, route)
                      \/ state' = [state EXCEPT !.route = route]
    BY <1>2 DEF Receive
  <2>3. PICK route : \/ Completed(state.id, route)
                     \/ state' = [state EXCEPT !.route = route]
    BY <2>2
  <2>4. CASE Completed(state.id, route)
    BY <2>0, <2>1, <2>2, <2>4 DEF Completed, Busy
  <2>5. CASE state' = [state EXCEPT !.route = route]
    BY <2>0, <2>1, <2>2, <2>5 DEF Shaped
  <2> QED
    BY <2>3, <2>4, <2>5
<1> QED
  BY <1>1, <1>2

(* What a step owes the invariant when it starts no search.                *)
LEMMA HonestOnward ==
  ASSUME HonestInv, RouteInv', NEW all, jobs' = all, Onward(all),
         \A i \in tried' : i \in tried \/ (i \in DOMAIN jobs /\ ~jobs[i].honest),
         \A h \in held' : h \in held \/ h.what = "grace",
         Busy' => /\ Busy /\ state'.id = state.id /\ state'.prefix = state.prefix
                  /\ all[state.id].honest => Works(all[state.id], Lengths(state'.route))
  PROVE  HonestInv'
<1>1. Onward(jobs') /\ Jobs
  BY DEF HonestInv
<1>2. Jobs'
  BY <1>1, OnwardJobs
<1>3. DOMAIN jobs' = DOMAIN jobs
  BY <1>1 DEF Onward
<1>4. tried' \subseteq DOMAIN jobs'
  BY <1>3 DEF HonestInv
<1>5. \A i \in DOMAIN jobs : /\ jobs'[i].honest => jobs[i].honest
                             /\ jobs'[i].prefix = jobs[i].prefix
                             /\ jobs'[i].engine = jobs[i].engine
  BY <1>1 DEF Onward
<1>6. HonestTaken'
  BY <1>3, <1>4, <1>5 DEF HonestInv, HonestTaken
<1>7. Hearing'
  <2>1. Busy => state.id \in DOMAIN jobs
    BY DEF HonestInv, RouteInv, Asked
  <2> QED
    BY <1>5, <2>1 DEF HonestInv, Hearing
<1> QED
  BY <1>2, <1>4, <1>6, <1>7 DEF HonestInv

LEMMA EngineHonest ==
  ASSUME HonestInv, RouteInv', NEW id \in Ids, Engine(id) \/ Respond(id)
  PROVE  HonestInv'
<1>1. state' = state /\ tried' = tried /\ held' = held
  BY DEF Engine, Respond, WorkerStart, WorkerFind, WorkerReport, WorkerEnd, Answer, Misreply
<1>2. PICK lens, s : lens = Lengths(state.route) /\ s = state.id
  OBVIOUS
<1>e. Answer(id) => jobs[id].engine # "browser"
  <2> SUFFICES ASSUME Answer(id) PROVE jobs[id].engine # "browser"
    OBVIOUS
  <2>1. [id |-> id, what |-> "fetch"] \in held
    BY DEF Answer
  <2>2. Busy /\ state.id = id
    BY <2>1 DEF HonestInv, RouteInv, ClientInv, NothingLeaks, Active
  <2> QED
    BY <2>1, <2>2 DEF HonestInv, Hearing
<1>3. Next1(id, lens)
  BY <1>e, EngineNext1 DEF HonestInv
<1>4. PICK k : /\ jobs' = [jobs EXCEPT ![id] = k]
               /\ IsJob(k) /\ Posed(k) /\ k.prefix = jobs[id].prefix /\ k.board = jobs[id].board
               /\ k.engine = jobs[id].engine /\ (k.honest => jobs[id].honest)
               /\ k.honest /\ Works(jobs[id], lens) => Works(k, lens)
  BY <1>3 DEF Next1
<1>5. PICK all : all = [jobs EXCEPT ![id] = k]
  OBVIOUS
<1>6. Onward(all) /\ all[id] = k /\ \A i \in DOMAIN jobs : i # id => all[i] = jobs[i]
  BY <1>4, <1>5, OneOnward DEF HonestInv, Ids
<1>7. Busy => s \in DOMAIN jobs /\ (jobs[s].honest => Works(jobs[s], lens))
  BY <1>2 DEF HonestInv, RouteInv, Asked, Hearing
<1>8. Busy => (all[s].honest => Works(all[s], lens))
  <2>1. CASE s = id
    BY <1>4, <1>6, <1>7, <2>1
  <2>2. CASE s # id
    BY <1>6, <1>7, <2>2
  <2> QED
    BY <2>1, <2>2
<1>9. Busy' = Busy /\ Lengths(state'.route) = lens
  BY <1>1, <1>2 DEF Busy
<1>10. (\A i \in tried' : i \in tried) /\ (\A h \in held' : h \in held)
  BY <1>1
<1>11. Busy' => /\ Busy /\ state'.id = state.id /\ state'.prefix = state.prefix
                /\ all[state.id].honest => Works(all[state.id], Lengths(state'.route))
  BY <1>1, <1>2, <1>8, <1>9
<1> QED
  BY <1>4, <1>5, <1>6, <1>10, <1>11, HonestOnward
(* One search goes on to k, and some are wiped.                            *)
LEMMA WipedOnward ==
  ASSUME Jobs, NEW id \in Ids, NEW k, IsJob(k), Posed(k), k.prefix = jobs[id].prefix,
         k.board = jobs[id].board, k.engine = jobs[id].engine,
         k.honest => jobs[id].honest, NEW holds, NEW all,
         all = Left([jobs EXCEPT ![id] = k], holds) \/ all = [jobs EXCEPT ![id] = k]
  PROVE  /\ Onward(all)
         /\ all[id] = k \/ \A lens : Works(all[id], lens)
         /\ \A i \in DOMAIN jobs : i # id => all[i] = jobs[i] \/ \A lens : Works(all[i], lens)
<1>1. PICK one : one = [jobs EXCEPT ![id] = k]
  OBVIOUS
<1>2. Onward(one) /\ one[id] = k /\ \A i \in DOMAIN jobs : i # id => one[i] = jobs[i]
  BY <1>1, OneOnward DEF Ids
<1>3. CASE all = one
  BY <1>2, <1>3
<1>4. CASE all = Left(one, holds)
  <2>1. /\ Onward(all)
        /\ \A i \in DOMAIN jobs : all[i] = one[i] \/ \A lens : Works(all[i], lens)
    BY <1>2, <1>4, LeftOnward
  <2> QED
    BY <1>2, <2>1 DEF Ids
<1> QED
  BY <1>1, <1>3, <1>4

(* A reply to search id, which thereby goes on to k.                       *)
LEMMA HeardHonest ==
  ASSUME HonestInv, RouteInv', NEW id \in Ids, NEW u, Receive(id, u, jobs[id].board),
         NEW k, IsJob(k), Posed(k), k.prefix = jobs[id].prefix, k.board = jobs[id].board,
         k.engine = jobs[id].engine, k.honest => jobs[id].honest, NEW all, NEW holds,
         all = Left([jobs EXCEPT ![id] = k], holds) \/ all = [jobs EXCEPT ![id] = k],
         jobs' = all,
         \A lens : Works(jobs[id], lens) =>
                     /\ Passes(jobs[id].board, jobs[id].prefix, u, After(u, lens))
                     /\ Works(k, After(u, lens))
  PROVE  HonestInv'
<1>1. /\ Onward(all)
      /\ all[id] = k \/ \A lens : Works(all[id], lens)
      /\ \A i \in DOMAIN jobs : i # id => all[i] = jobs[i] \/ \A lens : Works(all[i], lens)
  BY WipedOnward DEF HonestInv
<1>2. Shaped
  BY DEF HonestInv, RouteInv, ClientInv
<1>3. /\ tried' \subseteq tried \cup {id} /\ held' \subseteq held
      /\ ~Active(id) => state' = state /\ tried' = tried
      /\ Busy' => Busy /\ state'.id = state.id /\ state'.prefix = state.prefix
  BY <1>2, ReceiveTried
<1>4. PICK s, lens : s = state.id /\ lens = Lengths(state.route)
  OBVIOUS
<1>5. Busy => s \in DOMAIN jobs /\ state.prefix = jobs[s].prefix
                /\ (jobs[s].honest => Works(jobs[s], lens))
  BY <1>4 DEF HonestInv, RouteInv, Asked, Hearing
<1>6. CASE Active(id)
  <2>1. Busy /\ s = id
    BY <1>4, <1>6 DEF Active
  <2>2. ASSUME jobs[id].honest
        PROVE  /\ tried' = tried
               /\ Busy' => Lengths(state'.route) = After(u, lens) /\ Works(k, After(u, lens))
    <3>1. Works(jobs[id], lens) /\ state.prefix = jobs[id].prefix
      BY <1>5, <2>1, <2>2
    <3>2. Passes(jobs[id].board, state.prefix, u, After(u, Lengths(state.route)))
      BY <1>4, <3>1
    <3>3. /\ tried' = tried
          /\ Busy' => Lengths(state'.route) = After(u, Lengths(state.route))
      BY <1>2, <1>6, <3>2, PassTaken
    <3> QED
      BY <1>4, <3>1, <3>3
  <2>3. \A i \in tried' : i \in tried \/ (i \in DOMAIN jobs /\ ~jobs[i].honest)
    BY <1>3, <2>2 DEF Ids
  <2>4. ASSUME Busy', all[id].honest PROVE Works(all[id], Lengths(state'.route))
    <3>1. jobs[id].honest
      BY <1>1, <2>4 DEF Onward, Ids
    <3>2. PICK on : on = Lengths(state'.route)
      OBVIOUS
    <3>3. on = After(u, lens) /\ Works(k, on)
      BY <2>2, <2>4, <3>1, <3>2
    <3>4. Works(all[id], on)
      BY <1>1, <3>3
    <3> QED
      BY <3>2, <3>4
  <2>5. Busy' => /\ Busy /\ state'.id = state.id /\ state'.prefix = state.prefix
                 /\ all[state.id].honest => Works(all[state.id], Lengths(state'.route))
    BY <1>3, <1>4, <2>1, <2>4
  <2> QED
    BY <1>1, <1>3, <2>3, <2>5, HonestOnward
<1>7. CASE ~Active(id)
  <2>1. state' = state /\ tried' = tried /\ Lengths(state'.route) = lens
    BY <1>3, <1>4, <1>7
  <2>2. Busy => s # id
    BY <1>4, <1>7 DEF Active
  <2>3. Busy => (all[s].honest => Works(all[s], lens))
    BY <1>1, <1>5, <2>2
  <2>4. \A i \in tried' : i \in tried
    BY <2>1
  <2>5. Busy' => /\ Busy /\ state'.id = state.id /\ state'.prefix = state.prefix
                 /\ all[state.id].honest => Works(all[state.id], Lengths(state'.route))
    BY <1>3, <1>4, <2>1, <2>3
  <2> QED
    BY <1>1, <1>3, <2>4, <2>5, HonestOnward
<1> QED
  BY <1>6, <1>7

LEMMA DeliverHonest ==
  ASSUME HonestInv, RouteInv', NEW id \in Ids, Deliver(id, jobs[id].board)
  PROVE  HonestInv'
<1>1. PICK j, k : j = jobs[id] /\ k = [j EXCEPT !.mail = Tail(@)]
  OBVIOUS
<1>2. PICK u, holds : u = Head(j.mail) /\ holds = held'
  OBVIOUS
<1>3. IsJob(j) /\ Posed(j) /\ jobs = [i \in DOMAIN jobs |-> jobs[i]]
  BY <1>1 DEF HonestInv, Jobs, JobsTyped, Ids
<1>4. /\ IsJob(k) /\ k.board = j.board /\ k.prefix = j.prefix /\ k.ways = j.ways
      /\ k.best = j.best /\ k.sent = j.sent /\ k.mail = Tail(j.mail) /\ k.pc = j.pc
      /\ k.honest = j.honest /\ k.engine = j.engine
  BY <1>1, <1>3 DEF IsJob
<1>5. Posed(k)
  BY <1>3, <1>4 DEF Posed
<1>6. j.mail # << >> /\ Receive(id, u, jobs[id].board)
  BY <1>1, <1>2 DEF Deliver
<1>b. j.engine = "browser"
  <2>1. [id |-> id, what |-> "worker"] \in held
    BY DEF Deliver
  <2>2. Busy /\ state.id = id
    BY <2>1 DEF HonestInv, RouteInv, ClientInv, NothingLeaks, Active
  <2> QED
    BY <1>1, <2>1, <2>2 DEF HonestInv, Hearing
<1>7. PICK all : all = Left([jobs EXCEPT ![id] = k], holds)
  OBVIOUS
<1>8. jobs' = all
  BY <1>1, <1>2, <1>3, <1>7 DEF Deliver
<1>9. ASSUME NEW lens, Works(j, lens)
      PROVE  Passes(j.board, j.prefix, u, After(u, lens)) /\ Works(k, After(u, lens))
  <2>1. PICK last : /\ IsMail(j.mail) /\ Heard(j.board, j.prefix, j.mail, lens, last)
                    /\ j.pc = "search" => last = j.sent
    BY <1>9 DEF Works
  <2>2. /\ Passes(j.board, j.prefix, u, After(u, lens))
        /\ Heard(j.board, j.prefix, Tail(j.mail), After(u, lens), last)
    BY <1>2, <1>6, <2>1, HeardFirst
  <2>3. IsMail(Tail(j.mail))
    BY <1>6, <2>1, MailFacts
  <2>4. Works(k, After(u, lens))
    BY <1>4, <1>6, <1>9, <1>b, <2>1, <2>2, <2>3 DEF Works
  <2> QED
    BY <2>2, <2>4
<1> QED
  BY <1>1, <1>4, <1>5, <1>6, <1>7, <1>8, <1>9, HeardHonest
LEMMA ReadBodyHonest ==
  ASSUME HonestInv, RouteInv', NEW id \in Ids, ReadBody(id, jobs[id].board)
  PROVE  HonestInv'
<1>1. PICK j, k : j = jobs[id] /\ k = [j EXCEPT !.pc = "ended", !.mail = << >>]
  OBVIOUS
<1>2. PICK u, holds : u = Head(j.mail) /\ holds = held
  OBVIOUS
<1>3. IsJob(j) /\ Posed(j) /\ jobs = [i \in DOMAIN jobs |-> jobs[i]]
  BY <1>1 DEF HonestInv, Jobs, JobsTyped, Ids
<1>4. /\ IsJob(k) /\ k.board = j.board /\ k.prefix = j.prefix /\ k.ways = j.ways
      /\ k.best = j.best /\ k.sent = j.sent /\ k.mail = << >> /\ k.pc = "ended"
      /\ k.honest = j.honest /\ k.engine = j.engine
  BY <1>1, <1>3 DEF IsJob
<1>5. Posed(k)
  BY <1>3, <1>4 DEF Posed
<1>6. Receive(id, u, jobs[id].board) /\ j.pc = "body"
  BY <1>1, <1>2 DEF ReadBody
<1>7. PICK all : all = [jobs EXCEPT ![id] = k]
  OBVIOUS
<1>8. jobs' = all
  BY <1>1, <1>3, <1>7 DEF ReadBody, Ids
<1>9. ASSUME NEW lens, Works(j, lens)
      PROVE  Passes(j.board, j.prefix, u, After(u, lens)) /\ Works(k, After(u, lens))
  <2>1. PICK last : IsMail(j.mail) /\ Heard(j.board, j.prefix, j.mail, lens, last)
    BY <1>9 DEF Works
  <2>2. j.mail # << >>
    BY <1>6, <1>9 DEF Works
  <2>3. Passes(j.board, j.prefix, u, After(u, lens))
    BY <1>2, <2>1, <2>2, HeardFirst
  <2>4. PICK on : on = After(u, lens)
    OBVIOUS
  <2>5. IsMail(k.mail) /\ Heard(k.board, k.prefix, k.mail, on, on)
    BY <1>4, NoMail
  <2>6. Works(k, on)
    BY <1>4, <1>9, <2>5 DEF Works
  <2> QED
    BY <2>3, <2>4, <2>6
<1> QED
  BY <1>1, <1>4, <1>5, <1>6, <1>7, <1>8, <1>9, HeardHonest

LEMMA WorkerErrorHonest ==
  ASSUME HonestInv, RouteInv', NEW id \in Ids, WorkerError(id)
  PROVE  HonestInv'
<1>1. PICK j, k : j = jobs[id] /\ k = [j EXCEPT !.pc = "ended"]
  OBVIOUS
<1>2. PICK u, holds : u = Failure /\ holds = held'
  OBVIOUS
<1>3. IsJob(j) /\ Posed(j) /\ jobs = [i \in DOMAIN jobs |-> jobs[i]]
  BY <1>1 DEF HonestInv, Jobs, JobsTyped, Ids
<1>4. /\ IsJob(k) /\ k.board = j.board /\ k.prefix = j.prefix /\ k.ways = j.ways
      /\ k.best = j.best /\ k.sent = j.sent /\ k.mail = j.mail /\ k.pc = "ended"
      /\ k.honest = j.honest /\ k.engine = j.engine
  BY <1>1, <1>3 DEF IsJob
<1>5. Posed(k)
  BY <1>3, <1>4 DEF Posed
<1>6. Receive(id, u, jobs[id].board)
  BY <1>2 DEF WorkerError
<1>7. PICK all : all = Left([jobs EXCEPT ![id] = k], holds)
  OBVIOUS
<1>8. jobs' = all
  <2>1. [jobs EXCEPT ![id].pc = "ended"] = [jobs EXCEPT ![id] = k]
    BY <1>1
  <2> QED
    BY <1>2, <1>7, <2>1 DEF WorkerError
<1>9. ASSUME NEW lens, Works(j, lens)
      PROVE  Passes(j.board, j.prefix, u, After(u, lens)) /\ Works(k, After(u, lens))
  <2>1. Passes(j.board, j.prefix, u, After(u, lens)) /\ After(u, lens) = lens
    BY <1>2, FailurePasses
  <2>2. Works(k, lens)
    BY <1>4, <1>9 DEF Works
  <2> QED
    BY <2>1, <2>2
<1>10. /\ k.prefix = jobs[id].prefix /\ k.board = jobs[id].board
       /\ k.engine = jobs[id].engine /\ (k.honest => jobs[id].honest)
       /\ \A lens : Works(jobs[id], lens) =>
                     /\ Passes(jobs[id].board, jobs[id].prefix, u, After(u, lens))
                     /\ Works(k, After(u, lens))
  BY <1>1, <1>4, <1>9
<1> QED
  BY <1>4, <1>5, <1>6, <1>7, <1>8, <1>10, HeardHonest

(* A search that is written off or dropped is not heard any more.          *)
LEMMA DroppedHonest ==
  ASSUME HonestInv, RouteInv', ~Busy', tried' = tried, held' \subseteq held,
         jobs' = jobs \/ jobs' = Left(jobs, held')
  PROVE  HonestInv'
<1>1. PICK all, holds : all = jobs' /\ holds = held'
  OBVIOUS
<1>2. Onward(jobs)
  BY SameOnward DEF HonestInv
<1>3. Onward(all)
  BY <1>1, <1>2, LeftOnward
<1>4. \A h \in held' : h \in held
  OBVIOUS
<1>5. \A i \in tried' : i \in tried
  OBVIOUS
<1> QED
  BY <1>1, <1>3, <1>4, <1>5, HonestOnward

LEMMA ResetHonest ==
  ASSUME HonestInv, RouteInv', ResetClient
  PROVE  HonestInv'
<1>1. ~Busy' /\ tried' = tried /\ held' \subseteq held /\ jobs' = Left(jobs, held')
  BY DEF ResetClient, Idle, Busy, Released
<1> QED
  BY <1>1, DroppedHonest

LEMMA WatchdogHonest ==
  ASSUME HonestInv, RouteInv', NEW id, Watchdog(id)
  PROVE  HonestInv'
<1>1. ~Busy' /\ tried' = tried /\ held' \subseteq held /\ jobs' = Left(jobs, held')
  BY DEF Watchdog, Completed, Busy, Released
<1> QED
  BY <1>1, DroppedHonest

LEMMA SameHonest ==
  ASSUME HonestInv, RouteInv', UNCHANGED clientVars
  PROVE  HonestInv'
  BY DEF clientVars, HonestInv, Jobs, JobsTyped, HonestTaken, Hearing, Busy

LEMMA DropRouteHonest ==
  ASSUME HonestInv, RouteInv', DropRoute
  PROVE  HonestInv'
<1>1. CASE state.kind = "completed"
  <2>1. Shaped
    BY DEF HonestInv, RouteInv, ClientInv
  <2>2. ~Busy' /\ tried' = tried /\ held' \subseteq held /\ jobs' = jobs
    BY <1>1, <2>1 DEF DropRoute, Busy, Shaped
  <2> QED
    BY <2>2, DroppedHonest
<1>2. CASE state.kind # "completed"
  BY <1>2, SameHonest DEF DropRoute, clientVars
<1> QED
  BY <1>1, <1>2

LEMMA CancelHonest ==
  ASSUME HonestInv, RouteInv', Cancel
  PROVE  HonestInv'
<1>1. CASE state.kind = "browser-running"
  <2>1. /\ jobs' = [jobs EXCEPT ![state.id].told = TRUE]
        /\ \A h \in held' : h \in held \/ h.what = "grace"
        /\ UNCHANGED <<state, shown, tried>>
    BY <1>1 DEF Cancel
  <2>2. Busy /\ state.id \in DOMAIN jobs
    BY <1>1 DEF Busy, HonestInv, RouteInv, Asked
  <2>3. PICK id : id = state.id
    OBVIOUS
  <2>4. PICK j, k : j = jobs[id] /\ k = [j EXCEPT !.told = TRUE]
    OBVIOUS
  <2>5. IsJob(j) /\ Posed(j)
    BY <2>2, <2>3, <2>4 DEF HonestInv, Jobs
  <2>6. /\ IsJob(k) /\ k.board = j.board /\ k.prefix = j.prefix /\ k.ways = j.ways
        /\ k.best = j.best /\ k.sent = j.sent /\ k.mail = j.mail /\ k.pc = j.pc
        /\ k.honest = j.honest /\ k.engine = j.engine
    BY <2>4, <2>5 DEF IsJob
  <2>7. Posed(k)
    BY <2>5, <2>6 DEF Posed
  <2>8. PICK all, lens : all = [jobs EXCEPT ![id] = k] /\ lens = Lengths(state.route)
    OBVIOUS
  <2>9. jobs' = all
    BY <2>1, <2>3, <2>4, <2>8
  <2>10. Onward(all) /\ all[id] = k
    <3>1. /\ Jobs /\ id \in DOMAIN jobs /\ k.prefix = jobs[id].prefix
          /\ k.board = jobs[id].board /\ k.engine = jobs[id].engine
          /\ k.honest => jobs[id].honest
      BY <2>2, <2>3, <2>4, <2>6 DEF HonestInv
    <3> QED
      BY <2>6, <2>7, <2>8, <3>1, OneOnward
  <2>11. j.honest => Works(j, lens)
    BY <2>2, <2>3, <2>4, <2>8 DEF HonestInv, Hearing
  <2>12. k.honest => Works(k, lens)
    BY <2>6, <2>11 DEF Works
  <2>13. \A i \in tried' : i \in tried
    BY <2>1
  <2>14. Busy' => /\ Busy /\ state'.id = state.id /\ state'.prefix = state.prefix
                  /\ all[state.id].honest => Works(all[state.id], Lengths(state'.route))
    <3>1. Lengths(state'.route) = lens
      BY <2>1, <2>8
    <3> QED
      BY <2>1, <2>2, <2>3, <2>10, <2>12, <3>1
  <2> QED
    BY <2>1, <2>9, <2>10, <2>13, <2>14, HonestOnward
<1>2. CASE state.kind = "native-running"
  BY <1>2, ResetHonest DEF Cancel
<1>3. CASE state.kind \notin {"browser-running", "native-running"}
  BY <1>3, SameHonest DEF Cancel
<1> QED
  BY <1>1, <1>2, <1>3
LEMMA SolveHonest ==
  ASSUME HonestInv, RouteInv', NEW on, NEW prefix \in Seq(Dirs), NEW mode, NEW engine,
         Solve(on, prefix, mode, engine)
  PROVE  HonestInv'
<1>1. PICK pc \in {"asked", "ended"} :
        /\ jobs' = Append(jobs, NewJob(on, prefix, mode, engine, pc))
        /\ Busy' => pc = "asked"
  BY DEF Solve, Busy
<1>2. PICK job, n : job = NewJob(on, prefix, mode, engine, pc) /\ n = Len(jobs)
  OBVIOUS
<1> DEFINE S == {jobs[i] : i \in DOMAIN jobs} \cup {job}
<1>3. jobs \in Seq(S) /\ n \in Nat /\ DOMAIN jobs = 1 .. n
  BY <1>2, JobsSeq DEF HonestInv, RouteInv
<1>4. job \in S
  OBVIOUS
<1> HIDE DEF S
<1>5. /\ jobs' \in Seq(S) /\ Len(jobs') = n + 1
      /\ \A i \in 1 .. n : jobs'[i] = jobs[i]
      /\ jobs'[n + 1] = job
  BY <1>1, <1>2, <1>3, <1>4, AppendProperties
<1>6. DOMAIN jobs' = 1 .. n + 1
  BY <1>5, LenProperties
<1>7. /\ job.board = on /\ job.prefix = prefix /\ job.engine = engine /\ job.pc = pc
      /\ job.ways = Ways(on, prefix) /\ job.mail = << >> /\ job.best = {} /\ job.sent = {}
      /\ IsJob(job)
  BY <1>2 DEF NewJob, IsJob
<1>8. Posed(job)
  BY <1>7 DEF Posed
<1>9. Jobs'
  <2>1. JobsTyped'
    BY DEF RouteInv
  <2>2. \A i \in 1 .. n : IsJob(jobs[i]) /\ Posed(jobs[i])
    BY <1>3 DEF HonestInv, Jobs
  <2>3. \A i \in 1 .. n + 1 : i \in 1 .. n \/ i = n + 1
    BY <1>3
  <2>4. \A i \in DOMAIN jobs' : IsJob(jobs'[i]) /\ Posed(jobs'[i])
    BY <1>5, <1>6, <1>7, <1>8, <2>2, <2>3
  <2> QED
    BY <2>1, <2>4 DEF Jobs
<1>10. tried' = tried /\ tried \subseteq 1 .. n
  BY <1>3 DEF Solve, HonestInv
<1>11. tried' \subseteq DOMAIN jobs' /\ HonestTaken'
  BY <1>3, <1>5, <1>6, <1>10 DEF HonestInv, HonestTaken
<1>12. state'.id = n + 1 /\ state'.prefix = prefix /\ state'.route = {}
  BY <1>2 DEF Solve
<1>13. \A h \in held' : /\ h.what = "worker" => engine = "browser"
                        /\ h.what = "fetch" => engine # "browser"
  <2>1. held = {}
    BY HeldByActive DEF HonestInv, RouteInv, ClientInv, Solve
  <2> QED
    BY <2>1 DEF Solve
<1>14. pc = "asked" => Works(job, {})
  <2>1. IsMail(job.mail) /\ Heard(job.board, job.prefix, job.mail, {}, {})
    BY <1>7, NoMail
  <2> QED
    BY <1>7, <2>1 DEF Works
<1>15. Lengths(state'.route) = {}
  BY <1>12 DEF Lengths
<1>16. Hearing'
  BY <1>1, <1>5, <1>7, <1>12, <1>13, <1>14, <1>15 DEF Hearing
<1> QED
  BY <1>9, <1>11, <1>16 DEF HonestInv

LEMMA HonestInitially == ClientInit => HonestInv
<1> SUFFICES ASSUME ClientInit PROVE HonestInv
  OBVIOUS
<1>1. RouteInv
  BY RouteInitially
<1>2. DOMAIN jobs = {}
  BY EmptySeq DEF ClientInit
<1> QED
  BY <1>1, <1>2 DEF ClientInit, HonestInv, RouteInv, Jobs, HonestTaken, Hearing, Busy, Idle

LEMMA HonestStep == HonestInv /\ [AnyNext]_clientVars => HonestInv'
<1> SUFFICES ASSUME HonestInv, [AnyNext]_clientVars PROVE HonestInv'
  OBVIOUS
<1>1. RouteInv'
  BY RouteStep DEF HonestInv
<1>2. CASE UNCHANGED clientVars
  BY <1>1, <1>2, SameHonest
<1>3. CASE ResetClient \/ DropRoute \/ Cancel
  BY <1>1, <1>3, ResetHonest, DropRouteHonest, CancelHonest
<1>4. ASSUME NEW on, NEW m, NEW e, NEW prefix \in Seq(Dirs), Solve(on, prefix, m, e)
      PROVE  HonestInv'
  BY <1>1, <1>4, SolveHonest
<1>5. ASSUME NEW id \in Ids,
             \/ Deliver(id, jobs[id].board) \/ ReadBody(id, jobs[id].board)
             \/ Respond(id) \/ WorkerError(id) \/ Watchdog(id) \/ Engine(id)
      PROVE  HonestInv'
  BY <1>1, <1>5, DeliverHonest, ReadBodyHonest, EngineHonest, WorkerErrorHonest, WatchdogHonest
<1> QED
  BY <1>2, <1>3, <1>4, <1>5 DEF AnyNext

(* The client never refuses a sound engine's reply: whichever of its best  *)
(* routes the worker's sampling left unsent, the proof or bound that comes *)
(* fits the route the page has on hand when it comes (solver.worker.ts     *)
(* 82-97, solver-client.ts 117-134).                                       *)
THEOREM HonestAlwaysTaken == ClientSpec => []HonestTaken
<1>1. HonestInv => HonestTaken
  BY DEF HonestInv
<1>2. HonestInv /\ [ClientNext]_clientVars => HonestInv'
  BY NextIsAny, HonestStep
<1> QED
  BY <1>1, <1>2, HonestInitially, PTL DEF ClientSpec

-----------------------------------------------------------------------------
(* What a sound search brings the page.                                    *)

(* What an update shown to the page says of the search it came from.       *)
LEMMA ShownFounded ==
  ASSUME HonestInv, NEW id \in Ids, NEW u, NEW on, Receive(id, u, on),
         shown' # shown, jobs[id].honest,
         Works(jobs[id], Lengths(state.route)) =>
           Passes(jobs[id].board, jobs[id].prefix, u, After(u, Lengths(state.route)))
  PROVE  /\ Active(id) /\ shown'.id = id /\ state.prefix = jobs[id].prefix
         /\ shown'.type = "done" =>
              /\ state'.kind = "completed" /\ state'.route = shown'.route
         /\ shown'.type = "done" /\ shown'.proof = "optimal" =>
              shown'.best = Shortest([ways |-> Ways(jobs[id].board, jobs[id].prefix)])
<1> DEFINE verified == Decodes(u) /\ Verifies(u, on)
           route    == IF verified THEN RouteAfter(u) ELSE state.route
<1>1. /\ ~Ignores(id) /\ u.type # "error" /\ verified /\ Agrees(u, route)
      /\ shown' = [id |-> id, type |-> u.type, route |-> route,
                   proof |-> u.proof, best |-> u.best]
      /\ u.type = "done" => Completed(state.id, route)
  BY DEF Receive
<1>2. Active(id) /\ Busy /\ state.id = id
  BY <1>1 DEF Ignores, Active
<1>3. state.prefix = jobs[id].prefix /\ Works(jobs[id], Lengths(state.route))
  BY <1>2 DEF HonestInv, Hearing
<1>4. Founded(jobs[id].board, jobs[id].prefix, u)
  BY <1>1, <1>3 DEF Passes
<1> HIDE DEF route, verified
<1>5. /\ shown'.id = id /\ shown'.type = u.type /\ shown'.proof = u.proof
      /\ shown'.best = u.best /\ shown'.route = route
  BY <1>1
<1>6. u.type = "done" => state'.kind = "completed" /\ state'.route = route
  BY <1>1 DEF Completed
<1> QED
  BY <1>2, <1>3, <1>4, <1>5, <1>6 DEF Founded

(* The oldest reply in a sound search's mail passes.                       *)
LEMMA MailPasses ==
  ASSUME HonestInv, NEW id \in Ids, Active(id), jobs[id].honest,
         jobs[id].mail # << >> \/ jobs[id].pc = "body"
  PROVE  Passes(jobs[id].board, jobs[id].prefix, Head(jobs[id].mail),
                After(Head(jobs[id].mail), Lengths(state.route)))
<1>1. PICK j, lens : j = jobs[id] /\ lens = Lengths(state.route)
  OBVIOUS
<1>2. Works(j, lens) /\ j.mail # << >>
  BY <1>1 DEF HonestInv, Hearing, Active, Works
<1>3. PICK last : IsMail(j.mail) /\ Heard(j.board, j.prefix, j.mail, lens, last)
  BY <1>2 DEF Works
<1>4. Passes(j.board, j.prefix, Head(j.mail), After(Head(j.mail), lens))
  BY <1>2, <1>3, HeardFirst
<1> QED
  BY <1>1, <1>4

(* What the page hears, and which search's reply it is.                    *)
Hears(id, u) ==
  /\ \E on : Receive(id, u, on)
  /\ \/ /\ jobs[id].mail # << >> \/ jobs[id].pc = "body"
        /\ u = Head(jobs[id].mail)
     \/ u = Failure

LEMMA HeardPasses ==
  ASSUME HonestInv, NEW id \in Ids, NEW u, Hears(id, u), Active(id), jobs[id].honest
  PROVE  Passes(jobs[id].board, jobs[id].prefix, u, After(u, Lengths(state.route)))
<1>1. CASE /\ jobs[id].mail # << >> \/ jobs[id].pc = "body"
           /\ u = Head(jobs[id].mail)
  BY <1>1, MailPasses
<1>2. CASE u = Failure
  <2>1. PICK j, lens : j = jobs[id] /\ lens = Lengths(state.route)
    OBVIOUS
  <2>2. Passes(j.board, j.prefix, u, After(u, lens))
    BY <1>2, FailurePasses
  <2> QED
    BY <2>1, <2>2
<1> QED
  BY <1>1, <1>2 DEF Hears

(* Nothing else changes what the page is shown.                            *)
LEMMA ShownByReply ==
  ASSUME HonestInv, [AnyNext]_clientVars, shown' # shown \/ ~(state'.route \subseteq state.route)
  PROVE  \E id \in Ids : \E u : Hears(id, u) /\ Active(id)
<1>0. ClientInv
  BY DEF HonestInv, RouteInv
<1>1. CASE UNCHANGED clientVars
  BY <1>1 DEF clientVars
<1>2. CASE ResetClient \/ DropRoute \/ Cancel
  <2>1. shown' = shown
    BY <1>2 DEF ResetClient, DropRoute, Cancel, clientVars
  <2>2. state' = state \/ state' = Idle \/ state' = [state EXCEPT !.route = {}]
    BY <1>2 DEF ResetClient, DropRoute, Cancel, clientVars
  <2>3. state'.route \subseteq state.route
    BY <1>0, <2>2 DEF Idle, ClientInv, Shaped
  <2> QED
    BY <2>1, <2>3
<1>3. CASE \E on, m, e : \E prefix \in Seq(Dirs) : Solve(on, prefix, m, e)
  BY <1>3 DEF Solve
<1>4. ASSUME NEW id \in Ids, Watchdog(id) \/ Engine(id) \/ Respond(id)
      PROVE  FALSE
  <2>1. shown' = shown /\ state'.route = state.route
    BY <1>4, EngineApart DEF Watchdog, Completed
  <2> QED
    BY <2>1
<1>5. ASSUME NEW id \in Ids,
             Deliver(id, jobs[id].board) \/ WorkerError(id) \/ ReadBody(id, jobs[id].board)
      PROVE  \E u : Hears(id, u) /\ Active(id)
  <2>1. PICK u, on : Receive(id, u, on)
    BY <1>5 DEF Deliver, WorkerError, ReadBody
  <2>2. Active(id)
    BY <2>1 DEF Receive, Ignores
  <2> QED
    BY <1>5, <2>2 DEF Deliver, WorkerError, ReadBody, Hears
<1> QED
  BY <1>1, <1>2, <1>3, <1>4, <1>5 DEF AnyNext

(* A count that a sound search proves optimal is the shortest solution's   *)
(* of the position it was asked about.                                     *)
ShownOptimal ==
  [][shown' # shown /\ shown'.type = "done" /\ shown'.proof = "optimal"
       /\ jobs[shown'.id].honest => shown'.best = Shortest(jobs[shown'.id])]_clientVars

LEMMA ShownStep ==
  ASSUME HonestInv, [AnyNext]_clientVars, shown' # shown
  PROVE  \E id \in Ids :
           /\ Active(id) /\ shown'.id = id
           /\ jobs[id].honest =>
                /\ state.prefix = jobs[id].prefix
                /\ shown'.type = "done" => /\ state'.kind = "completed"
                                           /\ state'.route = shown'.route
                /\ shown'.type = "done" /\ shown'.proof = "optimal" =>
                     shown'.best = Shortest(jobs[id])
<1>0. PICK id \in Ids : \E u : Hears(id, u) /\ Active(id)
  BY ShownByReply
<1>1. PICK u : Hears(id, u) /\ Active(id)
  BY <1>0
<1>2. PICK on : Receive(id, u, on)
  BY <1>1 DEF Hears
<1>3. shown'.id = id
  BY <1>2 DEF Receive
<1>4. Shortest(jobs[id]) = Shortest([ways |-> Ways(jobs[id].board, jobs[id].prefix)])
  BY DEF HonestInv, Jobs, Posed, Shortest, Ids
<1>5. ASSUME jobs[id].honest
      PROVE  /\ state.prefix = jobs[id].prefix
             /\ shown'.type = "done" => /\ state'.kind = "completed"
                                        /\ state'.route = shown'.route
             /\ shown'.type = "done" /\ shown'.proof = "optimal" =>
                  shown'.best = Shortest(jobs[id])
  <2>1. Passes(jobs[id].board, jobs[id].prefix, u, After(u, Lengths(state.route)))
    BY <1>1, <1>5, HeardPasses
  <2> QED
    BY <1>2, <1>4, <1>5, <2>1, ShownFounded
<1> QED
  BY <1>1, <1>3, <1>5

(* Whatever the client shows as proven optimal, from an engine that keeps  *)
(* its contract, is the length of the shortest solution of the position it *)
(* was asked about: no late reply, no reply of another search and none cut *)
(* down by the worker's sampling passes for one (solver-client.ts 117-136, *)
(* solver.worker.ts 82-97).                                                *)
THEOREM OptimaTrue == ClientSpec => ShownOptimal
<1>1. HonestInv /\ [ClientNext]_clientVars =>
        [shown' # shown /\ shown'.type = "done" /\ shown'.proof = "optimal"
           /\ jobs[shown'.id].honest => shown'.best = Shortest(jobs[shown'.id])]_clientVars
  BY NextIsAny, ShownStep
<1>2. HonestInv /\ [ClientNext]_clientVars => HonestInv'
  BY NextIsAny, HonestStep
<1> QED
  BY <1>1, <1>2, HonestInitially, PTL DEF ClientSpec, ShownOptimal

-----------------------------------------------------------------------------
(* A client whose engines all keep their contract.                         *)

AllHonest == \A i \in DOMAIN jobs : jobs[i].honest

(* A route on hand is one of a search, and of moves, as its prefix is.     *)
RoutesOnHand ==
  /\ state.route # {} => Busy \/ state.kind = "completed"
  /\ state.route \subseteq Seq(Dirs)
  /\ state.prefix \in Seq(Dirs)

SoundInv == HonestInv /\ AllHonest /\ RoutesOnHand

(* The searches keep their word.                                           *)
Truthful(all) ==
  DOMAIN all = DOMAIN jobs /\ \A i \in DOMAIN jobs : all[i].honest = jobs[i].honest

LEMMA LeftTruthful ==
  ASSUME Jobs, NEW all, NEW holds, Truthful(all), \A i \in DOMAIN jobs : IsJob(all[i])
  PROVE  Truthful(Left(all, holds))
<1>1. DOMAIN all = DOMAIN jobs
  BY DEF Truthful
<1>2. PICK left : left = Left(all, holds)
  OBVIOUS
<1>3. /\ DOMAIN left = DOMAIN jobs
      /\ \A i \in DOMAIN jobs :
           \/ left[i] = all[i]
           \/ left[i] = [all[i] EXCEPT !.pc = "ended", !.told = FALSE, !.best = {},
                                       !.sent = {}, !.mail = << >>]
  BY <1>1, <1>2 DEF Left
<1>4. ASSUME NEW i \in DOMAIN jobs PROVE left[i].honest = all[i].honest
  <2>1. IsJob(all[i])
    OBVIOUS
  <2> QED
    BY <1>3, <2>1 DEF IsJob
<1> QED
  BY <1>2, <1>3, <1>4 DEF Truthful

(* One search changes but for its word.                                    *)
LEMMA OneTruthful ==
  ASSUME Jobs, NEW id \in Ids, NEW k, IsJob(k), k.honest = jobs[id].honest
  PROVE  LET all == [jobs EXCEPT ![id] = k]
         IN  /\ Truthful(all) /\ \A i \in DOMAIN jobs : IsJob(all[i])
             /\ \A holds : Truthful(Left(all, holds))
<1>1. PICK all : all = [jobs EXCEPT ![id] = k]
  OBVIOUS
<1>2. /\ DOMAIN all = DOMAIN jobs /\ all[id] = k
      /\ \A i \in DOMAIN jobs : i # id => all[i] = jobs[i]
  BY <1>1 DEF Ids
<1>3. Truthful(all) /\ \A i \in DOMAIN jobs : IsJob(all[i])
  BY <1>2 DEF Truthful, Jobs
<1> QED
  BY <1>1, <1>3, LeftTruthful

LEMMA EngineTruthful ==
  ASSUME Jobs, Rogue = {}, NEW id \in Ids, Engine(id) \/ Respond(id)
  PROVE  Truthful(jobs')
<1>1. PICK j : j = jobs[id]
  OBVIOUS
<1>2. IsJob(j)
  BY <1>1 DEF Jobs, Ids
<1>3. ASSUME NEW k, IsJob(k), k.honest = j.honest, jobs' = [jobs EXCEPT ![id] = k]
      PROVE  Truthful(jobs')
  <2>1. PICK all : all = [jobs EXCEPT ![id] = k]
    OBVIOUS
  <2>2. Truthful(all)
    BY <1>1, <1>3, <2>1, OneTruthful
  <2> QED
    BY <1>3, <2>1, <2>2
<1>4. ASSUME NEW u, NEW pc, NEW sent, jobs' = [jobs EXCEPT ![id] = Posting(j, u, pc, sent)]
      PROVE  Truthful(jobs')
  <2>1. PICK k : k = Posting(j, u, pc, sent)
    OBVIOUS
  <2>2. IsJob(k) /\ k.honest = j.honest
    BY <1>2, <2>1 DEF Posting, IsJob
  <2> QED
    BY <1>3, <1>4, <2>1, <2>2
<1>p. ASSUME NEW u, NEW pc, jobs' = [Post(id, u) EXCEPT ![id].pc = pc]
      PROVE  Truthful(jobs')
  <2>1. [Post(id, u) EXCEPT ![id].pc = pc] =
          [jobs EXCEPT ![id] = Posting(jobs[id], u, pc, jobs[id].sent)]
    BY PostFacts
  <2>2. jobs' = [jobs EXCEPT ![id] = Posting(j, u, pc, j.sent)]
    BY <1>1, <1>p, <2>1
  <2> QED
    BY <1>4, <2>2
<1>s. ASSUME NEW u, NEW sent, jobs' = [Post(id, u) EXCEPT ![id].sent = sent]
      PROVE  Truthful(jobs')
  <2>1. [Post(id, u) EXCEPT ![id].sent = sent] =
          [jobs EXCEPT ![id] = Posting(jobs[id], u, jobs[id].pc, sent)]
    BY PostFacts
  <2>2. jobs' = [jobs EXCEPT ![id] = Posting(j, u, j.pc, sent)]
    BY <1>1, <1>s, <2>1
  <2> QED
    BY <1>4, <2>2
<1>5. ASSUME NEW pc, jobs' = [jobs EXCEPT ![id].pc = pc]
      PROVE  Truthful(jobs')
  <2>1. PICK k : k = [j EXCEPT !.pc = pc]
    OBVIOUS
  <2>2. IsJob(k) /\ k.honest = j.honest
    BY <1>2, <2>1 DEF IsJob
  <2> QED
    BY <1>1, <1>3, <1>5, <2>1, <2>2
<1>6. CASE WorkerStart(id)
  <2>1. \/ jobs' = [Post(id, Failure) EXCEPT ![id].pc = "ended"]
        \/ jobs' = [jobs EXCEPT ![id].pc = "search"]
    BY <1>6 DEF WorkerStart
  <2> QED
    BY <1>5, <1>p, <2>1
<1>7. CASE WorkerFind(id)
  <2>1. PICK r : jobs' = [jobs EXCEPT ![id].best = {r}]
    BY <1>7 DEF WorkerFind
  <2>2. PICK k : k = [j EXCEPT !.best = {r}]
    OBVIOUS
  <2>3. IsJob(k) /\ k.honest = j.honest
    BY <1>2, <2>2 DEF IsJob
  <2> QED
    BY <1>1, <1>3, <2>1, <2>2, <2>3
<1>8. CASE WorkerReport(id)
  <2>1. PICK u, sent : jobs' = [Post(id, u) EXCEPT ![id].sent = sent]
    BY <1>8 DEF WorkerReport
  <2> QED
    BY <1>s, <2>1
<1>9. CASE WorkerEnd(id)
  <2>1. PICK u : jobs' = [Post(id, u) EXCEPT ![id].pc = "ended"]
    BY <1>9 DEF WorkerEnd
  <2> QED
    BY <1>p, <2>1
<1>10. CASE Answer(id)
  <2>1. PICK u : jobs' = [Post(id, u) EXCEPT ![id].pc = "answered"]
    BY <1>10 DEF Answer
  <2> QED
    BY <1>p, <2>1
<1>11. CASE Misreply(id)
  BY <1>11 DEF Misreply
<1>12. CASE Respond(id)
  BY <1>5, <1>12 DEF Respond
<1> QED
  BY <1>6, <1>7, <1>8, <1>9, <1>10, <1>11, <1>12 DEF Engine

LEMMA ClientTruthful ==
  ASSUME HonestInv,
         \/ ResetClient \/ DropRoute \/ Cancel
         \/ \E id \in Ids : \/ Deliver(id, jobs[id].board) \/ ReadBody(id, jobs[id].board)
                            \/ WorkerError(id) \/ Watchdog(id)
  PROVE  Truthful(jobs')
<1>0. Jobs /\ Truthful(jobs) /\ \A i \in DOMAIN jobs : IsJob(jobs[i])
  BY DEF HonestInv, Jobs, Truthful
<1>1. \A holds : Truthful(Left(jobs, holds))
  BY <1>0, LeftTruthful
<1>2. CASE ResetClient
  BY <1>1, <1>2 DEF ResetClient
<1>3. CASE DropRoute
  BY <1>0, <1>3 DEF DropRoute
<1>4. ASSUME NEW id \in Ids, NEW j, j = jobs[id], NEW k, IsJob(k), k.honest = j.honest,
             NEW all, all = [jobs EXCEPT ![id] = k]
      PROVE  Truthful(all) /\ \A holds : Truthful(Left(all, holds))
  BY <1>0, <1>4, OneTruthful
<1>5. CASE Cancel
  <2>1. CASE state.kind = "browser-running"
    <3>1. jobs' = [jobs EXCEPT ![state.id].told = TRUE] /\ state.id \in Ids
      BY <1>5, <2>1 DEF Cancel, HonestInv, RouteInv, Asked, Busy, Ids
    <3>2. PICK id, j, k : id = state.id /\ j = jobs[id] /\ k = [j EXCEPT !.told = TRUE]
      OBVIOUS
    <3>j. id \in Ids /\ IsJob(j)
      BY <1>0, <3>1, <3>2 DEF Ids
    <3>3. IsJob(k) /\ k.honest = j.honest
      BY <3>2, <3>j DEF IsJob
    <3>4. PICK all : all = [jobs EXCEPT ![id] = k]
      OBVIOUS
    <3>5. Truthful(all)
      BY <1>4, <3>2, <3>3, <3>4, <3>j
    <3> QED
      BY <3>1, <3>2, <3>4, <3>5
  <2>2. CASE state.kind # "browser-running"
    BY <1>0, <1>2, <1>5, <2>2 DEF Cancel, clientVars
  <2> QED
    BY <2>1, <2>2
<1>6. ASSUME NEW id \in Ids,
             \/ Deliver(id, jobs[id].board) \/ ReadBody(id, jobs[id].board)
             \/ WorkerError(id) \/ Watchdog(id)
      PROVE  Truthful(jobs')
  <2>1. PICK j, holds : j = jobs[id] /\ holds = held'
    OBVIOUS
  <2>2. IsJob(j)
    BY <1>0, <2>1 DEF Ids
  <2>3. CASE Watchdog(id)
    BY <1>1, <2>3 DEF Watchdog
  <2>4. CASE Deliver(id, jobs[id].board)
    <3>1. PICK k : k = [j EXCEPT !.mail = Tail(@)]
      OBVIOUS
    <3>2. IsJob(k) /\ k.honest = j.honest
      BY <2>2, <3>1 DEF IsJob
    <3>3. PICK all : all = [jobs EXCEPT ![id] = k]
      OBVIOUS
    <3>4. jobs' = Left(all, holds)
      BY <2>1, <2>4, <3>1, <3>3 DEF Deliver
    <3> QED
      BY <1>4, <2>1, <3>2, <3>3, <3>4
  <2>5. CASE ReadBody(id, jobs[id].board)
    <3>1. PICK k : k = [j EXCEPT !.pc = "ended", !.mail = << >>]
      OBVIOUS
    <3>2. IsJob(k) /\ k.honest = j.honest
      BY <2>2, <3>1 DEF IsJob
    <3>3. PICK all : all = [jobs EXCEPT ![id] = k]
      OBVIOUS
    <3>4. jobs' = all
      BY <1>0, <2>1, <2>5, <3>1, <3>3 DEF ReadBody, Ids, Jobs, JobsTyped
    <3> QED
      BY <1>4, <2>1, <3>2, <3>3, <3>4
  <2>6. CASE WorkerError(id)
    <3>1. PICK k : k = [j EXCEPT !.pc = "ended"]
      OBVIOUS
    <3>2. IsJob(k) /\ k.honest = j.honest
      BY <2>2, <3>1 DEF IsJob
    <3>3. PICK all : all = [jobs EXCEPT ![id] = k]
      OBVIOUS
    <3>4. jobs' = Left(all, holds)
      BY <2>1, <2>6, <3>1, <3>3 DEF WorkerError
    <3> QED
      BY <1>4, <2>1, <3>2, <3>3, <3>4
  <2> QED
    BY <1>6, <2>3, <2>4, <2>5, <2>6
<1> QED
  BY <1>2, <1>3, <1>5, <1>6

LEMMA AllStayHonest ==
  ASSUME HonestInv, AllHonest, Rogue = {}, [AnyNext]_clientVars
  PROVE  AllHonest'
<1>0. Jobs
  BY DEF HonestInv
<1>1. ASSUME Truthful(jobs') PROVE AllHonest'
  BY <1>1 DEF Truthful, AllHonest
<1>2. CASE UNCHANGED clientVars
  BY <1>2 DEF clientVars, AllHonest
<1>3. ASSUME NEW on, NEW m, NEW e, NEW prefix \in Seq(Dirs), Solve(on, prefix, m, e)
      PROVE  AllHonest'
  <2>1. PICK pc : jobs' = Append(jobs, NewJob(on, prefix, m, e, pc))
    BY <1>3 DEF Solve
  <2>2. PICK job, n : job = NewJob(on, prefix, m, e, pc) /\ n = Len(jobs)
    OBVIOUS
  <2> DEFINE S == {jobs[i] : i \in DOMAIN jobs} \cup {job}
  <2>3. jobs \in Seq(S) /\ n \in Nat /\ DOMAIN jobs = 1 .. n
    BY <1>0, <2>2, JobsSeq DEF Jobs
  <2>4. job \in S /\ job.honest
    BY <2>2 DEF NewJob
  <2> HIDE DEF S
  <2>5. /\ jobs' \in Seq(S) /\ Len(jobs') = n + 1
        /\ \A i \in 1 .. n : jobs'[i] = jobs[i]
        /\ jobs'[n + 1] = job
    BY <2>1, <2>2, <2>3, <2>4, AppendProperties
  <2>6. DOMAIN jobs' = 1 .. n + 1 /\ \A i \in 1 .. n + 1 : i \in 1 .. n \/ i = n + 1
    BY <2>3, <2>5, LenProperties
  <2> QED
    BY <2>3, <2>4, <2>5, <2>6 DEF AllHonest
<1>4. ASSUME NEW id \in Ids, Engine(id) \/ Respond(id) PROVE AllHonest'
  BY <1>0, <1>1, <1>4, EngineTruthful
<1>5. CASE \/ ResetClient \/ DropRoute \/ Cancel
           \/ \E id \in Ids : \/ Deliver(id, jobs[id].board) \/ ReadBody(id, jobs[id].board)
                              \/ WorkerError(id) \/ Watchdog(id)
  BY <1>1, <1>5, ClientTruthful
<1> QED
  BY <1>2, <1>3, <1>4, <1>5 DEF AnyNext

-----------------------------------------------------------------------------
(* What a page sees of a client that hears from a search, is asked for one *)
(* or drops a route.                                                       *)
LEMMA StepHears ==
  ASSUME HonestInv, NEW id \in Ids,
         \/ Deliver(id, jobs[id].board) \/ ReadBody(id, jobs[id].board)
         \/ Respond(id) \/ WorkerError(id) \/ Watchdog(id) \/ Engine(id)
  PROVE  /\ Alike(jobs')
         /\ ~Busy => state' = state
         /\ Busy => /\ state'.kind \in {state.kind, "completed"}
                    /\ state'.prefix = state.prefix /\ state'.id = state.id
<1>0. JobsTyped /\ Shaped
  BY DEF HonestInv, RouteInv, ClientInv
<1>1. Alike(jobs')
  BY <1>0, EngineAlike, ClientAlike
<1>2. CASE Engine(id) \/ Respond(id)
  BY <1>1, <1>2, EngineApart
<1>3. CASE Watchdog(id)
  BY <1>1, <1>3 DEF Watchdog, Active, Completed
<1>4. ASSUME NEW u, NEW on, Receive(id, u, on)
      PROVE  /\ ~Busy => state' = state
             /\ Busy => /\ state'.kind \in {state.kind, "completed"}
                        /\ state'.prefix = state.prefix /\ state'.id = state.id
  BY <1>0, <1>4 DEF Receive, Ignores, Active, Completed, Shaped
<1> QED
  BY <1>1, <1>2, <1>3, <1>4 DEF Deliver, WorkerError, ReadBody

LEMMA CancelHears ==
  ASSUME HonestInv, Cancel
  PROVE  Alike(jobs') /\ (state' = state \/ state' = Idle)
<1>1. Alike(jobs')
  BY ClientAlike DEF HonestInv, RouteInv
<1> QED
  BY <1>1 DEF Cancel, ResetClient, clientVars

LEMMA DropRouteHears ==
  ASSUME HonestInv, DropRoute
  PROVE  /\ jobs' = jobs /\ shown' = shown /\ state'.kind = state.kind
         /\ state'.prefix = state.prefix /\ state'.id = state.id
         /\ state.kind # "completed" => state' = state
         /\ state.kind = "completed" => state'.route = {}
  BY DEF DropRoute, HonestInv, RouteInv, ClientInv, Shaped

LEMMA SolveHears ==
  ASSUME HonestInv, NEW on, NEW prefix, NEW mode, NEW engine, Solve(on, prefix, mode, engine)
  PROVE  /\ ~Busy /\ shown' = shown
         /\ state'.prefix = prefix /\ state'.route = {}
         /\ state'.kind \in {"completed", "browser-running", "native-running"}
         /\ state'.id \in DOMAIN jobs' /\ jobs'[state'.id].board = on
<1>1. PICK pc : jobs' = Append(jobs, NewJob(on, prefix, mode, engine, pc))
  BY DEF Solve
<1>2. PICK job, n : job = NewJob(on, prefix, mode, engine, pc) /\ n = Len(jobs)
  OBVIOUS
<1> DEFINE S == {jobs[i] : i \in DOMAIN jobs} \cup {job}
<1>3. jobs \in Seq(S) /\ n \in Nat /\ DOMAIN jobs = 1 .. n
  BY <1>2, JobsSeq DEF HonestInv, RouteInv
<1>4. job \in S /\ job.board = on
  BY <1>2 DEF NewJob
<1> HIDE DEF S
<1>5. jobs' \in Seq(S) /\ Len(jobs') = n + 1 /\ jobs'[n + 1] = job
  BY <1>1, <1>2, <1>3, <1>4, AppendProperties
<1>6. n + 1 \in DOMAIN jobs'
  BY <1>3, <1>5, LenProperties
<1>7. state'.id = n + 1
  BY <1>2 DEF Solve
<1> QED
  BY <1>4, <1>5, <1>6, <1>7 DEF Solve, Running

LEMMA SoundInitially == ClientInit => SoundInv
<1> SUFFICES ASSUME ClientInit PROVE SoundInv
  OBVIOUS
<1>1. DOMAIN jobs = {}
  BY EmptySeq DEF ClientInit
<1> QED
  BY <1>1, HonestInitially, EmptySeq DEF ClientInit, SoundInv, AllHonest, RoutesOnHand, Idle

(* A route is on hand only of a search that runs or has ended.             *)
LEMMA RouteStaysAsked ==
  ASSUME HonestInv, RoutesOnHand, [AnyNext]_clientVars
  PROVE  /\ state'.route # {} => Busy' \/ state'.kind = "completed"
         /\ state'.prefix \in Seq(Dirs)
<1>1. CASE state' = state
  BY <1>1 DEF RoutesOnHand, Busy
<1>2. CASE ResetClient \/ Cancel
  <2>1. state' = state \/ state' = Idle
    BY <1>2 DEF ResetClient, Cancel, clientVars
  <2>2. Idle.route = {} /\ Idle.prefix \in Seq(Dirs)
    BY EmptySeq DEF Idle
  <2> QED
    BY <1>1, <2>1, <2>2
<1>3. CASE DropRoute
  BY <1>1, <1>3, DropRouteHears DEF RoutesOnHand
<1>4. CASE \E on, m, e : \E prefix \in Seq(Dirs) : Solve(on, prefix, m, e)
  BY <1>4 DEF Solve
<1>5. ASSUME NEW id \in Ids,
             \/ Deliver(id, jobs[id].board) \/ ReadBody(id, jobs[id].board)
             \/ Respond(id) \/ WorkerError(id) \/ Watchdog(id) \/ Engine(id)
      PROVE  state' = state \/ ((Busy' \/ state'.kind = "completed") /\ state'.prefix = state.prefix)
  <2>1. ~Busy => state' = state
    BY <1>5, StepHears
  <2>2. Busy => state'.kind \in {state.kind, "completed"} /\ state'.prefix = state.prefix
    BY <1>5, StepHears
  <2> QED
    BY <2>1, <2>2 DEF Busy
<1>6. CASE state'.prefix = state.prefix /\ (Busy' \/ state'.kind = "completed")
  BY <1>6 DEF RoutesOnHand
<1> QED
  BY <1>1, <1>2, <1>3, <1>4, <1>5, <1>6 DEF AnyNext, clientVars

LEMMA SoundStep == Rogue = {} /\ SoundInv /\ [AnyNext]_clientVars => SoundInv'
<1> SUFFICES ASSUME Rogue = {}, SoundInv, [AnyNext]_clientVars PROVE SoundInv'
  OBVIOUS
<1>0. HonestInv /\ AllHonest /\ RoutesOnHand
  BY DEF SoundInv
<1>1. HonestInv' /\ AllHonest'
  BY <1>0, HonestStep, AllStayHonest
<1>2. /\ state'.route # {} => Busy' \/ state'.kind = "completed"
      /\ state'.prefix \in Seq(Dirs)
  BY <1>0, RouteStaysAsked
<1>3. state'.route \subseteq Seq(Dirs)
  <2>1. CASE state'.route \subseteq state.route
    BY <1>0, <2>1 DEF RoutesOnHand
  <2>2. CASE ~(state'.route \subseteq state.route)
    <3>1. PICK id \in Ids : \E u : Hears(id, u) /\ Active(id)
      BY <1>0, <2>2, ShownByReply
    <3>2. PICK u : Hears(id, u) /\ Active(id)
      BY <3>1
    <3>3. Passes(jobs[id].board, jobs[id].prefix, u, After(u, Lengths(state.route)))
      BY <1>0, <3>2, HeardPasses DEF AllHonest, Ids
    <3>4. PICK on : Receive(id, u, on)
      BY <3>2 DEF Hears
    <3>5. u.type # "error" => u.route \subseteq Seq(Dirs)
      BY <3>3, ClientAssumption DEF Passes, Founded, Ways
    <3>6. Shaped
      BY <1>0 DEF HonestInv, RouteInv, ClientInv
    <3>7. \/ state'.route = state.route
          \/ u.type # "error" /\ state'.route = u.route
      BY <3>4, <3>6 DEF Receive, Completed, RouteAfter, Shaped
    <3> QED
      BY <2>2, <3>5, <3>7
  <2> QED
    BY <2>1, <2>2
<1> QED
  BY <1>1, <1>2, <1>3 DEF SoundInv, RoutesOnHand

(* The search under way is about this board.                               *)
PosedOn(b) == Busy => jobs[state.id].board = b

(* What a page that verifies on that board sees of a client that hears     *)
(* from a search: where it stood, and, of a proven optimum, the board's    *)
(* shortest solution from the search's prefix.                             *)
LEMMA SearchHears ==
  ASSUME SoundInv, NEW b, PosedOn(b), NEW id \in Ids,
         \/ Deliver(id, b) \/ ReadBody(id, b) \/ Respond(id)
         \/ WorkerError(id) \/ Watchdog(id) \/ Engine(id)
  PROVE  /\ AnyNext /\ PosedOn(b)'
         /\ ~Busy => state' = state
         /\ Busy => state'.kind \in {state.kind, "completed"} /\ state'.prefix = state.prefix
         /\ shown' # shown =>
              /\ Busy
              /\ shown'.type = "done" => /\ state'.kind = "completed"
                                         /\ state'.route = shown'.route
              /\ shown'.type = "done" /\ shown'.proof = "optimal" =>
                   shown'.best = Shortest([ways |-> Ways(b, state.prefix)])
<1>0. HonestInv /\ NothingLeaks /\ AllHonest /\ Asked
  BY DEF SoundInv, HonestInv, RouteInv, ClientInv
<1>1. \/ Deliver(id, jobs[id].board) \/ ReadBody(id, jobs[id].board)
      \/ Respond(id) \/ WorkerError(id) \/ Watchdog(id) \/ Engine(id)
  <2>1. ASSUME Deliver(id, b) PROVE jobs[id].board = b
    BY <1>0, <2>1 DEF Deliver, NothingLeaks, Active, PosedOn
  <2>2. ASSUME ReadBody(id, b) PROVE ReadBody(id, jobs[id].board)
    <3>1. CASE Active(id)
      BY <2>2, <3>1 DEF Active, PosedOn
    <3>2. CASE ~Active(id)
      BY <2>2, <3>2 DEF ReadBody, Receive, Ignores
    <3> QED
      BY <3>1, <3>2
  <2> QED
    BY <2>1, <2>2
<1>2. AnyNext
  BY <1>1 DEF AnyNext
<1>3. /\ Alike(jobs')
      /\ ~Busy => state' = state
      /\ Busy => /\ state'.kind \in {state.kind, "completed"}
                 /\ state'.prefix = state.prefix /\ state'.id = state.id
  BY <1>0, <1>1, StepHears
<1>4. PosedOn(b)'
  <2> SUFFICES ASSUME Busy' PROVE jobs'[state'.id].board = b
    BY DEF PosedOn
  <2>1. Busy
    BY <1>3 DEF Busy
  <2>2. state.id \in DOMAIN jobs /\ jobs[state.id].board = b /\ state'.id = state.id
    BY <1>0, <1>3, <2>1 DEF Asked, PosedOn
  <2>3. jobs'[state.id].board = jobs[state.id].board
    BY <1>3, <2>2 DEF Alike
  <2> QED
    BY <2>2, <2>3
<1>5. ASSUME shown' # shown
      PROVE  /\ Busy
             /\ shown'.type = "done" => /\ state'.kind = "completed"
                                        /\ state'.route = shown'.route
             /\ shown'.type = "done" /\ shown'.proof = "optimal" =>
                  shown'.best = Shortest([ways |-> Ways(b, state.prefix)])
  <2>1. PICK i \in Ids :
          /\ Active(i)
          /\ jobs[i].honest =>
               /\ state.prefix = jobs[i].prefix
               /\ shown'.type = "done" => /\ state'.kind = "completed"
                                          /\ state'.route = shown'.route
               /\ shown'.type = "done" /\ shown'.proof = "optimal" =>
                    shown'.best = Shortest(jobs[i])
    BY <1>0, <1>2, <1>5, ShownStep
  <2>2. jobs[i].honest /\ jobs[i].board = b
    BY <1>0, <2>1 DEF AllHonest, Ids, Active, PosedOn
  <2>3. Shortest(jobs[i]) = Shortest([ways |-> Ways(jobs[i].board, jobs[i].prefix)])
    BY <1>0 DEF HonestInv, Jobs, Posed, Shortest, Ids
  <2> QED
    BY <2>1, <2>2, <2>3 DEF Active
<1> QED
  BY <1>2, <1>3, <1>4, <1>5

(* The same of a page that asks for a search.                              *)
LEMMA AskedHears ==
  ASSUME HonestInv, NEW on, NEW prefix \in Seq(Dirs), NEW mode, NEW engine,
         Solve(on, prefix, mode, engine)
  PROVE  /\ AnyNext /\ PosedOn(on)'
         /\ state'.prefix = prefix /\ state'.route = {}
<1>1. AnyNext
  BY DEF AnyNext
<1> QED
  BY <1>1, SolveHears DEF PosedOn

LEMMA QuietHears ==
  ASSUME HonestInv, NEW b, PosedOn(b), Cancel \/ DropRoute \/ UNCHANGED clientVars
  PROVE  PosedOn(b)'
<1>1. CASE state' = state /\ Alike(jobs')
  <2>1. Asked
    BY DEF HonestInv, RouteInv
  <2> QED
    BY <1>1, <2>1 DEF PosedOn, Busy, Alike, Asked
<1>2. CASE Cancel
  BY <1>1, <1>2, CancelHears DEF PosedOn, Busy, Idle
<1>3. CASE DropRoute
  BY <1>3, DropRouteHears DEF PosedOn, Busy
<1>4. CASE UNCHANGED clientVars
  BY <1>4 DEF PosedOn, Busy, clientVars
<1> QED
  BY <1>2, <1>3, <1>4

=============================================================================
