----------------------------- MODULE WebProofs ------------------------------
(***************************************************************************)
(* Proofs about the web application: its two pages, and the server that    *)
(* solves for them.  Of the play page, for every set of boards,            *)
(* routes and limits: its game is the replay of its own route, what it     *)
(* plays and keeps fits the game, and what it certifies is a board's       *)
(* optimum.  Of the lab: that its certificates are true when its user      *)
(* waits, for every catalog, every set of found routes and every link.     *)
(*                                                                         *)
(* Each client of theirs is an instance of SolverClient.  What is proved   *)
(* of a client holds of the instances of ClientProofs below, whose         *)
(* definitions are shown to be the page's.                                 *)
(***************************************************************************)
EXTENDS PlayPage, LabPage, SolveServer, GameProofs, FiniteSetTheorems, TLAPS

-----------------------------------------------------------------------------
(* The two clients are what is proved about in ClientProofs.               *)

SolverSays == INSTANCE ClientProofs WITH
  state <- sState, held <- sHeld, jobs <- sJobs, shown <- sShown, tried <- sTried,
  Engines <- {"browser"}, Rogue <- {}, Asks <- {}

LEMMA SolverAssumes == SolverSays!ClientAssumption /\ SolverSays!GameAssumption
  BY PageAssumption, GameAssumption, Zenon
  DEF SolverSays!ClientAssumption, SolverSays!GameAssumption, SolverSays!Dirs, Dirs,
      SolverSays!Legal, Legal, GameAssumption

LEMMA SolverResets ==
  ASSUME Solver!ResetClient
  PROVE  SolverSays!ResetClient
  BY Zenon
  DEF Solver!ResetClient, SolverSays!ResetClient, Solver!Busy, SolverSays!Busy,
      Solver!Released, SolverSays!Released, Solver!Idle, SolverSays!Idle, Solver!Left,
      SolverSays!Left

LEMMA SolverQuiet ==
  ASSUME Solver!Cancel \/ Solver!DropRoute
  PROVE  SolverSays!Cancel \/ SolverSays!DropRoute
  BY Zenon
  DEF Solver!Cancel, SolverSays!Cancel, Solver!DropRoute, SolverSays!DropRoute,
      Solver!ResetClient, SolverSays!ResetClient, Solver!Busy, SolverSays!Busy,
      Solver!Released, SolverSays!Released, Solver!Idle, SolverSays!Idle, Solver!Left,
      SolverSays!Left, Solver!clientVars, SolverSays!clientVars

LEMMA SolverAsked ==
  ASSUME NEW on, NEW log, NEW mode, NEW engine,
         Solver!Solve(on, log, mode, engine)
  PROVE  SolverSays!Solve(on, log, mode, engine)
  BY Zenon
  DEF Solver!Solve, SolverSays!Solve, Solver!Running, SolverSays!Running,
      Solver!NewJob, SolverSays!NewJob, Solver!Busy, SolverSays!Busy, Solver!Ways,
      SolverSays!Ways, Solver!SearchableAt, SolverSays!SearchableAt, Solver!Walked,
      SolverSays!Walked, Solver!SolvedIn, SolverSays!SolvedIn, Solver!Replayed,
      SolverSays!Replayed, Solver!Extends, SolverSays!Extends, Solver!Steps,
      SolverSays!Steps, Solver!OnGoal, SolverSays!OnGoal, Solver!GamesAlong,
      SolverSays!GamesAlong, Solver!Moves, SolverSays!Moves, Solver!Beyond,
      SolverSays!Beyond, Solver!NewGame, SolverSays!NewGame, Solver!Played,
      SolverSays!Played, Solver!Cardinality, SolverSays!Cardinality,
      Solver!IsFiniteSet, SolverSays!IsFiniteSet

LEMMA SolverEnds ==
  ASSUME NEW one, NEW stops
  PROVE  Solver!Endings(one, stops) = SolverSays!Endings(one, stops)
<1>1. Solver!Lowers(one) = SolverSays!Lowers(one) /\ Solver!Shortest(one) = SolverSays!Shortest(one)
  BY Zenon DEF Solver!Lowers, SolverSays!Lowers, Solver!Shortest, SolverSays!Shortest,
      Solver!Lengths, SolverSays!Lengths
<1> QED
  BY <1>1, SMT DEF Solver!Endings, SolverSays!Endings, Solver!Lengths, SolverSays!Lengths

LEMMA SolverWorks ==
  ASSUME NEW id, Solver!Engine(id)
  PROVE  SolverSays!Engine(id)
<1>1. Solver!WorkerStart(id) = SolverSays!WorkerStart(id)
  BY Zenon
  DEF Solver!WorkerStart, SolverSays!WorkerStart, Solver!HasWorker,
      SolverSays!HasWorker, Solver!Post, SolverSays!Post, Solver!Failure,
      SolverSays!Failure, Solver!SearchableAt, SolverSays!SearchableAt,
      Solver!Replayed, SolverSays!Replayed, Solver!SolvedIn, SolverSays!SolvedIn,
      Solver!Extends, SolverSays!Extends, Solver!GamesAlong, SolverSays!GamesAlong,
      Solver!OnGoal, SolverSays!OnGoal, Solver!Moves, SolverSays!Moves, Solver!NewGame,
      SolverSays!NewGame, Solver!Played, SolverSays!Played, Solver!Steps,
      SolverSays!Steps, Solver!Beyond, SolverSays!Beyond, Solver!Cardinality,
      SolverSays!Cardinality, Solver!IsFiniteSet, SolverSays!IsFiniteSet
<1>2. Solver!WorkerFind(id) = SolverSays!WorkerFind(id)
  BY Zenon
  DEF Solver!WorkerFind, SolverSays!WorkerFind, Solver!HasWorker, SolverSays!HasWorker
<1>3. Solver!WorkerReport(id) = SolverSays!WorkerReport(id)
  BY Zenon
  DEF Solver!WorkerReport, SolverSays!WorkerReport, Solver!HasWorker,
      SolverSays!HasWorker, Solver!Lowers, SolverSays!Lowers, Solver!Sampled,
      SolverSays!Sampled, Solver!Lengths, SolverSays!Lengths, Solver!Post,
      SolverSays!Post, Solver!Update, SolverSays!Update, Solver!Shortest,
      SolverSays!Shortest, Solver!Fits, SolverSays!Fits
<1>4. Solver!Misreply(id) = SolverSays!Misreply(id)
  BY Zenon
  DEF Solver!Misreply, SolverSays!Misreply, Solver!HasWorker, SolverSays!HasWorker,
      Solver!Post, SolverSays!Post
<1>5. Solver!WorkerEnd(id) = SolverSays!WorkerEnd(id)
  BY SolverEnds, Zenon
  DEF Solver!WorkerEnd, SolverSays!WorkerEnd, Solver!HasWorker, SolverSays!HasWorker,
      Solver!Stops, SolverSays!Stops, Solver!Post, SolverSays!Post, Solver!Fits,
      SolverSays!Fits, Solver!Update, SolverSays!Update, Solver!Lengths,
      SolverSays!Lengths, Solver!FinalRoute, SolverSays!FinalRoute, Solver!Failure,
      SolverSays!Failure
<1>6. Solver!Answer(id) = SolverSays!Answer(id)
  BY SolverEnds, Zenon
  DEF Solver!Answer, SolverSays!Answer, Solver!HasWorker, SolverSays!HasWorker,
      Solver!Stops, SolverSays!Stops, Solver!Post, SolverSays!Post, Solver!Fits,
      SolverSays!Fits, Solver!Update, SolverSays!Update, Solver!Lengths,
      SolverSays!Lengths, Solver!FinalRoute, SolverSays!FinalRoute, Solver!Failure,
      SolverSays!Failure
<1> QED
  BY <1>1, <1>2, <1>3, <1>4, <1>5, <1>6, Zenon DEF Solver!Engine, SolverSays!Engine

LEMMA SolverHears ==
  ASSUME NEW id, NEW on,
         Solver!Deliver(id, on) \/ Solver!WorkerError(id) \/ Solver!Watchdog(id) \/ Solver!Engine(id)
  PROVE  \/ SolverSays!Deliver(id, on) \/ SolverSays!WorkerError(id)
         \/ SolverSays!Watchdog(id) \/ SolverSays!Engine(id)
<1>1. Solver!Deliver(id, on) = SolverSays!Deliver(id, on)
  BY Zenon
  DEF Solver!Deliver, SolverSays!Deliver, Solver!Receive, SolverSays!Receive,
      Solver!Left, SolverSays!Left, Solver!Ignores, SolverSays!Ignores,
      Solver!Completed, SolverSays!Completed, Solver!Decodes, SolverSays!Decodes,
      Solver!Verifies, SolverSays!Verifies, Solver!RouteAfter, SolverSays!RouteAfter,
      Solver!Agrees, SolverSays!Agrees, Solver!Active, SolverSays!Active,
      Solver!Released, SolverSays!Released, Solver!Lengths, SolverSays!Lengths,
      Solver!Solves, SolverSays!Solves, Solver!Busy, SolverSays!Busy, Solver!Replayed,
      SolverSays!Replayed, Solver!SolvedIn, SolverSays!SolvedIn, Solver!GamesAlong,
      SolverSays!GamesAlong, Solver!OnGoal, SolverSays!OnGoal, Solver!NewGame,
      SolverSays!NewGame, Solver!Played, SolverSays!Played, Solver!Moves,
      SolverSays!Moves, Solver!Steps, SolverSays!Steps, Solver!Beyond,
      SolverSays!Beyond, Solver!Cardinality, SolverSays!Cardinality,
      Solver!IsFiniteSet, SolverSays!IsFiniteSet
<1>2. Solver!WorkerError(id) = SolverSays!WorkerError(id)
  BY Zenon
  DEF Solver!WorkerError, SolverSays!WorkerError, Solver!Receive, SolverSays!Receive,
      Solver!Failure, SolverSays!Failure, Solver!Left, SolverSays!Left, Solver!Ignores,
      SolverSays!Ignores, Solver!Completed, SolverSays!Completed, Solver!Decodes,
      SolverSays!Decodes, Solver!Verifies, SolverSays!Verifies, Solver!RouteAfter,
      SolverSays!RouteAfter, Solver!Agrees, SolverSays!Agrees, Solver!Active,
      SolverSays!Active, Solver!Released, SolverSays!Released, Solver!Lengths,
      SolverSays!Lengths, Solver!Solves, SolverSays!Solves, Solver!Busy,
      SolverSays!Busy, Solver!Replayed, SolverSays!Replayed, Solver!SolvedIn,
      SolverSays!SolvedIn, Solver!GamesAlong, SolverSays!GamesAlong, Solver!OnGoal,
      SolverSays!OnGoal, Solver!NewGame, SolverSays!NewGame, Solver!Played,
      SolverSays!Played, Solver!Moves, SolverSays!Moves, Solver!Steps,
      SolverSays!Steps, Solver!Beyond, SolverSays!Beyond, Solver!Cardinality,
      SolverSays!Cardinality, Solver!IsFiniteSet, SolverSays!IsFiniteSet
<1>3. Solver!Watchdog(id) = SolverSays!Watchdog(id)
  BY Zenon
  DEF Solver!Watchdog, SolverSays!Watchdog, Solver!Active, SolverSays!Active,
      Solver!Completed, SolverSays!Completed, Solver!Left, SolverSays!Left,
      Solver!Busy, SolverSays!Busy, Solver!Released, SolverSays!Released
<1> QED
  BY <1>1, <1>2, <1>3, SolverWorks

LEMMA SolverStarts ==
  ASSUME Solver!ClientInit
  PROVE  SolverSays!ClientInit
  BY Zenon
  DEF Solver!ClientInit, SolverSays!ClientInit, Solver!Idle, SolverSays!Idle,
      Solver!NothingShown, SolverSays!NothingShown

HintSays == INSTANCE ClientProofs WITH
  state <- hState, held <- hHeld, jobs <- hJobs, shown <- hShown, tried <- hTried,
  Engines <- {"browser"}, Rogue <- {}, Asks <- {}

LEMMA HintAssumes == HintSays!ClientAssumption /\ HintSays!GameAssumption
  BY PageAssumption, GameAssumption, Zenon
  DEF HintSays!ClientAssumption, HintSays!GameAssumption, HintSays!Dirs, Dirs,
      HintSays!Legal, Legal, GameAssumption

LEMMA HintResets ==
  ASSUME Hint!ResetClient
  PROVE  HintSays!ResetClient
  BY Zenon
  DEF Hint!ResetClient, HintSays!ResetClient, Hint!Busy, HintSays!Busy, Hint!Released,
      HintSays!Released, Hint!Idle, HintSays!Idle, Hint!Left, HintSays!Left

LEMMA HintAsked ==
  ASSUME NEW on, NEW log, NEW mode, NEW engine,
         Hint!Solve(on, log, mode, engine)
  PROVE  HintSays!Solve(on, log, mode, engine)
  BY Zenon
  DEF Hint!Solve, HintSays!Solve, Hint!Running, HintSays!Running, Hint!NewJob,
      HintSays!NewJob, Hint!Busy, HintSays!Busy, Hint!Ways, HintSays!Ways,
      Hint!SearchableAt, HintSays!SearchableAt, Hint!Walked, HintSays!Walked,
      Hint!SolvedIn, HintSays!SolvedIn, Hint!Replayed, HintSays!Replayed, Hint!Extends,
      HintSays!Extends, Hint!Steps, HintSays!Steps, Hint!OnGoal, HintSays!OnGoal,
      Hint!GamesAlong, HintSays!GamesAlong, Hint!Moves, HintSays!Moves, Hint!Beyond,
      HintSays!Beyond, Hint!NewGame, HintSays!NewGame, Hint!Played, HintSays!Played,
      Hint!Cardinality, HintSays!Cardinality, Hint!IsFiniteSet, HintSays!IsFiniteSet

LEMMA HintEnds ==
  ASSUME NEW one, NEW stops
  PROVE  Hint!Endings(one, stops) = HintSays!Endings(one, stops)
<1>1. Hint!Lowers(one) = HintSays!Lowers(one) /\ Hint!Shortest(one) = HintSays!Shortest(one)
  BY Zenon DEF Hint!Lowers, HintSays!Lowers, Hint!Shortest, HintSays!Shortest, Hint!Lengths,
      HintSays!Lengths
<1> QED
  BY <1>1, SMT DEF Hint!Endings, HintSays!Endings, Hint!Lengths, HintSays!Lengths

LEMMA HintWorks ==
  ASSUME NEW id, Hint!Engine(id)
  PROVE  HintSays!Engine(id)
<1>1. Hint!WorkerStart(id) = HintSays!WorkerStart(id)
  BY Zenon
  DEF Hint!WorkerStart, HintSays!WorkerStart, Hint!HasWorker, HintSays!HasWorker,
      Hint!Post, HintSays!Post, Hint!Failure, HintSays!Failure, Hint!SearchableAt,
      HintSays!SearchableAt, Hint!Replayed, HintSays!Replayed, Hint!SolvedIn,
      HintSays!SolvedIn, Hint!Extends, HintSays!Extends, Hint!GamesAlong,
      HintSays!GamesAlong, Hint!OnGoal, HintSays!OnGoal, Hint!Moves, HintSays!Moves,
      Hint!NewGame, HintSays!NewGame, Hint!Played, HintSays!Played, Hint!Steps,
      HintSays!Steps, Hint!Beyond, HintSays!Beyond, Hint!Cardinality,
      HintSays!Cardinality, Hint!IsFiniteSet, HintSays!IsFiniteSet
<1>2. Hint!WorkerFind(id) = HintSays!WorkerFind(id)
  BY Zenon
  DEF Hint!WorkerFind, HintSays!WorkerFind, Hint!HasWorker, HintSays!HasWorker
<1>3. Hint!WorkerReport(id) = HintSays!WorkerReport(id)
  BY Zenon
  DEF Hint!WorkerReport, HintSays!WorkerReport, Hint!HasWorker, HintSays!HasWorker,
      Hint!Lowers, HintSays!Lowers, Hint!Sampled, HintSays!Sampled, Hint!Lengths,
      HintSays!Lengths, Hint!Post, HintSays!Post, Hint!Update, HintSays!Update,
      Hint!Shortest, HintSays!Shortest, Hint!Fits, HintSays!Fits
<1>4. Hint!Misreply(id) = HintSays!Misreply(id)
  BY Zenon
  DEF Hint!Misreply, HintSays!Misreply, Hint!HasWorker, HintSays!HasWorker, Hint!Post,
      HintSays!Post
<1>5. Hint!WorkerEnd(id) = HintSays!WorkerEnd(id)
  BY HintEnds, Zenon
  DEF Hint!WorkerEnd, HintSays!WorkerEnd, Hint!HasWorker, HintSays!HasWorker,
      Hint!Stops, HintSays!Stops, Hint!Post, HintSays!Post, Hint!Fits, HintSays!Fits,
      Hint!Update, HintSays!Update, Hint!Lengths, HintSays!Lengths, Hint!FinalRoute,
      HintSays!FinalRoute, Hint!Failure, HintSays!Failure
<1>6. Hint!Answer(id) = HintSays!Answer(id)
  BY HintEnds, Zenon
  DEF Hint!Answer, HintSays!Answer, Hint!HasWorker, HintSays!HasWorker, Hint!Stops,
      HintSays!Stops, Hint!Post, HintSays!Post, Hint!Fits, HintSays!Fits, Hint!Update,
      HintSays!Update, Hint!Lengths, HintSays!Lengths, Hint!FinalRoute,
      HintSays!FinalRoute, Hint!Failure, HintSays!Failure
<1> QED
  BY <1>1, <1>2, <1>3, <1>4, <1>5, <1>6, Zenon DEF Hint!Engine, HintSays!Engine

LEMMA HintHears ==
  ASSUME NEW id, NEW on,
         Hint!Deliver(id, on) \/ Hint!WorkerError(id) \/ Hint!Watchdog(id) \/ Hint!Engine(id)
  PROVE  \/ HintSays!Deliver(id, on) \/ HintSays!WorkerError(id)
         \/ HintSays!Watchdog(id) \/ HintSays!Engine(id)
<1>1. Hint!Deliver(id, on) = HintSays!Deliver(id, on)
  BY Zenon
  DEF Hint!Deliver, HintSays!Deliver, Hint!Receive, HintSays!Receive, Hint!Left,
      HintSays!Left, Hint!Ignores, HintSays!Ignores, Hint!Completed,
      HintSays!Completed, Hint!Decodes, HintSays!Decodes, Hint!Verifies,
      HintSays!Verifies, Hint!RouteAfter, HintSays!RouteAfter, Hint!Agrees,
      HintSays!Agrees, Hint!Active, HintSays!Active, Hint!Released, HintSays!Released,
      Hint!Lengths, HintSays!Lengths, Hint!Solves, HintSays!Solves, Hint!Busy,
      HintSays!Busy, Hint!Replayed, HintSays!Replayed, Hint!SolvedIn,
      HintSays!SolvedIn, Hint!GamesAlong, HintSays!GamesAlong, Hint!OnGoal,
      HintSays!OnGoal, Hint!NewGame, HintSays!NewGame, Hint!Played, HintSays!Played,
      Hint!Moves, HintSays!Moves, Hint!Steps, HintSays!Steps, Hint!Beyond,
      HintSays!Beyond, Hint!Cardinality, HintSays!Cardinality, Hint!IsFiniteSet,
      HintSays!IsFiniteSet
<1>2. Hint!WorkerError(id) = HintSays!WorkerError(id)
  BY Zenon
  DEF Hint!WorkerError, HintSays!WorkerError, Hint!Receive, HintSays!Receive,
      Hint!Failure, HintSays!Failure, Hint!Left, HintSays!Left, Hint!Ignores,
      HintSays!Ignores, Hint!Completed, HintSays!Completed, Hint!Decodes,
      HintSays!Decodes, Hint!Verifies, HintSays!Verifies, Hint!RouteAfter,
      HintSays!RouteAfter, Hint!Agrees, HintSays!Agrees, Hint!Active, HintSays!Active,
      Hint!Released, HintSays!Released, Hint!Lengths, HintSays!Lengths, Hint!Solves,
      HintSays!Solves, Hint!Busy, HintSays!Busy, Hint!Replayed, HintSays!Replayed,
      Hint!SolvedIn, HintSays!SolvedIn, Hint!GamesAlong, HintSays!GamesAlong,
      Hint!OnGoal, HintSays!OnGoal, Hint!NewGame, HintSays!NewGame, Hint!Played,
      HintSays!Played, Hint!Moves, HintSays!Moves, Hint!Steps, HintSays!Steps,
      Hint!Beyond, HintSays!Beyond, Hint!Cardinality, HintSays!Cardinality,
      Hint!IsFiniteSet, HintSays!IsFiniteSet
<1>3. Hint!Watchdog(id) = HintSays!Watchdog(id)
  BY Zenon
  DEF Hint!Watchdog, HintSays!Watchdog, Hint!Active, HintSays!Active, Hint!Completed,
      HintSays!Completed, Hint!Left, HintSays!Left, Hint!Busy, HintSays!Busy,
      Hint!Released, HintSays!Released
<1> QED
  BY <1>1, <1>2, <1>3, HintWorks

LEMMA HintStarts ==
  ASSUME Hint!ClientInit
  PROVE  HintSays!ClientInit
  BY Zenon
  DEF Hint!ClientInit, HintSays!ClientInit, Hint!Idle, HintSays!Idle,
      Hint!NothingShown, HintSays!NothingShown

-----------------------------------------------------------------------------
(* What the page's steps do to its solver..                                *)

SolverInv ==
  /\ SolverSays!SoundInv
  /\ Solver!Busy => sJobs[sState.id].board = board

LEMMA SolverPosed ==
  ASSUME NEW b, b = board
  PROVE  SolverInv = (SolverSays!SoundInv /\ SolverSays!PosedOn(b))
  BY DEF SolverInv, SolverSays!PosedOn, Solver!Busy, SolverSays!Busy

LEMMA SolverLater ==
  ASSUME NEW b, b = board', SolverSays!SoundInv', SolverSays!PosedOn(b)'
  PROVE  SolverInv'
  BY DEF SolverInv, SolverSays!PosedOn, Solver!Busy, SolverSays!Busy

LEMMA SolverStep ==
  ASSUME SolverSays!SoundInv, SolverSays!AnyNext \/ UNCHANGED sVars
  PROVE  SolverSays!SoundInv'
<1>1. [SolverSays!AnyNext]_(SolverSays!clientVars)
  BY DEF sVars, SolverSays!clientVars
<1> QED
  BY <1>1, SolverSays!SoundStep, SolverAssumes

LEMMA SolverBegins ==
  ASSUME Solver!ClientInit
  PROVE  SolverInv /\ ~Solver!Busy /\ sState.route = {}
<1>1. SolverSays!SoundInv
  BY SolverStarts, SolverSays!SoundInitially, SolverAssumes
<1> QED
  BY <1>1 DEF SolverInv, Solver!ClientInit, Solver!Idle, Solver!Busy

LEMMA SolverGone ==
  ASSUME SolverInv, Solver!ResetClient
  PROVE  SolverInv' /\ ~Solver!Busy' /\ sState'.route = {}
<1>1. SolverSays!AnyNext
  BY SolverResets DEF SolverSays!AnyNext
<1>2. SolverSays!SoundInv'
  BY <1>1, SolverStep DEF SolverInv
<1> QED
  BY <1>2 DEF SolverInv, Solver!ResetClient, Solver!Idle, Solver!Busy

LEMMA SolverSame ==
  ASSUME SolverInv, UNCHANGED sVars, ~Solver!Busy \/ UNCHANGED board
  PROVE  SolverInv' /\ Solver!Busy' = Solver!Busy
<1>1. SolverSays!SoundInv'
  BY SolverStep DEF SolverInv
<1> QED
  BY <1>1 DEF SolverInv, Solver!Busy, sVars

LEMMA SolverIsAsked ==
  ASSUME SolverInv, UNCHANGED board, NEW log \in Seq(Dirs), NEW mode,
         Solver!Solve(board, log, mode, "browser")
  PROVE  SolverInv' /\ sState'.prefix = log /\ sState'.route = {}
<1>1. PICK b : b = board
  OBVIOUS
<1>2. SolverSays!Solve(b, log, mode, "browser") /\ log \in Seq(SolverSays!Dirs)
  BY <1>1, SolverAsked DEF Dirs, SolverSays!Dirs
<1>3. SolverSays!HonestInv
  BY DEF SolverInv, SolverSays!SoundInv
<1>4. /\ SolverSays!AnyNext /\ SolverSays!PosedOn(b)'
      /\ sState'.prefix = log /\ sState'.route = {}
  BY <1>2, <1>3, SolverSays!AskedHears, SolverAssumes
<1>5. SolverSays!SoundInv'
  BY <1>4, SolverStep DEF SolverInv
<1> QED
  BY <1>1, <1>4, <1>5, SolverLater

LEMMA SolverIsHeard ==
  ASSUME SolverInv, UNCHANGED board, NEW id \in Solver!Ids,
         Solver!Deliver(id, board) \/ Solver!WorkerError(id) \/ Solver!Watchdog(id) \/ Solver!Engine(id)
  PROVE  /\ SolverInv'
         /\ ~Solver!Busy => sState' = sState
         /\ Solver!Busy => /\ sState'.kind \in {sState.kind, "completed"}
                        /\ sState'.prefix = sState.prefix
         /\ sShown' # sShown =>
              /\ Solver!Busy
              /\ sShown'.type = "done" => /\ sState'.kind = "completed"
                                           /\ sState'.route = sShown'.route
              /\ sShown'.type = "done" /\ sShown'.proof = "optimal" =>
                   sShown'.best = SolverSays!Shortest([ways |-> SolverSays!Ways(board, sState.prefix)])
<1>1. PICK b : b = board
  OBVIOUS
<1>2. SolverSays!SoundInv /\ SolverSays!PosedOn(b)
  BY <1>1, SolverPosed
<1>3. \/ SolverSays!Deliver(id, b) \/ SolverSays!WorkerError(id)
      \/ SolverSays!Watchdog(id) \/ SolverSays!Engine(id)
  BY <1>1, SolverHears
<1>4. id \in SolverSays!Ids /\ Solver!Busy = SolverSays!Busy
  BY DEF Solver!Ids, SolverSays!Ids, Solver!Busy, SolverSays!Busy
<1>5. /\ SolverSays!AnyNext /\ SolverSays!PosedOn(b)'
      /\ ~SolverSays!Busy => sState' = sState
      /\ SolverSays!Busy => /\ sState'.kind \in {sState.kind, "completed"}
                     /\ sState'.prefix = sState.prefix
      /\ sShown' # sShown =>
           /\ SolverSays!Busy
           /\ sShown'.type = "done" => /\ sState'.kind = "completed"
                                        /\ sState'.route = sShown'.route
           /\ sShown'.type = "done" /\ sShown'.proof = "optimal" =>
                sShown'.best = SolverSays!Shortest([ways |-> SolverSays!Ways(b, sState.prefix)])
  BY <1>2, <1>3, <1>4, SolverSays!SearchHears, SolverAssumes
<1>6. SolverInv'
  BY <1>1, <1>2, <1>5, SolverStep, SolverLater
<1> QED
  BY <1>1, <1>4, <1>5, <1>6

LEMMA SolverIsQuiet ==
  ASSUME SolverInv, UNCHANGED board, Solver!Cancel \/ Solver!DropRoute
  PROVE  SolverInv'
<1>1. PICK b : b = board
  OBVIOUS
<1>2. SolverSays!HonestInv /\ SolverSays!SoundInv /\ SolverSays!PosedOn(b)
  BY <1>1, SolverPosed DEF SolverSays!SoundInv
<1>3. SolverSays!Cancel \/ SolverSays!DropRoute
  BY SolverQuiet
<1>4. SolverSays!PosedOn(b)'
  BY <1>2, <1>3, SolverSays!QuietHears, SolverAssumes
<1>5. SolverSays!AnyNext
  BY <1>3 DEF SolverSays!AnyNext
<1> QED
  BY <1>1, <1>2, <1>4, <1>5, SolverStep, SolverLater

(* A route on hand is one of a search that runs or has ended.              *)
LEMMA SolverRoutes ==
  ASSUME SolverInv
  PROVE  /\ sState.route # {} => Solver!Busy \/ sState.kind = "completed"
         /\ sState.route \subseteq Seq(Dirs) /\ sState.prefix \in Seq(Dirs)
  BY DEF SolverInv, SolverSays!SoundInv, SolverSays!RoutesOnHand, SolverSays!Busy, Solver!Busy,
         SolverSays!Dirs, Dirs

(* Dropping the route of an ended search leaves the rest.                  *)
LEMMA SolverDrops ==
  ASSUME SolverInv, Solver!DropRoute
  PROVE  /\ Solver!Busy' = Solver!Busy /\ sState'.prefix = sState.prefix
         /\ sState'.kind = "completed" => sState'.route = {}
<1>1. sState = [kind |-> sState.kind, id |-> sState.id, prefix |-> sState.prefix,
                route |-> sState.route]
  BY DEF SolverInv, SolverSays!SoundInv, SolverSays!HonestInv, SolverSays!RouteInv,
         SolverSays!ClientInv, SolverSays!Shaped
<1> QED
  BY <1>1 DEF Solver!DropRoute, Solver!Busy

(* Cancelling leaves its prefix to a search that runs on.                  *)
LEMMA SolverCancels ==
  ASSUME Solver!Cancel
  PROVE  sState' = sState \/ (~Solver!Busy' /\ sState'.route = {})
  BY DEF Solver!Cancel, Solver!ResetClient, Solver!Idle, Solver!clientVars, Solver!Busy

-----------------------------------------------------------------------------
(* What the page's steps do to its hint..                                  *)

HintInv ==
  /\ HintSays!SoundInv
  /\ Hint!Busy => hJobs[hState.id].board = board

LEMMA HintPosed ==
  ASSUME NEW b, b = board
  PROVE  HintInv = (HintSays!SoundInv /\ HintSays!PosedOn(b))
  BY DEF HintInv, HintSays!PosedOn, Hint!Busy, HintSays!Busy

LEMMA HintLater ==
  ASSUME NEW b, b = board', HintSays!SoundInv', HintSays!PosedOn(b)'
  PROVE  HintInv'
  BY DEF HintInv, HintSays!PosedOn, Hint!Busy, HintSays!Busy

LEMMA HintStep ==
  ASSUME HintSays!SoundInv, HintSays!AnyNext \/ UNCHANGED hVars
  PROVE  HintSays!SoundInv'
<1>1. [HintSays!AnyNext]_(HintSays!clientVars)
  BY DEF hVars, HintSays!clientVars
<1> QED
  BY <1>1, HintSays!SoundStep, HintAssumes

LEMMA HintBegins ==
  ASSUME Hint!ClientInit
  PROVE  HintInv /\ ~Hint!Busy /\ hState.route = {}
<1>1. HintSays!SoundInv
  BY HintStarts, HintSays!SoundInitially, HintAssumes
<1> QED
  BY <1>1 DEF HintInv, Hint!ClientInit, Hint!Idle, Hint!Busy

LEMMA HintGone ==
  ASSUME HintInv, Hint!ResetClient
  PROVE  HintInv' /\ ~Hint!Busy' /\ hState'.route = {}
<1>1. HintSays!AnyNext
  BY HintResets DEF HintSays!AnyNext
<1>2. HintSays!SoundInv'
  BY <1>1, HintStep DEF HintInv
<1> QED
  BY <1>2 DEF HintInv, Hint!ResetClient, Hint!Idle, Hint!Busy

LEMMA HintSame ==
  ASSUME HintInv, UNCHANGED hVars, ~Hint!Busy \/ UNCHANGED board
  PROVE  HintInv' /\ Hint!Busy' = Hint!Busy
<1>1. HintSays!SoundInv'
  BY HintStep DEF HintInv
<1> QED
  BY <1>1 DEF HintInv, Hint!Busy, hVars

LEMMA HintIsAsked ==
  ASSUME HintInv, UNCHANGED board, NEW log \in Seq(Dirs), NEW mode,
         Hint!Solve(board, log, mode, "browser")
  PROVE  HintInv' /\ hState'.prefix = log /\ hState'.route = {}
<1>1. PICK b : b = board
  OBVIOUS
<1>2. HintSays!Solve(b, log, mode, "browser") /\ log \in Seq(HintSays!Dirs)
  BY <1>1, HintAsked DEF Dirs, HintSays!Dirs
<1>3. HintSays!HonestInv
  BY DEF HintInv, HintSays!SoundInv
<1>4. /\ HintSays!AnyNext /\ HintSays!PosedOn(b)'
      /\ hState'.prefix = log /\ hState'.route = {}
  BY <1>2, <1>3, HintSays!AskedHears, HintAssumes
<1>5. HintSays!SoundInv'
  BY <1>4, HintStep DEF HintInv
<1> QED
  BY <1>1, <1>4, <1>5, HintLater

LEMMA HintIsHeard ==
  ASSUME HintInv, UNCHANGED board, NEW id \in Hint!Ids,
         Hint!Deliver(id, board) \/ Hint!WorkerError(id) \/ Hint!Watchdog(id) \/ Hint!Engine(id)
  PROVE  /\ HintInv'
         /\ ~Hint!Busy => hState' = hState
         /\ Hint!Busy => /\ hState'.kind \in {hState.kind, "completed"}
                        /\ hState'.prefix = hState.prefix
         /\ hShown' # hShown =>
              /\ Hint!Busy
              /\ hShown'.type = "done" => /\ hState'.kind = "completed"
                                           /\ hState'.route = hShown'.route
              /\ hShown'.type = "done" /\ hShown'.proof = "optimal" =>
                   hShown'.best = HintSays!Shortest([ways |-> HintSays!Ways(board, hState.prefix)])
<1>1. PICK b : b = board
  OBVIOUS
<1>2. HintSays!SoundInv /\ HintSays!PosedOn(b)
  BY <1>1, HintPosed
<1>3. \/ HintSays!Deliver(id, b) \/ HintSays!WorkerError(id)
      \/ HintSays!Watchdog(id) \/ HintSays!Engine(id)
  BY <1>1, HintHears
<1>4. id \in HintSays!Ids /\ Hint!Busy = HintSays!Busy
  BY DEF Hint!Ids, HintSays!Ids, Hint!Busy, HintSays!Busy
<1>5. /\ HintSays!AnyNext /\ HintSays!PosedOn(b)'
      /\ ~HintSays!Busy => hState' = hState
      /\ HintSays!Busy => /\ hState'.kind \in {hState.kind, "completed"}
                     /\ hState'.prefix = hState.prefix
      /\ hShown' # hShown =>
           /\ HintSays!Busy
           /\ hShown'.type = "done" => /\ hState'.kind = "completed"
                                        /\ hState'.route = hShown'.route
           /\ hShown'.type = "done" /\ hShown'.proof = "optimal" =>
                hShown'.best = HintSays!Shortest([ways |-> HintSays!Ways(b, hState.prefix)])
  BY <1>2, <1>3, <1>4, HintSays!SearchHears, HintAssumes
<1>6. HintInv'
  BY <1>1, <1>2, <1>5, HintStep, HintLater
<1> QED
  BY <1>1, <1>4, <1>5, <1>6

-----------------------------------------------------------------------------
(* Routes that play, and moves that are taken back.                        *)

LEMMA RouteStarts ==
  ASSUME NEW from \in Seq(Dirs), NEW route \in Seq(Dirs)
  PROVE  from \o SubSeq(route, 1, 0) = from
<1>1. SubSeq(route, 1, 0) = << >>
  OBVIOUS
<1> QED
  BY <1>1, ConcatEmptySeq

LEMMA RouteGrows ==
  ASSUME NEW from \in Seq(Dirs), NEW route \in Seq(Dirs), NEW i \in Nat, i < Len(route)
  PROVE  /\ route[i + 1] \in Dirs
         /\ Append(from \o SubSeq(route, 1, i), route[i + 1]) = from \o SubSeq(route, 1, i + 1)
<1>1. Len(route) \in Nat /\ Len(from) \in Nat /\ i + 1 \in 1 .. Len(route)
  BY LenProperties
<1>2. route[i + 1] \in Dirs
  BY <1>1, ElementOfSeq
<1>3. PICK p, q : p = SubSeq(route, 1, i) /\ q = SubSeq(route, 1, i + 1)
  OBVIOUS
<1>4. /\ p \in Seq(Dirs) /\ Len(p) = i /\ \A k \in 1 .. i : p[k] = route[k]
      /\ q \in Seq(Dirs) /\ Len(q) = i + 1 /\ \A k \in 1 .. i + 1 : q[k] = route[k]
  BY <1>1, <1>3, SubSeqProperties
<1>5. PICK x, y, z : x = from \o p /\ y = Append(x, route[i + 1]) /\ z = from \o q
  OBVIOUS
<1>6. /\ x \in Seq(Dirs) /\ Len(x) = Len(from) + i
      /\ \A k \in 1 .. Len(x) : x[k] = IF k <= Len(from) THEN from[k] ELSE p[k - Len(from)]
      /\ z \in Seq(Dirs) /\ Len(z) = Len(from) + (i + 1)
      /\ \A k \in 1 .. Len(z) : z[k] = IF k <= Len(from) THEN from[k] ELSE q[k - Len(from)]
  BY <1>4, <1>5, ConcatProperties
<1>7. /\ y \in Seq(Dirs) /\ Len(y) = Len(x) + 1
      /\ \A k \in 1 .. Len(x) : y[k] = x[k]
      /\ y[Len(x) + 1] = route[i + 1]
  BY <1>2, <1>5, <1>6, AppendProperties
<1>8. ASSUME NEW k \in 1 .. Len(y) PROVE y[k] = z[k]
  <2>1. CASE k \in 1 .. Len(x)
    <3>1. CASE k <= Len(from)
      BY <1>1, <1>6, <1>7, <2>1, <3>1
    <3>2. CASE ~(k <= Len(from))
      <4>1. k - Len(from) \in 1 .. i /\ k - Len(from) \in 1 .. i + 1
        BY <1>1, <1>6, <2>1, <3>2
      <4>2. p[k - Len(from)] = q[k - Len(from)]
        BY <1>4, <4>1
      <4> QED
        BY <1>1, <1>6, <1>7, <2>1, <3>2, <4>2
    <3> QED
      BY <3>1, <3>2
  <2>2. CASE k = Len(x) + 1
    <3>1. k - Len(from) = i + 1 /\ ~(k <= Len(from)) /\ k \in 1 .. Len(z)
      BY <1>1, <1>6, <2>2
    <3>2. q[i + 1] = route[i + 1] /\ z[k] = q[k - Len(from)]
      BY <1>1, <1>4, <1>6, <3>1
    <3> QED
      BY <1>7, <2>2, <3>1, <3>2
  <2> QED
    BY <1>1, <1>6, <1>7, <2>1, <2>2
<1>9. Len(y) = Len(z)
  BY <1>1, <1>6, <1>7
<1>10. y = z
  BY <1>6, <1>7, <1>8, <1>9, SeqEqual
<1> QED
  BY <1>2, <1>3, <1>5, <1>10

(* The games a number of undos leads to, one after the other.              *)
UndoneBy(g, f, n) ==
  f = [k \in 0 .. n |-> IF k = 0 THEN g ELSE Undone(f[k - 1])]

LEMMA UndoneExists ==
  ASSUME NEW g, NEW n \in Nat
  PROVE  \E f : UndoneBy(g, f, n)
<1> DEFINE T == {k \in Nat : ~ \E f : UndoneBy(g, f, k)}
<1> SUFFICES ASSUME T # {} PROVE FALSE
  OBVIOUS
<1> HIDE DEF T
<1>1. PICK m \in T : \A k \in T : m <= k
  BY LeastNumber DEF T
<1>m. m \in Nat
  BY DEF T
<1>2. CASE m = 0
  <2>1. UndoneBy(g, [k \in 0 .. 0 |-> g], 0)
    BY DEF UndoneBy
  <2> QED
    BY <1>1, <1>2, <2>1 DEF T
<1>3. CASE m # 0
  <2>1. m - 1 \in Nat /\ m - 1 \notin T
    BY <1>1, <1>m, <1>3
  <2>2. PICK f : UndoneBy(g, f, m - 1)
    BY <2>1 DEF T
  <2> DEFINE h == [k \in 0 .. m |-> IF k = 0 THEN g ELSE Undone(f[k - 1])]
  <2>3. \A k \in 0 .. m - 1 : h[k] = f[k]
    <3> SUFFICES ASSUME NEW k \in 0 .. m - 1 PROVE h[k] = f[k]
      OBVIOUS
    <3>1. k \in 0 .. m
      BY <1>m
    <3> QED
      BY <2>2, <3>1 DEF UndoneBy
  <2>4. \A k \in 0 .. m : k # 0 => f[k - 1] = h[k - 1]
    <3> HIDE DEF h
    <3> SUFFICES ASSUME NEW k \in 0 .. m, k # 0 PROVE f[k - 1] = h[k - 1]
      OBVIOUS
    <3>1. k - 1 \in 0 .. m - 1
      BY <1>m
    <3> QED
      BY <2>3, <3>1
  <2>5. h = [k \in 0 .. m |-> IF k = 0 THEN g ELSE Undone(h[k - 1])]
    BY <2>4
  <2>6. UndoneBy(g, h, m)
    BY <2>5 DEF UndoneBy
  <2> QED
    BY <1>1, <2>6 DEF T
<1> QED
  BY <1>2, <1>3

(* A game whose route replays to it: GInv of one game.                     *)
Replays(b, g) ==
  /\ Proper(b, g) /\ g.actions \in Seq(Dirs)
  /\ Replayed(b, g.actions) = {g}

LEMMA GameReplays ==
  ASSUME GInv
  PROVE  board \in Boards /\ Replays(board, game)
BY ReplayKeeps DEF GInv, GameIsReplay, Replays

LEMMA ReplaysGame ==
  ASSUME board' \in Boards, Replays(board', game')
  PROVE  GInv'
BY DEF GInv, GameIsReplay, Replays, Proper

(* As many undos as the game has moves all lead to replays.                *)
LEMMA UndoneRunReplays ==
  ASSUME NEW b \in Boards, NEW g, Replays(b, g), NEW n \in Nat, n <= Moves(g),
         NEW f, UndoneBy(g, f, n)
  PROVE  Replays(b, f[n])
<1> DEFINE Good(k) == Replays(b, f[k]) /\ Moves(f[k]) = Moves(g) - k
           T == {k \in 0 .. n : ~Good(k)}
<1>1. Moves(g) \in Nat
  BY LenProperties DEF Replays, Proper, Moves
<1> SUFFICES ASSUME T # {} PROVE FALSE
  BY DEF T
<1> HIDE DEF T, Good
<1>2. PICK m \in T : \A k \in T : m <= k
  <2>1. T \in SUBSET Nat
    BY DEF T
  <2> QED
    BY <2>1, LeastNumber
<1>3. m \in 0 .. n /\ ~Good(m)
  BY DEF T
<1>4. CASE m = 0
  <2>1. f[0] = g
    BY DEF UndoneBy
  <2> QED
    BY <1>1, <1>3, <1>4, <2>1 DEF Good
<1>5. CASE m # 0
  <2>1. m - 1 \in 0 .. n /\ ~(m <= m - 1) /\ m - 1 < n /\ m \in 0 .. n
    BY <1>3, <1>5
  <2>2. Good(m - 1)
    BY <1>2, <2>1 DEF T
  <2>3. PICK h : h = f[m - 1]
    OBVIOUS
  <2>4. f[m] = Undone(h)
    BY <1>5, <2>1, <2>3 DEF UndoneBy
  <2>5. Replays(b, h) /\ Moves(h) = Moves(g) - (m - 1)
    BY <2>2, <2>3 DEF Good
  <2>6. h.history # << >>
    <3>1. Moves(h) # 0
      BY <1>1, <2>1, <2>5
    <3> QED
      BY <3>1, EmptySeq DEF Moves
  <2>7. /\ Proper(b, Undone(h)) /\ Undone(h).actions \in Seq(Dirs)
        /\ Replayed(b, Undone(h).actions) = {Undone(h)}
        /\ Moves(Undone(h)) = Moves(h) - 1
    BY <2>5, <2>6, UndoneReplays DEF Replays
  <2>8. Moves(f[m]) = Moves(g) - m
    <3>1. PICK x : x = Moves(Undone(h))
      OBVIOUS
    <3>2. x = (Moves(g) - (m - 1)) - 1
      BY <2>5, <2>7, <3>1
    <3> QED
      BY <1>1, <1>3, <2>4, <3>1, <3>2
  <2> QED
    BY <1>3, <2>4, <2>7, <2>8 DEF Good, Replays
<1> QED
  BY <1>4, <1>5

-----------------------------------------------------------------------------
(* The page.  While no two answers got in each other's way, a search runs  *)
(* only where nothing plays, and on the game as it stands.                 *)

PlaybackTyped ==
  /\ playback = [kind |-> playback.kind, route |-> playback.route,
                 index |-> playback.index, from |-> playback.from]
  /\ playback.route \in Seq(Dirs) /\ playback.from \in Seq(Dirs)
  /\ playback.index \in 0 .. Len(playback.route)

(* A search from the start has no prefix.                                  *)
StartKnown == Solver!Busy /\ fromStart => sState.prefix = << >>

SearchesFit ==
  /\ Solver!Busy => ~PlaybackActive /\ game.actions = sState.prefix
  /\ Hint!Busy => ~PlaybackActive /\ game.actions = hState.prefix

Fitting == ~crossed => SearchesFit /\ KeptRouteFits /\ PlaysOnRoute

PageInv ==
  /\ GInv /\ SolverInv /\ HintInv
  /\ PlaybackTyped /\ StartKnown /\ Fitting /\ CertificatesTrue

(* What every step keeps that records no optimum.                          *)
LEMMA CertifiedSame ==
  ASSUME CertificatesTrue, UNCHANGED certified
  PROVE  CertificatesTrue'
BY DEF CertificatesTrue

LEMMA NewPlayback ==
  ASSUME NEW route \in Seq(Dirs), NEW from \in Seq(Dirs),
         playback' = Playing(route, from) \/ (playback' = Still)
  PROVE  PlaybackTyped'
<1>1. CASE playback' = Playing(route, from)
  <2>1. 0 \in 0 .. Len(route)
    BY LenProperties
  <2> QED
    BY <1>1, <2>1 DEF Playing, PlaybackTyped
<1>2. CASE playback' = Still
  <2>1. << >> \in Seq(Dirs) /\ 0 \in 0 .. Len(<< >>)
    BY EmptySeq
  <2> QED
    BY <1>2, <2>1 DEF Still, PlaybackTyped
<1> QED
  BY <1>1, <1>2

(* A page with no search under way and no route on hand, which plays       *)
(* nothing or a route from where the game stands.                          *)
Fresh ==
  /\ ~Solver!Busy' /\ ~Hint!Busy' /\ sState'.route = {}
  /\ \/ playback' = Still
     \/ \E r \in Seq(Dirs) : playback' = Playing(r, game'.actions)

LEMMA FreshKeeps ==
  ASSUME CertificatesTrue, GInv', SolverInv', HintInv', Fresh, UNCHANGED certified
  PROVE  PageInv'
<1>1. game'.actions \in Seq(Dirs)
  BY DEF GInv
<1>2. PlaybackTyped' /\ PlaysOnRoute'
  <2>1. CASE playback' = Still
    BY <1>1, <2>1, NewPlayback DEF PlaysOnRoute, PlaybackActive, Still
  <2>2. ASSUME NEW r \in Seq(Dirs), playback' = Playing(r, game'.actions)
        PROVE  PlaybackTyped' /\ PlaysOnRoute'
    <3>1. game'.actions \o SubSeq(r, 1, 0) = game'.actions
      BY <1>1, RouteStarts
    <3>2. /\ playback'.route = r /\ playback'.from = game'.actions
          /\ playback'.index = 0
      BY <2>2 DEF Playing
    <3> QED
      BY <1>1, <2>2, <3>1, <3>2, NewPlayback DEF PlaysOnRoute
  <2> QED
    BY <2>1, <2>2 DEF Fresh
<1>3. CertificatesTrue'
  BY CertifiedSame
<1>4. SearchesFit' /\ KeptRouteFits' /\ StartKnown'
  BY DEF Fresh, SearchesFit, KeptRouteFits, StartKnown
<1> QED
  BY <1>2, <1>3, <1>4 DEF PageInv, Fitting

(* A position that moves on takes the answers about the earlier one along. *)
LEMMA ResetFresh ==
  ASSUME PageInv, GInv', Solver!ResetClient, Hint!ResetClient, UNCHANGED certified,
         \/ playback' = Still
         \/ \E r \in Seq(Dirs) : playback' = Playing(r, game'.actions)
  PROVE  PageInv'
<1>1. SolverInv' /\ ~Solver!Busy' /\ sState'.route = {}
  BY SolverGone DEF PageInv
<1>2. HintInv' /\ ~Hint!Busy'
  BY HintGone DEF PageInv
<1> QED
  BY <1>1, <1>2, FreshKeeps DEF PageInv, Fresh

(* Where no answer stands, nothing need be taken along.                    *)
LEMMA NoneStands ==
  ASSUME PageInv, GInv', ~AnswersStand, UNCHANGED <<sVars, hVars, certified>>,
         \/ playback' = playback
         \/ \E r \in Seq(Dirs) : playback' = Playing(r, game'.actions)
  PROVE  PageInv'
<1>1. ~Solver!Busy /\ ~Hint!Busy /\ sState.route = {} /\ ~PlaybackActive
  BY DEF AnswersStand
<1>2. SolverInv' /\ ~Solver!Busy' /\ sState'.route = {}
  <2>1. UNCHANGED sVars
    OBVIOUS
  <2> QED
    BY <1>1, <2>1, SolverSame DEF PageInv, sVars
<1>3. HintInv' /\ ~Hint!Busy'
  <2>1. UNCHANGED hVars
    OBVIOUS
  <2> QED
    BY <1>1, <2>1, HintSame DEF PageInv
<1>4. CASE \E r \in Seq(Dirs) : playback' = Playing(r, game'.actions)
  BY <1>2, <1>3, <1>4, FreshKeeps DEF PageInv, Fresh
<1>5. CASE playback' = playback
  <2>1. PlaybackTyped' /\ PlaysOnRoute'
    BY <1>1, <1>5 DEF PageInv, PlaybackTyped, PlaysOnRoute, PlaybackActive
  <2>2. CertificatesTrue'
    BY CertifiedSame DEF PageInv
  <2>3. SearchesFit' /\ KeptRouteFits' /\ StartKnown'
    BY <1>2, <1>3 DEF SearchesFit, KeptRouteFits, StartKnown
  <2> QED
    BY <1>2, <1>3, <2>1, <2>2, <2>3 DEF PageInv, Fitting
<1> QED
  BY <1>4, <1>5

-----------------------------------------------------------------------------
(* What the user does.                                                     *)

LEMMA MoveKeeps ==
  ASSUME PageInv, NEW d \in Dirs, Move(d)
  PROVE  PageInv'
<1>1. GInv'
  <2>1. [GameNext]_gameVars
    BY DEF Move, GameNext
  <2> QED
    BY <2>1, SessionStepKeeps DEF PageInv
<1>2. CASE AnswersStand
  BY <1>1, <1>2, ResetFresh DEF Move, InvalidateIfStanding, Invalidate
<1>3. CASE ~AnswersStand
  BY <1>1, <1>3, NoneStands DEF Move, InvalidateIfStanding
<1> QED
  BY <1>2, <1>3

LEMMA UndoRunKeeps == PageInv /\ UndoSeveral => GInv'
<1> SUFFICES ASSUME PageInv, UndoSeveral PROVE GInv'
  OBVIOUS
<1> DEFINE undone[n \in 0 .. UndoRun] == IF n = 0 THEN game ELSE Undone(undone[n - 1])
<1>1. UndoRun \in Nat /\ \E f : UndoneBy(game, f, UndoRun)
  BY PageAssumption, UndoneExists
<1>2. UndoneBy(game, undone, UndoRun)
  BY <1>1 DEF UndoneBy
<1>3. game' = undone[UndoRun] /\ board' = board /\ Moves(game) >= UndoRun
  BY DEF UndoSeveral
<1> HIDE DEF undone
<1>4. board \in Boards /\ Replays(board, game)
  BY GameReplays DEF PageInv
<1>5. UndoRun <= Moves(game)
  <2>1. Moves(game) \in Nat
    BY <1>4, LenProperties DEF Replays, Proper, Moves
  <2> QED
    BY <1>1, <1>3, <2>1
<1>6. Replays(board, undone[UndoRun])
  BY <1>1, <1>2, <1>4, <1>5, UndoneRunReplays
<1> QED
  BY <1>3, <1>4, <1>6, ReplaysGame

LEMMA TakeBackKeeps ==
  ASSUME PageInv, UndoClick \/ UndoSeveral \/ ResetClick \/ LoadRoute \/ Load
  PROVE  PageInv'
<1>1. GInv'
  <2>1. CASE UndoClick \/ ResetClick \/ LoadRoute
    <3>1. GameNext
      BY <2>1 DEF UndoClick, ResetClick, LoadRoute, GameNext
    <3> QED
      BY <3>1, SessionStepKeeps DEF PageInv
  <2>2. CASE UndoSeveral
    BY <2>2, UndoRunKeeps
  <2>3. CASE Load
    <3>1. PICK b : b = board'
      OBVIOUS
    <3>2. b \in Boards /\ (game' = NewGame(b) \/ \E r \in Routes : game' \in Replayed(b, r))
      BY <2>3, <3>1 DEF Load
    <3>3. CASE game' = NewGame(b)
      BY <3>1, <3>2, <3>3, NewGameHolds
    <3>4. ASSUME NEW r \in Routes, game' \in Replayed(b, r)
          PROVE  GInv'
      <4>1. r \in Seq(Dirs)
        BY GameAssumption
      <4>2. Proper(b, game') /\ game'.actions = r /\ Replayed(b, r) = {game'}
        BY <3>2, <3>4, <4>1, ReplayKeeps
      <4> QED
        BY <3>1, <3>2, <4>1, <4>2, ReplaysGame DEF Replays
    <3> QED
      BY <3>2, <3>3, <3>4
  <2> QED
    BY <2>1, <2>2, <2>3
<1>2. Invalidate /\ UNCHANGED certified
  BY DEF UndoClick, UndoSeveral, ResetClick, LoadRoute, Load
<1> QED
  BY <1>1, <1>2, ResetFresh DEF Invalidate

LEMMA WalkKeeps ==
  ASSUME PageInv, Walk
  PROVE  PageInv'
<1>1. GInv'
  BY DEF Walk, gameVars, PageInv, GInv, GameIsReplay
<1>2. \E r \in Seq(Dirs) : playback' = Playing(r, game'.actions)
  <2>1. PICK d \in Dirs : playback' = Playing(<<d>>, game.actions)
    BY DEF Walk
  <2>2. <<d>> \in Seq(Dirs) /\ game' = game
    BY DEF Walk, gameVars
  <2> QED
    BY <2>1, <2>2
<1>3. CASE AnswersStand
  BY <1>1, <1>2, <1>3, ResetFresh DEF Walk
<1>4. CASE ~AnswersStand
  BY <1>1, <1>2, <1>4, NoneStands DEF Walk
<1> QED
  BY <1>3, <1>4

LEMMA ReplayKeepsPage ==
  ASSUME PageInv, ReplayBest \/ PlayShelf
  PROVE  PageInv'
<1>1. board' \in Boards /\ game' = NewGame(board')
  BY DEF ReplayBest, PlayShelf, Reset, PageInv, GInv
<1>2. GInv'
  <2>1. PICK b : b = board'
    OBVIOUS
  <2> QED
    BY <1>1, <2>1, NewGameHolds
<1>3. game'.actions = << >>
  BY <1>1 DEF NewGame
<1>4. \E r \in Seq(Dirs) : playback' = Playing(r, game'.actions)
  <2>1. PICK r \in Routes : playback' = Playing(r, << >>)
    BY DEF ReplayBest, PlayShelf
  <2> QED
    BY <1>3, <2>1, GameAssumption
<1> QED
  BY <1>2, <1>4, ResetFresh DEF ReplayBest, PlayShelf

(* The game and its board stand, and so does what is proved of them.       *)
LEMMA GameSame == GInv /\ UNCHANGED gameVars => GInv'
BY DEF GInv, GameIsReplay, gameVars

LEMMA SolveKeeps ==
  ASSUME PageInv, SolveClick
  PROVE  PageInv'
<1>1. GInv' /\ CertificatesTrue' /\ UNCHANGED board
  BY GameSame, CertifiedSame DEF SolveClick, PageInv, gameVars
<1>2. game.actions \in Seq(Dirs) /\ game' = game
  BY DEF SolveClick, gameVars, PageInv, GInv
<1>3. PICK m \in Modes : Solver!Solve(board, game.actions, m, "browser")
  BY DEF SolveClick
<1>4. SolverInv' /\ sState'.prefix = game.actions /\ sState'.route = {}
  BY <1>1, <1>2, <1>3, SolverIsAsked DEF PageInv
<1>5. HintInv' /\ ~Hint!Busy'
  BY HintGone DEF SolveClick, PageInv
<1>6. ~PlaybackActive' /\ PlaybackTyped'
  BY <1>2, NewPlayback DEF SolveClick, PlaybackActive, Still
<1>7. StartKnown'
  <2>1. ASSUME fromStart' PROVE game.actions = << >>
    <3>1. Replays(board, game)
      BY GameReplays DEF PageInv
    <3>2. Len(game.actions) = 0
      BY <2>1, <3>1 DEF SolveClick, Replays, Proper, Moves
    <3> QED
      BY <1>2, <3>2, EmptySeq
  <2> QED
    BY <1>4, <2>1 DEF StartKnown
<1>8. SearchesFit' /\ KeptRouteFits' /\ PlaysOnRoute'
  BY <1>2, <1>4, <1>5, <1>6 DEF SearchesFit, KeptRouteFits, PlaysOnRoute
<1> QED
  BY <1>1, <1>4, <1>5, <1>6, <1>7, <1>8 DEF PageInv, Fitting

(* The playback ends: its route goes, and so does what it crossed, once no *)
(* search runs.                                                            *)
LEMMA EndKeeps ==
  ASSUME PageInv, EndPlayback, UNCHANGED <<gameVars, hVars, fromStart, certified>>,
         PlaybackActive
  PROVE  PageInv'
<1>1. GInv' /\ CertificatesTrue' /\ UNCHANGED board
  BY GameSame, CertifiedSame DEF PageInv, gameVars
<1>2. SolverInv'
  BY <1>1, SolverIsQuiet DEF PageInv, EndPlayback
<1>3. /\ Solver!Busy' = Solver!Busy /\ sState'.prefix = sState.prefix
      /\ sState'.kind = "completed" => sState'.route = {}
  BY SolverDrops DEF PageInv, EndPlayback
<1>4. HintInv' /\ Hint!Busy' = Hint!Busy
  BY <1>1, HintSame DEF PageInv
<1>5. ~PlaybackActive' /\ PlaybackTyped'
  <2>1. << >> \in Seq(Dirs)
    BY EmptySeq
  <2> QED
    BY <2>1, NewPlayback DEF EndPlayback, PlaybackActive, Still
<1>6. StartKnown'
  BY <1>3 DEF PageInv, StartKnown
<1>7. ASSUME ~crossed' PROVE SearchesFit' /\ KeptRouteFits' /\ PlaysOnRoute'
  <2>1. ~Solver!Busy /\ ~Hint!Busy
    BY <1>7 DEF EndPlayback, PageInv, Fitting, SearchesFit
  <2> QED
    BY <1>3, <1>4, <1>5, <2>1 DEF SearchesFit, KeptRouteFits, PlaysOnRoute
<1> QED
  BY <1>1, <1>2, <1>4, <1>5, <1>6, <1>7 DEF PageInv, Fitting

LEMMA CancelKeeps ==
  ASSUME PageInv, CancelClick
  PROVE  PageInv'
<1>1. CASE PlaybackActive
  BY <1>1, EndKeeps DEF CancelClick
<1>2. CASE ~PlaybackActive
  <2>1. /\ GInv' /\ CertificatesTrue' /\ UNCHANGED <<board, game>>
    BY GameSame, CertifiedSame DEF CancelClick, PageInv, gameVars
  <2>2. Solver!Busy /\ Solver!Cancel /\ UNCHANGED <<playback, crossed, hVars, fromStart>>
    BY <1>2 DEF CancelClick
  <2>3. SolverInv'
    BY <2>1, <2>2, SolverIsQuiet DEF PageInv
  <2>4. sState' = sState \/ (~Solver!Busy' /\ sState'.route = {})
    BY <2>2, SolverCancels
  <2>5. HintInv' /\ Hint!Busy' = Hint!Busy /\ hState' = hState
    BY <2>1, <2>2, HintSame DEF PageInv, hVars
  <2>6. PlaybackTyped' /\ ~PlaybackActive'
    BY <1>2, <2>2 DEF PageInv, PlaybackTyped, PlaybackActive
  <2>7. StartKnown'
    BY <2>2, <2>4 DEF PageInv, StartKnown, Solver!Busy
  <2>8. Fitting'
    BY <2>1, <2>2, <2>4, <2>5, <2>6
    DEF PageInv, Fitting, SearchesFit, KeptRouteFits, PlaysOnRoute, PlaybackActive, Solver!Busy
  <2> QED
    BY <2>1, <2>3, <2>5, <2>6, <2>7, <2>8 DEF PageInv
<1> QED
  BY <1>1, <1>2

(* The page and its searches stand, and a hint at most is dropped or asked *)
(* for.                                                                    *)
LEMMA HintOnly ==
  ASSUME PageInv, HintInv', UNCHANGED <<gameVars, sVars, playback, fromStart, certified, crossed>>,
         ~crossed /\ Hint!Busy' => ~PlaybackActive /\ game.actions = hState'.prefix
  PROVE  PageInv'
<1>1. /\ GInv' /\ CertificatesTrue' /\ UNCHANGED <<board, game>>
  BY GameSame, CertifiedSame DEF PageInv, gameVars
<1>2. SolverInv' /\ Solver!Busy' = Solver!Busy /\ sState' = sState
  BY <1>1, SolverSame DEF PageInv, sVars
<1>3. PlaybackTyped' /\ PlaybackActive' = PlaybackActive
  BY DEF PageInv, PlaybackTyped, PlaybackActive
<1>4. StartKnown'
  BY <1>2 DEF PageInv, StartKnown
<1>5. Fitting'
  BY <1>1, <1>2, <1>3 DEF PageInv, Fitting, SearchesFit, KeptRouteFits, PlaysOnRoute
<1> QED
  BY <1>1, <1>2, <1>3, <1>4, <1>5 DEF PageInv

LEMMA HintClickKeeps ==
  ASSUME PageInv, AskHint \/ OpenSolver \/ TogglePause
  PROVE  PageInv'
<1>1. UNCHANGED <<gameVars, sVars, playback, fromStart, certified, crossed>>
  BY DEF AskHint, OpenSolver, TogglePause
<1>2. UNCHANGED board
  BY <1>1 DEF gameVars
<1>3. CASE Hint!ResetClient
  <2>1. HintInv' /\ ~Hint!Busy'
    BY <1>3, HintGone DEF PageInv
  <2> QED
    BY <1>1, <2>1, HintOnly
<1>4. CASE UNCHANGED hVars
  <2>1. HintInv' /\ Hint!Busy' = Hint!Busy /\ hState' = hState
    BY <1>2, <1>4, HintSame DEF PageInv, hVars
  <2> QED
    BY <1>1, <2>1, HintOnly DEF PageInv, Fitting, SearchesFit
<1>5. CASE AskHint
  <2>1. game.actions \in Seq(Dirs)
    BY DEF PageInv, GInv
  <2>2. HintInv' /\ hState'.prefix = game.actions
    BY <1>2, <1>5, <2>1, HintIsAsked DEF PageInv, AskHint
  <2> QED
    BY <1>1, <1>5, <2>2, HintOnly DEF AskHint
<1> QED
  BY <1>3, <1>4, <1>5 DEF OpenSolver, TogglePause

LEMMA PlayKeeps ==
  ASSUME PageInv, PlayClick
  PROVE  PageInv'
<1>1. /\ GInv' /\ CertificatesTrue' /\ UNCHANGED <<board, game>>
  BY GameSame, CertifiedSame DEF PlayClick, PageInv, gameVars
<1>2. SolverInv' /\ Solver!Busy' = Solver!Busy /\ sState' = sState /\ ~Solver!Busy
  BY <1>1, SolverSame DEF PlayClick, PageInv, sVars
<1>3. HintInv' /\ Hint!Busy' = Hint!Busy /\ hState' = hState
  BY <1>1, HintSame DEF PlayClick, PageInv, hVars
<1>4. StartKnown'
  BY <1>2 DEF StartKnown
<1>5. CASE playback.kind \in {"playing", "paused"}
  <2>1. PICK k \in {"playing", "paused"} :
          playback' = [kind |-> k, route |-> playback.route, index |-> playback.index,
                       from |-> playback.from]
    BY <1>5 DEF PlayClick, PlaybackActive, PageInv, PlaybackTyped
  <2>2. PlaybackTyped' /\ PlaybackActive' /\ PlaybackActive /\ crossed' = crossed
    BY <1>5, <2>1 DEF PlayClick, PlaybackActive, PageInv, PlaybackTyped
  <2>3. Fitting'
    BY <1>1, <1>2, <1>3, <2>1, <2>2
    DEF PageInv, Fitting, SearchesFit, KeptRouteFits, PlaysOnRoute
  <2> QED
    BY <1>1, <1>2, <1>3, <1>4, <2>2, <2>3 DEF PageInv
<1>6. CASE ~PlaybackActive
  <2>1. PICK r \in sState.route : playback' = Playing(r, sState.prefix)
    BY <1>6 DEF PlayClick, PlaybackActive
  <2>2. crossed' = (crossed \/ Hint!Busy)
    BY <1>6 DEF PlayClick, PlaybackActive
  <2>3. sState.kind = "completed" /\ r \in Seq(Dirs) /\ sState.prefix \in Seq(Dirs)
    BY <1>2, <2>1, SolverRoutes DEF PageInv
  <2>4. PlaybackTyped' /\ PlaybackActive'
    BY <2>1, <2>3, NewPlayback DEF PlaybackActive, Playing
  <2>5. ASSUME ~crossed' PROVE SearchesFit' /\ KeptRouteFits' /\ PlaysOnRoute'
    <3>1. ~Hint!Busy /\ game.actions = sState.prefix
      BY <1>6, <2>1, <2>2, <2>3, <2>5 DEF PageInv, Fitting, KeptRouteFits
    <3>2. /\ playback'.from = sState.prefix /\ playback'.route = r /\ playback'.index = 0
          /\ sState.prefix \o SubSeq(r, 1, 0) = sState.prefix
      BY <2>1, <2>3, RouteStarts DEF Playing
    <3> QED
      BY <1>1, <1>2, <1>3, <2>4, <3>1, <3>2 DEF SearchesFit, KeptRouteFits, PlaysOnRoute
  <2> QED
    BY <1>1, <1>2, <1>3, <1>4, <2>4, <2>5 DEF PageInv, Fitting
<1> QED
  BY <1>5, <1>6 DEF PlayClick

-----------------------------------------------------------------------------
(* What happens by itself.                                                 *)

LEMMA TickKeeps ==
  ASSUME PageInv, Tick
  PROVE  PageInv'
<1>1. PlaybackActive /\ UNCHANGED <<hVars, fromStart, certified>>
  BY DEF Tick, PlaybackActive
<1>2. CASE EndPlayback /\ UNCHANGED gameVars
  BY <1>1, <1>2, EndKeeps
<1>3. CASE ~(EndPlayback /\ UNCHANGED gameVars)
  <2>1. PICK d : d = playback.route[playback.index + 1]
    OBVIOUS
  <2>2. /\ playback.index < Len(playback.route) /\ Step(d)
        /\ playback' = [playback EXCEPT !.index = @ + 1]
        /\ UNCHANGED <<sVars, crossed>>
    <3>1. playback.index \in Int /\ Len(playback.route) \in Int
      BY LenProperties DEF PageInv, PlaybackTyped
    <3> QED
      BY <1>3, <2>1, <3>1 DEF Tick
  <2>3. PICK i, route, from : /\ i = playback.index /\ route = playback.route
                              /\ from = playback.from
    OBVIOUS
  <2>4. /\ route \in Seq(Dirs) /\ from \in Seq(Dirs) /\ i \in Nat /\ i + 1 \in 0 .. Len(route)
        /\ i < Len(route)
    <3>1. Len(playback.route) \in Nat
      BY LenProperties DEF PageInv, PlaybackTyped
    <3> QED
      BY <2>2, <2>3, <3>1 DEF PageInv, PlaybackTyped
  <2>5. /\ d \in Dirs
        /\ Append(from \o SubSeq(route, 1, i), d) = from \o SubSeq(route, 1, i + 1)
    BY <2>1, <2>3, <2>4, RouteGrows
  <2>6. playback' = [kind |-> playback.kind, route |-> route, index |-> i + 1, from |-> from]
    BY <2>2, <2>3 DEF PageInv, PlaybackTyped
  <2>7. PlaybackTyped' /\ PlaybackActive'
    BY <1>1, <2>4, <2>6 DEF PlaybackTyped, PlaybackActive
  <2>8. GInv'
    <3>1. GameNext
      BY <2>2, <2>5 DEF GameNext
    <3> QED
      BY <3>1, SessionStepKeeps DEF PageInv
  <2>9. UNCHANGED board /\ game'.actions = Append(game.actions, d)
    <3>1. board \in Boards /\ Replays(board, game)
      BY GameReplays DEF PageInv
    <3>2. game' \in Played(board, game, d)
      BY <2>2 DEF Step
    <3> QED
      BY <2>2, <2>5, <3>1, <3>2, PlayedFacts DEF Step, Replays
  <2>10. SolverInv' /\ Solver!Busy' = Solver!Busy /\ sState' = sState
    BY <2>2, <2>9, SolverSame DEF PageInv, sVars
  <2>11. HintInv' /\ Hint!Busy' = Hint!Busy
    BY <1>1, <2>9, HintSame DEF PageInv
  <2>12. CertificatesTrue' /\ StartKnown'
    BY <1>1, <2>10, CertifiedSame DEF PageInv, StartKnown
  <2>13. ASSUME ~crossed' PROVE SearchesFit' /\ KeptRouteFits' /\ PlaysOnRoute'
    <3>1. ~Solver!Busy /\ ~Hint!Busy /\ game.actions = from \o SubSeq(route, 1, i)
      BY <1>1, <2>2, <2>3, <2>13 DEF PageInv, Fitting, SearchesFit, PlaysOnRoute
    <3>2. game'.actions = from \o SubSeq(route, 1, i + 1)
      BY <2>5, <2>9, <3>1
    <3> QED
      BY <2>6, <2>7, <2>10, <2>11, <3>1, <3>2 DEF SearchesFit, KeptRouteFits, PlaysOnRoute
  <2> QED
    BY <2>7, <2>8, <2>10, <2>11, <2>12, <2>13 DEF PageInv, Fitting
<1> QED
  BY <1>2, <1>3

(* The page's count of a board's shortest solution is the client's, and    *)
(* there is one at most.                                                   *)
LEMMA SolverBest ==
  ASSUME NEW b, NEW log,
         NEW m \in SolverSays!Shortest([ways |-> SolverSays!Ways(b, log)])
  PROVE  Solver!Shortest([ways |-> Solver!Ways(b, log)]) = {m}
<1>1. Solver!Ways(b, log) = SolverSays!Ways(b, log)
  BY Zenon
  DEF Solver!Ways, SolverSays!Ways, Solver!SearchableAt, SolverSays!SearchableAt,
      Solver!Walked, SolverSays!Walked, Solver!SolvedIn, SolverSays!SolvedIn,
      Solver!Replayed, SolverSays!Replayed, Solver!Extends, SolverSays!Extends,
      Solver!Steps, SolverSays!Steps, Solver!OnGoal, SolverSays!OnGoal,
      Solver!GamesAlong, SolverSays!GamesAlong, Solver!Moves, SolverSays!Moves,
      Solver!Beyond, SolverSays!Beyond, Solver!NewGame, SolverSays!NewGame,
      Solver!Played, SolverSays!Played, Solver!Cardinality, SolverSays!Cardinality,
      Solver!IsFiniteSet, SolverSays!IsFiniteSet
<1>2. m \in Solver!Shortest([ways |-> Solver!Ways(b, log)])
  BY <1>1 DEF Solver!Shortest, SolverSays!Shortest, Solver!Lengths, SolverSays!Lengths
<1>3. Solver!Lengths(Solver!Ways(b, log)) \subseteq Nat
  <2>1. Solver!Ways(b, log) \subseteq Seq(Dirs)
    BY PageAssumption DEF Solver!Ways
  <2> QED
    BY <2>1, LenProperties DEF Solver!Lengths
<1> QED
  BY <1>2, <1>3 DEF Solver!Shortest

LEMMA SolverStepsKeep ==
  ASSUME PageInv, NEW id \in Solver!Ids, SolverSteps(id)
  PROVE  PageInv'
<1>1. /\ GInv' /\ UNCHANGED <<board, game, hVars, playback, fromStart, crossed>>
  BY GameSame DEF SolverSteps, PageInv, gameVars
<1>2. \/ Solver!Deliver(id, board) \/ Solver!WorkerError(id)
      \/ Solver!Watchdog(id) \/ Solver!Engine(id)
  BY DEF SolverSteps
<1>3. /\ SolverInv'
      /\ ~Solver!Busy => sState' = sState
      /\ Solver!Busy => /\ sState'.kind \in {sState.kind, "completed"}
                        /\ sState'.prefix = sState.prefix
      /\ sShown' # sShown =>
           /\ Solver!Busy
           /\ sShown'.type = "done" /\ sShown'.proof = "optimal" =>
                sShown'.best = SolverSays!Shortest([ways |-> SolverSays!Ways(board, sState.prefix)])
  BY <1>1, <1>2, SolverIsHeard DEF PageInv
<1>4. HintInv' /\ Hint!Busy' = Hint!Busy /\ hState' = hState
  BY <1>1, HintSame DEF PageInv, hVars
<1>5. PlaybackTyped' /\ PlaybackActive' = PlaybackActive
  BY <1>1 DEF PageInv, PlaybackTyped, PlaybackActive
<1>6. StartKnown'
  BY <1>1, <1>3 DEF PageInv, StartKnown, Solver!Busy
<1>7. Fitting'
  BY <1>1, <1>3, <1>4, <1>5
  DEF PageInv, Fitting, SearchesFit, KeptRouteFits, PlaysOnRoute, Solver!Busy
<1>8. CertificatesTrue'
  <2>1. CASE certified' = certified
    BY <2>1, CertifiedSame DEF PageInv
  <2>2. CASE sShown' # sShown /\ certified' = Recorded(certified, board, Certifies(sShown'))
    <3> SUFFICES ASSUME NEW c \in certified'
                 PROVE  Solver!Shortest([ways |-> Solver!Ways(c.board, << >>)]) = {c.moves}
      BY DEF CertificatesTrue
    <3>1. CASE c \in certified
      BY <3>1 DEF PageInv, CertificatesTrue
    <3>2. CASE c \notin certified
      <4>1. PICK m \in Certifies(sShown') : c = [board |-> board, moves |-> m]
        BY <2>2, <3>2 DEF Recorded
      <4>2. /\ sShown'.type = "done" /\ sShown'.proof = "optimal" /\ fromStart
            /\ m \in sShown'.best
        BY <4>1 DEF Certifies
      <4>3. Solver!Busy /\ sState.prefix = << >>
        BY <1>3, <2>2, <4>2 DEF PageInv, StartKnown
      <4>4. m \in SolverSays!Shortest([ways |-> SolverSays!Ways(board, << >>)])
        BY <1>3, <2>2, <4>2, <4>3
      <4>5. Solver!Shortest([ways |-> Solver!Ways(board, << >>)]) = {m}
        BY <4>4, SolverBest
      <4> QED
        BY <4>1, <4>5
    <3> QED
      BY <3>1, <3>2
  <2> QED
    BY <2>1, <2>2 DEF SolverSteps
<1> QED
  BY <1>1, <1>3, <1>4, <1>5, <1>6, <1>7, <1>8 DEF PageInv

LEMMA FirstThreeMoves ==
  ASSUME NEW r \in Seq(Dirs)
  PROVE  FirstThree(r) \in Seq(Dirs)
<1>1. PICK n \in 0 .. Len(r) : FirstThree(r) = SubSeq(r, 1, n)
  BY LenProperties DEF FirstThree
<1> QED
  BY <1>1, SubSeqProperties

LEMMA HintStepsKeep ==
  ASSUME PageInv, NEW id \in Hint!Ids, HintSteps(id)
  PROVE  PageInv'
<1>1. /\ GInv' /\ CertificatesTrue' /\ UNCHANGED <<board, game, sVars, fromStart>>
  BY GameSame, CertifiedSame DEF HintSteps, PageInv, gameVars
<1>2. \/ Hint!Deliver(id, board) \/ Hint!WorkerError(id)
      \/ Hint!Watchdog(id) \/ Hint!Engine(id)
  BY DEF HintSteps
<1>3. /\ HintInv'
      /\ ~Hint!Busy => hState' = hState
      /\ Hint!Busy => /\ hState'.kind \in {hState.kind, "completed"}
                      /\ hState'.prefix = hState.prefix
      /\ hShown' # hShown =>
           /\ Hint!Busy
           /\ hShown'.type = "done" => /\ hState'.kind = "completed"
                                       /\ hState'.route = hShown'.route
  BY <1>1, <1>2, HintIsHeard DEF PageInv
<1>4. Hint!Busy' => Hint!Busy /\ hState'.prefix = hState.prefix
  BY <1>3 DEF Hint!Busy
<1>5. CASE UNCHANGED <<playback, crossed>>
  <2>1. UNCHANGED <<gameVars, certified>>
    BY DEF HintSteps
  <2> QED
    BY <1>1, <1>3, <1>4, <1>5, <2>1, HintOnly DEF PageInv, Fitting, SearchesFit
<1>6. CASE ~(UNCHANGED <<playback, crossed>>)
  <2>1. /\ hShown' # hShown /\ hShown'.type = "done"
        /\ \E r \in hShown'.route : playback' = Playing(FirstThree(r), hState.prefix)
        /\ crossed' = (crossed \/ Solver!Busy)
    BY <1>6 DEF HintSteps
  <2>2. Hint!Busy /\ ~Hint!Busy' /\ hState'.route = hShown'.route
    BY <1>3, <2>1 DEF Hint!Busy
  <2>3. PICK r \in hState'.route : playback' = Playing(FirstThree(r), hState.prefix)
    BY <2>1, <2>2
  <2>4. hState'.route \subseteq Seq(Dirs) /\ hState.prefix \in Seq(Dirs)
    BY <1>3 DEF PageInv, HintInv, HintSays!SoundInv, HintSays!RoutesOnHand, HintSays!Dirs, Dirs
  <2>5. PICK q : q = FirstThree(r) /\ q \in Seq(Dirs)
    BY <2>3, <2>4, FirstThreeMoves
  <2>6. PlaybackTyped' /\ PlaybackActive'
    BY <2>3, <2>4, <2>5, NewPlayback DEF PlaybackActive, Playing
  <2>7. SolverInv' /\ Solver!Busy' = Solver!Busy /\ sState' = sState
    BY <1>1, SolverSame DEF PageInv, sVars
  <2>8. StartKnown'
    BY <1>1, <2>7 DEF PageInv, StartKnown
  <2>9. ASSUME ~crossed' PROVE SearchesFit' /\ KeptRouteFits' /\ PlaysOnRoute'
    <3>1. ~Solver!Busy /\ game.actions = hState.prefix
      BY <2>1, <2>2, <2>9 DEF PageInv, Fitting, SearchesFit
    <3>2. /\ playback'.from = hState.prefix /\ playback'.route = q /\ playback'.index = 0
          /\ hState.prefix \o SubSeq(q, 1, 0) = hState.prefix
      BY <2>3, <2>4, <2>5, RouteStarts DEF Playing
    <3> QED
      BY <1>1, <2>2, <2>6, <2>7, <3>1, <3>2 DEF SearchesFit, KeptRouteFits, PlaysOnRoute
  <2> QED
    BY <1>1, <1>3, <2>6, <2>7, <2>8, <2>9 DEF PageInv, Fitting
<1> QED
  BY <1>5, <1>6

-----------------------------------------------------------------------------

LEMMA PageBegins == PageInit => PageInv
<1> SUFFICES ASSUME PageInit PROVE PageInv
  OBVIOUS
<1>1. GInv /\ SolverInv /\ ~Solver!Busy /\ sState.route = {} /\ HintInv /\ ~Hint!Busy
  BY GameInitHolds, SolverBegins, HintBegins DEF PageInit
<1>2. PlaybackTyped /\ ~PlaybackActive
  <2>1. << >> \in Seq(Dirs) /\ 0 \in 0 .. Len(<< >>)
    BY EmptySeq
  <2> QED
    BY <2>1 DEF PageInit, Still, PlaybackTyped, PlaybackActive
<1>3. CertificatesTrue
  BY DEF PageInit, CertificatesTrue
<1> QED
  BY <1>1, <1>2, <1>3
  DEF PageInv, StartKnown, Fitting, SearchesFit, KeptRouteFits, PlaysOnRoute

LEMMA PageStutters ==
  ASSUME PageInv, UNCHANGED vars
  PROVE  PageInv'
<1>1. UNCHANGED <<gameVars, sVars, hVars, playback, fromStart, certified, crossed>>
  BY DEF vars
<1>2. UNCHANGED board
  BY <1>1 DEF gameVars
<1>3. HintInv' /\ Hint!Busy' = Hint!Busy /\ hState' = hState
  BY <1>1, <1>2, HintSame DEF PageInv, hVars
<1> QED
  BY <1>1, <1>3, HintOnly DEF PageInv, Fitting, SearchesFit

LEMMA PageStep == PageInv /\ [PageNext]_vars => PageInv'
<1> SUFFICES ASSUME PageInv, [PageNext]_vars PROVE PageInv'
  OBVIOUS
<1>1. CASE User
  BY <1>1, MoveKeeps, TakeBackKeeps, WalkKeeps, ReplayKeepsPage, SolveKeeps, CancelKeeps,
     PlayKeeps, HintClickKeeps DEF User
<1>2. CASE Tick
  BY <1>2, TickKeeps
<1>3. CASE \E id \in Solver!Ids : SolverSteps(id)
  BY <1>3, SolverStepsKeep
<1>4. CASE \E id \in Hint!Ids : HintSteps(id)
  BY <1>4, HintStepsKeep
<1>5. CASE UNCHANGED vars
  BY <1>5, PageStutters
<1> QED
  BY <1>1, <1>2, <1>3, <1>4, <1>5 DEF PageNext

LEMMA PageInductive == PageSpec => []PageInv
BY PageBegins, PageStep, PTL DEF PageSpec

(* Whatever the page does to it, by moves, undos, replays, loads, hints    *)
(* and playbacks, its game is the strict replay of its own route           *)
(* (game.rs 119-151, play.ts 146-157).                                     *)
THEOREM PageKeepsGame == PageSpec => []GameIsReplay
<1>1. PageInv => GameIsReplay
  BY DEF PageInv, GInv
<1> QED
  BY <1>1, PageInductive, PTL

(* The route on hand fits the game, and what plays plays from where it was *)
(* found, hints included, unless a hint and another answer got in each     *)
(* other's way (play.ts 95-124, 146-157, 427-436).                         *)
THEOREM PageAnswersFit == PageSpec => []AnswersFit
<1>1. PageInv => AnswersFit
  BY DEF PageInv, Fitting, AnswersFit
<1> QED
  BY <1>1, PageInductive, PTL

(* A recorded optimum is the length of its board's shortest solution       *)
(* (optimal.ts 3-9, play.ts 399-424).                                      *)
THEOREM PageCertifiesTruly == PageSpec => []CertificatesTrue
<1>1. PageInv => CertificatesTrue
  BY DEF PageInv
<1> QED
  BY <1>1, PageInductive, PTL

-----------------------------------------------------------------------------
(* The lab.  Its client is what is proved about in ClientProofs, which     *)
(* play no game here.                                                      *)

LabSays == INSTANCE ClientProofs WITH
  state <- lState, held <- lHeld, jobs <- lJobs, shown <- lShown, tried <- lTried,
  Rogue <- {}, Asks <- {}, Boards <- {}, Routes <- {}, board <- room, game <- prefix

LEMMA LabAssumes == LabSays!ClientAssumption /\ LabSays!GameAssumption
  BY LabAssumption, Zenon
  DEF LabSays!ClientAssumption, LabSays!GameAssumption, LabSays!Dirs, Dirs

LEMMA LabQuiet ==
  ASSUME Lab!Cancel
  PROVE  LabSays!Cancel
  BY Zenon
  DEF Lab!Cancel, LabSays!Cancel, Lab!ResetClient, LabSays!ResetClient, Lab!Busy,
      LabSays!Busy, Lab!Released, LabSays!Released, Lab!Idle, LabSays!Idle, Lab!Left,
      LabSays!Left, Lab!clientVars, LabSays!clientVars

LEMMA LabAsked ==
  ASSUME NEW on, NEW log, NEW mode, NEW engine,
         Lab!Solve(on, log, mode, engine)
  PROVE  LabSays!Solve(on, log, mode, engine)
  BY Zenon
  DEF Lab!Solve, LabSays!Solve, Lab!Running, LabSays!Running, Lab!NewJob,
      LabSays!NewJob, Lab!Busy, LabSays!Busy, Lab!Ways, LabSays!Ways, Lab!SearchableAt,
      LabSays!SearchableAt, Lab!Walked, LabSays!Walked, Lab!SolvedIn, LabSays!SolvedIn,
      Lab!Replayed, LabSays!Replayed, Lab!Extends, LabSays!Extends, Lab!Steps,
      LabSays!Steps, Lab!OnGoal, LabSays!OnGoal, Lab!GamesAlong, LabSays!GamesAlong,
      Lab!Moves, LabSays!Moves, Lab!Beyond, LabSays!Beyond, Lab!NewGame,
      LabSays!NewGame, Lab!Played, LabSays!Played, Lab!Cardinality,
      LabSays!Cardinality, Lab!IsFiniteSet, LabSays!IsFiniteSet

LEMMA LabEnds ==
  ASSUME NEW one, NEW stops
  PROVE  Lab!Endings(one, stops) = LabSays!Endings(one, stops)
<1>1. Lab!Lowers(one) = LabSays!Lowers(one) /\ Lab!Shortest(one) = LabSays!Shortest(one)
  BY Zenon
  DEF Lab!Lowers, LabSays!Lowers, Lab!Shortest, LabSays!Shortest, Lab!Lengths,
      LabSays!Lengths
<1> QED
  BY <1>1, SMT DEF Lab!Endings, LabSays!Endings, Lab!Lengths, LabSays!Lengths

LEMMA LabWorks ==
  ASSUME NEW id, Lab!Engine(id)
  PROVE  LabSays!Engine(id)
<1>1. Lab!WorkerStart(id) = LabSays!WorkerStart(id)
  BY Zenon
  DEF Lab!WorkerStart, LabSays!WorkerStart, Lab!HasWorker, LabSays!HasWorker, Lab!Post,
      LabSays!Post, Lab!Failure, LabSays!Failure, Lab!SearchableAt,
      LabSays!SearchableAt, Lab!Replayed, LabSays!Replayed, Lab!SolvedIn,
      LabSays!SolvedIn, Lab!Extends, LabSays!Extends, Lab!GamesAlong,
      LabSays!GamesAlong, Lab!OnGoal, LabSays!OnGoal, Lab!Moves, LabSays!Moves,
      Lab!NewGame, LabSays!NewGame, Lab!Played, LabSays!Played, Lab!Steps,
      LabSays!Steps, Lab!Beyond, LabSays!Beyond, Lab!Cardinality, LabSays!Cardinality,
      Lab!IsFiniteSet, LabSays!IsFiniteSet
<1>2. Lab!WorkerFind(id) = LabSays!WorkerFind(id)
  BY Zenon
  DEF Lab!WorkerFind, LabSays!WorkerFind, Lab!HasWorker, LabSays!HasWorker
<1>3. Lab!WorkerReport(id) = LabSays!WorkerReport(id)
  BY Zenon
  DEF Lab!WorkerReport, LabSays!WorkerReport, Lab!HasWorker, LabSays!HasWorker,
      Lab!Lowers, LabSays!Lowers, Lab!Sampled, LabSays!Sampled, Lab!Lengths,
      LabSays!Lengths, Lab!Post, LabSays!Post, Lab!Update, LabSays!Update,
      Lab!Shortest, LabSays!Shortest, Lab!Fits, LabSays!Fits
<1>4. Lab!Misreply(id) = LabSays!Misreply(id)
  BY Zenon
  DEF Lab!Misreply, LabSays!Misreply, Lab!HasWorker, LabSays!HasWorker, Lab!Post,
      LabSays!Post
<1>5. Lab!WorkerEnd(id) = LabSays!WorkerEnd(id)
  BY LabEnds, Zenon
  DEF Lab!WorkerEnd, LabSays!WorkerEnd, Lab!HasWorker, LabSays!HasWorker, Lab!Stops,
      LabSays!Stops, Lab!Post, LabSays!Post, Lab!Fits, LabSays!Fits, Lab!Update,
      LabSays!Update, Lab!Lengths, LabSays!Lengths, Lab!FinalRoute, LabSays!FinalRoute,
      Lab!Failure, LabSays!Failure
<1>6. Lab!Answer(id) = LabSays!Answer(id)
  BY LabEnds, Zenon
  DEF Lab!Answer, LabSays!Answer, Lab!HasWorker, LabSays!HasWorker, Lab!Stops,
      LabSays!Stops, Lab!Post, LabSays!Post, Lab!Fits, LabSays!Fits, Lab!Update,
      LabSays!Update, Lab!Lengths, LabSays!Lengths, Lab!FinalRoute, LabSays!FinalRoute,
      Lab!Failure, LabSays!Failure
<1> QED
  BY <1>1, <1>2, <1>3, <1>4, <1>5, <1>6, Zenon DEF Lab!Engine, LabSays!Engine

LEMMA LabHears ==
  ASSUME NEW id, NEW on,
         \/ Lab!Deliver(id, on) \/ Lab!ReadBody(id, on) \/ Lab!Respond(id)
         \/ Lab!WorkerError(id) \/ Lab!Watchdog(id) \/ Lab!Engine(id)
  PROVE  \/ LabSays!Deliver(id, on) \/ LabSays!ReadBody(id, on) \/ LabSays!Respond(id)
         \/ LabSays!WorkerError(id) \/ LabSays!Watchdog(id) \/ LabSays!Engine(id)
<1>1. Lab!Deliver(id, on) = LabSays!Deliver(id, on)
  BY Zenon
  DEF Lab!Deliver, LabSays!Deliver, Lab!Receive, LabSays!Receive, Lab!Left,
      LabSays!Left, Lab!Ignores, LabSays!Ignores, Lab!Completed, LabSays!Completed,
      Lab!Decodes, LabSays!Decodes, Lab!Verifies, LabSays!Verifies, Lab!RouteAfter,
      LabSays!RouteAfter, Lab!Agrees, LabSays!Agrees, Lab!Active, LabSays!Active,
      Lab!Released, LabSays!Released, Lab!Lengths, LabSays!Lengths, Lab!Solves,
      LabSays!Solves, Lab!Busy, LabSays!Busy, Lab!Replayed, LabSays!Replayed,
      Lab!SolvedIn, LabSays!SolvedIn, Lab!GamesAlong, LabSays!GamesAlong, Lab!OnGoal,
      LabSays!OnGoal, Lab!NewGame, LabSays!NewGame, Lab!Played, LabSays!Played,
      Lab!Moves, LabSays!Moves, Lab!Steps, LabSays!Steps, Lab!Beyond, LabSays!Beyond,
      Lab!Cardinality, LabSays!Cardinality, Lab!IsFiniteSet, LabSays!IsFiniteSet
<1>2. Lab!ReadBody(id, on) = LabSays!ReadBody(id, on)
  BY Zenon
  DEF Lab!ReadBody, LabSays!ReadBody, Lab!Receive, LabSays!Receive, Lab!Ignores,
      LabSays!Ignores, Lab!Completed, LabSays!Completed, Lab!Decodes, LabSays!Decodes,
      Lab!Verifies, LabSays!Verifies, Lab!RouteAfter, LabSays!RouteAfter, Lab!Agrees,
      LabSays!Agrees, Lab!Active, LabSays!Active, Lab!Released, LabSays!Released,
      Lab!Lengths, LabSays!Lengths, Lab!Solves, LabSays!Solves, Lab!Busy, LabSays!Busy,
      Lab!Replayed, LabSays!Replayed, Lab!SolvedIn, LabSays!SolvedIn, Lab!GamesAlong,
      LabSays!GamesAlong, Lab!OnGoal, LabSays!OnGoal, Lab!NewGame, LabSays!NewGame,
      Lab!Played, LabSays!Played, Lab!Moves, LabSays!Moves, Lab!Steps, LabSays!Steps,
      Lab!Beyond, LabSays!Beyond, Lab!Cardinality, LabSays!Cardinality,
      Lab!IsFiniteSet, LabSays!IsFiniteSet
<1>3. Lab!Respond(id) = LabSays!Respond(id)
  BY Zenon
  DEF Lab!Respond, LabSays!Respond, Lab!Active, LabSays!Active, Lab!Busy, LabSays!Busy
<1>4. Lab!WorkerError(id) = LabSays!WorkerError(id)
  BY Zenon
  DEF Lab!WorkerError, LabSays!WorkerError, Lab!Receive, LabSays!Receive, Lab!Failure,
      LabSays!Failure, Lab!Left, LabSays!Left, Lab!Ignores, LabSays!Ignores,
      Lab!Completed, LabSays!Completed, Lab!Decodes, LabSays!Decodes, Lab!Verifies,
      LabSays!Verifies, Lab!RouteAfter, LabSays!RouteAfter, Lab!Agrees, LabSays!Agrees,
      Lab!Active, LabSays!Active, Lab!Released, LabSays!Released, Lab!Lengths,
      LabSays!Lengths, Lab!Solves, LabSays!Solves, Lab!Busy, LabSays!Busy,
      Lab!Replayed, LabSays!Replayed, Lab!SolvedIn, LabSays!SolvedIn, Lab!GamesAlong,
      LabSays!GamesAlong, Lab!OnGoal, LabSays!OnGoal, Lab!NewGame, LabSays!NewGame,
      Lab!Played, LabSays!Played, Lab!Moves, LabSays!Moves, Lab!Steps, LabSays!Steps,
      Lab!Beyond, LabSays!Beyond, Lab!Cardinality, LabSays!Cardinality,
      Lab!IsFiniteSet, LabSays!IsFiniteSet
<1>5. Lab!Watchdog(id) = LabSays!Watchdog(id)
  BY Zenon
  DEF Lab!Watchdog, LabSays!Watchdog, Lab!Active, LabSays!Active, Lab!Completed,
      LabSays!Completed, Lab!Left, LabSays!Left, Lab!Busy, LabSays!Busy, Lab!Released,
      LabSays!Released
<1> QED
  BY <1>1, <1>2, <1>3, <1>4, <1>5, LabWorks

LEMMA LabStarts ==
  ASSUME Lab!ClientInit
  PROVE  LabSays!ClientInit
  BY Zenon
  DEF Lab!ClientInit, LabSays!ClientInit, Lab!Idle, LabSays!Idle, Lab!NothingShown,
      LabSays!NothingShown

(* The two say the same of a room's shortest solution.                     *)
LEMMA LabBest ==
  ASSUME NEW b, NEW log, NEW m \in LabSays!Shortest([ways |-> LabSays!Ways(b, log)])
  PROVE  Lab!Shortest([ways |-> Lab!Ways(b, log)]) = {m}
<1>1. Lab!Ways(b, log) = LabSays!Ways(b, log)
  BY Zenon
  DEF Lab!Ways, LabSays!Ways, Lab!SearchableAt, LabSays!SearchableAt, Lab!Walked,
      LabSays!Walked, Lab!SolvedIn, LabSays!SolvedIn, Lab!Replayed, LabSays!Replayed,
      Lab!Extends, LabSays!Extends, Lab!Steps, LabSays!Steps, Lab!OnGoal,
      LabSays!OnGoal, Lab!GamesAlong, LabSays!GamesAlong, Lab!Moves, LabSays!Moves,
      Lab!Beyond, LabSays!Beyond, Lab!NewGame, LabSays!NewGame, Lab!Played,
      LabSays!Played, Lab!Cardinality, LabSays!Cardinality, Lab!IsFiniteSet,
      LabSays!IsFiniteSet
<1>2. m \in Lab!Shortest([ways |-> Lab!Ways(b, log)])
  BY <1>1 DEF Lab!Shortest, LabSays!Shortest, Lab!Lengths, LabSays!Lengths
<1>3. Lab!Lengths(Lab!Ways(b, log)) \subseteq Nat
  <2>1. Lab!Ways(b, log) \subseteq Seq(Dirs)
    BY LabAssumption DEF Lab!Ways
  <2> QED
    BY <2>1, LenProperties DEF Lab!Lengths
<1> QED
  BY <1>2, <1>3 DEF Lab!Shortest

-----------------------------------------------------------------------------
(* While a search runs it is about the room and the position on show: the  *)
(* user waits for it before they navigate.                                 *)

LabInv ==
  /\ LabSays!SoundInv
  /\ Lab!Busy => lJobs[lState.id].board = room /\ lState.prefix = prefix
  /\ prefix \in Seq(Dirs)
  /\ RoomRecordsTrue

LEMMA LabPosed ==
  ASSUME NEW b, b = room
  PROVE  LabInv => LabSays!SoundInv /\ LabSays!PosedOn(b) /\ LabSays!HonestInv
  BY DEF LabInv, LabSays!PosedOn, LabSays!SoundInv, Lab!Busy, LabSays!Busy

LEMMA LabClientStep ==
  ASSUME LabSays!SoundInv, LabSays!AnyNext \/ UNCHANGED lVars
  PROVE  LabSays!SoundInv'
<1>1. [LabSays!AnyNext]_(LabSays!clientVars)
  BY DEF lVars, LabSays!clientVars
<1> QED
  BY <1>1, LabSays!SoundStep, LabAssumes

LEMMA RoomCertifiedSame ==
  ASSUME RoomRecordsTrue, UNCHANGED certified
  PROVE  RoomRecordsTrue'
  BY DEF RoomRecordsTrue

LEMMA LabBegins == LabInit => LabInv
<1> SUFFICES ASSUME LabInit PROVE LabInv
  OBVIOUS
<1>1. LabSays!SoundInv
  BY LabStarts, LabSays!SoundInitially, LabAssumes DEF LabInit
<1>2. << >> \in Seq(Dirs)
  OBVIOUS
<1> QED
  BY <1>1, <1>2 DEF LabInit, LabInv, RoomRecordsTrue, Lab!ClientInit, Lab!Idle, Lab!Busy

(* Nothing of the client changes, and no search runs or nothing else does. *)
LEMMA LabStill ==
  ASSUME LabInv, UNCHANGED <<lVars, certified>>, ~Lab!Busy \/ UNCHANGED <<room, prefix>>,
         prefix' \in Seq(Dirs)
  PROVE  LabInv'
<1>1. LabSays!SoundInv'
  BY LabClientStep DEF LabInv
<1> QED
  BY <1>1, RoomCertifiedSame DEF LabInv, Lab!Busy, lVars

LEMMA NavigationKeeps ==
  ASSUME Patient, LabInv, RenderLab \/ ChooseRoom
  PROVE  LabInv'
<1>1. ~Lab!Busy
  BY DEF RenderLab, ChooseRoom
<1>2. prefix' \in Seq(Dirs)
  <2>1. << >> \in Seq(Dirs)
    OBVIOUS
  <2> QED
    BY <2>1, LabAssumption DEF RenderLab, ChooseRoom, Transferred
<1>3. UNCHANGED <<lVars, certified>>
  <2>1. CASE RenderLab
    BY <2>1 DEF RenderLab
  <2>2. CASE ChooseRoom
    BY <1>1, <2>2 DEF ChooseRoom, Lab!Cancel, Lab!Busy, Lab!clientVars, lVars
  <2> QED
    BY <2>1, <2>2
<1> QED
  BY <1>1, <1>2, <1>3, LabStill

LEMMA RunKeeps ==
  ASSUME LabInv, LabRun
  PROVE  LabInv'
<1>1. PICK b : b = room
  OBVIOUS
<1>2. PICK log : log = prefix
  OBVIOUS
<1>3. PICK e, m : Lab!Solve(b, log, m, e)
  BY <1>1, <1>2 DEF LabRun
<1>4. LabSays!Solve(b, log, m, e) /\ log \in Seq(LabSays!Dirs) /\ LabSays!HonestInv
  BY <1>1, <1>2, <1>3, LabAsked, LabPosed DEF LabInv, Dirs, LabSays!Dirs
<1>5. LabSays!AnyNext /\ LabSays!PosedOn(b)' /\ lState'.prefix = log
  BY <1>4, LabSays!AskedHears, LabAssumes
<1>6. LabSays!SoundInv'
  BY <1>5, LabClientStep DEF LabInv
<1>7. Lab!Busy' => lJobs'[lState'.id].board = b
  BY <1>5 DEF LabSays!PosedOn, Lab!Busy, LabSays!Busy
<1> QED
  BY <1>1, <1>2, <1>5, <1>6, <1>7, RoomCertifiedSame DEF LabInv, LabRun

LEMMA LabCancelKeeps ==
  ASSUME LabInv, LabCancel
  PROVE  LabInv'
<1>1. PICK b : b = room
  OBVIOUS
<1>2. LabSays!Cancel
  BY LabQuiet DEF LabCancel
<1>3. LabSays!PosedOn(b)'
  BY <1>1, <1>2, LabPosed, LabSays!QuietHears, LabAssumes
<1>4. LabSays!AnyNext
  BY <1>2 DEF LabSays!AnyNext
<1>5. LabSays!SoundInv'
  BY <1>4, LabClientStep DEF LabInv
<1>6. Lab!Busy' => lState' = lState
  BY DEF LabCancel, Lab!Cancel, Lab!ResetClient, Lab!Idle, Lab!Busy, Lab!clientVars
<1>7. Lab!Busy' => lJobs'[lState'.id].board = b
  BY <1>3 DEF LabSays!PosedOn, Lab!Busy, LabSays!Busy
<1> QED
  BY <1>1, <1>5, <1>6, <1>7, RoomCertifiedSame DEF LabInv, LabCancel, Lab!Busy

(* A reply certifies what its own search proved of the room on show.       *)
LEMMA HearingKeeps ==
  ASSUME LabInv, NEW id \in Lab!Ids, LabReply(id) \/ LabSteps(id)
  PROVE  LabInv'
<1>1. PICK b : b = room
  OBVIOUS
<1>2. LabSays!SoundInv /\ LabSays!PosedOn(b)
  BY <1>1, LabPosed
<1>3. \/ LabSays!Deliver(id, b) \/ LabSays!ReadBody(id, b) \/ LabSays!Respond(id)
      \/ LabSays!WorkerError(id) \/ LabSays!Watchdog(id) \/ LabSays!Engine(id)
  BY <1>1, LabHears DEF LabReply, LabSteps
<1>4. id \in LabSays!Ids /\ Lab!Busy = LabSays!Busy
  BY DEF Lab!Ids, LabSays!Ids, Lab!Busy, LabSays!Busy
<1>5. /\ LabSays!AnyNext /\ LabSays!PosedOn(b)'
      /\ ~LabSays!Busy => lState' = lState
      /\ LabSays!Busy => /\ lState'.kind \in {lState.kind, "completed"}
                         /\ lState'.prefix = lState.prefix
      /\ lShown' # lShown =>
           /\ LabSays!Busy
           /\ lShown'.type = "done" /\ lShown'.proof = "optimal" =>
                lShown'.best = LabSays!Shortest([ways |-> LabSays!Ways(b, lState.prefix)])
  BY <1>2, <1>3, <1>4, LabSays!SearchHears, LabAssumes
<1>6. LabSays!SoundInv'
  BY <1>2, <1>5, LabClientStep
<1>7. UNCHANGED <<room, prefix>>
  BY DEF LabReply, LabSteps
<1>8. Lab!Busy' => lJobs'[lState'.id].board = b /\ lState'.prefix = prefix
  <2>1. Lab!Busy' => Lab!Busy /\ lState'.prefix = lState.prefix
    BY <1>4, <1>5 DEF Lab!Busy
  <2>2. Lab!Busy' => lJobs'[lState'.id].board = b
    BY <1>5 DEF LabSays!PosedOn, Lab!Busy, LabSays!Busy
  <2> QED
    BY <2>1, <2>2 DEF LabInv
<1>9. RoomRecordsTrue'
  <2>1. CASE certified' = certified
    BY <2>1, RoomCertifiedSame DEF LabInv
  <2>2. CASE lShown' # lShown /\ certified' = Recorded(certified, room, CertifiesRoom(lShown'))
    <3> SUFFICES ASSUME NEW c \in certified'
                 PROVE  Lab!Shortest([ways |-> Lab!Ways(c.board, << >>)]) = {c.moves}
      BY DEF RoomRecordsTrue
    <3>1. CASE c \in certified
      BY <3>1 DEF LabInv, RoomRecordsTrue
    <3>2. CASE c \notin certified
      <4>1. PICK m \in CertifiesRoom(lShown') : c = [board |-> room, moves |-> m]
        BY <2>2, <3>2 DEF Recorded
      <4>2. /\ lShown'.type = "done" /\ lShown'.proof = "optimal" /\ prefix = << >>
            /\ m \in lShown'.best
        BY <4>1 DEF CertifiesRoom
      <4>3. Lab!Busy /\ lState.prefix = << >>
        BY <1>4, <1>5, <2>2, <4>2 DEF LabInv
      <4>4. m \in LabSays!Shortest([ways |-> LabSays!Ways(b, << >>)])
        BY <1>5, <2>2, <4>2, <4>3
      <4>5. Lab!Shortest([ways |-> Lab!Ways(b, << >>)]) = {m}
        BY <4>4, LabBest
      <4> QED
        BY <1>1, <4>1, <4>5
    <3> QED
      BY <3>1, <3>2
  <2> QED
    BY <2>1, <2>2 DEF LabReply, LabSteps
<1> QED
  BY <1>1, <1>6, <1>7, <1>8, <1>9 DEF LabInv

LEMMA LabKeeps == Patient /\ LabInv /\ [LabNext]_labVars => LabInv'
<1> SUFFICES ASSUME Patient, LabInv, [LabNext]_labVars PROVE LabInv'
  OBVIOUS
<1>1. CASE RenderLab \/ ChooseRoom
  BY <1>1, NavigationKeeps
<1>2. CASE LabRun
  BY <1>2, RunKeeps
<1>3. CASE LabCancel
  BY <1>3, LabCancelKeeps
<1>4. ASSUME NEW id \in Lab!Ids, LabReply(id) \/ LabSteps(id) PROVE LabInv'
  BY <1>4, HearingKeeps
<1>5. CASE UNCHANGED labVars
  <2>1. UNCHANGED <<lVars, certified, room, prefix>> /\ prefix' \in Seq(Dirs)
    BY <1>5 DEF labVars, lVars, LabInv
  <2> QED
    BY <2>1, LabStill
<1> QED
  BY <1>1, <1>2, <1>3, <1>4, <1>5 DEF LabNext

(* As long as the user waits for a search before they navigate, an optimum *)
(* the lab records is the room's own, whatever reply arrives after which   *)
(* cancel, and whatever position its link carried (lab-page.ts 194-198).   *)
THEOREM LabCertifiesTruly ==
  ASSUME Patient
  PROVE  LabSpec => []RoomRecordsTrue
<1>1. LabInv /\ [LabNext]_labVars => LabInv'
  BY LabKeeps
<1>2. LabInv => RoomRecordsTrue
  BY DEF LabInv
<1> QED
  BY <1>1, <1>2, LabBegins, PTL DEF LabSpec

-----------------------------------------------------------------------------
(* The server.  The limiter holds its promises for any number of callers,  *)
(* clients and requests, and for any window and capacity; the server's     *)
(* requests are such callers; and the solve slots are conserved for any    *)
(* number of slots and requests, whatever the limiter decides.             *)

(* A call's time was read before, so it is not ahead of the clock.         *)
CallsPast == \A c \in Callers : calls[c] # NoCall => calls[c].now <= clock

LimiterInv == LimiterTypeOK /\ Bounded /\ CountsGrants /\ CallsPast

(* A sweep only drops clients, and the clients it drops have windows as    *)
(* old as the call's time can tell.                                        *)
LEMMA SweepDrops ==
  ASSUME NEW now \in Nat, LimiterTypeOK
  PROVE  /\ LiveAt(now) \subseteq DOMAIN windows
         /\ \A k \in DOMAIN windows : k \notin LiveAt(now) => now >= windows[k].start + Window
<1>1. \A k \in DOMAIN windows : windows[k].start \in Nat
  BY DEF LimiterTypeOK, Windows
<1> QED
  BY <1>1, LimiterAssumption DEF LiveAt, Since

(* The window a call counts in is well formed, and it is its client's own  *)
(* unless that one is as old as a window.                                  *)
LEMMA SlotIsWindow ==
  ASSUME NEW now \in Nat, NEW k \in Clients, LimiterTypeOK, CountsGrants
  PROVE  /\ Slot(k, now) \in Windows
         /\ Slot(k, now).count <= MaxRequests
         /\ k \in DOMAIN windows /\ now < windows[k].start + Window => Slot(k, now) = windows[k]
         /\ Slot(k, now) # windows[k] \/ k \notin DOMAIN windows => Slot(k, now).count = 0
         /\ Slot(k, now).count > 0 => k \in DOMAIN windows /\ Slot(k, now) = windows[k]
<1>1. \A x \in DOMAIN windows : windows[x] \in Windows /\ windows[x].count <= MaxRequests
  BY DEF LimiterTypeOK, CountsGrants
<1>2. LiveAt(now) \subseteq DOMAIN windows
  BY SweepDrops
<1>3. \A x \in DOMAIN windows : windows[x].start \in Nat /\ windows[x].count \in Nat
  BY <1>1 DEF Windows
<1>4. k \in DOMAIN windows /\ now < windows[k].start + Window => k \in LiveAt(now)
  BY <1>3, SweepDrops, LimiterAssumption
<1>5. CASE k \in LiveAt(now) /\ Since(now, windows[k].start) < Window
  BY <1>1, <1>2, <1>3, <1>5 DEF Slot
<1>6. CASE ~(k \in LiveAt(now) /\ Since(now, windows[k].start) < Window)
  <2>1. Slot(k, now) = [start |-> now, count |-> 0]
    BY <1>6 DEF Slot
  <2>2. ~(k \in DOMAIN windows /\ now < windows[k].start + Window)
    BY <1>3, <1>4, <1>6, LimiterAssumption DEF Since
  <2> QED
    BY <2>1, <2>2, LimiterAssumption DEF Windows
<1> QED
  BY <1>5, <1>6

LEMMA LimiterInitially == LimiterInit => LimiterInv
<1> SUFFICES ASSUME LimiterInit PROVE LimiterInv
  OBVIOUS
<1>1. DOMAIN windows = {}
  BY DEF LimiterInit
<1>2. windows \in [DOMAIN windows -> Windows]
  BY <1>1 DEF LimiterInit
<1>3. LimiterTypeOK
  BY <1>1, <1>2 DEF LimiterInit, LimiterTypeOK
<1>4. Bounded
  BY <1>1, FS_EmptySet, LimiterAssumption DEF Bounded
<1> QED
  BY <1>1, <1>3, <1>4 DEF LimiterInit, LimiterInv, CountsGrants, CallsPast

(* What Allow does to the map, whichever way it answers.                   *)
LEMMA AllowWrites ==
  ASSUME NEW c \in Callers, LimiterInv, Allow(c)
  PROVE  /\ calls[c].client \in Clients /\ calls[c].now \in Nat /\ calls[c].now <= clock
         /\ DOMAIN windows' = IF RefusedAsNew(calls[c].client, calls[c].now)
                              THEN LiveAt(calls[c].now)
                              ELSE LiveAt(calls[c].now) \cup {calls[c].client}
         /\ \A x \in DOMAIN windows' : x # calls[c].client => windows'[x] = windows[x]
<1>1. calls[c] \in Calls /\ calls[c].now <= clock
  BY DEF Allow, LimiterInv, LimiterTypeOK, CallsPast
<1> QED
  BY <1>1 DEF Allow, Calls

(* What it does to its own client's window.                                *)
LEMMA AllowCounts ==
  ASSUME NEW c \in Callers, LimiterInv, Allow(c),
         ~RefusedAsNew(calls[c].client, calls[c].now)
  PROVE  /\ Slot(calls[c].client, calls[c].now).count < MaxRequests =>
              windows'[calls[c].client] =
                [start |-> Slot(calls[c].client, calls[c].now).start,
                 count |-> Slot(calls[c].client, calls[c].now).count + 1]
         /\ ~(Slot(calls[c].client, calls[c].now).count < MaxRequests) =>
              windows'[calls[c].client] = Slot(calls[c].client, calls[c].now)
<1> DEFINE k == calls[c].client
           now == calls[c].now
<1>1. k \in Clients /\ now \in Nat
  BY AllowWrites
<1>2. Slot(k, now) \in Windows
  BY <1>1, SlotIsWindow DEF LimiterInv
<1>3. windows'[k] = IF Allows(k, now) THEN [Slot(k, now) EXCEPT !.count = @ + 1] ELSE Slot(k, now)
  BY DEF Allow
<1> QED
  BY <1>2, <1>3, LimiterAssumption DEF Allows, Windows

LEMMA AllowKeeps ==
  ASSUME NEW c \in Callers, LimiterInv, Allow(c)
  PROVE  LimiterInv'
<1> DEFINE k == calls[c].client
           now == calls[c].now
           kept == LiveAt(calls[c].now)
<1>1. k \in Clients /\ now \in Nat
  BY AllowWrites
<1>2. kept \subseteq DOMAIN windows
  BY <1>1, SweepDrops DEF LimiterInv
<1>3. DOMAIN windows' \subseteq Clients
  BY <1>1, <1>2, AllowWrites DEF LimiterInv, LimiterTypeOK
<1>4. \A x \in DOMAIN windows : windows[x] \in Windows
  BY DEF LimiterInv, LimiterTypeOK
<1>5. ~RefusedAsNew(k, now) => windows'[k] \in Windows /\ windows'[k].count <= MaxRequests
  <2> DEFINE slot == Slot(k, now)
  <2>1. slot \in Windows /\ slot.count <= MaxRequests
    BY <1>1, SlotIsWindow DEF LimiterInv
  <2>2. ~RefusedAsNew(k, now) =>
          /\ slot.count < MaxRequests => windows'[k] = [start |-> slot.start, count |-> slot.count + 1]
          /\ ~(slot.count < MaxRequests) => windows'[k] = slot
    BY AllowCounts
  <2> HIDE DEF slot
  <2> QED
    BY <2>1, <2>2, LimiterAssumption DEF Windows
<1>6. RefusedAsNew(k, now) => k \notin DOMAIN windows'
  BY AllowWrites DEF RefusedAsNew
<1>7. \A x \in DOMAIN windows' : windows'[x] \in Windows
  BY <1>2, <1>4, <1>5, <1>6, AllowWrites
<1>8. LimiterTypeOK'
  <2>1. windows' \in [DOMAIN windows' -> Windows]
    <3>1. windows' = [x \in DOMAIN windows' |-> windows'[x]]
      BY DEF Allow
    <3> QED
      BY <1>7, <3>1
  <2>2. swept' \in Nat /\ clock' \in Nat /\ calls' \in [Callers -> Calls \cup {NoCall}]
    BY <1>1 DEF Allow, LimiterInv, LimiterTypeOK
  <2> QED
    BY <1>3, <2>1, <2>2 DEF LimiterTypeOK
<1>9. Bounded'
  <2>1. IsFiniteSet(DOMAIN windows) /\ Cardinality(DOMAIN windows) <= Capacity
    BY DEF LimiterInv, Bounded
  <2>2. IsFiniteSet(kept) /\ Cardinality(kept) \in Nat /\ Cardinality(kept) <= Capacity
    BY <1>2, <2>1, FS_Subset, FS_CardinalityType, LimiterAssumption
  <2>3. CASE RefusedAsNew(k, now)
    BY <2>2, <2>3, AllowWrites DEF Bounded
  <2>4. CASE ~RefusedAsNew(k, now)
    <3>1. DOMAIN windows' = kept \cup {k}
      BY <2>4, AllowWrites
    <3>2. IsFiniteSet(kept \cup {k}) /\ Cardinality(kept \cup {k}) =
            (IF k \in kept THEN Cardinality(kept) ELSE Cardinality(kept) + 1)
      BY <2>2, FS_AddElement
    <3>3. k \notin kept => Cardinality(kept) < Capacity
      BY <2>2, <2>4, LimiterAssumption DEF RefusedAsNew
    <3>4. Cardinality(kept \cup {k}) <= Capacity
      BY <2>2, <3>2, <3>3, LimiterAssumption
    <3> QED
      BY <3>1, <3>2, <3>4 DEF Bounded
  <2> QED
    BY <2>3, <2>4
<1>10. CountsGrants'
  <2> SUFFICES ASSUME NEW x \in DOMAIN windows'
               PROVE  /\ windows'[x].count <= MaxRequests
                      /\ \A n \in 0 .. windows'[x].count - 1 :
                           \E g \in granted' :
                             g.client = x /\ g.start = windows'[x].start /\ g.nth = n
    BY DEF CountsGrants
  <2>1. granted \subseteq granted'
    BY DEF Allow
  <2>2. CASE x # k
    <3>1. x \in DOMAIN windows /\ windows'[x] = windows[x]
      BY <1>2, <2>2, AllowWrites
    <3> QED
      BY <2>1, <3>1 DEF LimiterInv, CountsGrants
  <2>3. CASE x = k
    <3> DEFINE slot == Slot(k, now)
    <3>1. ~RefusedAsNew(k, now)
      BY <1>6, <2>3
    <3>2. slot \in Windows /\ slot.count \in Nat
      BY <1>1, SlotIsWindow DEF LimiterInv, Windows
    <3>3. \A n \in 0 .. slot.count - 1 :
            \E g \in granted : g.client = k /\ g.start = slot.start /\ g.nth = n
      <4>1. CASE slot.count = 0
        BY <4>1
      <4>2. CASE slot.count > 0
        <5>1. k \in DOMAIN windows /\ slot = windows[k]
          BY <1>1, <4>2, SlotIsWindow DEF LimiterInv
        <5> QED
          BY <5>1 DEF LimiterInv, CountsGrants
      <4> QED
        BY <3>2, <4>1, <4>2
    <3>4. CASE slot.count < MaxRequests
      <4>1. windows'[k] = [start |-> slot.start, count |-> slot.count + 1]
        BY <3>1, <3>4, AllowCounts
      <4>2. [client |-> k, start |-> slot.start, nth |-> slot.count] \in granted'
        BY <3>1, <3>4 DEF Allow, Allows
      <4>3. \A n \in 0 .. slot.count :
              \E g \in granted' : g.client = k /\ g.start = slot.start /\ g.nth = n
        <5> TAKE n \in 0 .. slot.count
        <5>1. CASE n = slot.count
          BY <4>2, <5>1
        <5>2. CASE n # slot.count
          BY <2>1, <3>2, <3>3, <5>2
        <5> QED
          BY <5>1, <5>2
      <4> HIDE DEF slot
      <4> QED
        BY <2>3, <3>2, <3>4, <4>1, <4>3, LimiterAssumption
    <3>5. CASE slot.count >= MaxRequests
      <4>1. windows'[k] = slot
        <5>1. ~(slot.count < MaxRequests)
          BY <3>2, <3>5, LimiterAssumption
        <5> QED
          BY <3>1, <5>1, AllowCounts
      <4>2. slot.count <= MaxRequests
        BY <1>1, SlotIsWindow DEF LimiterInv
      <4> QED
        BY <2>1, <2>3, <3>3, <4>1, <4>2
    <3> QED
      BY <3>2, <3>4, <3>5, LimiterAssumption
  <2> QED
    BY <2>2, <2>3
<1>11. CallsPast'
  BY DEF Allow, LimiterInv, CallsPast, LimiterTypeOK
<1> QED
  BY <1>8, <1>9, <1>10, <1>11 DEF LimiterInv

LEMMA StepKeeps == LimiterInv /\ [LimiterNext]_limiterVars => LimiterInv'
<1> SUFFICES ASSUME LimiterInv, [LimiterNext]_limiterVars PROVE LimiterInv'
  OBVIOUS
<1>0. ASSUME UNCHANGED <<windows, swept, granted>>, clock' \in Nat,
             calls' \in [Callers -> Calls \cup {NoCall}], CallsPast'
      PROVE  LimiterInv'
  BY <1>0 DEF LimiterInv, LimiterTypeOK, Bounded, CountsGrants
<1>a. clock \in Nat /\ calls \in [Callers -> Calls \cup {NoCall}] /\ CallsPast
  BY DEF LimiterInv, LimiterTypeOK
<1>1. CASE ClockTick
  <2>1. \A c \in Callers : calls[c] # NoCall => calls[c].now \in Nat
    BY <1>a DEF Calls
  <2>2. CallsPast'
    BY <1>1, <1>a, <2>1 DEF ClockTick, CallsPast
  <2> QED
    BY <1>0, <1>1, <1>a, <2>2 DEF ClockTick
<1>2. ASSUME NEW c \in Callers, NEW k \in Clients, Call(c, k) PROVE LimiterInv'
  <2>1. calls' \in [Callers -> Calls \cup {NoCall}]
    BY <1>2, <1>a DEF Call, Calls
  <2>2. CallsPast'
    BY <1>2, <1>a DEF Call, CallsPast
  <2> QED
    BY <1>0, <1>2, <1>a, <2>1, <2>2 DEF Call
<1>3. ASSUME NEW c \in Callers, Allow(c) PROVE LimiterInv'
  BY <1>3, AllowKeeps
<1>4. CASE UNCHANGED limiterVars
  BY <1>0, <1>4, <1>a DEF limiterVars, CallsPast
<1> QED
  BY <1>1, <1>2, <1>3, <1>4 DEF LimiterNext

(* The limiter's types, its bound and its counts hold throughout.          *)
THEOREM LimiterInductive == LimiterSpec => []LimiterInv
<1> QED
  BY LimiterInitially, StepKeeps, PTL DEF LimiterSpec

(* The map never outgrows its capacity.                                    *)
THEOREM TrackedBounded == LimiterSpec => []Bounded
<1>1. LimiterInv => Bounded
  BY DEF LimiterInv
<1> QED
  BY <1>1, LimiterInductive, PTL

(* No window counts past its budget, and every count was allowed.          *)
THEOREM CountsHonest == LimiterSpec => []CountsGrants
<1>1. LimiterInv => CountsGrants
  BY DEF LimiterInv
<1> QED
  BY <1>1, LimiterInductive, PTL

(* No call resets a budget before its window is over on the clock.         *)
THEOREM NoEarlyReset == LimiterSpec => BudgetsKept
<1> DEFINE Kept == \A k \in DOMAIN windows :
                     clock < windows[k].start + Window =>
                       /\ k \in DOMAIN windows'
                       /\ windows'[k].start = windows[k].start
                       /\ windows'[k].count >= windows[k].count
<1>1. LimiterInv /\ [LimiterNext]_limiterVars => [Kept]_limiterVars
  <2> SUFFICES ASSUME LimiterInv, LimiterNext, NEW k \in DOMAIN windows,
                      clock < windows[k].start + Window
               PROVE  /\ k \in DOMAIN windows'
                      /\ windows'[k].start = windows[k].start
                      /\ windows'[k].count >= windows[k].count
    OBVIOUS
  <2>1. windows[k] \in Windows /\ windows[k].start \in Nat /\ windows[k].count \in Nat
    BY DEF LimiterInv, LimiterTypeOK, Windows
  <2>2. ASSUME windows' = windows
        PROVE  k \in DOMAIN windows' /\ windows'[k] = windows[k]
    BY <2>2
  <2>3. ASSUME NEW c \in Callers, Allow(c)
        PROVE  /\ k \in DOMAIN windows'
               /\ windows'[k].start = windows[k].start
               /\ windows'[k].count >= windows[k].count
    <3> DEFINE now == calls[c].now
    <3>1. now \in Nat /\ now <= clock /\ clock \in Nat /\ calls[c].client \in Clients
      BY <2>3, AllowWrites DEF LimiterInv, LimiterTypeOK
    <3>2. now < windows[k].start + Window
      BY <2>1, <3>1, LimiterAssumption
    <3>3. k \in LiveAt(now)
      BY <2>1, <3>1, <3>2, SweepDrops, LimiterAssumption DEF LimiterInv
    <3>4. k \in DOMAIN windows'
      BY <2>3, <3>3, AllowWrites
    <3>5. CASE k # calls[c].client
      <4>1. windows'[k] = windows[k]
        BY <2>3, <3>4, <3>5, AllowWrites
      <4> QED
        BY <2>1, <3>4, <4>1
    <3>6. CASE k = calls[c].client
      <4>1. ~RefusedAsNew(k, now)
        BY <3>3 DEF RefusedAsNew
      <4>2. Slot(k, now) = windows[k]
        BY <3>1, <3>2, <3>6, SlotIsWindow DEF LimiterInv
      <4>3. \/ windows'[k] = [start |-> windows[k].start, count |-> windows[k].count + 1]
            \/ windows'[k] = windows[k]
        BY <2>3, <3>6, <4>1, <4>2, AllowCounts
      <4> QED
        BY <2>1, <3>4, <4>3
    <3> QED
      BY <3>5, <3>6, <3>4
  <2> QED
    BY <2>1, <2>2, <2>3 DEF LimiterNext, ClockTick, Call
<1>2. LimiterSpec => [][Kept]_limiterVars
  BY <1>1, LimiterInductive, PTL DEF LimiterSpec
<1> QED
  BY <1>2 DEF BudgetsKept


-----------------------------------------------------------------------------
(* The server's requests as callers of the limiter.                        *)

LEMMA ServerStepLimits ==
  ASSUME client \in [Requests -> Clients], [ServerNext]_allVars
  PROVE  [LimiterNext]_limiterVars /\ client' = client
<1>1. CASE UNCHANGED allVars
  BY <1>1 DEF allVars, limiterVars, serverVars
<1>2. CASE ClockTick /\ UNCHANGED serverVars
  BY <1>2 DEF LimiterNext, serverVars
<1>3. ASSUME NEW r \in Requests, ChargeCall(r)
      PROVE  [LimiterNext]_limiterVars /\ client' = client
  BY <1>3 DEF ChargeCall, Requests, LimiterNext, serverVars
<1>4. ASSUME NEW r \in Requests, Charge(r)
      PROVE  [LimiterNext]_limiterVars /\ client' = client
  BY <1>4 DEF Charge, Requests, LimiterNext
<1>5. ASSUME NEW r \in Requests, Refuse(r) \/ Admit(r) \/ GoAway(r) \/ Reply(r) \/ Work(r)
      PROVE  UNCHANGED limiterVars /\ client' = client
  BY <1>5 DEF Refuse, Admit, GoAway, Reply, Work, Start, Batch, Finish
<1> QED
  BY <1>1, <1>2, <1>3, <1>4, <1>5 DEF ServerNext, Handle

(* Every behaviour of the server is one of the limiter: a request calls it *)
(* once admitted, as a client it is charged to, and nothing else of the    *)
(* server touches it (api.rs 45-60).                                       *)
THEOREM ServerLimits == ServerSpec => LimiterSpec
<1> DEFINE Charged == client \in [Requests -> Clients]
<1>1. ServerInit => LimiterInit /\ Charged
  BY DEF ServerInit
<1>2. Charged /\ [ServerNext]_allVars => [LimiterNext]_limiterVars /\ Charged'
  BY ServerStepLimits
<1> QED
  BY <1>1, <1>2, PTL DEF ServerSpec, LimiterSpec

(* So the server's limiter keeps its promises, whatever becomes of the     *)
(* requests (limit.rs 8-20, 47-74).                                        *)
THEOREM ServerStaysBounded == ServerSpec => []Bounded /\ []CountsGrants /\ BudgetsKept
BY ServerLimits, TrackedBounded, CountsHonest, NoEarlyReset, PTL

-----------------------------------------------------------------------------
(* The slots.                                                              *)

SlotTypeOK ==
  /\ req \in [Requests -> {"new", "admitted", "awaiting", "answered", "gone"}]
  /\ job \in [Requests -> {"none", "queued", "searching", "ended"}]
  /\ free \in Nat

(* No request searches before it is charged.                               *)
ChargedFirst == \A r \in Requests : req[r] \in {"new", "admitted"} => job[r] = "none"

SlotInv == SlotTypeOK /\ ChargedFirst /\ SlotsConserved

LEMMA HoldersFinite == IsFiniteSet(Holders) /\ Cardinality(Holders) \in Nat
<1>1. Holders \subseteq Callers
  BY DEF Holders, Requests
<1> QED
  BY <1>1, FS_Subset, FS_CardinalityType, ServerAssumption

(* A step that takes one permit and makes one holder, or gives one back    *)
(* as a holder ends, conserves the slots.                                  *)
LEMMA Taken ==
  ASSUME NEW r \in Requests, SlotInv, free > 0, free' = free - 1,
         r \notin Holders, Holders' = Holders \cup {r}
  PROVE  SlotsConserved'
<1>1. Cardinality(Holders') = Cardinality(Holders) + 1
  BY HoldersFinite, FS_AddElement
<1>2. free \in Nat /\ free + Cardinality(Holders) = Slots /\ Cardinality(Holders) \in Nat
  BY HoldersFinite DEF SlotInv, SlotsConserved
<1> QED
  BY <1>1, <1>2 DEF SlotsConserved

LEMMA GivenBack ==
  ASSUME NEW r \in Requests, SlotInv, free' = free + 1,
         r \in Holders, Holders' = Holders \ {r}
  PROVE  SlotsConserved'
<1>1. Cardinality(Holders') = Cardinality(Holders) - 1
  BY HoldersFinite, FS_RemoveElement
<1>2. free \in Nat /\ free + Cardinality(Holders) = Slots /\ Cardinality(Holders) \in Nat
  BY HoldersFinite DEF SlotInv, SlotsConserved
<1> QED
  BY <1>1, <1>2 DEF SlotsConserved

LEMMA Untouched ==
  ASSUME SlotInv, free' = free, Holders' = Holders
  PROVE  SlotsConserved'
  BY DEF SlotInv, SlotsConserved

(* A step that moves only a request and its search keeps the types, and    *)
(* the order of the charge where it respects it.                           *)
LEMMA Moved ==
  ASSUME NEW r \in Requests, SlotInv,
         NEW to \in {"new", "admitted", "awaiting", "answered", "gone"},
         NEW at \in {"none", "queued", "searching", "ended"},
         req' = [req EXCEPT ![r] = to], job' = [job EXCEPT ![r] = at], free' \in Nat,
         to \in {"new", "admitted"} => at = "none"
  PROVE  /\ SlotTypeOK' /\ ChargedFirst'
         /\ \A x \in Requests \ {r} : (Holds(x)' <=> Holds(x))
         /\ Holds(r)' <=> (to = "admitted" \/ at \in {"queued", "searching"})
<1>1. req \in [Requests -> {"new", "admitted", "awaiting", "answered", "gone"}]
      /\ job \in [Requests -> {"none", "queued", "searching", "ended"}]
  BY DEF SlotInv, SlotTypeOK
<1>2. SlotTypeOK'
  BY <1>1 DEF SlotTypeOK
<1>3. /\ \A x \in Requests \ {r} : req'[x] = req[x] /\ job'[x] = job[x]
      /\ req'[r] = to /\ job'[r] = at
  BY <1>1
<1>4. ChargedFirst'
  BY <1>3 DEF ChargedFirst, SlotInv
<1>5. \A x \in Requests \ {r} : (Holds(x)' <=> Holds(x))
  BY <1>3 DEF Holds
<1>6. Holds(r)' <=> (to = "admitted" \/ at \in {"queued", "searching"})
  BY <1>3 DEF Holds
<1> QED
  BY <1>2, <1>4, <1>5, <1>6

(* What such a step makes of the holders.                                  *)
LEMMA HoldersAfter ==
  ASSUME NEW r \in Requests, \A x \in Requests \ {r} : (Holds(x)' <=> Holds(x))
  PROVE  /\ Holds(r)' /\ Holds(r) => Holders' = Holders
         /\ ~Holds(r)' /\ ~Holds(r) => Holders' = Holders
         /\ Holds(r)' /\ ~Holds(r) => r \notin Holders /\ Holders' = Holders \cup {r}
         /\ ~Holds(r)' /\ Holds(r) => r \in Holders /\ Holders' = Holders \ {r}
  BY DEF Holders, Requests

LEMMA RefuseKeeps ==
  ASSUME NEW r \in Requests, SlotInv, Refuse(r) PROVE SlotInv'
<1>1. req' = [req EXCEPT ![r] = "answered"] /\ job' = job /\ free' = free /\ req[r] = "new"
  BY DEF Refuse, Answers
<1>2. job[r] = "none" /\ job' = [job EXCEPT ![r] = "none"] /\ free' \in Nat /\ ~Holds(r)
  BY <1>1 DEF SlotInv, ChargedFirst, SlotTypeOK, Holds
<1>3. /\ SlotTypeOK' /\ ChargedFirst' /\ ~Holds(r)'
      /\ \A x \in Requests \ {r} : (Holds(x)' <=> Holds(x))
  BY <1>1, <1>2, Moved
<1> QED
  BY <1>1, <1>2, <1>3, HoldersAfter, Untouched DEF SlotInv

LEMMA AdmitKeeps ==
  ASSUME NEW r \in Requests, SlotInv, Admit(r) PROVE SlotInv'
<1>1. req' = [req EXCEPT ![r] = "admitted"] /\ job' = job /\ req[r] = "new"
      /\ free' = free - 1 /\ free > 0
  BY DEF Admit
<1>2. job[r] = "none" /\ job' = [job EXCEPT ![r] = "none"] /\ free' \in Nat /\ ~Holds(r)
  BY <1>1 DEF SlotInv, ChargedFirst, SlotTypeOK, Holds
<1>3. /\ SlotTypeOK' /\ ChargedFirst' /\ Holds(r)'
      /\ \A x \in Requests \ {r} : (Holds(x)' <=> Holds(x))
  BY <1>1, <1>2, Moved
<1> QED
  BY <1>1, <1>2, <1>3, HoldersAfter, Taken DEF SlotInv

LEMMA ChargeKeeps ==
  ASSUME NEW r \in Requests, SlotInv, Charge(r) PROVE SlotInv'
<1> DEFINE allowed == Allows(calls[r].client, calls[r].now)
<1>1. /\ req[r] = "admitted" /\ job[r] = "none" /\ Holds(r)
      /\ free \in Nat
  BY DEF Charge, SlotInv, ChargedFirst, SlotTypeOK, Holds
<1>2. CASE allowed
  <2>1. req' = [req EXCEPT ![r] = "awaiting"] /\ job' = [job EXCEPT ![r] = "queued"]
        /\ free' = free
    BY <1>2 DEF Charge, PermitsAfter
  <2>2. /\ SlotTypeOK' /\ ChargedFirst' /\ Holds(r)'
        /\ \A x \in Requests \ {r} : (Holds(x)' <=> Holds(x))
    BY <1>1, <2>1, Moved
  <2> QED
    BY <1>1, <2>1, <2>2, HoldersAfter, Untouched DEF SlotInv
<1>3. CASE ~allowed
  <2>1. req' = [req EXCEPT ![r] = "answered"] /\ job' = job /\ free' = free + 1
    BY <1>3 DEF Charge, PermitsAfter, Answers
  <2>2. job' = [job EXCEPT ![r] = "none"] /\ free' \in Nat
    BY <1>1, <2>1 DEF SlotInv, SlotTypeOK
  <2>3. /\ SlotTypeOK' /\ ChargedFirst' /\ ~Holds(r)'
        /\ \A x \in Requests \ {r} : (Holds(x)' <=> Holds(x))
    BY <2>1, <2>2, Moved
  <2> QED
    BY <1>1, <2>1, <2>3, HoldersAfter, GivenBack DEF SlotInv
<1> QED
  BY <1>2, <1>3

(* The handler leaves its search where it is: dropped, or answered once    *)
(* the search has ended.                                                   *)
LEMMA LeavesKeep ==
  ASSUME NEW r \in Requests, SlotInv, GoAway(r) \/ Reply(r) PROVE SlotInv'
<1>1. PICK to \in {"gone", "answered"} : req' = [req EXCEPT ![r] = to]
  BY DEF GoAway, Reply, Answers
<1>2. req[r] = "awaiting" /\ job' = job /\ free' = free
  BY DEF GoAway, Reply
<1>3. job[r] \in {"none", "queued", "searching", "ended"} /\ job' = [job EXCEPT ![r] = job[r]]
      /\ free' \in Nat
  BY <1>2 DEF SlotInv, SlotTypeOK
<1>4. /\ SlotTypeOK' /\ ChargedFirst'
      /\ Holds(r)' <=> (job[r] \in {"queued", "searching"})
      /\ \A x \in Requests \ {r} : (Holds(x)' <=> Holds(x))
  <2>1. to \in {"new", "admitted", "awaiting", "answered", "gone"} /\ to \notin {"new", "admitted"}
    BY <1>1
  <2> QED
    BY <1>1, <1>3, <2>1, Moved
<1>5. Holds(r) <=> (job[r] \in {"queued", "searching"})
  BY <1>2 DEF Holds
<1> QED
  BY <1>2, <1>4, <1>5, HoldersAfter, Untouched DEF SlotInv

LEMMA EndsKeep ==
  ASSUME NEW r \in Requests, SlotInv, job[r] \in {"queued", "searching"},
         NEW status, Ends(r, status), req' = req
  PROVE  SlotInv'
<1>1. req[r] \in {"new", "admitted", "awaiting", "answered", "gone"}
      /\ req' = [req EXCEPT ![r] = req[r]] /\ req[r] \notin {"new", "admitted"} /\ Holds(r)
  BY DEF SlotInv, SlotTypeOK, ChargedFirst, Holds
<1>2. job' = [job EXCEPT ![r] = "ended"] /\ free' = free + 1 /\ free' \in Nat
  BY DEF Ends, SlotInv, SlotTypeOK
<1>3. /\ SlotTypeOK' /\ ChargedFirst' /\ ~Holds(r)'
      /\ \A x \in Requests \ {r} : (Holds(x)' <=> Holds(x))
  BY <1>1, <1>2, Moved
<1> QED
  BY <1>1, <1>2, <1>3, HoldersAfter, GivenBack DEF SlotInv

LEMMA StartKeeps ==
  ASSUME NEW r \in Requests, SlotInv, Start(r) PROVE SlotInv'
<1>1. job[r] = "queued" /\ req' = req
  BY DEF Start
<1>2. CASE \E status \in {"400", "503"} : Ends(r, status)
  BY <1>1, <1>2, EndsKeep
<1>3. CASE job' = [job EXCEPT ![r] = "searching"] /\ free' = free
  <2>1. req[r] \in {"new", "admitted", "awaiting", "answered", "gone"}
        /\ req' = [req EXCEPT ![r] = req[r]] /\ req[r] \notin {"new", "admitted"} /\ Holds(r)
    BY <1>1 DEF SlotInv, SlotTypeOK, ChargedFirst, Holds
  <2>2. free' \in Nat
    BY <1>3 DEF SlotInv, SlotTypeOK
  <2>3. /\ SlotTypeOK' /\ ChargedFirst' /\ Holds(r)'
        /\ \A x \in Requests \ {r} : (Holds(x)' <=> Holds(x))
    BY <1>3, <2>1, <2>2, Moved
  <2> QED
    BY <1>3, <2>1, <2>3, HoldersAfter, Untouched DEF SlotInv
<1> QED
  BY <1>2, <1>3 DEF Start

(* The rest leaves the requests, the searches and the permits alone.       *)
LEMMA StutterKeeps ==
  ASSUME SlotInv, UNCHANGED <<req, job, free>> PROVE SlotInv'
  BY DEF SlotInv, SlotTypeOK, ChargedFirst, SlotsConserved, Holders, Holds

LEMMA SlotStep == SlotInv /\ [ServerNext]_allVars => SlotInv'
<1> SUFFICES ASSUME SlotInv, [ServerNext]_allVars PROVE SlotInv'
  OBVIOUS
<1>1. CASE UNCHANGED allVars
  BY <1>1, StutterKeeps DEF allVars, serverVars
<1>2. CASE ClockTick /\ UNCHANGED serverVars
  BY <1>2, StutterKeeps DEF serverVars
<1>3. ASSUME NEW r \in Requests,
             Refuse(r) \/ Admit(r) \/ GoAway(r) \/ Handle(r) \/ Work(r)
      PROVE  SlotInv'
  <2>1. CASE Refuse(r)
    BY <2>1, RefuseKeeps
  <2>2. CASE Admit(r)
    BY <2>2, AdmitKeeps
  <2>3. CASE GoAway(r) \/ Reply(r)
    BY <2>3, LeavesKeep
  <2>4. CASE ChargeCall(r)
    BY <2>4, StutterKeeps DEF ChargeCall, serverVars
  <2>5. CASE Charge(r)
    BY <2>5, ChargeKeeps
  <2>6. CASE Start(r)
    BY <2>6, StartKeeps
  <2>7. CASE Batch(r)
    BY <2>7, StutterKeeps DEF Batch
  <2>8. CASE Finish(r)
    BY <2>8, EndsKeep DEF Finish
  <2> QED
    BY <1>3, <2>1, <2>2, <2>3, <2>4, <2>5, <2>6, <2>7, <2>8 DEF Handle, Work
<1> QED
  BY <1>1, <1>2, <1>3 DEF ServerNext

LEMMA SlotsInitially == ServerInit => SlotInv
<1> SUFFICES ASSUME ServerInit PROVE SlotInv
  OBVIOUS
<1>1. SlotTypeOK /\ ChargedFirst
  BY ServerAssumption DEF ServerInit, SlotTypeOK, ChargedFirst
<1>2. Holders = {}
  BY DEF ServerInit, Holders, Holds
<1> QED
  BY <1>1, <1>2, FS_EmptySet, ServerAssumption DEF ServerInit, SlotInv, SlotsConserved

(* Slots neither leak nor multiply, whatever becomes of a request: refused *)
(* for want of a slot or of budget, failed before its search, answered, or *)
(* dropped while its search waits or runs (api.rs 45-52, solve.rs          *)
(* 218-250).                                                               *)
THEOREM SlotsNeverLeak == ServerSpec => []SlotsConserved
<1>1. SlotInv => SlotsConserved
  BY DEF SlotInv
<1> QED
  BY <1>1, SlotsInitially, SlotStep, PTL DEF ServerSpec

=============================================================================
