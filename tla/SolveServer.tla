---------------------------- MODULE SolveServer ----------------------------
(***************************************************************************)
(* POST /api/solve (crates/server/src/solve.rs, api.rs): a request is      *)
(* checked, takes a solve slot, is charged, and searches on a blocking     *)
(* thread that keeps the slot until it ends, whether or not anybody still  *)
(* waits for its answer.                                                   *)
(*                                                                         *)
(* A request is a caller of the limiter.  It may be dropped only where its *)
(* handler awaits the search.  A search runs a bounded number of batches   *)
(* before its deadline; what it finds is left out.                         *)
(***************************************************************************)
EXTENDS RateLimiter

CONSTANTS
  Slots,     \* SOLVE_CONCURRENCY
  Deadline   \* batches of pops that fit before time_ms has passed

ASSUME ServerAssumption ==
  /\ Slots \in Nat \ {0} /\ Deadline \in Nat
  /\ IsFiniteSet(Callers)

Requests == Callers

VARIABLES
  kind,    \* what is wrong with a request, if anything
  client,  \* the client it is charged to
  req,     \* where its handler stands
  answer,  \* the status it was answered with
  free,    \* permits left in the semaphore
  job,     \* where its search stands on the blocking thread
  cancel,  \* its cancel flag
  batches, \* batches of pops run
  outcome  \* what the closure returned

serverVars == <<kind, client, req, answer, free, job, cancel, batches, outcome>>

allVars == <<limiterVars, serverVars>>

Kinds == {"good", "bad limits", "bad game"}

ServerInit ==
  /\ LimiterInit
  /\ kind \in [Requests -> Kinds]
  /\ client \in [Requests -> Clients]
  /\ req = [r \in Requests |-> "new"]
  /\ answer = [r \in Requests |-> "none"]
  /\ free = Slots
  /\ job = [r \in Requests |-> "none"]
  /\ cancel = [r \in Requests |-> FALSE]
  /\ batches = [r \in Requests |-> 0]
  /\ outcome = [r \in Requests |-> "none"]

Answers(r, status) ==
  /\ req' = [req EXCEPT ![r] = "answered"]
  /\ answer' = [answer EXCEPT ![r] = status]

(* A request whose own limits are wrong takes no slot, and one that finds  *)
(* no slot free is answered at once.                                       *)
Refuse(r) ==
  /\ req[r] = "new"
  /\ \/ kind[r] = "bad limits" /\ Answers(r, "400")
     \/ kind[r] # "bad limits" /\ free = 0 /\ Answers(r, "busy")
  /\ UNCHANGED <<limiterVars, kind, client, free, job, cancel, batches, outcome>>

Admit(r) ==
  /\ req[r] = "new" /\ kind[r] # "bad limits" /\ free > 0
  /\ free' = free - 1
  /\ req' = [req EXCEPT ![r] = "admitted"]
  /\ UNCHANGED <<limiterVars, kind, client, answer, job, cancel, batches, outcome>>

(* charge: the limiter's clock read, then its answer.                      *)
ChargeCall(r) ==
  /\ req[r] = "admitted"
  /\ Call(r, client[r])
  /\ UNCHANGED serverVars

(* The permit of a refused request drops as its handler returns.           *)
PermitsAfter(allowed) == IF allowed THEN free ELSE free + 1

Charge(r) ==
  /\ req[r] = "admitted"
  /\ Allow(r)
  /\ LET allowed == Allows(calls[r].client, calls[r].now)
     IN  /\ free' = PermitsAfter(allowed)
         /\ IF allowed
            THEN /\ req' = [req EXCEPT ![r] = "awaiting"]
                 /\ job' = [job EXCEPT ![r] = "queued"]
                 /\ UNCHANGED answer
            ELSE Answers(r, "rate") /\ UNCHANGED job
  /\ UNCHANGED <<kind, client, cancel, batches, outcome>>

\* Faulty: the permit drops with the handler, not with the search.
GoAwayFreeing(r) ==
  /\ req[r] = "awaiting"
  /\ req' = [req EXCEPT ![r] = "gone"]
  /\ cancel' = [cancel EXCEPT ![r] = TRUE]
  /\ free' = free + 1
  /\ UNCHANGED <<limiterVars, kind, client, answer, job, batches, outcome>>

(* The request is dropped: the handler's guard raises its cancel flag.     *)
GoAway(r) ==
  /\ req[r] = "awaiting"
  /\ req' = [req EXCEPT ![r] = "gone"]
  /\ cancel' = [cancel EXCEPT ![r] = TRUE]
  /\ UNCHANGED <<limiterVars, kind, client, answer, free, job, batches, outcome>>

\* Faulty: the permit outlives the search.
EndsKeepingPermit(r, status) ==
  /\ job' = [job EXCEPT ![r] = "ended"]
  /\ outcome' = [outcome EXCEPT ![r] = status]
  /\ UNCHANGED free

(* The closure ends: its permit drops, and its result waits for the        *)
(* handler, if that still waits.                                           *)
Ends(r, status) ==
  /\ job' = [job EXCEPT ![r] = "ended"]
  /\ outcome' = [outcome EXCEPT ![r] = status]
  /\ free' = free + 1

(* The closure starts: a bad position or route ends it, a failed           *)
(* allocation too; no cancel is heard before the search is driven.         *)
Start(r) ==
  /\ job[r] = "queued"
  /\ \/ kind[r] = "bad game" /\ Ends(r, "400")
     \/ kind[r] = "good" /\ Ends(r, "503")
     \/ /\ kind[r] = "good"
        /\ job' = [job EXCEPT ![r] = "searching"]
        /\ UNCHANGED <<free, outcome>>
  /\ UNCHANGED <<limiterVars, kind, client, req, answer, cancel, batches>>

(* drive: one batch of pops, unless the flag or the deadline stops it.     *)
Batch(r) ==
  /\ job[r] = "searching"
  /\ ~cancel[r] /\ batches[r] < Deadline
  /\ batches' = [batches EXCEPT ![r] = @ + 1]
  /\ UNCHANGED <<limiterVars, kind, client, req, answer, free, job, cancel, outcome>>

(* The search has ended or was stopped: a route too long for the position  *)
(* is refused, any other result answered.                                  *)
Finish(r) ==
  /\ job[r] = "searching"
  /\ \E status \in {"200", "400"} : Ends(r, status)
  /\ UNCHANGED <<limiterVars, kind, client, req, answer, cancel, batches>>

(* The handler gets the result; its guard drops with it.                   *)
Reply(r) ==
  /\ req[r] = "awaiting" /\ job[r] = "ended"
  /\ Answers(r, outcome[r])
  /\ cancel' = [cancel EXCEPT ![r] = TRUE]
  /\ UNCHANGED <<limiterVars, kind, client, free, job, batches, outcome>>

Handle(r) == ChargeCall(r) \/ Charge(r) \/ Reply(r)

Work(r) == Start(r) \/ Batch(r) \/ Finish(r)

ServerNext ==
  \/ ClockTick /\ UNCHANGED serverVars
  \/ \E r \in Requests : Refuse(r) \/ Admit(r) \/ GoAway(r) \/ Handle(r) \/ Work(r)

(* A handler that can go on is polled, and a blocking thread runs.         *)
ServerSpec ==
  /\ ServerInit /\ [][ServerNext]_allVars
  /\ \A r \in Requests : WF_allVars(Handle(r)) /\ WF_allVars(Work(r))

-----------------------------------------------------------------------------
(* A slot is held from admission until the search ends, and no longer.     *)
Holds(r) == req[r] = "admitted" \/ job[r] \in {"queued", "searching"}

Holders == {r \in Requests : Holds(r)}

(* Permits are neither lost nor made on any way out: refused, answered,    *)
(* dropped while queued or searching (api.rs 45-52, solve.rs 218-250).     *)
SlotsConserved == free \in Nat /\ free + Cardinality(Holders) = Slots

(* Every slot comes back, that of a dropped request too.                   *)
SlotsReturn == []<>(free > 0)

=============================================================================
