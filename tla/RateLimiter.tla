---------------------------- MODULE RateLimiter ----------------------------
(***************************************************************************)
(* The per-client limiter of native solves (crates/server/src/limit.rs):   *)
(* fixed windows in one bounded map behind a mutex.  allow reads the clock *)
(* before it takes the lock, so calls may be counted in another order than *)
(* their times; each is two steps here.                                    *)
(*                                                                         *)
(* A client is its map key: an address, or an IPv6 /64.                    *)
(***************************************************************************)
EXTENDS Naturals, FiniteSets

CONSTANTS
  Callers,   \* the calls of allow that may overlap
  Clients,
  MaxRequests,  \* requests a client may make in a window
  Window,    \* its length
  Capacity,  \* clients tracked at once (MAX_TRACKED)
  LastTick   \* when the clock stops; a bound for TLC

ASSUME LimiterAssumption ==
  /\ MaxRequests \in Nat /\ Capacity \in Nat
  /\ Window \in Nat \ {0}
  /\ LastTick \in Nat

VARIABLES
  clock,
  windows,  \* a tracked client's window: its start and requests counted
  swept,    \* when stale windows were last swept
  calls,    \* what each call holds between its two steps
  granted   \* history: every request allowed, the window it was counted in

limiterVars == <<clock, windows, swept, calls, granted>>

Windows == [start : Nat, count : Nat]

Calls == [client : Clients, now : Nat]

NoCall == << >>

(* saturating_duration_since                                               *)
Since(now, t) == IF now > t THEN now - t ELSE 0

\* Faulty: drops every window once the last sweep is a window old.
LiveAtAll(now) ==
  IF Since(now, swept) >= Window THEN {} ELSE DOMAIN windows

(* The clients still tracked once a call at now has swept.                 *)
LiveAt(now) ==
  IF Since(now, swept) >= Window
  THEN {k \in DOMAIN windows : Since(now, windows[k].start) < Window}
  ELSE DOMAIN windows

\* Faulty: resets the map rather than refuse an unknown client.
RefusedAsNewNever(k, now) == FALSE

RefusedAsNew(k, now) == Cardinality(LiveAt(now)) >= Capacity /\ k \notin LiveAt(now)

(* The window a call counts in: its client's, or a new one.                *)
Slot(k, now) ==
  IF k \in LiveAt(now) /\ Since(now, windows[k].start) < Window THEN windows[k]
  ELSE [start |-> now, count |-> 0]

\* Faulty: counts up to one too many.
AllowsOneMore(k, now) == ~RefusedAsNew(k, now) /\ Slot(k, now).count <= MaxRequests

Allows(k, now) == ~RefusedAsNew(k, now) /\ Slot(k, now).count < MaxRequests

-----------------------------------------------------------------------------
LimiterInit ==
  /\ clock = 0
  /\ windows = << >>
  /\ swept = 0
  /\ calls = [c \in Callers |-> NoCall]
  /\ granted = {}

ClockTick ==
  /\ clock < LastTick
  /\ clock' = clock + 1
  /\ UNCHANGED <<windows, swept, calls, granted>>

(* allow: the clock is read before the lock.                               *)
Call(c, k) ==
  /\ calls[c] = NoCall
  /\ calls' = [calls EXCEPT ![c] = [client |-> k, now |-> clock]]
  /\ UNCHANGED <<clock, windows, swept, granted>>

(* allow_at, all of it under the lock.                                     *)
Allow(c) ==
  /\ calls[c] # NoCall
  /\ LET k    == calls[c].client
         now  == calls[c].now
         slot == Slot(k, now)
         kept == LiveAt(now)
         told == IF Allows(k, now) THEN [slot EXCEPT !.count = @ + 1] ELSE slot
     IN  /\ swept' = IF Since(now, swept) >= Window THEN now ELSE swept
         /\ windows' = IF RefusedAsNew(k, now) THEN [x \in kept |-> windows[x]]
                       ELSE [x \in kept \cup {k} |-> IF x = k THEN told ELSE windows[x]]
         /\ granted' = IF Allows(k, now)
                       THEN granted \cup {[client |-> k, start |-> slot.start,
                                           nth |-> slot.count]}
                       ELSE granted
  /\ calls' = [calls EXCEPT ![c] = NoCall]
  /\ UNCHANGED clock

LimiterNext ==
  \/ ClockTick
  \/ \E c \in Callers, k \in Clients : Call(c, k)
  \/ \E c \in Callers : Allow(c)

LimiterSpec == LimiterInit /\ [][LimiterNext]_limiterVars

-----------------------------------------------------------------------------
LimiterTypeOK ==
  /\ clock \in Nat
  /\ DOMAIN windows \subseteq Clients /\ windows \in [DOMAIN windows -> Windows]
  /\ swept \in Nat
  /\ calls \in [Callers -> Calls \cup {NoCall}]

(* The map stays within its capacity, whoever calls (limit.rs 8-20).       *)
Bounded == IsFiniteSet(DOMAIN windows) /\ Cardinality(DOMAIN windows) <= Capacity

(* A tracked window never counts more than a client may make, and every    *)
(* request counted was allowed in that very window (limit.rs 47-74).       *)
CountsGrants ==
  \A k \in DOMAIN windows :
    LET w == windows[k] IN
    /\ w.count <= MaxRequests
    /\ \A n \in 0 .. w.count - 1 :
         \E g \in granted : g.client = k /\ g.start = w.start /\ g.nth = n

(* Nobody's budget is reset early: while a window is younger than Window   *)
(* on the clock, no call takes its client off the map, moves its start or  *)
(* lowers its count, not even a full map's (limit.rs 17-20).               *)
BudgetsKept ==
  [][\A k \in DOMAIN windows :
       clock < windows[k].start + Window =>
         /\ k \in DOMAIN windows'
         /\ windows'[k].start = windows[k].start
         /\ windows'[k].count >= windows[k].count]_limiterVars

=============================================================================
