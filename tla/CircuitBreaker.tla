--------------------------- MODULE CircuitBreaker ---------------------------
(***************************************************************************)
(* The per-outbound circuit breaker of engine/circuit.go.                  *)
(*                                                                         *)
(* Each method runs under cb.mu, so it is one action; what it does after   *)
(* the unlock (the onStateChange callback) is a separate action, because   *)
(* other goroutines may take the lock in between.  The cooldown timer is a *)
(* time.AfterFunc: once it has fired, its callback is a goroutine waiting  *)
(* for cb.mu that Timer.Stop can no longer take back.                      *)
(***************************************************************************)
EXTENDS Naturals

CONSTANTS
    Threshold,     \* consecutive failures that open the circuit
    BaseCooldown,  \* first cooldown
    MaxCooldown,   \* cap of the doubled cooldown
    MaxCallbacks,  \* bound: superseded timer callbacks waiting for cb.mu
    MaxPending     \* bound: undelivered notifications of one state

ASSUME BreakerAssumption ==
    /\ Threshold \in Nat \ {0}
    /\ BaseCooldown \in Nat \ {0}
    /\ MaxCooldown \in Nat
    /\ BaseCooldown <= MaxCooldown
    /\ MaxCallbacks \in Nat
    /\ MaxPending \in Nat

VARIABLES
    state,             \* cb.state
    consecutiveFails,  \* cb.consecutiveFails, saturating at Threshold
    cooldown,          \* cb.cooldown
    halfOpenUsed,      \* cb.halfOpenUsed
    timer,             \* cb.resetTimer: "off", "armed", or "fired"
    stale,             \* fired callbacks of timers that were since replaced
    pending,           \* onStateChange calls not yet made, per state
    reported,          \* metrics.circuitBreakers[tag]; "none" when absent
    probes             \* history: admissions in the current half-open period

breakerVars == <<state, consecutiveFails, cooldown, halfOpenUsed, timer,
                 stale, pending, reported, probes>>

CircuitStates == {"closed", "open", "half-open"}

TypeOK ==
    /\ state \in CircuitStates
    /\ consecutiveFails \in 0..Threshold
    /\ cooldown \in BaseCooldown..MaxCooldown
    /\ halfOpenUsed \in BOOLEAN
    /\ timer \in {"off", "armed", "fired"}
    /\ stale \in 0..MaxCallbacks
    /\ pending \in [CircuitStates -> 0..MaxPending]
    /\ reported \in CircuitStates \cup {"none"}
    /\ probes \in Nat

Init ==
    /\ state = "closed"
    /\ consecutiveFails = 0
    /\ cooldown = BaseCooldown
    /\ halfOpenUsed = FALSE
    /\ timer = "off"
    /\ stale = 0
    /\ pending = [s \in CircuitStates |-> 0]
    /\ reported = "none"
    /\ probes = 0
-----------------------------------------------------------------------------
\* The caller leaves cb.mu owing an onStateChange(s) call.
Owe(s) ==
    /\ pending[s] < MaxPending
    /\ pending' = [pending EXCEPT ![s] = @ + 1]

\* Stop (and, with t = "armed", replace) cb.resetTimer.  A callback that is
\* already running survives as a stale one.
SetTimer(t) ==
    /\ timer' = t
    /\ stale' = IF timer = "fired" THEN stale + 1 ELSE stale

\* Only the comparison with the threshold is ever made, so the counter
\* saturates there.
Bump(n) == IF n < Threshold THEN n + 1 ELSE Threshold

\* Faulty variants, each a mutation of the definition that follows them, show
\* that the properties below can fail.
BugDoubledUncapped(c) == 2 * c

BugDoubledWraps(c) == IF 2 * c > MaxCooldown THEN BaseCooldown ELSE 2 * c

Doubled(c) == IF 2 * c > MaxCooldown THEN MaxCooldown ELSE 2 * c

\* Allow(), returning true.  (Returning false changes nothing.)
Allow ==
    \/ /\ state = "closed"
       /\ UNCHANGED breakerVars
    \/ /\ state = "half-open"
       /\ ~halfOpenUsed
       /\ halfOpenUsed' = TRUE
       /\ probes' = probes + 1
       /\ UNCHANGED <<state, consecutiveFails, cooldown, timer, stale,
                      pending, reported>>

\* RecordSuccess() and Reset() have the same effect on the breaker.
ForceClosed ==
    /\ state' = "closed"
    /\ consecutiveFails' = 0
    /\ cooldown' = BaseCooldown
    /\ halfOpenUsed' = FALSE
    /\ SetTimer("off")
    /\ IF state # "closed" THEN Owe("closed") ELSE UNCHANGED pending
    /\ UNCHANGED <<reported, probes>>

RecordSuccess == ForceClosed

Reset == ForceClosed

BugReopenKeepsOldTimer ==
    /\ state = "half-open"
    /\ consecutiveFails' = Bump(consecutiveFails)
    /\ cooldown' = Doubled(cooldown)
    /\ state' = "open"
    /\ halfOpenUsed' = FALSE
    /\ Owe("open")
    /\ UNCHANGED <<timer, stale, reported, probes>>

BugReopenOnlyCounts ==
    /\ state = "half-open"
    /\ consecutiveFails' = Bump(consecutiveFails)
    /\ UNCHANGED <<state, cooldown, halfOpenUsed, timer, stale, pending,
                   reported, probes>>

\* RecordFailure(): reopen from half-open, trip from closed, or just count.
Reopen ==
    /\ state = "half-open"
    /\ consecutiveFails' = Bump(consecutiveFails)
    /\ cooldown' = Doubled(cooldown)
    /\ state' = "open"
    /\ halfOpenUsed' = FALSE
    /\ SetTimer("armed")
    /\ Owe("open")
    /\ UNCHANGED <<reported, probes>>

TripNow ==
    /\ state = "closed"
    /\ Bump(consecutiveFails) >= Threshold
    /\ consecutiveFails' = Bump(consecutiveFails)
    /\ state' = "open"
    /\ SetTimer("armed")
    /\ Owe("open")
    /\ UNCHANGED <<cooldown, halfOpenUsed, reported, probes>>

CountFailure ==
    /\ state # "half-open"
    /\ ~ (state = "closed" /\ Bump(consecutiveFails) >= Threshold)
    /\ consecutiveFails' = Bump(consecutiveFails)
    /\ UNCHANGED <<state, cooldown, halfOpenUsed, timer, stale, pending,
                   reported, probes>>

RecordFailure == Reopen \/ TripNow \/ CountFailure

\* The runtime starts the AfterFunc goroutine; it has not taken cb.mu yet.
TimerFires ==
    /\ timer = "armed"
    /\ stale < MaxCallbacks
    /\ timer' = "fired"
    /\ UNCHANGED <<state, consecutiveFails, cooldown, halfOpenUsed, stale,
                   pending, reported, probes>>

\* A running callback takes cb.mu: the current timer's, or a stale one.
TakeCallback ==
    \/ /\ timer = "fired"
       /\ timer' = "off"
       /\ UNCHANGED stale
    \/ /\ stale > 0
       /\ stale' = stale - 1
       /\ UNCHANGED timer

\* A callback that rearms the probe without looking at the state.
BugCallbackRearmsProbe ==
    /\ TakeCallback
    /\ state' = IF state = "open" THEN "half-open" ELSE state
    /\ halfOpenUsed' = FALSE
    /\ probes' = IF state = "open" THEN 0 ELSE probes
    /\ Owe("half-open")
    /\ UNCHANGED <<consecutiveFails, cooldown, reported>>

\* A callback that trusts its timer and does not re-check the state.
BugCallbackUnguarded ==
    /\ TakeCallback
    /\ state' = "half-open"
    /\ halfOpenUsed' = FALSE
    /\ probes' = 0
    /\ Owe("half-open")
    /\ UNCHANGED <<consecutiveFails, cooldown, reported>>

\* It owes onStateChange(half-open) whatever state it found.
TimerCallback ==
    /\ TakeCallback
    /\ \/ /\ state = "open"
          /\ state' = "half-open"
          /\ halfOpenUsed' = FALSE
          /\ probes' = 0
       \/ /\ state # "open"
          /\ UNCHANGED <<state, halfOpenUsed, probes>>
    /\ Owe("half-open")
    /\ UNCHANGED <<consecutiveFails, cooldown, reported>>

\* A goroutine makes the onStateChange(s) call it owes: the engine's callback
\* stores s as the outbound's reported state.
OnStateChange(s) ==
    /\ pending[s] > 0
    /\ pending' = [pending EXCEPT ![s] = @ - 1]
    /\ reported' = s
    /\ UNCHANGED <<state, consecutiveFails, cooldown, halfOpenUsed, timer,
                   stale, probes>>

\* What the breaker does on its own, whoever calls its methods.
Internal ==
    \/ TimerFires
    \/ TimerCallback
    \/ \E s \in CircuitStates : OnStateChange(s)

Next ==
    \/ Allow
    \/ RecordSuccess
    \/ RecordFailure
    \/ Reset
    \/ Internal

Spec == Init /\ [][Next]_breakerVars
-----------------------------------------------------------------------------
(* Properties. *)

\* "HalfOpen: true once, then false" (Allow): however timers, late results and
\* probes interleave, one half-open period lets at most one request through.
SingleProbe == state = "half-open" => probes <= 1

\* An open circuit always has a cooldown timer running or its callback on the
\* way, so no order of late failures, successes and stale callbacks leaves it
\* open for good.
OpenHasTimer == state = "open" => timer \in {"armed", "fired"}

\* The backoff of RecordFailure only grows until a success or a Reset closes
\* the circuit.
BackoffNeverShrinks ==
    [][cooldown' < cooldown => state' = "closed"]_breakerVars

\* The breaker implements AbstractBreaker: in particular a timer callback never
\* takes a closed circuit to half-open.
Abstract == INSTANCE AbstractBreaker WITH mode <- state, admitted <- probes

ImplementsAbstract == Abstract!ASpec
=============================================================================
