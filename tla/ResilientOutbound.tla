-------------------------- MODULE ResilientOutbound --------------------------
(***************************************************************************)
(* engine/outbound_middleware.go, ResilientOutbound.DialContext: concurrent *)
(* requests dial through one circuit breaker, retrying with backoff.       *)
(***************************************************************************)
EXTENDS CircuitBreaker

CONSTANTS
    Requests,    \* request goroutines that may be in flight at once
    MaxAttempts, \* retry.MaxAttempts
    Cancels      \* the requests whose context their caller may cancel

ASSUME RequestAssumption ==
    /\ MaxAttempts \in Nat \ {0}
    /\ Cancels \subseteq Requests

VARIABLES
    pc,      \* where each request is in DialContext
    attempt  \* the loop counter of the retry loop

requestVars == <<pc, attempt>>
vars == <<breakerVars, requestVars>>

RequestTypeOK ==
    /\ TypeOK
    /\ pc \in [Requests -> {"idle", "dialing", "backoff"}]
    /\ attempt \in [Requests -> 0..MaxAttempts]

RInit ==
    /\ Init
    /\ pc = [r \in Requests |-> "idle"]
    /\ attempt = [r \in Requests |-> 0]

\* A caller asks for a connection and the breaker lets it through.  (A
\* rejected request returns an error and changes nothing.)
Admitted(r) ==
    /\ pc[r] = "idle"
    /\ Allow
    /\ pc' = [pc EXCEPT ![r] = "dialing"]
    /\ attempt' = [attempt EXCEPT ![r] = 1]

Return(r) ==
    /\ pc' = [pc EXCEPT ![r] = "idle"]
    /\ attempt' = [attempt EXCEPT ![r] = 0]

DialSucceeds(r) ==
    /\ pc[r] = "dialing"
    /\ RecordSuccess
    /\ Return(r)

\* The inner dial failed: wait for the backoff, or give up after the last try.
DialFails(r) ==
    /\ pc[r] = "dialing"
    /\ \/ /\ attempt[r] < MaxAttempts
          /\ pc' = [pc EXCEPT ![r] = "backoff"]
          /\ UNCHANGED <<breakerVars, attempt>>
       \/ /\ attempt[r] = MaxAttempts
          /\ RecordFailure
          /\ Return(r)

BugBackoffForgetsAttempt(r) ==
    /\ pc[r] = "backoff"
    /\ pc' = [pc EXCEPT ![r] = "dialing"]
    /\ UNCHANGED <<breakerVars, attempt>>

BackoffElapses(r) ==
    /\ pc[r] = "backoff"
    /\ pc' = [pc EXCEPT ![r] = "dialing"]
    /\ attempt' = [attempt EXCEPT ![r] = @ + 1]
    /\ UNCHANGED breakerVars

\* ctx.Done() while waiting: DialContext returns without recording anything.
Cancelled(r) ==
    /\ r \in Cancels
    /\ pc[r] = "backoff"
    /\ Return(r)
    /\ UNCHANGED breakerVars

Step(r) ==
    \/ DialSucceeds(r)
    \/ DialFails(r)
    \/ BackoffElapses(r)
    \/ Cancelled(r)

RNext ==
    \/ \E r \in Requests : Admitted(r) \/ Step(r)
    \/ (Reset \/ Internal) /\ UNCHANGED requestVars

\* Every backoff ends, timers fire and runnable goroutines run.  Dials are not
\* assumed to end: the proxies dial with the engine's context, which carries no
\* deadline.  In the code a running callback is never disabled; here the bound
\* MaxPending can disable it for a while, hence strong fairness for those.
Fairness ==
    /\ \A r \in Requests : WF_vars(BackoffElapses(r) \/ Cancelled(r))
    /\ SF_vars(TimerFires /\ UNCHANGED requestVars)
    /\ SF_vars(TimerCallback /\ UNCHANGED requestVars)
    /\ \A s \in CircuitStates :
          WF_vars(OnStateChange(s) /\ UNCHANGED requestVars)

\* Servers that always answer a dial, one way or the other.
DialsEnd == \A r \in Requests : SF_vars(DialSucceeds(r) \/ DialFails(r))

RSpec == RInit /\ [][RNext]_vars

FairRSpec == RSpec /\ Fairness

\* Used to show that a request may go wrong although no dial hangs.
AnsweredRSpec == FairRSpec /\ DialsEnd
-----------------------------------------------------------------------------
\* The retry loop ends: an admitted request returns to its caller after at most
\* MaxAttempts dials, unless one single dial never comes back, which
\* DialContext can do nothing about.
RequestsReturn ==
    \A r \in Requests :
        (pc[r] # "idle") ~> (pc[r] = "idle" \/ [](pc[r] = "dialing"))

\* An open circuit does not stay open: the cooldown ends in a half-open period,
\* or a late success closes it first.
CooldownEnds == (state = "open") ~> (state # "open")

\* HalfOpen is "Allowing one probe request": once the probe has been let
\* through, its outcome moves the circuit on, so later requests have a chance.
HalfOpenResolves ==
    (state = "half-open" /\ halfOpenUsed)
        ~> ~ (state = "half-open" /\ halfOpenUsed)
==============================================================================
