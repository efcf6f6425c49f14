--------------------------- MODULE AbstractBreaker ---------------------------
(***************************************************************************)
(* What a circuit breaker promises its callers, without timers, counters   *)
(* or callbacks: three modes, the legal moves between them, and at most    *)
(* one request let through per half-open period.                           *)
(***************************************************************************)
EXTENDS Naturals

VARIABLES
    mode,     \* "closed", "open" or "half-open"
    admitted  \* requests let through in the current half-open period

avars == <<mode, admitted>>

AInit ==
    /\ mode = "closed"
    /\ admitted = 0

\* Enough failures were recorded: stop letting requests through.
Trip ==
    /\ mode \in {"closed", "half-open"}
    /\ mode' = "open"
    /\ UNCHANGED admitted

\* The cooldown is over: a new half-open period begins.
CoolDown ==
    /\ mode = "open"
    /\ mode' = "half-open"
    /\ admitted' = 0

\* The one probe of a half-open period.
Probe ==
    /\ mode = "half-open"
    /\ admitted = 0
    /\ admitted' = 1
    /\ UNCHANGED mode

\* A success was recorded, or the breaker was reset.
Recover ==
    /\ mode # "closed"
    /\ mode' = "closed"
    /\ UNCHANGED admitted

ANext == Trip \/ CoolDown \/ Probe \/ Recover

ASpec == AInit /\ [][ANext]_avars
==============================================================================
