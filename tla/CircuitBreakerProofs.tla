------------------------ MODULE CircuitBreakerProofs ------------------------
(***************************************************************************)
(* Theorems about the circuit breaker, for every threshold, cooldown and    *)
(* bound.                                                                  *)
(***************************************************************************)
EXTENDS CircuitBreaker, TLAPS

\* The strengthening that makes the three safety properties inductive: the
\* probe counter and the halfOpenUsed flag agree in a half-open period, and a
\* fired timer leaves room for one more stale callback.
IInv ==
    /\ TypeOK
    /\ state = "half-open" => probes <= 1
    /\ state = "half-open" /\ ~halfOpenUsed => probes = 0
    /\ OpenHasTimer
    /\ timer = "fired" => stale < MaxCallbacks

\* A doubled cooldown stays within the configured limits.
LEMMA DoubledType ==
    ASSUME NEW c \in BaseCooldown..MaxCooldown
    PROVE  /\ Doubled(c) \in BaseCooldown..MaxCooldown
           /\ c <= Doubled(c)
  BY BreakerAssumption DEF Doubled

\* Counting a failure keeps the counter within its range.
LEMMA BumpType ==
    ASSUME NEW n \in 0..Threshold
    PROVE  Bump(n) \in 0..Threshold
  BY BreakerAssumption DEF Bump

\* Owing a notification keeps the table of pending ones within its bound.
LEMMA OweType ==
    ASSUME pending \in [CircuitStates -> 0..MaxPending],
           NEW s \in CircuitStates, Owe(s)
    PROVE  pending' \in [CircuitStates -> 0..MaxPending]
  BY BreakerAssumption DEF Owe

\* The initial state of NewCircuitBreaker satisfies the invariant.
LEMMA InitIInv == Init => IInv
<1> USE BreakerAssumption DEF Init, CircuitStates
<1>1. Init => pending \in [CircuitStates -> 0..MaxPending]
  OBVIOUS
<1>2. Init => halfOpenUsed \in BOOLEAN
  OBVIOUS
<1> QED
  BY <1>1, <1>2 DEF IInv, TypeOK, OpenHasTimer

\* Each method, each timer event and each notification preserves it.
LEMMA StepIInv == IInv /\ [Next]_breakerVars => IInv'
<1> SUFFICES ASSUME IInv, [Next]_breakerVars
             PROVE  IInv'
  OBVIOUS
<1> USE BreakerAssumption DEF IInv, TypeOK, OpenHasTimer
<1>0. "closed" \in CircuitStates /\ "open" \in CircuitStates
      /\ "half-open" \in CircuitStates
  BY DEF CircuitStates
<1>1. CASE Allow
  <2>1. CASE state = "closed" /\ UNCHANGED breakerVars
    BY <2>1 DEF breakerVars
  <2>2. CASE state = "half-open" /\ ~halfOpenUsed
    <3>1. halfOpenUsed' \in BOOLEAN /\ halfOpenUsed'
      BY <1>1, <2>2, Zenon DEF Allow, breakerVars
    <3> QED
      BY <1>1, <2>2, <3>1 DEF Allow, breakerVars
  <2> QED
    BY <1>1, <2>1, <2>2 DEF Allow
<1>2. CASE ForceClosed
  <2>1. halfOpenUsed' \in BOOLEAN
    BY <1>2, Zenon DEF ForceClosed
  <2>2. pending' \in [CircuitStates -> 0..MaxPending]
    BY <1>2, <1>0, OweType DEF ForceClosed
  <2> QED
    BY <1>2, <2>1, <2>2 DEF ForceClosed, SetTimer, CircuitStates
<1>3. CASE Reopen
  <2>1. halfOpenUsed' \in BOOLEAN
    BY <1>3, Zenon DEF Reopen
  <2>2. pending' \in [CircuitStates -> 0..MaxPending]
    BY <1>3, <1>0, OweType DEF Reopen
  <2> QED
    BY <1>3, <2>1, <2>2, DoubledType, BumpType DEF Reopen, SetTimer, CircuitStates
<1>4. CASE TripNow
  <2>1. halfOpenUsed' \in BOOLEAN
    BY <1>4, Zenon DEF TripNow
  <2>2. pending' \in [CircuitStates -> 0..MaxPending]
    BY <1>4, <1>0, OweType DEF TripNow
  <2> QED
    BY <1>4, <2>1, <2>2, BumpType DEF TripNow, SetTimer, CircuitStates
<1>5. CASE CountFailure
  BY <1>5, BumpType DEF CountFailure
<1>6. CASE TimerFires
  BY <1>6 DEF TimerFires
<1>7. CASE TimerCallback
  <2>1. halfOpenUsed' \in BOOLEAN
    BY <1>7, Zenon DEF TimerCallback
  <2>2. pending' \in [CircuitStates -> 0..MaxPending]
    BY <1>7, <1>0, OweType DEF TimerCallback
  <2> QED
    BY <1>7, <2>1, <2>2 DEF TimerCallback, TakeCallback, CircuitStates
<1>8. CASE \E s \in CircuitStates : OnStateChange(s)
  BY <1>8 DEF OnStateChange
<1>9. CASE UNCHANGED breakerVars
  BY <1>9 DEF breakerVars
<1> QED
  BY <1>1, <1>2, <1>3, <1>4, <1>5, <1>6, <1>7, <1>8, <1>9
     DEF Next, RecordSuccess, Reset, RecordFailure, Internal

\* The inductive invariant holds in every reachable state.
THEOREM Invariance == Spec => []IInv
  BY InitIInv, StepIInv, PTL DEF Spec

\* The state of the breaker stays within its types: in particular the doubled
\* cooldown never leaves the configured limits.
THEOREM TypeCorrect == Spec => []TypeOK
<1>1. IInv => TypeOK
  BY DEF IInv
<1> QED
  BY <1>1, Invariance, PTL

\* One half-open period lets at most one request through (circuit.go, Allow).
THEOREM AtMostOneProbe == Spec => []SingleProbe
<1>1. IInv => SingleProbe
  BY DEF IInv, SingleProbe
<1> QED
  BY <1>1, Invariance, PTL

\* An open circuit always has its cooldown timer or the timer's callback.
THEOREM OpenAlwaysHasTimer == Spec => []OpenHasTimer
<1>1. IInv => OpenHasTimer
  BY DEF IInv
<1> QED
  BY <1>1, Invariance, PTL

\* The cooldown shrinks only in a step that closes the circuit.
THEOREM BackoffGrows == Spec => BackoffNeverShrinks
<1>1. IInv /\ [Next]_breakerVars
        => [cooldown' < cooldown => state' = "closed"]_breakerVars
  <2> SUFFICES ASSUME IInv, Next
               PROVE  cooldown' < cooldown => state' = "closed"
    BY DEF breakerVars
  <2> USE BreakerAssumption DEF IInv, TypeOK
  <2>1. CASE Reopen
    BY <2>1, DoubledType DEF Reopen
  <2>2. CASE ForceClosed
    BY <2>2 DEF ForceClosed
  <2>3. CASE cooldown' = cooldown
    BY <2>3
  <2> QED
    BY <2>1, <2>2, <2>3
       DEF Next, RecordSuccess, Reset, RecordFailure, Internal, Allow,
           TripNow, CountFailure, TimerFires, TimerCallback, OnStateChange,
           breakerVars
<1> QED
  BY <1>1, Invariance, PTL DEF Spec, BackoffNeverShrinks

\* The breaker with its timers, stale callbacks and late results implements
\* the abstract three-mode breaker.
THEOREM Refinement == Spec => ImplementsAbstract
<1>1. Init => Abstract!AInit
  BY DEF Init, Abstract!AInit
<1>2. IInv /\ [Next]_breakerVars => [Abstract!ANext]_(Abstract!avars)
  <2> SUFFICES ASSUME IInv, [Next]_breakerVars
               PROVE  Abstract!ANext \/ UNCHANGED <<state, probes>>
    BY DEF Abstract!avars
  <2> USE DEF IInv, TypeOK
  <2>1. CASE Allow
    BY <2>1 DEF Allow, breakerVars, Abstract!ANext, Abstract!Probe
  <2>2. CASE ForceClosed
    BY <2>2 DEF ForceClosed, Abstract!ANext, Abstract!Recover
  <2>3. CASE Reopen \/ TripNow
    BY <2>3 DEF Reopen, TripNow, Abstract!ANext, Abstract!Trip
  <2>4. CASE TimerCallback
    BY <2>4 DEF TimerCallback, Abstract!ANext, Abstract!CoolDown
  <2>5. CASE UNCHANGED <<state, probes>>
    BY <2>5
  <2> QED
    BY <2>1, <2>2, <2>3, <2>4, <2>5
       DEF Next, RecordSuccess, Reset, RecordFailure, Internal,
           CountFailure, TimerFires, OnStateChange, breakerVars
<1> QED
  BY <1>1, <1>2, Invariance, PTL DEF Spec, ImplementsAbstract, Abstract!ASpec
=============================================================================
