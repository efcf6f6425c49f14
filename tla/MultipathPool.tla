---------------------------- MODULE MultipathPool ----------------------------
(***************************************************************************)
(* transport/selector/multipath.go and scheduler.go: one persistent        *)
(* connection per transport (a path), streams spread over the paths by a   *)
(* scheduler, and a health loop that re-dials a path after a number of     *)
(* consecutive failures.                                                   *)
(*                                                                         *)
(* Schedulers differ only in which eligible path they prefer; Pick takes   *)
(* any.  A connection is nil, live, or broken by the network.              *)
(***************************************************************************)
EXTENDS Integers, FiniteSets, Sequences

CONSTANTS
    PathOrder,  \* pool.paths
    Threshold,  \* pathFailureThreshold
    MStreams,   \* concurrent calls of OpenStream
    NoPath

ASSUME MultipathAssumption == Threshold \in Nat \ {0}

VARIABLES
    conn,           \* pm.Conn
    available,      \* pm.available
    failures,       \* pm.Failures; only compared with the threshold
    pathStreams,    \* pm.ActiveStreams
    redial,         \* the path the health loop is dialling
    poolClosed,     \* Close has run
    mpc,            \* where each OpenStream is
    path,           \* the path it is using
    next,           \* the fallback loop's position in paths
    steady          \* the paths that have been usable since the call began

pathVars == <<conn, available, failures, pathStreams>>
callVars == <<mpc, path, next>>
multipathVars == <<pathVars, redial, poolClosed, callVars, steady>>

Paths == {PathOrder[i] : i \in 1..Len(PathOrder)}

MultipathTypeOK ==
    /\ conn \in [Paths -> {"nil", "live", "broken"}]
    /\ available \in [Paths -> BOOLEAN]
    /\ failures \in [Paths -> 0..Threshold]
    /\ pathStreams \in [Paths -> Nat]
    /\ redial \in Paths \cup {NoPath}
    /\ poolClosed \in BOOLEAN
    /\ mpc \in [MStreams -> {"idle", "picked", "fallback", "opened", "active"}]
    /\ path \in [MStreams -> Paths \cup {NoPath}]
    /\ next \in [MStreams -> 1..(Len(PathOrder) + 1)]
    /\ steady \in [MStreams -> SUBSET Paths]

\* NewMultipathPool dials every transport once; one that fails has a failure
\* on record and no connection.
MultipathInit ==
    \E dialled \in SUBSET Paths :
        /\ conn = [p \in Paths |-> IF p \in dialled THEN "live" ELSE "nil"]
        /\ available = [p \in Paths |-> p \in dialled]
        /\ failures = [p \in Paths |-> IF p \in dialled THEN 0 ELSE 1]
        /\ pathStreams = [p \in Paths |-> 0]
        /\ redial = NoPath
        /\ poolClosed = FALSE
        /\ mpc = [s \in MStreams |-> "idle"]
        /\ path = [s \in MStreams |-> NoPath]
        /\ next = [s \in MStreams |-> 1]
        /\ steady = [s \in MStreams |-> {}]
-----------------------------------------------------------------------------
\* The network, and probe results applied by UpdateMetrics.

ConnBreaks(p) ==
    /\ conn[p] = "live"
    /\ conn' = [conn EXCEPT ![p] = "broken"]
    /\ UNCHANGED <<available, failures, pathStreams, redial, poolClosed,
                   callVars>>

UpdateMetrics(p) ==
    /\ \E up \in BOOLEAN : available' = [available EXCEPT ![p] = up]
    /\ UNCHANGED <<conn, failures, pathStreams, redial, poolClosed, callVars>>

BugCheckOffByOne(p) ==
    /\ ~poolClosed
    /\ redial = NoPath
    /\ failures[p] > Threshold
    /\ conn' = [conn EXCEPT ![p] = "nil"]
    /\ redial' = p
    /\ UNCHANGED <<available, failures, pathStreams, poolClosed, callVars>>

\* checkPaths reaches p in its loop: after too many failures it closes the old
\* connection and starts to dial.
CheckPath(p) ==
    /\ ~poolClosed
    /\ redial = NoPath
    /\ failures[p] >= Threshold
    /\ conn' = [conn EXCEPT ![p] = "nil"]
    /\ redial' = p
    /\ UNCHANGED <<available, failures, pathStreams, poolClosed, callVars>>

\* The dial, begun before Close, may still succeed after it.
RedialSucceeds(p) ==
    /\ redial = p
    /\ conn' = [conn EXCEPT ![p] = "live"]
    /\ available' = [available EXCEPT ![p] = TRUE]
    /\ failures' = [failures EXCEPT ![p] = 0]
    /\ redial' = NoPath
    /\ UNCHANGED <<pathStreams, poolClosed, callVars>>

RedialFails(p) ==
    /\ redial = p
    /\ redial' = NoPath
    /\ UNCHANGED <<pathVars, poolClosed, callVars>>

MultipathClose ==
    /\ ~poolClosed
    /\ poolClosed' = TRUE
    /\ conn' = [p \in Paths |-> "nil"]
    /\ available' = [p \in Paths |-> FALSE]
    /\ UNCHANGED <<failures, pathStreams, redial, callVars>>
-----------------------------------------------------------------------------
\* multipathConn.OpenStream.

FailOnce(p) ==
    failures' = [failures EXCEPT ![p] = IF @ < Threshold THEN @ + 1 ELSE @]

\* filterEligible, and the test of openStreamFallback.
Eligible(p) == available[p] /\ conn[p] # "nil" /\ failures[p] < Threshold

Pick(s, p) ==
    /\ mpc[s] = "idle"
    /\ Eligible(p)
    /\ mpc' = [mpc EXCEPT ![s] = "picked"]
    /\ path' = [path EXCEPT ![s] = p]
    /\ UNCHANGED <<pathVars, redial, poolClosed, next>>

PickedOpens(s) ==
    /\ mpc[s] = "picked"
    /\ conn[path[s]] = "live"
    /\ mpc' = [mpc EXCEPT ![s] = "opened"]
    /\ UNCHANGED <<pathVars, redial, poolClosed, path, next>>

\* The connection is gone, broken, or refuses the stream.
PickedFails(s) ==
    /\ mpc[s] = "picked"
    /\ FailOnce(path[s])
    /\ mpc' = [mpc EXCEPT ![s] = "fallback"]
    /\ next' = [next EXCEPT ![s] = 1]
    /\ UNCHANGED <<conn, available, pathStreams, redial, poolClosed, path>>

Candidate(s) == PathOrder[next[s]]

BugFallbackSkipsFlaky(s) ==
    /\ mpc[s] = "fallback"
    /\ next[s] <= Len(PathOrder)
    /\ \/ Candidate(s) = path[s]
       \/ ~Eligible(Candidate(s))
       \/ failures[Candidate(s)] >= Threshold - 1
    /\ next' = [next EXCEPT ![s] = @ + 1]
    /\ UNCHANGED <<pathVars, redial, poolClosed, mpc, path>>

FallbackSkips(s) ==
    /\ mpc[s] = "fallback"
    /\ next[s] <= Len(PathOrder)
    /\ Candidate(s) = path[s] \/ ~Eligible(Candidate(s))
    /\ next' = [next EXCEPT ![s] = @ + 1]
    /\ UNCHANGED <<pathVars, redial, poolClosed, mpc, path>>

FallbackOpens(s) ==
    /\ mpc[s] = "fallback"
    /\ next[s] <= Len(PathOrder)
    /\ Candidate(s) # path[s]
    /\ Eligible(Candidate(s))
    /\ conn[Candidate(s)] = "live"
    /\ mpc' = [mpc EXCEPT ![s] = "opened"]
    /\ path' = [path EXCEPT ![s] = Candidate(s)]
    /\ UNCHANGED <<pathVars, redial, poolClosed, next>>

FallbackFails(s) ==
    /\ mpc[s] = "fallback"
    /\ next[s] <= Len(PathOrder)
    /\ Candidate(s) # path[s]
    /\ Eligible(Candidate(s))
    /\ FailOnce(Candidate(s))
    /\ next' = [next EXCEPT ![s] = @ + 1]
    /\ UNCHANGED <<conn, available, pathStreams, redial, poolClosed, mpc,
                   path>>

Done(s) ==
    /\ mpc' = [mpc EXCEPT ![s] = "idle"]
    /\ path' = [path EXCEPT ![s] = NoPath]
    /\ next' = [next EXCEPT ![s] = 1]

\* "all paths failed to open stream"
FallbackExhausted(s) ==
    /\ mpc[s] = "fallback"
    /\ next[s] > Len(PathOrder)
    /\ Done(s)
    /\ UNCHANGED <<pathVars, redial, poolClosed>>

\* The counters are updated after the stream was opened: by then the health
\* loop may have replaced the connection.
CountOpened(s) ==
    /\ mpc[s] = "opened"
    /\ pathStreams' = [pathStreams EXCEPT ![path[s]] = @ + 1]
    /\ failures' = [failures EXCEPT ![path[s]] = 0]
    /\ mpc' = [mpc EXCEPT ![s] = "active"]
    /\ UNCHANGED <<conn, available, redial, poolClosed, path, next>>

BugDecrementTwice(s) ==
    /\ mpc[s] = "active"
    /\ \E calls \in 1..2 :
          pathStreams' = [pathStreams EXCEPT ![path[s]] = @ - calls]
    /\ Done(s)
    /\ UNCHANGED <<conn, available, failures, redial, poolClosed>>

\* trackedStream.decrement, from Close or from a failed Read, whichever comes
\* first.
Decrement(s) ==
    /\ mpc[s] = "active"
    /\ pathStreams' = [pathStreams EXCEPT ![path[s]] = @ - 1]
    /\ Done(s)
    /\ UNCHANGED <<conn, available, failures, redial, poolClosed>>

MultipathStep ==
    \/ MultipathClose
    \/ \E p \in Paths : ConnBreaks(p) \/ UpdateMetrics(p) \/ CheckPath(p)
                        \/ RedialSucceeds(p) \/ RedialFails(p)
    \/ \E s \in MStreams :
          \/ \E p \in Paths : Pick(s, p)
          \/ PickedOpens(s) \/ PickedFails(s) \/ FallbackSkips(s)
          \/ FallbackOpens(s) \/ FallbackFails(s) \/ FallbackExhausted(s)
          \/ CountOpened(s) \/ Decrement(s)

\* A path that a stream can be opened on, unless the connection refuses.
Usable(p) == Eligible(p) /\ conn[p] = "live"

\* History of each call: a path drops out when it stops being usable or when a
\* call fails on it.
Observe ==
    steady' = [s \in MStreams |->
        IF mpc'[s] \in {"picked", "fallback"}
        THEN {p \in (IF mpc[s] = "idle" THEN Paths ELSE steady[s]) :
                 Usable(p) /\ Usable(p)' /\ failures'[p] <= failures[p]}
        ELSE {}]

MultipathNext == MultipathStep /\ Observe

\* Every round of the health loop reaches every path (while it dials one the
\* others wait, hence strong fairness).  Its dials are not assumed to end: they
\* use the pool's context, which Close cancels and which has no deadline.
MultipathFairness == \A p \in Paths : SF_multipathVars(CheckPath(p) /\ Observe)

MultipathSpec == MultipathInit /\ [][MultipathNext]_multipathVars
                 /\ MultipathFairness
-----------------------------------------------------------------------------
StreamsOf(p) == {s \in MStreams : mpc[s] = "active" /\ path[s] = p}

\* The number of streams the load-balancing scheduler compares is exact,
\* however opens, fallbacks and repeated closes interleave.
PathCountExact ==
    \A p \in Paths : pathStreams[p] = Cardinality(StreamsOf(p))

\* "all paths failed to open stream" is true: OpenStream returns this error
\* only if every path failed a call, or could not be used, at some moment since
\* the call picked its first path, whatever the health loop, the probes and
\* other calls did to the paths behind the fallback loop's back.
NoUsablePathMissed ==
    [][\A s \in MStreams :
          (mpc[s] = "fallback" /\ mpc'[s] = "idle") => steady[s] = {}
      ]_multipathVars

\* The health loop waits for a dial that never comes back.
HealthLoopHangs == \E q \in Paths : [](redial = q)

\* "pathFailureThreshold is the number of consecutive failures before a path is
\* reconnected": a path that reached it is dialled again, unless a late success
\* resets the count, the pool is closed, or the dial of another path hangs.
FailedPathRedialled ==
    \A p \in Paths : (failures[p] >= Threshold)
        ~> (redial = p \/ failures[p] < Threshold \/ poolClosed
            \/ HealthLoopHangs)

\* "healthLoop will retry" (NewMultipathPool): a path without a connection is
\* dialled again, unless the dial of another path hangs.
PathRetried ==
    \A p \in Paths : (conn[p] = "nil")
        ~> (redial = p \/ conn[p] # "nil" \/ poolClosed \/ HealthLoopHangs)
==============================================================================
