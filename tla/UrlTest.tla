------------------------------- MODULE UrlTest -------------------------------
(***************************************************************************)
(* engine/outbound_group_urltest.go and outbound/healthcheck/checker.go:   *)
(* the url-test group checks all its members and keeps a pointer to the    *)
(* best of them.  Two rounds of checks may run at once: the background     *)
(* loop's and TestGroup's (engine_providers.go).  They share the checker's *)
(* node states, each behind its own lock, and the selected pointer, an     *)
(* atomic that selectBest loads and stores in two steps.                   *)
(*                                                                         *)
(* Whether a check succeeds, and its latency, is up to the network.        *)
(***************************************************************************)
EXTENDS Integers, Sequences, FiniteSets

CONSTANTS
    OutboundOrder,  \* g.outbounds
    NoOutbound,     \* the nil pointer
    Latencies,      \* what a check may measure
    Rounds,         \* who checks: the loop, and TestGroup when it is called
    ToleranceMS,    \* urlTestState.tolerance
    Tolerance       \* healthcheck.Config.Tolerance: failures before "down"

ASSUME UrlTestAssumption ==
    /\ OutboundOrder \in Seq({OutboundOrder[i] : i \in 1..Len(OutboundOrder)})
    /\ NoOutbound \notin {OutboundOrder[i] : i \in 1..Len(OutboundOrder)}
    /\ Latencies \subseteq Nat
    /\ Latencies # {}
    /\ {"loop"} \subseteq Rounds
    /\ Rounds \subseteq {"loop", "test"}
    /\ ToleranceMS \in Nat
    /\ Tolerance \in Nat \ {0}

VARIABLES
    latency,          \* nodeState.lastResult.Latency
    lastOK,           \* the nodes whose last check succeeded
    consecutiveFail,  \* nodeState.consecutiveFail; only compared
    everSucceeded,    \* the nodes with nodeState.everSucceeded
    selected,         \* urlTestState.selected
    looping,          \* the loop's context is not cancelled
    rpc,              \* where each round of checks is
    pending,          \* the nodes it has still to check, or to read
    results,          \* what it read from the checker
    best              \* bestOb, about to be stored

nodeVars == <<latency, lastOK, consecutiveFail, everSucceeded>>
roundVars == <<rpc, pending, results, best>>
urlTestVars == <<nodeVars, selected, looping, roundVars>>

Outbounds == {OutboundOrder[i] : i \in 1..Len(OutboundOrder)}

Result == [latency : Latencies \cup {0}, available : BOOLEAN]

NoResults == [o \in Outbounds |-> [latency |-> 0, available |-> FALSE]]

UrlTestTypeOK ==
    /\ latency \in [Outbounds -> Latencies \cup {0}]
    /\ lastOK \subseteq everSucceeded
    /\ consecutiveFail \in [Outbounds -> 0..Tolerance]
    /\ everSucceeded \subseteq Outbounds
    /\ selected \in Outbounds \cup {NoOutbound}
    /\ looping \in BOOLEAN
    /\ rpc \in [Rounds -> {"idle", "checking", "reading", "deciding",
                           "storing"}]
    /\ pending \in [Rounds -> SUBSET Outbounds]
    /\ results \in [Rounds -> [Outbounds -> Result]]
    /\ best \in [Rounds -> Outbounds \cup {NoOutbound}]

\* StartURLTest: the loop starts with a round at once.
UrlTestInit ==
    /\ latency = [o \in Outbounds |-> 0]
    /\ lastOK = {}
    /\ consecutiveFail = [o \in Outbounds |-> 0]
    /\ everSucceeded = {}
    /\ selected = NoOutbound
    /\ looping = TRUE
    /\ rpc = [k \in Rounds |-> "idle"]
    /\ pending = [k \in Rounds |-> {}]
    /\ results = [k \in Rounds |-> NoResults]
    /\ best = [k \in Rounds |-> NoOutbound]
-----------------------------------------------------------------------------
\* checkAll starts one goroutine per member; a cancelled loop starts no round.
CheckAll(k) ==
    /\ rpc[k] = "idle"
    /\ k = "loop" => looping
    /\ rpc' = [rpc EXCEPT ![k] = "checking"]
    /\ pending' = [pending EXCEPT ![k] = Outbounds]
    /\ UNCHANGED <<nodeVars, selected, looping, results, best>>

\* The last goroutine of a phase lets the round go on to the next.
Finish(k, o, next) ==
    LET rest == pending[k] \ {o}
    IN  /\ o \in pending[k]
        /\ pending' = [pending EXCEPT ![k] =
                          IF rest = {} /\ next = "reading" THEN Outbounds
                          ELSE rest]
        /\ rpc' = [rpc EXCEPT ![k] = IF rest = {} THEN next ELSE @]

BugCheckSucceeds(k, o) ==
    /\ rpc[k] = "checking"
    /\ Finish(k, o, "reading")
    /\ \E l \in Latencies : latency' = [latency EXCEPT ![o] = l]
    /\ lastOK' = lastOK \cup {o}
    /\ consecutiveFail' = [consecutiveFail EXCEPT ![o] = 0]
    /\ UNCHANGED <<everSucceeded, selected, looping, results, best>>

CheckSucceeds(k, o) ==
    /\ rpc[k] = "checking"
    /\ Finish(k, o, "reading")
    /\ \E l \in Latencies : latency' = [latency EXCEPT ![o] = l]
    /\ lastOK' = lastOK \cup {o}
    /\ consecutiveFail' = [consecutiveFail EXCEPT ![o] = 0]
    /\ everSucceeded' = everSucceeded \cup {o}
    /\ UNCHANGED <<selected, looping, results, best>>

\* A failed check records how long it took to fail.
CheckFails(k, o) ==
    /\ rpc[k] = "checking"
    /\ Finish(k, o, "reading")
    /\ \E l \in Latencies : latency' = [latency EXCEPT ![o] = l]
    /\ lastOK' = lastOK \ {o}
    /\ consecutiveFail' = [consecutiveFail EXCEPT ![o] =
                              IF @ < Tolerance THEN @ + 1 ELSE @]
    /\ UNCHANGED <<everSucceeded, selected, looping, results, best>>

BugNeverSucceeded(o) == consecutiveFail[o] < Tolerance

\* Results: available while it has succeeded once and has not failed too often.
Available(o) == o \in everSucceeded /\ consecutiveFail[o] < Tolerance

\* Results reads one node at a time; other rounds go on checking.
ReadResult(k, o) ==
    /\ rpc[k] = "reading"
    /\ Finish(k, o, "deciding")
    /\ results' = [results EXCEPT ![k][o] =
                      [latency |-> latency[o], available |-> Available(o)]]
    /\ UNCHANGED <<nodeVars, selected, looping, best>>

\* The first of the available members with the lowest latency.
Lowest(res, i) ==
    /\ res[OutboundOrder[i]].available
    /\ \A j \in 1..Len(OutboundOrder) :
          res[OutboundOrder[j]].available =>
             \/ res[OutboundOrder[i]].latency < res[OutboundOrder[j]].latency
             \/ /\ res[OutboundOrder[i]].latency = res[OutboundOrder[j]].latency
                /\ i <= j

BugGoodEnough(res, o) ==
    /\ selected # NoOutbound
    /\ res[selected].latency - res[o].latency <= ToleranceMS

\* "current is good enough"
GoodEnough(res, o) ==
    /\ selected # NoOutbound
    /\ res[selected].available
    /\ res[selected].latency - res[o].latency <= ToleranceMS

\* selectBest up to and including selected.Load().
SelectBest(k) ==
    /\ rpc[k] = "deciding"
    /\ results' = [results EXCEPT ![k] = NoResults]
    /\ \/ /\ \E i \in 1..Len(OutboundOrder) :
                /\ Lowest(results[k], i)
                /\ ~GoodEnough(results[k], OutboundOrder[i])
                /\ best' = [best EXCEPT ![k] = OutboundOrder[i]]
          /\ rpc' = [rpc EXCEPT ![k] = "storing"]
       \/ /\ \A i \in 1..Len(OutboundOrder) :
                Lowest(results[k], i)
                => GoodEnough(results[k], OutboundOrder[i])
          /\ rpc' = [rpc EXCEPT ![k] = "idle"]
          /\ UNCHANGED best
    /\ UNCHANGED <<nodeVars, selected, looping, pending>>

\* selected.Store(&bestOb)
StoreBest(k) ==
    /\ rpc[k] = "storing"
    /\ selected' = best[k]
    /\ best' = [best EXCEPT ![k] = NoOutbound]
    /\ rpc' = [rpc EXCEPT ![k] = "idle"]
    /\ UNCHANGED <<nodeVars, looping, pending, results>>

\* urlTestState.Stop: the round under way goes on, its checks may fail at once.
StopURLTest ==
    /\ looping
    /\ looping' = FALSE
    /\ UNCHANGED <<nodeVars, selected, roundVars>>

RoundStep(k) ==
    \/ \E o \in Outbounds :
          CheckSucceeds(k, o) \/ CheckFails(k, o) \/ ReadResult(k, o)
    \/ SelectBest(k)
    \/ StoreBest(k)

UrlTestNext ==
    \/ StopURLTest
    \/ \E k \in Rounds : CheckAll(k) \/ RoundStep(k)

\* The ticker fires, checks end within the client's timeout, and a round that
\* has begun goes on.
UrlTestFairness ==
    /\ WF_urlTestVars(CheckAll("loop"))
    /\ \A k \in Rounds : WF_urlTestVars(RoundStep(k))

UrlTestSpec == UrlTestInit /\ [][UrlTestNext]_urlTestVars /\ UrlTestFairness
-----------------------------------------------------------------------------
\* selectBest never installs a member that has not passed a check, however the
\* loop and TestGroup overlap: "succeeded at least once" (Results).
SelectedHasWorked == selected = NoOutbound \/ selected \in everSucceeded

\* A member that is down for good does not stay selected while another one is
\* available, even when a TestGroup that read older results stores late.
DeadSelectionLeft ==
    \A dead, good \in Outbounds :
        <>[](looping /\ consecutiveFail[dead] = Tolerance /\ Available(good))
        => <>[](selected # dead)

\* "selectBest picks the lowest-latency available node": a member that becomes
\* the selection answered its latest check.
SwitchesToWorking == [][selected' # selected => selected' \in lastOK]_urlTestVars
==============================================================================
