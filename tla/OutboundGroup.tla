---------------------------- MODULE OutboundGroup ----------------------------
(***************************************************************************)
(* engine/outbound_group.go, outbound_group_select.go, outbound_quality.go *)
(* and dialURLTest: a group of outbounds dials its members one after the   *)
(* other, in an order its strategy chooses when the call starts.           *)
(*                                                                         *)
(* A probe of the selector that is available has no loss                   *)
(* (transport/selector/probe.go), so a member's quality is its latency, or *)
(* unknown: one second and full loss.                                      *)
(***************************************************************************)
EXTENDS UrlTest

CONSTANTS
    Callers,         \* goroutines that call DialContext
    QualityConfigs,  \* the quality thresholds a group may be configured with
    NoProbe          \* no available probe result for a member

VARIABLES
    strategy,    \* g.strategy
    qualityCfg,  \* g.qualityCfg
    probes,      \* what probeGetter returns
    chosen,      \* selectState.selected
    counter,     \* g.counter modulo the number of members
    left,        \* the members a call has still to dial
    tried        \* the members a call dialled without success

callVars == <<left, tried>>
groupVars == <<strategy, qualityCfg, probes, chosen, counter, callVars>>

Strategies == {"failover", "loadbalance", "quality", "url-test", "select"}

Size == Len(OutboundOrder)

UnknownMS == 1000
LossPenaltyMS == 5000
DefaultQualityToleranceMS == 30

GroupTypeOK ==
    /\ UrlTestTypeOK
    /\ strategy \in Strategies
    /\ qualityCfg \in QualityConfigs
    /\ probes \in [Outbounds -> Latencies \cup {NoProbe}]
    /\ chosen \in Outbounds
    /\ counter \in 0..(Size - 1)
    /\ left \in [Callers -> Seq(Outbounds)]
    /\ \A c \in Callers : Len(left[c]) <= Size + 1
    /\ tried \in [Callers -> SUBSET Outbounds]

\* A select group starts with its first member.  Only quality groups read the
\* thresholds.
GroupInit ==
    /\ UrlTestInit
    /\ strategy \in Strategies
    /\ qualityCfg \in QualityConfigs
    /\ strategy # "quality" => qualityCfg = CHOOSE q \in QualityConfigs : TRUE
    /\ probes = [o \in Outbounds |-> NoProbe]
    /\ chosen = OutboundOrder[1]
    /\ counter = 0
    /\ left = [c \in Callers |-> <<>>]
    /\ tried = [c \in Callers |-> {}]
-----------------------------------------------------------------------------
\* The entries of dialQuality.
EntryLatency(o) == IF probes[o] = NoProbe THEN UnknownMS ELSE probes[o]

\* 5000 * sqrt(loss), for a loss of 0 or 1.
QualityScore(o) ==
    EntryLatency(o) + (IF probes[o] = NoProbe THEN LossPenaltyMS ELSE 0)

Within(o) ==
    /\ qualityCfg.maxLatency > 0 => EntryLatency(o) <= qualityCfg.maxLatency
    /\ qualityCfg.maxLossPercent > 0 =>
          (probes[o] = NoProbe => 100 <= qualityCfg.maxLossPercent)

BugFilterByQuality == {o \in Outbounds : Within(o)}

\* filterByQuality: all members when none qualifies.
FilterByQuality ==
    IF \E o \in Outbounds : Within(o)
    THEN {o \in Outbounds : Within(o)}
    ELSE Outbounds

Position(o) == CHOOSE i \in 1..Size : OutboundOrder[i] = o

\* Entries near the best one are shuffled, a negative tolerance shuffles none.
InBucket(o, entries) ==
    /\ qualityCfg.tolerance >= 0
    /\ \A b \in entries :
          QualityScore(o) - QualityScore(b) <=
             (IF qualityCfg.tolerance = 0 THEN DefaultQualityToleranceMS
              ELSE qualityCfg.tolerance)

\* In the order rankByQuality returns, a may stand before b.
MayPrecede(a, b, entries) ==
    \/ InBucket(a, entries) /\ InBucket(b, entries)
    \/ QualityScore(a) < QualityScore(b)
    \/ QualityScore(a) = QualityScore(b) /\ Position(a) < Position(b)

\* The orders rankByQuality may return for the entries.
RankByQuality(entries) ==
    {s \in [1..Cardinality(entries) -> entries] :
        \A i, j \in DOMAIN s :
            i < j => s[i] # s[j] /\ MayPrecede(s[i], s[j], entries)}

\* dialLoadBalance tries the start-th member first and wraps around.
FromStart(start) ==
    [i \in 1..Size |-> OutboundOrder[1 + ((start + i - 1) % Size)]]

BugURLTestOrder ==
    IF selected = NoOutbound THEN OutboundOrder ELSE <<selected>>

\* dialURLTest falls back to all members, the selected one included.
URLTestOrder ==
    IF selected = NoOutbound THEN OutboundOrder
    ELSE <<selected>> \o OutboundOrder

\* The orders in which DialContext may dial the members now.
Orders ==
    CASE strategy = "failover" -> {OutboundOrder}
      [] strategy = "loadbalance" -> {FromStart(counter)}
      [] strategy = "quality" -> RankByQuality(FilterByQuality)
      [] strategy = "url-test" -> {URLTestOrder}
      [] strategy = "select" -> {<<chosen>>}

DialContext(c) ==
    /\ left[c] = <<>>
    /\ \E order \in Orders : left' = [left EXCEPT ![c] = order]
    /\ tried' = [tried EXCEPT ![c] = {}]
    /\ counter' = IF strategy = "loadbalance" THEN (counter + 1) % Size
                  ELSE counter
    /\ UNCHANGED <<strategy, qualityCfg, probes, chosen, urlTestVars>>

MemberConnects(c) ==
    /\ left[c] # <<>>
    /\ left' = [left EXCEPT ![c] = <<>>]
    /\ tried' = [tried EXCEPT ![c] = {}]
    /\ UNCHANGED <<strategy, qualityCfg, probes, chosen, counter, urlTestVars>>

\* After the last member the call returns an error.
MemberFails(c) ==
    /\ left[c] # <<>>
    /\ left' = [left EXCEPT ![c] = Tail(@)]
    /\ tried' = [tried EXCEPT ![c] = @ \cup {Head(left[c])}]
    /\ UNCHANGED <<strategy, qualityCfg, probes, chosen, counter, urlTestVars>>

\* SelectOutbound; a tag that is no member is refused and changes nothing.
Select(o) ==
    /\ strategy = "select"
    /\ chosen' = o
    /\ UNCHANGED <<strategy, qualityCfg, probes, counter, callVars, urlTestVars>>

\* The selector's probe results change.
Probed(o) ==
    /\ strategy = "quality"
    /\ \E p \in Latencies \cup {NoProbe} : probes' = [probes EXCEPT ![o] = p]
    /\ UNCHANGED <<strategy, qualityCfg, chosen, counter, callVars, urlTestVars>>

GroupNext ==
    \/ \E c \in Callers :
          DialContext(c) \/ MemberConnects(c) \/ MemberFails(c)
    \/ \E o \in Outbounds : Select(o) \/ Probed(o)
    \/ /\ strategy = "url-test"
       /\ UrlTestNext
       /\ UNCHANGED groupVars

\* The health-check loop of a url-test group runs.
GroupFairness ==
    /\ WF_urlTestVars(strategy = "url-test" /\ CheckAll("loop"))
    /\ \A k \in Rounds : WF_urlTestVars(RoundStep(k))

GroupSpec ==
    GroupInit /\ [][GroupNext]_<<groupVars, urlTestVars>> /\ GroupFairness
-----------------------------------------------------------------------------
\* "all %d members failed": a call of a failover, load-balance or url-test
\* group returns an error only after it dialled every member, wherever its
\* order started and whatever was selected meanwhile.
ErrorMeansAllTried ==
    \A c \in Callers :
        left[c] = <<>> /\ tried[c] # {}
        => strategy \in {"select", "quality"} \/ tried[c] = Outbounds

\* A quality group dials first a member whose score is within the tolerance of
\* the best one, and never leaves a call without a member to dial when every
\* member is over the thresholds ("graceful fallback").
NearBestFirst ==
    [][\A c \in Callers :
          (strategy = "quality" /\ DialContext(c))
          => /\ left'[c] # <<>>
             /\ \A o \in Outbounds :
                   Within(o) \/ (\A b \in Outbounds : ~Within(b))
                   => \/ QualityScore(left'[c][1]) <= QualityScore(o)
                      \/ /\ qualityCfg.tolerance >= 0
                         /\ QualityScore(left'[c][1]) - QualityScore(o)
                            <= (IF qualityCfg.tolerance = 0
                                THEN DefaultQualityToleranceMS
                                ELSE qualityCfg.tolerance)
      ]_<<groupVars, urlTestVars>>
==============================================================================
