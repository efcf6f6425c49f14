------------------------------ MODULE ConnPool ------------------------------
(***************************************************************************)
(* transport/selector/pool.go: idle connections dialled ahead of use.      *)
(* Warm-up goroutines, users, the evict loop and Close interleave; each    *)
(* takes p.mu once, and connections are dialled and closed outside it.     *)
(***************************************************************************)
EXTENDS Integers, FiniteSets, Sequences, SequencesExt

CONSTANTS
    PoolConns,  \* connections that may be dialled during a run
    MaxIdle,    \* p.maxIdle
    WarmUps,    \* connections WarmUp dials
    MaxGets     \* bound: Get calls that dial at the same time

ASSUME ConnPoolAssumption ==
    /\ MaxIdle \in Nat \ {0}
    /\ WarmUps \in Nat
    /\ MaxGets \in Nat

VARIABLES
    idle,      \* p.idle, in the order the connections were put
    outdated,   \* the connections in idle that are older than idleTTL
    closedFlag,\* p.closed
    warming,   \* warm-up goroutines that are still dialling
    getting,   \* Get calls that found no idle connection and are dialling
    putting,   \* dialled by warm-up, about to be Put
    inUse,     \* handed out by Get
    shut,      \* connections that were closed
    unused     \* connections not dialled yet

poolVars == <<idle, outdated, closedFlag, warming, getting, putting, inUse,
              shut, unused>>

PoolTypeOK ==
    /\ idle \in Seq(PoolConns)
    /\ Len(idle) <= MaxIdle
    /\ outdated \subseteq PoolConns
    /\ closedFlag \in BOOLEAN
    /\ warming \in 0..WarmUps
    /\ getting \in 0..MaxGets
    /\ putting \subseteq PoolConns
    /\ inUse \subseteq PoolConns
    /\ shut \subseteq PoolConns
    /\ unused \subseteq PoolConns

PoolInit ==
    /\ idle = <<>>
    /\ outdated = {}
    /\ closedFlag = FALSE
    /\ warming = WarmUps
    /\ getting = 0
    /\ putting = {}
    /\ inUse = {}
    /\ shut = {}
    /\ unused = PoolConns
-----------------------------------------------------------------------------
\* A warm-up goroutine's dial succeeds or fails.
WarmDial(c) ==
    /\ warming > 0
    /\ c \in unused
    /\ warming' = warming - 1
    /\ putting' = putting \cup {c}
    /\ unused' = unused \ {c}
    /\ UNCHANGED <<idle, outdated, closedFlag, getting, inUse, shut>>

WarmDialFails ==
    /\ warming > 0
    /\ warming' = warming - 1
    /\ UNCHANGED <<idle, outdated, closedFlag, getting, putting, inUse, shut,
                   unused>>

BugKeepWhenClosed(c) ==
    IF Len(idle) >= MaxIdle
    THEN /\ shut' = shut \cup {c}
         /\ UNCHANGED idle
    ELSE /\ idle' = Append(idle, c)
         /\ UNCHANGED shut

BugKeepOneMore(c) ==
    IF closedFlag \/ Len(idle) > MaxIdle
    THEN /\ shut' = shut \cup {c}
         /\ UNCHANGED idle
    ELSE /\ idle' = Append(idle, c)
         /\ UNCHANGED shut

\* The body of Put: a closed or full pool closes the connection.
Keep(c) ==
    IF closedFlag \/ Len(idle) >= MaxIdle
    THEN /\ shut' = shut \cup {c}
         /\ UNCHANGED idle
    ELSE /\ idle' = Append(idle, c)
         /\ UNCHANGED shut

WarmPut(c) ==
    /\ c \in putting
    /\ Keep(c)
    /\ putting' = putting \ {c}
    /\ UNCHANGED <<outdated, closedFlag, warming, getting, inUse, unused>>

\* A user gives its connection back.
Put(c) ==
    /\ c \in inUse
    /\ Keep(c)
    /\ inUse' = inUse \ {c}
    /\ UNCHANGED <<outdated, closedFlag, warming, getting, putting, unused>>

\* The idle connections put longest ago expire first.
Age ==
    \E i \in 1..Len(idle) :
        /\ outdated' = {idle[j] : j \in 1..i}
        /\ outdated' # outdated
        /\ outdated \subseteq outdated'
        /\ UNCHANGED <<idle, closedFlag, warming, getting, putting, inUse, shut,
                       unused>>

\* Get pops from the end and returns the last connection if it is fresh.
GetIdle ==
    /\ ~closedFlag
    /\ idle # <<>>
    /\ Last(idle) \notin outdated
    /\ inUse' = inUse \cup {Last(idle)}
    /\ idle' = Front(idle)
    /\ UNCHANGED <<outdated, closedFlag, warming, getting, putting, shut, unused>>

\* Otherwise all have expired: all are popped and closed, and Get dials.  The
\* pool may be closed before the dial ends.
GetMisses ==
    /\ ~closedFlag
    /\ Range(idle) \subseteq outdated
    /\ getting < MaxGets
    /\ getting' = getting + 1
    /\ shut' = shut \cup Range(idle)
    /\ idle' = <<>>
    /\ outdated' = {}
    /\ UNCHANGED <<closedFlag, warming, putting, inUse, unused>>

GetDials(c) ==
    /\ getting > 0
    /\ c \in unused
    /\ getting' = getting - 1
    /\ inUse' = inUse \cup {c}
    /\ unused' = unused \ {c}
    /\ UNCHANGED <<idle, outdated, closedFlag, warming, putting, shut>>

GetDialFails ==
    /\ getting > 0
    /\ getting' = getting - 1
    /\ UNCHANGED <<idle, outdated, closedFlag, warming, putting, inUse, shut,
                   unused>>

BugEvict ==
    /\ ~closedFlag
    /\ outdated # {}
    /\ idle' = SelectSeq(idle, LAMBDA c : c \notin outdated)
    /\ outdated' = {}
    /\ UNCHANGED <<closedFlag, warming, getting, putting, inUse, shut, unused>>

EvictExpired ==
    /\ ~closedFlag
    /\ outdated # {}
    /\ idle' = SelectSeq(idle, LAMBDA c : c \notin outdated)
    /\ shut' = shut \cup outdated
    /\ outdated' = {}
    /\ UNCHANGED <<closedFlag, warming, getting, putting, inUse, unused>>

PoolClose ==
    /\ ~closedFlag
    /\ closedFlag' = TRUE
    /\ shut' = shut \cup Range(idle)
    /\ idle' = <<>>
    /\ outdated' = {}
    /\ UNCHANGED <<warming, getting, putting, inUse, unused>>

PoolNext ==
    \/ \E c \in PoolConns : WarmDial(c) \/ WarmPut(c) \/ Put(c) \/ GetDials(c)
    \/ WarmDialFails \/ Age \/ GetIdle \/ GetMisses \/ GetDialFails
    \/ EvictExpired \/ PoolClose

PoolSpec == PoolInit /\ [][PoolNext]_poolVars
-----------------------------------------------------------------------------
\* Every connection has exactly one owner: it is idle once, being put, in use,
\* or closed, and not two of these.  No connection is handed to two users, none
\* is closed under one, and none is dropped without being closed.
SingleOwner ==
    /\ Cardinality(Range(idle)) = Len(idle)
    /\ Range(idle) \cup putting \cup inUse \cup shut \cup unused = PoolConns
    /\ Len(idle) + Cardinality(putting) + Cardinality(inUse)
         + Cardinality(shut) + Cardinality(unused) = Cardinality(PoolConns)

\* A closed pool holds nothing: a connection that a warm-up goroutine or a user
\* puts after Close is closed.
ClosedPoolIsEmpty == closedFlag => idle = <<>>
=============================================================================
