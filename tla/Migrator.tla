------------------------------ MODULE Migrator ------------------------------
(***************************************************************************)
(* transport/selector/migrate.go: connections tracked across a transport   *)
(* switch.  Migrate marks every tracked connection as draining; the drain  *)
(* loop closes a draining connection when it has no streams left or has    *)
(* been draining for too long.                                             *)
(*                                                                         *)
(* Track, Migrate, Close and the drain loop run under m.mu.  WrapStream    *)
(* and migrateStream.Close do not: they use the connection's atomics, so   *)
(* the check of the draining flag and the increment of the stream counter  *)
(* are two steps, and either may fall between the drain loop's idle test   *)
(* and its Close of the connection.                                        *)
(***************************************************************************)
EXTENDS Integers, FiniteSets

CONSTANTS
    Conns,    \* connections that may be dialled during a run
    Streams,  \* streams that may be in use at once
    NoConn    \* a stream that is on no connection

ASSUME MigratorAssumption ==
    /\ IsFiniteSet(Streams)
    /\ NoConn \notin Conns

VARIABLES
    connections,    \* m.connections
    dialled,        \* connections that exist: transport.Dial returned them
    closed,         \* connections whose transport.Connection was closed
    draining,       \* migrateConn.draining
    expired,        \* tracked and draining for more than drainTimeout
    activeStreams,  \* migrateConn.activeStreams
    sstate,         \* how far each stream is through WrapStream
    on,             \* the connection each stream was opened on
    parent,         \* migrateStream.parent: the connection that counts it
    stopped,        \* m.drainDone is closed
    picked,         \* the connection drainIdle, holding m.mu, will close next
    late            \* streams accepted but not counted when it was picked

migratorVars == <<connections, dialled, closed, draining, expired,
                  activeStreams, sstate, on, parent, stopped, picked, late>>
connVars == <<connections, dialled, closed, draining, expired, stopped,
              picked, late>>
drainVars == <<picked, late>>
streamVars == <<activeStreams, sstate, on, parent>>

\* Opened on the transport connection, then past WrapStream's draining check,
\* then counted, and unused again once rejected or closed.
StreamStates == {"unused", "opened", "checked", "active"}

TypeOK ==
    /\ connections \subseteq dialled
    /\ dialled \subseteq Conns
    /\ closed \subseteq dialled
    /\ draining \subseteq dialled
    /\ expired \subseteq draining \cap connections
    /\ activeStreams \in [Conns -> Int]
    /\ sstate \in [Streams -> StreamStates]
    /\ on \in [Streams -> Conns \cup {NoConn}]
    /\ parent \in [Streams -> Conns \cup {NoConn}]
    /\ stopped \in BOOLEAN
    /\ picked \in Conns \cup {NoConn}
    /\ late \subseteq Streams

MInit ==
    /\ connections = {}
    /\ dialled = {}
    /\ closed = {}
    /\ draining = {}
    /\ expired = {}
    /\ activeStreams = [c \in Conns |-> 0]
    /\ sstate = [s \in Streams |-> "unused"]
    /\ on = [s \in Streams |-> NoConn]
    /\ parent = [s \in Streams |-> NoConn]
    /\ stopped = FALSE
    /\ picked = NoConn
    /\ late = {}
-----------------------------------------------------------------------------
\* transport.Dial returned a new connection; it is not tracked yet.  Names of
\* connections are interchangeable, so the next unused one is taken.
Dialled(c) ==
    /\ c \in Conns \ dialled
    /\ c = CHOOSE d \in Conns \ dialled : TRUE
    /\ dialled' = dialled \cup {c}
    /\ UNCHANGED <<connections, closed, draining, expired, stopped,
                   drainVars, streamVars>>

\* Each new connection is tracked once, when drainIdle does not hold m.mu.
Track(c) ==
    /\ picked = NoConn
    /\ c \in dialled \ (connections \cup closed)
    /\ connections' = connections \cup {c}
    /\ UNCHANGED <<dialled, closed, draining, expired, stopped, drainVars,
                   streamVars>>

\* conn.OpenStream succeeded on the transport connection.
OpenRaw(s, c) ==
    /\ sstate[s] = "unused"
    /\ c \in dialled \ closed
    /\ sstate' = [sstate EXCEPT ![s] = "opened"]
    /\ on' = [on EXCEPT ![s] = c]
    /\ UNCHANGED <<connVars, activeStreams, parent>>

\* The draining.Load() of WrapStream(c, s): a draining connection rejects the
\* stream and the caller closes it; otherwise it goes on to the increment.
CheckDraining(s, c) ==
    /\ sstate[s] = "opened"
    /\ \/ /\ c \in draining
          /\ sstate' = [sstate EXCEPT ![s] = "unused"]
          /\ on' = [on EXCEPT ![s] = NoConn]
          /\ UNCHANGED parent
       \/ /\ c \notin draining
          /\ sstate' = [sstate EXCEPT ![s] = "checked"]
          /\ parent' = [parent EXCEPT ![s] = c]
          /\ UNCHANGED on
    /\ UNCHANGED <<connVars, activeStreams>>

\* WrapStream's activeStreams.Add(1).
CountStream(s) ==
    /\ sstate[s] = "checked"
    /\ sstate' = [sstate EXCEPT ![s] = "active"]
    /\ activeStreams' = [activeStreams EXCEPT ![parent[s]] = @ + 1]
    /\ UNCHANGED <<connVars, on, parent>>

BugCloseTwice(s) ==
    /\ sstate[s] = "active"
    /\ sstate' = [sstate EXCEPT ![s] = "unused"]
    /\ on' = [on EXCEPT ![s] = NoConn]
    /\ parent' = [parent EXCEPT ![s] = NoConn]
    /\ \E calls \in 1..2 :
          activeStreams' = [activeStreams EXCEPT ![parent[s]] = @ - calls]
    /\ UNCHANGED connVars

\* migrateStream.Close.  The relay may call it once per direction; only the
\* call that wins the CompareAndSwap decrements, the others change nothing.
CloseStream(s) ==
    /\ sstate[s] = "active"
    /\ sstate' = [sstate EXCEPT ![s] = "unused"]
    /\ on' = [on EXCEPT ![s] = NoConn]
    /\ parent' = [parent EXCEPT ![s] = NoConn]
    /\ activeStreams' = [activeStreams EXCEPT ![parent[s]] = @ - 1]
    /\ UNCHANGED connVars

\* Every tracked connection is marked and its drain clock starts; one that was
\* draining already keeps its first start.
Migrate ==
    /\ picked = NoConn
    /\ draining' = draining \cup connections
    /\ UNCHANGED <<connections, dialled, closed, expired, stopped, drainVars,
                   streamVars>>

BugTimeoutWithoutStart(c) ==
    /\ c \in connections
    /\ expired' = expired \cup {c}
    /\ UNCHANGED <<connections, dialled, closed, draining, stopped, drainVars,
                   streamVars>>

\* now.Sub(drainStarted) > drainTimeout becomes true.
DrainTimeout(c) ==
    /\ c \in draining \cap connections
    /\ expired' = expired \cup {c}
    /\ UNCHANGED <<connections, dialled, closed, draining, stopped, drainVars,
                   streamVars>>

\* Streams WrapStream accepted for c and has not counted yet.
Uncounted(c) == {s \in Streams : sstate[s] = "checked" /\ parent[s] = c}

BugDrainIgnoresStreams(c) ==
    /\ ~stopped
    /\ picked = NoConn
    /\ c \in connections \cap draining
    /\ picked' = c
    /\ late' = Uncounted(c)
    /\ UNCHANGED <<connections, dialled, closed, draining, expired, stopped,
                   streamVars>>

BugDrainOnlyIdle(c) ==
    /\ ~stopped
    /\ picked = NoConn
    /\ c \in connections \cap draining
    /\ activeStreams[c] = 0
    /\ picked' = c
    /\ late' = Uncounted(c)
    /\ UNCHANGED <<connections, dialled, closed, draining, expired, stopped,
                   streamVars>>

\* drainIdle's loop reaches c and finds it idle or timed out.  m.mu is held
\* from here to the Close.  It is given up between two connections, which adds
\* nothing: the order that results is that of one more tick of the loop.
DrainTest(c) ==
    /\ ~stopped
    /\ picked = NoConn
    /\ c \in connections \cap draining
    /\ activeStreams[c] = 0 \/ c \in expired
    /\ picked' = c
    /\ late' = Uncounted(c)
    /\ UNCHANGED <<connections, dialled, closed, draining, expired, stopped,
                   streamVars>>

\* tc.conn.Close(), and tc is not among the remaining connections.
DrainClose(c) ==
    /\ picked = c
    /\ closed' = closed \cup {c}
    /\ connections' = connections \ {c}
    /\ picked' = NoConn
    /\ late' = {}
    /\ expired' = expired \ {c}
    /\ UNCHANGED <<dialled, draining, stopped, streamVars>>

\* Both halves of Close.  A drain that began before drainDone was closed ends
\* before Close gets m.mu.
Close ==
    /\ picked = NoConn
    /\ stopped' = TRUE
    /\ closed' = closed \cup connections
    /\ connections' = {}
    /\ expired' = {}
    /\ UNCHANGED <<dialled, draining, drainVars, streamVars>>

\* The user of a tracked connection, or the network, closes it.
CloseConn(c) ==
    /\ c \in connections \ closed
    /\ closed' = closed \cup {c}
    /\ UNCHANGED <<connections, dialled, draining, expired, stopped, drainVars,
                   streamVars>>

\* The caller of WrapStream names a tracked connection, which need not be the
\* one the stream was opened on: migratedConn.OpenStream reads its tc twice.
MNext ==
    \/ Migrate
    \/ Close
    \/ \E c \in Conns :
          Dialled(c) \/ Track(c) \/ DrainTimeout(c) \/ DrainTest(c)
          \/ DrainClose(c) \/ CloseConn(c)
    \/ \E s \in Streams :
          \/ \E c \in connections : OpenRaw(s, c)
          \/ \E c \in connections \cup closed : CheckDraining(s, c)
          \/ CountStream(s)
          \/ CloseStream(s)

\* The drain loop ticks until it is stopped, and time passes.
MFairness ==
    \A c \in Conns : /\ WF_migratorVars(DrainTimeout(c))
                     /\ WF_migratorVars(DrainTest(c))
                     /\ WF_migratorVars(DrainClose(c))

MSpec == MInit /\ [][MNext]_migratorVars

FairMSpec == MSpec /\ MFairness
-----------------------------------------------------------------------------
CountedOn(c) == {s \in Streams : sstate[s] = "active" /\ parent[s] = c}

\* A connection's atomic counter is the number of streams WrapStream counted on
\* it that were not closed, whatever the order of opens, closes and repeated
\* closes: the drain loop's idle test means what it says.
CountExact == \A c \in Conns : activeStreams[c] = Cardinality(CountedOn(c))

\* What drainIdle closes in a step, other than connections past DrainTimeout.
ClosedEarly ==
    IF stopped' THEN {}
    ELSE ((closed' \ closed) \cap (connections \ connections')) \ expired

\* "New streams are rejected on draining connections, while existing streams
\* are allowed to complete": before DrainTimeout, drainIdle closes a connection
\* under a stream that WrapStream accepted for it only if that stream was just
\* between WrapStream's draining check and its activeStreams.Add when drainIdle
\* read the counter.  A stream counted by then, or accepted later, is spared.
DrainCutsOnlyLate ==
    [][\A c \in ClosedEarly : \A s \in Streams :
          (sstate[s] \in {"checked", "active"} /\ parent[s] = c) => s \in late
      ]_migratorVars

\* "existing streams are allowed to complete": the same of the connection the
\* stream was opened on, whichever one WrapStream counts it on.
ExistingStreamsComplete ==
    [][\A c \in ClosedEarly : \A s \in Streams :
          (sstate[s] \in {"checked", "active"} /\ on[s] = c) => s \in late
      ]_migratorVars

\* A draining connection does not stay: it is closed when its streams end or
\* the DrainTimeout passes, unless the whole migrator is closed first.
DrainCompletes ==
    \A c \in Conns :
        (c \in connections /\ c \in draining) ~> (c \in closed \/ stopped)
=============================================================================
