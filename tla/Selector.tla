------------------------------ MODULE Selector ------------------------------
(***************************************************************************)
(* transport/selector/selector.go on top of the Migrator: choosing the     *)
(* active transport, Dial with its fallback, and migratedConn, whose       *)
(* OpenStream re-dials when its connection is draining.                    *)
(*                                                                         *)
(* A handle is one call of Selector.Dial and the migratedConn it returns;  *)
(* a stream is one call of OpenStream on a handle and the stream it gets.  *)
(* s.mu protects active and the probe results, so maybeSwitch is one step. *)
(* (Track takes only m.mu and may run between its drain and its assignment *)
(* to active; a connection tracked there is as good as one tracked after.) *)
(***************************************************************************)
EXTENDS Migrator, Sequences

CONSTANTS
    Order,        \* s.transports, in order of preference
    NoTransport,  \* s.active == nil
    Handles,      \* calls of Selector.Dial
    NoStream,     \* a free reconnMu
    Strategies    \* the strategies SetStrategy is called with

Transports == {Order[i] : i \in 1..Len(Order)}

VARIABLES
    active,     \* s.active
    available,  \* transports whose last probe succeeded
    strategy,   \* s.strategy
    dpc,        \* where each Dial is
    spc,        \* where each OpenStream is
    via,        \* the handle each OpenStream was called on
    snap,       \* the active transport a Dial read
    fresh,      \* the connection a Dial or a re-dial has not tracked yet
    tc,         \* migratedConn.tc
    reconnMu    \* the stream that holds migratedConn.reconnMu

selVars == <<active, available, strategy>>
dialVars == <<dpc, spc, via, snap, fresh, tc, reconnMu>>
vars == <<migratorVars, selVars, dialVars>>

Callers == Handles \cup Streams

SelectorTypeOK ==
    /\ TypeOK
    /\ active \in Transports \cup {NoTransport}
    /\ available \subseteq Transports
    /\ strategy \in {"auto", "priority", "latency", "multipath"}
    /\ dpc \in [Handles -> {"idle", "any", "active", "fallback", "track",
                            "ready"}]
    /\ spc \in [Streams -> {"idle", "failed", "first", "lock", "locked",
                            "dial", "track", "reopen", "second"}]
    /\ via \in [Streams -> Handles \cup {"none"}]
    /\ snap \in [Handles -> Transports \cup {NoTransport}]
    /\ fresh \in [Callers -> Conns \cup {NoConn}]
    /\ tc \in [Handles -> Conns \cup {NoConn}]
    /\ reconnMu \in [Handles -> Streams \cup {NoStream}]

Init ==
    /\ MInit
    /\ active = NoTransport
    /\ available = {}
    /\ strategy \in Strategies
    /\ dpc = [h \in Handles |-> "idle"]
    /\ spc = [s \in Streams |-> "idle"]
    /\ via = [s \in Streams |-> "none"]
    /\ snap = [h \in Handles |-> NoTransport]
    /\ fresh = [p \in Callers |-> NoConn]
    /\ tc = [h \in Handles |-> NoConn]
    /\ reconnMu = [h \in Handles |-> NoStream]
-----------------------------------------------------------------------------
(* Probing and switching.                                                  *)

\* One result of a probe round is stored.  Rounds of the probe loop and of
\* Selector.Migrate overlap, so any result may arrive at any time, and so may
\* the maybeSwitch that ends a round.
ProbeResult(t) ==
    /\ available' \in {available \cup {t}, available \ {t}}
    /\ UNCHANGED <<migratorVars, active, strategy, dialVars>>

\* lowestLatency may return any available transport (latencies are abstracted);
\* firstAvailable and autoSelect return the first one.
SelectBest(st) ==
    IF st = "latency"
    THEN available
    ELSE {Order[i] : i \in {j \in 1..Len(Order) :
            /\ Order[j] \in available
            /\ \A k \in 1..(j - 1) : Order[k] \notin available}}

\* maybeSwitch: drain and switch to the best transport unless it is active.
Reevaluate(st) ==
    \/ /\ SelectBest(st) = {} \/ active \in SelectBest(st)
       /\ UNCHANGED <<migratorVars, active>>
    \/ \E best \in SelectBest(st) \ {active} :
          /\ Migrate
          /\ active' = best

MaybeSwitch ==
    /\ Reevaluate(strategy)
    /\ UNCHANGED <<available, strategy, dialVars>>

SetStrategy(st) ==
    /\ strategy # st
    /\ strategy' = st
    /\ IF st = "multipath"
       THEN UNCHANGED <<migratorVars, active>>
       ELSE Reevaluate(st)
    /\ UNCHANGED <<available, dialVars>>

\* Selector.Migrate: drain, then probe everything.
SelMigrate ==
    /\ Migrate
    /\ UNCHANGED <<selVars, dialVars>>

\* Selector.Close; closing the transports themselves has no effect here.
SelClose ==
    /\ ~stopped
    /\ Close
    /\ UNCHANGED <<selVars, dialVars>>
-----------------------------------------------------------------------------
(* Selector.Dial.  A multipath pool's virtual connection and a connection  *)
(* from ConnPool never enter the migrator; they are modelled in            *)
(* MultipathPool and ConnPool.                                             *)

DialReadsActive(h) ==
    /\ dpc[h] = "idle"
    /\ strategy # "multipath"
    /\ snap' = [snap EXCEPT ![h] = active]
    /\ dpc' = [dpc EXCEPT ![h] = IF active = NoTransport THEN "any"
                                 ELSE "active"]
    /\ UNCHANGED <<migratorVars, selVars, spc, via, fresh, tc, reconnMu>>

DialSucceeds(h, c) ==
    /\ Dialled(c)
    /\ fresh' = [fresh EXCEPT ![h] = c]
    /\ dpc' = [dpc EXCEPT ![h] = "track"]
    /\ snap' = [snap EXCEPT ![h] = NoTransport]
    /\ UNCHANGED <<spc, via, tc, reconnMu, available, strategy>>

BugDialAny(h, t, c) ==
    /\ dpc[h] = "any"
    /\ DialSucceeds(h, c)
    /\ UNCHANGED active

\* No transport was active: the first that can be dialled becomes active, if
\* none did meanwhile.
DialAny(h, t, c) ==
    /\ dpc[h] = "any"
    /\ DialSucceeds(h, c)
    /\ active' = IF active = NoTransport THEN t ELSE active

DialActive(h, c) ==
    /\ dpc[h] = "active"
    /\ DialSucceeds(h, c)
    /\ UNCHANGED active

\* The active transport failed: dialFallback drains everything first.
DialActiveFails(h) ==
    /\ dpc[h] = "active"
    /\ Migrate
    /\ dpc' = [dpc EXCEPT ![h] = "fallback"]
    /\ UNCHANGED <<selVars, spc, via, snap, fresh, tc, reconnMu>>

DialFallback(h, t, c) ==
    /\ dpc[h] = "fallback"
    /\ t # snap[h]
    /\ DialSucceeds(h, c)
    /\ active' = t

\* "all transports failed": the caller may call Dial again.
DialGivesUp(h) ==
    /\ dpc[h] \in {"any", "fallback"}
    /\ dpc' = [dpc EXCEPT ![h] = "idle"]
    /\ snap' = [snap EXCEPT ![h] = NoTransport]
    /\ UNCHANGED <<migratorVars, selVars, spc, via, fresh, tc, reconnMu>>

DialTracks(h) ==
    /\ dpc[h] = "track"
    /\ Track(fresh[h])
    /\ tc' = [tc EXCEPT ![h] = fresh[h]]
    /\ fresh' = [fresh EXCEPT ![h] = NoConn]
    /\ dpc' = [dpc EXCEPT ![h] = "ready"]
    /\ UNCHANGED <<selVars, spc, via, snap, reconnMu>>
-----------------------------------------------------------------------------
(* migratedConn.OpenStream and dialNewAndOpen.                             *)

\* The call is at pc p next; it gives up its handle's reconnMu when it returns.
Goto(s, p) ==
    /\ spc' = [spc EXCEPT ![s] = p]
    /\ via' = [via EXCEPT ![s] = IF p = "idle" THEN "none" ELSE @]
    /\ reconnMu' =
        [reconnMu EXCEPT ![via[s]] =
            IF @ = s /\ p \in {"idle", "failed"} THEN NoStream ELSE @]

OpenFirst(s, h) ==
    /\ spc[s] \in {"idle", "failed"}
    /\ dpc[h] = "ready"
    /\ OpenRaw(s, tc[h])
    /\ spc' = [spc EXCEPT ![s] = "first"]
    /\ via' = [via EXCEPT ![s] = h]
    /\ UNCHANGED <<selVars, dpc, snap, fresh, tc, reconnMu>>

\* conn.OpenStream fails on a connection that is closed: the error is returned.
OpenFails(s, h) ==
    /\ spc[s] = "idle"
    /\ sstate[s] = "unused"
    /\ dpc[h] = "ready"
    /\ tc[h] \in closed
    /\ spc' = [spc EXCEPT ![s] = "failed"]
    /\ via' = [via EXCEPT ![s] = h]
    /\ UNCHANGED <<migratorVars, selVars, dpc, snap, fresh, tc, reconnMu>>

\* WrapStream(c.tc, stream).  c.tc is read again, without reconnMu.
WrapFirst(s) ==
    /\ spc[s] = "first"
    /\ CheckDraining(s, tc[via[s]])
    /\ Goto(s, IF tc[via[s]] \in draining THEN "lock" ELSE "first")
    /\ UNCHANGED <<selVars, dpc, snap, fresh, tc>>

\* activeStreams.Add(1), and the wrapped stream is returned.
CountAndReturn(s) ==
    /\ spc[s] \in {"first", "second"}
    /\ CountStream(s)
    /\ Goto(s, "idle")
    /\ UNCHANGED <<selVars, dpc, snap, fresh, tc>>

LockReconn(s) ==
    /\ spc[s] = "lock"
    /\ reconnMu[via[s]] = NoStream
    /\ spc' = [spc EXCEPT ![s] = "locked"]
    /\ reconnMu' = [reconnMu EXCEPT ![via[s]] = s]
    /\ UNCHANGED <<migratorVars, selVars, dpc, via, snap, fresh, tc>>

\* Another call reconnected while this one waited for the lock.
UseReconnected(s) ==
    /\ spc[s] = "locked"
    /\ tc[via[s]] \notin draining
    /\ Goto(s, "reopen")
    /\ UNCHANGED <<migratorVars, selVars, dpc, snap, fresh, tc>>

BugRedialWithoutRecheck(s) ==
    /\ spc[s] = "locked"
    /\ Goto(s, IF active = NoTransport THEN "idle" ELSE "dial")
    /\ UNCHANGED <<migratorVars, selVars, dpc, snap, fresh, tc>>

\* Still draining: read the active transport; without one the call fails.
RedialReadsActive(s) ==
    /\ spc[s] = "locked"
    /\ tc[via[s]] \in draining
    /\ Goto(s, IF active = NoTransport THEN "idle" ELSE "dial")
    /\ UNCHANGED <<migratorVars, selVars, dpc, snap, fresh, tc>>

Redial(s, c) ==
    /\ spc[s] = "dial"
    /\ Dialled(c)
    /\ fresh' = [fresh EXCEPT ![s] = c]
    /\ Goto(s, "track")
    /\ UNCHANGED <<selVars, dpc, snap, tc>>

BugRedialFailsLocked(s) ==
    /\ spc[s] = "dial"
    /\ spc' = [spc EXCEPT ![s] = "idle"]
    /\ UNCHANGED <<migratorVars, selVars, dpc, via, snap, fresh, tc, reconnMu>>

RedialFails(s) ==
    /\ spc[s] = "dial"
    /\ Goto(s, "idle")
    /\ UNCHANGED <<migratorVars, selVars, dpc, snap, fresh, tc>>

RedialTracks(s) ==
    /\ spc[s] = "track"
    /\ Track(fresh[s])
    /\ tc' = [tc EXCEPT ![via[s]] = fresh[s]]
    /\ fresh' = [fresh EXCEPT ![s] = NoConn]
    /\ Goto(s, "reopen")
    /\ UNCHANGED <<selVars, dpc, snap>>

OpenSecond(s) ==
    /\ spc[s] = "reopen"
    /\ OpenRaw(s, tc[via[s]])
    /\ Goto(s, "second")
    /\ UNCHANGED <<selVars, dpc, snap, fresh, tc>>

OpenSecondFails(s) ==
    /\ spc[s] = "reopen"
    /\ tc[via[s]] \in closed
    /\ Goto(s, "idle")
    /\ UNCHANGED <<migratorVars, selVars, dpc, snap, fresh, tc>>

\* The second WrapStream; if the new connection is draining already the call
\* returns ErrConnectionDraining.
WrapSecond(s) ==
    /\ spc[s] = "second"
    /\ CheckDraining(s, tc[via[s]])
    /\ Goto(s, IF tc[via[s]] \in draining THEN "idle" ELSE "second")
    /\ UNCHANGED <<selVars, dpc, snap, fresh, tc>>

\* The steps of a call of OpenStream that has begun.
OpenStep(s) ==
    \/ WrapFirst(s)
    \/ CountAndReturn(s)
    \/ LockReconn(s)
    \/ UseReconnected(s)
    \/ RedialReadsActive(s)
    \/ \E c \in Conns : Redial(s, c)
    \/ RedialFails(s)
    \/ RedialTracks(s)
    \/ OpenSecond(s)
    \/ OpenSecondFails(s)
    \/ WrapSecond(s)
-----------------------------------------------------------------------------
Outside(A) == A /\ UNCHANGED <<selVars, dialVars>>

Next ==
    \/ \E t \in Transports : ProbeResult(t)
    \/ MaybeSwitch
    \/ \E st \in Strategies : SetStrategy(st)
    \/ SelMigrate
    \/ SelClose
    \/ \E h \in Handles :
          \/ DialReadsActive(h)
          \/ \E c \in Conns :
                \/ DialActive(h, c)
                \/ \E t \in Transports : DialAny(h, t, c)
                                         \/ DialFallback(h, t, c)
          \/ DialActiveFails(h)
          \/ DialGivesUp(h)
          \/ DialTracks(h)
          \/ \E s \in Streams : OpenFirst(s, h) \/ OpenFails(s, h)
    \/ \E s \in Streams : OpenStep(s) \/ Outside(CloseStream(s))
    \/ \E c \in Conns : Outside(DrainTimeout(c)) \/ Outside(DrainTest(c))
                        \/ Outside(DrainClose(c)) \/ Outside(CloseConn(c))

Spec == Init /\ [][Next]_vars

-----------------------------------------------------------------------------
\* reconnMu "serializes dialNewAndOpen to prevent connection leaks": when
\* concurrent OpenStream calls find a migratedConn draining, one of them
\* re-dials and the others use its connection.  Every tracked connection that
\* is not draining is the current one of the Dial that made it.
NoOrphanConns ==
    \A c \in connections \ draining : \E h \in Handles : tc[h] = c

\* No path through dialNewAndOpen returns with reconnMu held: its holder is a
\* call on that connection that still has steps to take.
ReconnMuReleased ==
    \A h \in Handles : reconnMu[h] # NoStream =>
        /\ via[reconnMu[h]] = h
        /\ spc[reconnMu[h]] \in {"locked", "dial", "track", "reopen", "second"}

\* The error "no active transport for re-dial" cannot happen: a handle exists
\* only after some Dial made a transport active, and none makes it nil again.
RedialHasTransport ==
    \A s \in Streams : spc[s] \in {"lock", "locked"} => active # NoTransport

\* "If the underlying connection is draining, OpenStream dials a fresh
\* connection": until the selector is closed it never returns the error of the
\* drained one.
DrainedHandleRedials ==
    [][\A s \in Streams :
          (spc[s] # "failed" /\ spc'[s] = "failed" /\ ~stopped)
              => tc[via'[s]] \notin draining]_vars
=============================================================================
