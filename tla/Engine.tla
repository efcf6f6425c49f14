------------------------------- MODULE Engine -------------------------------
(***************************************************************************)
(* engine/engine_lifecycle.go: Start, Stop and Reload of the client        *)
(* engine, called by the GUI's HTTP handlers, the CLI and the mobile       *)
(* binding.  lifecycleMu serialises the three; e.mu is released between    *)
(* their phases, so SetConfig, which takes only e.mu, may run between any  *)
(* two of them.                                                            *)
(*                                                                         *)
(* A phase is one action.  A configuration is abstracted to the parts that *)
(* Reload and the handlers tell apart: the routing, the preferred          *)
(* transport, the mesh switch, the saved servers and subscriptions that    *)
(* SetConfig is for, and the rest.                                         *)
(* A start attempt opens one resource of each kind; open counts those that *)
(* are still open, whichever attempt they belong to.                       *)
(***************************************************************************)
EXTENDS Integers

CONSTANTS
    Clients, NoClient,   \* concurrent callers; nobody
    Routings, NoRouter,  \* Routing and RuleProviders; e.currentRouter == nil
    Preferreds,          \* Transport.Preferred
    SelectorStrategies,  \* those of them that are selector strategies
    Multipaths,          \* those with which Selector.Start dials every server
    Rests,               \* every other field
    Invalid,             \* those that Validate refuses
    NoTransports,        \* those that pass Validate but enable no transport
    Saves,               \* Servers and Subscriptions
    DefaultConfig,       \* what a variable that is not in use holds
    Uploads,             \* bound: configurations passed to New and to Reload
    MaxCalls             \* bound: calls made in a behaviour

Config == [routing : Routings, preferred : Preferreds, mesh : BOOLEAN,
           rest : Rests, saved : Saves]

\* The parts a running engine is compared with.  The strategy is not: the GUI's
\* strategy handler changes the selector's and leaves e.cfg alone.
Fields == {"routing", "mesh", "rest"}

ASSUME EngineAssumption ==
    /\ NoClient \notin Clients
    /\ NoRouter \notin Routings
    /\ SelectorStrategies \subseteq Preferreds
    /\ Multipaths \subseteq Preferreds
    /\ Invalid \subseteq Rests
    /\ NoTransports \subseteq Rests
    /\ DefaultConfig \in Config
    /\ Uploads \subseteq Config
    /\ MaxCalls \in Nat

VARIABLES
    state,        \* e.state
    cfg,          \* e.cfg
    lastConfigErr,\* e.lastConfigErr is not nil
    router,       \* the routing e.currentRouter was built from
    lifecycleMu,  \* the caller that holds e.lifecycleMu
    step,         \* the phase its call is in
    old,          \* Reload's oldCfg
    running,      \* Reload's running
    failed,       \* Reload's first start failed
    snap,         \* startInternal's cfgSnap
    pc,           \* the call each client is in
    arg,          \* the configuration it passes
    open,         \* resources that are open, of each kind
    closing,      \* selectors a timed-out Stop left closing in the background
    built,        \* what the listeners, the mesh and the selector started with
    overwritten,  \* history: a SetConfig changed more than the saved part
    written,      \* history: what it changed since the last start began
    calls         \* calls made so far

engineVars == <<state, cfg, lastConfigErr, router, lifecycleMu, step, old,
                running, failed, snap, pc, arg, open, closing, built,
                overwritten, written, calls>>
configVars == <<cfg, lastConfigErr, overwritten, written>>
reloadVars == <<old, running, failed>>
clientVars == <<pc, arg, calls>>
resourceVars == <<open, closing, built>>

\* The context of a start attempt, its selector, plugin chain and listeners.
Kinds == {"ctx", "sel", "chain", "inbounds"}

EngineStates == {"stopped", "starting", "running", "stopping"}
Phases == {"none", "begin", "snapshot", "selector", "router", "inbounds",
           "abort", "publish", "cancel", "mesh", "close", "finish", "read",
           "decide", "install", "rollback", "return"}
Calls == {"idle", "save", "import", "importMesh", "validate", "start", "stop",
          "reload"}

EngineTypeOK ==
    /\ state \in EngineStates
    /\ cfg \in Config
    /\ lastConfigErr \in BOOLEAN
    /\ router \in Routings \cup {NoRouter}
    /\ lifecycleMu \in Clients \cup {NoClient}
    /\ step \in Phases
    /\ old \in Config
    /\ running \in BOOLEAN
    /\ failed \in BOOLEAN
    /\ snap \in Config
    /\ pc \in [Clients -> Calls]
    /\ arg \in [Clients -> Config]
    /\ open \in [Kinds -> Nat]
    /\ closing \in Nat
    /\ built \in [routing : Routings \cup {NoRouter}, mesh : BOOLEAN,
                  rest : Rests]
    /\ overwritten \in BOOLEAN
    /\ written \subseteq Fields
    /\ calls \in 0..MaxCalls

Init ==
    /\ state = "stopped"
    /\ cfg \in Uploads
    /\ lastConfigErr = FALSE
    /\ router = NoRouter
    /\ lifecycleMu = NoClient
    /\ step = "none"
    /\ old = DefaultConfig
    /\ running = FALSE
    /\ failed = FALSE
    /\ snap = DefaultConfig
    /\ pc = [c \in Clients |-> "idle"]
    /\ arg = [c \in Clients |-> DefaultConfig]
    /\ open = [k \in Kinds |-> 0]
    /\ closing = 0
    /\ built = [routing |-> NoRouter, mesh |-> FALSE,
                rest |-> DefaultConfig.rest]
    /\ overwritten = FALSE
    /\ written = {}
    /\ calls = 0

Opened(ks) == [k \in Kinds |-> IF k \in ks THEN open[k] + 1 ELSE open[k]]
Closed(ks) == [k \in Kinds |-> IF k \in ks THEN open[k] - 1 ELSE open[k]]
-----------------------------------------------------------------------------
(* Calls. *)

\* A client enters a call w with configuration a.
Call(c, w, a) ==
    /\ pc[c] = "idle"
    /\ calls < MaxCalls
    /\ calls' = calls + 1
    /\ pc' = [pc EXCEPT ![c] = w]
    /\ arg' = [arg EXCEPT ![c] = a]
    /\ UNCHANGED <<state, configVars, router, lifecycleMu, step, reloadVars,
                   snap, resourceVars>>

CallStart(c) == Call(c, "start", DefaultConfig)
CallStop(c) == Call(c, "stop", DefaultConfig)
CallReload(c) == \E a \in Uploads : Call(c, "validate", a)

\* modifyServers and the subscription handlers: read the whole configuration,
\* change the saved part, and write the whole of it back with SetConfig.
CallSave(c) == \E s \in Saves : Call(c, "save", [cfg EXCEPT !.saved = s])

\* The import handler does the same for the imported servers.  When the import
\* has the mesh enabled it then switches the mesh on in its own copy and writes
\* the whole of that; without the mesh it is a call of CallSave.
CallImport(c) == \E s \in Saves : Call(c, "import", [cfg EXCEPT !.saved = s])

\* The call of client c returns.
Return(c) ==
    /\ pc' = [pc EXCEPT ![c] = "idle"]
    /\ arg' = [arg EXCEPT ![c] = DefaultConfig]
    /\ UNCHANGED calls

SameButSaved(a, b) == a = [b EXCEPT !.saved = a.saved]

\* What a running engine runs.
InService == [built EXCEPT !.routing = router]

\* The parts in which two configurations differ.
Differing(a, b) == {f \in Fields : a[f] # b[f]}

SetConfig(c) ==
    /\ pc[c] \in {"save", "import", "importMesh"}
    /\ cfg' = arg[c]
    /\ overwritten' = (overwritten \/ ~SameButSaved(arg[c], cfg))
    /\ written' = written \cup Differing(arg[c], cfg)
    /\ \/ /\ pc[c] = "import"
          /\ pc' = [pc EXCEPT ![c] = "importMesh"]
          /\ arg' = [arg EXCEPT ![c] = [@ EXCEPT !.mesh = TRUE]]
          /\ UNCHANGED calls
       \/ /\ pc[c] # "import"
          /\ Return(c)
    /\ UNCHANGED <<state, lastConfigErr, router, lifecycleMu, step,
                   reloadVars, snap, resourceVars>>

Valid(a) == a.rest \notin Invalid
Loads(a) == a.rest \notin Invalid \cup NoTransports

BugReloadUnvalidated(c) ==
    /\ pc[c] = "validate"
    /\ lastConfigErr' = ~Loads(arg[c])
    /\ pc' = [pc EXCEPT ![c] = "reload"]
    /\ UNCHANGED <<state, cfg, overwritten, written, router, lifecycleMu,
                   step, reloadVars, snap, resourceVars, arg, calls>>

\* Reload validates before it takes lifecycleMu.
ReloadValidates(c) ==
    /\ pc[c] = "validate"
    /\ lastConfigErr' = ~Loads(arg[c])
    /\ \/ /\ Loads(arg[c])
          /\ pc' = [pc EXCEPT ![c] = "reload"]
          /\ UNCHANGED <<arg, calls>>
       \/ /\ ~Loads(arg[c])
          /\ Return(c)
    /\ UNCHANGED <<state, cfg, overwritten, written, router, lifecycleMu,
                   step, reloadVars, snap, resourceVars>>

\* lifecycleMu.Lock() of the three calls.
Lock(c) ==
    /\ pc[c] \in {"start", "stop", "reload"}
    /\ lifecycleMu = NoClient
    /\ lifecycleMu' = c
    /\ step' = CASE pc[c] = "start" -> "begin"
                 [] pc[c] = "stop" -> "cancel"
                 [] pc[c] = "reload" -> "read"
    /\ failed' = FALSE
    /\ UNCHANGED <<state, configVars, router, old, running, snap, clientVars,
                   resourceVars>>


Unlock(c) ==
    /\ lifecycleMu = c
    /\ step = "return"
    /\ lifecycleMu' = NoClient
    /\ step' = "none"
    /\ old' = DefaultConfig
    /\ running' = FALSE
    /\ failed' = FALSE
    /\ snap' = DefaultConfig
    /\ Return(c)
    /\ UNCHANGED <<state, configVars, router, resourceVars>>
-----------------------------------------------------------------------------
(* startInternal.  A phase is taken by the holder of lifecycleMu. *)

\* Where the call goes when the start it made fails: Reload's first failure is
\* rolled back.
AfterFailure ==
    IF pc[lifecycleMu] = "reload" /\ ~failed THEN "rollback" ELSE "return"

StartBegin ==
    /\ step = "begin"
    /\ \/ /\ state \in {"running", "starting"}
          /\ step' = "return"
          /\ UNCHANGED <<state, open>>
       \/ /\ state \notin {"running", "starting"}
          /\ state' = "starting"
          /\ open' = Opened({"ctx"})
          /\ step' = "snapshot"
    /\ UNCHANGED <<configVars, router, lifecycleMu, reloadVars, snap,
                   clientVars, closing, built>>

BugFailLeavesSelector(ks) ==
    /\ state' = "stopped"
    /\ open' = Closed(ks \ {"sel"})
    /\ step' = AfterFailure

BugFailKeepsState(ks) ==
    /\ open' = Closed(ks)
    /\ step' = AfterFailure
    /\ UNCHANGED state

\* fail(): e.cancel and e.sel are reset, e.currentRouter is not.
Fail(ks) ==
    /\ state' = "stopped"
    /\ open' = Closed(ks)
    /\ step' = AfterFailure

StartSnapshot ==
    /\ step = "snapshot"
    /\ snap' = cfg
    /\ lastConfigErr' = ~Valid(cfg)
    /\ written' = {}
    /\ \/ /\ Valid(cfg)
          /\ step' = "selector"
          /\ UNCHANGED <<state, open>>
       \/ /\ ~Valid(cfg)
          /\ Fail({"ctx"})
    /\ UNCHANGED <<cfg, overwritten, router, lifecycleMu, reloadVars,
                   clientVars, closing, built>>

StartSelector ==
    /\ step = "selector"
    /\ \/ /\ snap.rest \in NoTransports
          /\ Fail({"ctx"})
          /\ UNCHANGED built
       \/ /\ snap.rest \notin NoTransports
          /\ open' = Opened({"sel"})
          /\ built' = [built EXCEPT !.rest = snap.rest]
          /\ step' = "router"
          /\ UNCHANGED state
    /\ UNCHANGED <<configVars, router, lifecycleMu, reloadVars, snap,
                   clientVars, closing>>

\* Providers, router and plugin chain.  None of the three plugins' Init
\* functions returns an error.
StartRouter ==
    /\ step = "router"
    /\ router' = snap.routing
    /\ open' = Opened({"chain"})
    /\ step' = "inbounds"
    /\ UNCHANGED <<state, configVars, lifecycleMu, reloadVars, snap,
                   clientVars, closing, built>>

\* startInbounds gives the listeners an inboundRouter that keeps the router
\* e.currentRouter points to now.  An address in use makes it fail, after it
\* has closed the listeners it had started.
StartInbounds ==
    /\ step = "inbounds"
    /\ \/ /\ open' = Opened({"inbounds"})
          /\ built' = [built EXCEPT !.routing = router]
          /\ step' = "publish"
       \/ /\ step' = "abort"
          /\ UNCHANGED <<open, built>>
    /\ UNCHANGED <<state, configVars, router, lifecycleMu, reloadVars, snap,
                   clientVars, closing>>

\* The listeners could not be started: sel.Close() on the spot, without the
\* timeout of Stop, then the chain is closed and the start fails.
StartAbort ==
    /\ step = "abort"
    /\ Fail({"ctx", "sel", "chain"})
    /\ UNCHANGED <<configVars, router, lifecycleMu, reloadVars, snap,
                   clientVars, closing, built>>

\* Mesh, whose failure is not fatal, state = running, and the monitors.
StartPublish ==
    /\ step = "publish"
    /\ built' = [built EXCEPT !.mesh = snap.mesh]
    /\ state' = "running"
    /\ step' = "return"
    /\ UNCHANGED <<configVars, router, lifecycleMu, reloadVars, snap,
                   clientVars, open, closing>>
-----------------------------------------------------------------------------
(* stopInternal. *)

BugStopKeepsState ==
    /\ step = "cancel"
    /\ \/ /\ state # "running"
          /\ step' = "return"
          /\ UNCHANGED <<state, open>>
       \/ /\ state = "running"
          /\ open' = Closed({"ctx"})
          /\ step' = "mesh"
          /\ UNCHANGED state
    /\ UNCHANGED <<configVars, router, lifecycleMu, reloadVars, snap,
                   clientVars, closing, built>>

StopCancel ==
    /\ step = "cancel"
    /\ \/ /\ state # "running"
          /\ step' = "return"
          /\ UNCHANGED <<state, open>>
       \/ /\ state = "running"
          /\ state' = "stopping"
          /\ open' = Closed({"ctx"})
          /\ step' = "mesh"
    /\ UNCHANGED <<configVars, router, lifecycleMu, reloadVars, snap,
                   clientVars, closing, built>>

\* meshManager.Close() waits for the mesh receive loop, without a timeout.
StopMesh ==
    /\ step = "mesh"
    /\ step' = "close"
    /\ UNCHANGED <<state, configVars, router, lifecycleMu, reloadVars, snap,
                   clientVars, resourceVars>>

\* The closers and sel.Close() run in a goroutine that Stop waits for at most
\* stopTimeout.
StopClose ==
    /\ step = "close"
    /\ step' = "finish"
    /\ \/ open' = Closed({"sel"}) /\ UNCHANGED closing
       \/ closing' = closing + 1 /\ UNCHANGED open
    /\ UNCHANGED <<state, configVars, router, lifecycleMu, reloadVars, snap,
                   clientVars, built>>

BugLateCloseAgain ==
    /\ closing > 0
    /\ open' = Closed({"sel"})
    /\ UNCHANGED <<state, configVars, router, lifecycleMu, step, reloadVars,
                   snap, clientVars, built, closing>>

\* The goroutine of a Stop that timed out ends.
LateClose ==
    /\ closing > 0
    /\ closing' = closing - 1
    /\ open' = Closed({"sel"})
    /\ UNCHANGED <<state, configVars, router, lifecycleMu, step, reloadVars,
                   snap, clientVars, built>>

\* The waits for background goroutines, each with its timeout, then the chain,
\* the listeners and the outbounds are closed and every field is reset.
StopFinish ==
    /\ step = "finish"
    /\ open' = Closed({"chain", "inbounds"})
    /\ state' = "stopped"
    /\ router' = NoRouter
    /\ step' = IF pc[lifecycleMu] = "reload" THEN "install" ELSE "return"
    /\ UNCHANGED <<configVars, lifecycleMu, reloadVars, snap, clientVars,
                   closing, built>>
-----------------------------------------------------------------------------
(* Reload. *)

ReloadRead ==
    /\ step = "read"
    /\ old' = cfg
    /\ running' = (state = "running")
    /\ step' = "decide"
    /\ UNCHANGED <<state, configVars, router, lifecycleMu, failed, snap,
                   clientVars, resourceVars>>

isRouterOnlyChange(o, n) == n = [o EXCEPT !.routing = n.routing]

BugStrategyOnly(o, n) ==
    /\ o.preferred # n.preferred
    /\ n.preferred \in SelectorStrategies

isStrategyOnlyChange(o, n) ==
    /\ o.preferred # n.preferred
    /\ n.preferred \in SelectorStrategies
    /\ n = [o EXCEPT !.preferred = n.preferred]

\* reloadRouterOnly: the new router is stored on the engine.
ReloadRouterOnly ==
    /\ step = "decide"
    /\ running
    /\ isRouterOnlyChange(old, arg[lifecycleMu])
    /\ router' = arg[lifecycleMu].routing
    /\ cfg' = arg[lifecycleMu]
    /\ written' = written \ {"routing"}
    /\ step' = "return"
    /\ UNCHANGED <<state, lastConfigErr, overwritten, lifecycleMu, reloadVars,
                   snap, clientVars, resourceVars>>

\* SetTransportStrategy cannot fail: the engine is running, so e.sel is set.
ReloadStrategyOnly ==
    /\ step = "decide"
    /\ running
    /\ ~isRouterOnlyChange(old, arg[lifecycleMu])
    /\ isStrategyOnlyChange(old, arg[lifecycleMu])
    /\ cfg' = arg[lifecycleMu]
    /\ step' = "return"
    /\ UNCHANGED <<state, lastConfigErr, overwritten, written, router,
                   lifecycleMu, reloadVars, snap, clientVars, resourceVars>>

ReloadFull ==
    /\ step = "decide"
    /\ \/ /\ running
          /\ ~isRouterOnlyChange(old, arg[lifecycleMu])
          /\ ~isStrategyOnlyChange(old, arg[lifecycleMu])
          /\ step' = "cancel"
       \/ /\ ~running
          /\ step' = "install"
    /\ UNCHANGED <<state, configVars, router, lifecycleMu, reloadVars, snap,
                   clientVars, resourceVars>>

ReloadInstall ==
    /\ step = "install"
    /\ cfg' = arg[lifecycleMu]
    /\ step' = "begin"
    /\ UNCHANGED <<state, lastConfigErr, overwritten, written, router,
                   lifecycleMu, reloadVars, snap, clientVars, resourceVars>>

BugRollbackKeepsConfig ==
    /\ step = "rollback"
    /\ failed' = TRUE
    /\ step' = IF running THEN "begin" ELSE "return"
    /\ UNCHANGED <<state, cfg, lastConfigErr, overwritten, written, router,
                   lifecycleMu, old, running, snap, clientVars, resourceVars>>

\* The old configuration is put back, and started if it was running.
ReloadRollback ==
    /\ step = "rollback"
    /\ failed' = TRUE
    /\ cfg' = old
    /\ step' = IF running THEN "begin" ELSE "return"
    /\ UNCHANGED <<state, lastConfigErr, overwritten, written, router,
                   lifecycleMu, old, running, snap, clientVars, resourceVars>>
-----------------------------------------------------------------------------
startInternal ==
    \/ StartBegin
    \/ StartSnapshot
    \/ StartSelector
    \/ StartRouter
    \/ StartInbounds
    \/ StartAbort
    \/ StartPublish

stopInternal ==
    \/ StopCancel
    \/ StopMesh
    \/ StopClose
    \/ StopFinish

Reload ==
    \/ ReloadRead
    \/ ReloadRouterOnly
    \/ ReloadStrategyOnly
    \/ ReloadFull
    \/ ReloadInstall
    \/ ReloadRollback

Phase == startInternal \/ stopInternal \/ Reload

ClientCalls(c) ==
    \/ CallStart(c)
    \/ CallStop(c)
    \/ CallReload(c)
    \/ CallSave(c)
    \/ CallImport(c)

Next ==
    \/ \E c \in Clients :
        \/ ClientCalls(c)
        \/ SetConfig(c)
        \/ ReloadValidates(c)
        \/ Lock(c)
        \/ Unlock(c)
    \/ Phase
    \/ LateClose

Spec == Init /\ [][Next]_engineVars

\* The phases that wait for a server or a peer without a deadline: the dials of
\* a multipath selector (Selector.Start; SetStrategy makes them under s.mu, and
\* waits for s.mu otherwise), the mesh's dial and handshake, the sel.Close() of
\* a failed start, and the wait for the mesh receive loop.
MayHang ==
    \/ step = "selector" /\ snap.preferred \in Multipaths
    \/ /\ step = "decide"
       /\ running
       /\ isStrategyOnlyChange(old, arg[lifecycleMu])
    \/ step = "publish" /\ snap.mesh
    \/ step = "abort"
    \/ step = "mesh" /\ built.mesh

\* A goroutine that can run does run, the other phases are bounded by their
\* timeouts, and a sync.Mutex hands itself to a waiter that has been kept out
\* for a millisecond, so nobody waits forever for one that is released.
\* LateClose has no fairness: what made Close hang may never end.
FairSpec ==
    /\ Spec
    /\ WF_engineVars(Phase /\ ~MayHang)
    /\ \A c \in Clients :
        /\ WF_engineVars(SetConfig(c) \/ ReloadValidates(c) \/ Unlock(c))
        /\ SF_engineVars(Lock(c))
-----------------------------------------------------------------------------
(* Properties. *)

\* "lifecycleMu serialises Start/Stop/Reload so that concurrent callers cannot
\* interleave their long-running init/shutdown sequences" (engine.go): whenever
\* no call is in progress, every start and stop, failed ones included, has
\* taken the engine to one of its two stable states.
Settled == lifecycleMu = NoClient => state \in {"stopped", "running"}

\* A running engine has exactly one context, plugin chain and set of listeners,
\* and one selector besides those that a timed-out Stop is still closing:
\* no restart, rollback or failed start leaves a second one behind.
RunningIsWhole ==
    state = "running" =>
        /\ \A k \in {"ctx", "chain", "inbounds"} : open[k] = 1
        /\ open["sel"] = closing + 1

\* A stopped engine, whether Stop or a failed start stopped it, accepts no
\* connection and has nothing of the four kinds open but the selectors still
\* being closed.
StoppedIsQuiet ==
    state = "stopped" =>
        /\ \A k \in {"ctx", "chain", "inbounds"} : open[k] = 0
        /\ open["sel"] = closing

\* "The new config is validated before stopping; if invalid the engine keeps
\* running" (Reload).
InvalidReloadKeepsRunning ==
    [][state = "running" /\ state' # "running" =>
        \/ pc[lifecycleMu] = "stop"
        \/ pc[lifecycleMu] = "reload" /\ Loads(arg[lifecycleMu])]_engineVars

\* "Rollback: restore old config and try to restart" (Reload): when a Reload
\* whose start failed returns, e.cfg is the configuration from before it, and
\* an engine that runs again runs that one, unless a SetConfig wrote another.
RollbackRestores ==
    step = "return" /\ failed /\ ~overwritten =>
        /\ SameButSaved(cfg, old)
        /\ state = "running" => Differing(old, InService) = {}

\* Reload's two fast paths compare configurations, not the engine: a running
\* engine still differs from e.cfg only in a part that a SetConfig changed
\* since it was last started, and a router-only reload brings the router and
\* e.cfg together again.  No order of starts, fast paths, rollbacks and writes
\* between their phases makes them drift otherwise.
DriftOnlyByWrites ==
    lifecycleMu = NoClient /\ state = "running" =>
        Differing(cfg, InService) \subseteq written


\* "When only routing/DNS fields change the engine performs a zero-downtime
\* router-only hot-swap" (Reload): the listeners of a running engine route by
\* the routing of its configuration.
HotSwapReachesTraffic ==
    lifecycleMu = NoClient /\ state = "running" /\ ~overwritten =>
        built.routing = cfg.routing

\* modifyServers "applies fn to mutate the Servers slice" and is given the
\* current configuration: saving the server list of a running engine changes
\* nothing else.
SaveChangesOnlySaved ==
    [][\A c \in Clients :
          pc[c] = "save" /\ pc'[c] = "idle" /\ state = "running" =>
              SameButSaved(cfg', cfg)]_engineVars
=============================================================================
