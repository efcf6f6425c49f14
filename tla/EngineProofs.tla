---------------------------- MODULE EngineProofs ----------------------------
(***************************************************************************)
(* Proofs about Engine, for any number of clients, configurations and      *)
(* calls.  The invariants of the run on Engine are not inductive: whether  *)
(* a phase may close a resource depends on the phases before it.  EIInv    *)
(* adds which state each phase is in, which call it belongs to and what    *)
(* it has opened.                                                          *)
(***************************************************************************)
EXTENDS Engine, TLAPS

Starting == {"snapshot", "selector", "router", "inbounds", "abort", "publish"}

\* lifecycleMu is held exactly while a call is in one of its phases.
HolderHasPhase ==
    /\ lifecycleMu = NoClient <=> step = "none"
    /\ step # "none" => pc[lifecycleMu] \in {"start", "stop", "reload"}
    /\ step \in {"read", "decide", "install", "rollback"} =>
        pc[lifecycleMu] = "reload"
    /\ step \in {"cancel", "mesh", "close", "finish"} =>
        pc[lifecycleMu] \in {"stop", "reload"}

\* The state the engine is in during each phase.
PhaseHasState ==
    /\ step \in Starting <=> state = "starting"
    /\ step \in {"mesh", "close", "finish"} <=> state = "stopping"
    /\ step \in {"install", "rollback"} => state = "stopped"
    /\ step = "decide" => (running <=> state = "running")

\* The resources that are open in each state and phase.
PhaseHasResources ==
    /\ open["ctx"] = IF state \in {"starting", "running"} THEN 1 ELSE 0
    /\ open["sel"] =
        closing + (IF \/ state = "running"
                      \/ step \in {"router", "inbounds", "abort", "publish",
                                "mesh", "close"}
                   THEN 1 ELSE 0)
    /\ open["chain"] = IF \/ state \in {"running", "stopping"}
                          \/ step \in {"inbounds", "abort", "publish"}
                       THEN 1 ELSE 0
    /\ open["inbounds"] = IF \/ state \in {"running", "stopping"}
                             \/ step = "publish"
                          THEN 1 ELSE 0

\* A Reload that waits for lifecycleMu or holds it passed validation.
ReloadsAreValid == \A c \in Clients : pc[c] = "reload" => Loads(arg[c])

EIInv ==
    /\ EngineTypeOK
    /\ HolderHasPhase
    /\ PhaseHasState
    /\ PhaseHasResources
    /\ ReloadsAreValid
-----------------------------------------------------------------------------
\* The strengthened invariant holds of an engine that New has just made.
LEMMA EInitIInv == Init => EIInv
  <1> SUFFICES ASSUME Init PROVE EIInv
    OBVIOUS
  <1>1. EngineTypeOK
    <2>1. cfg \in Config /\ DefaultConfig.rest \in Rests
      BY EngineAssumption DEF Init, Config
    <2>2. /\ pc \in [Clients -> Calls]
          /\ arg \in [Clients -> Config]
          /\ open \in [Kinds -> Nat]
          /\ calls \in 0..MaxCalls
      BY EngineAssumption DEF Init, Calls
    <2>3. built \in [routing : Routings \cup {NoRouter}, mesh : BOOLEAN,
                    rest : Rests]
      BY <2>1 DEF Init
    <2> QED
      BY <2>1, <2>2, <2>3, EngineAssumption
         DEF Init, EngineTypeOK, Phases, EngineStates
  <1>2. HolderHasPhase /\ PhaseHasState /\ PhaseHasResources
    BY DEF Init, HolderHasPhase, PhaseHasState, PhaseHasResources, Starting,
           Kinds
  <1>3. ReloadsAreValid
    BY DEF Init, ReloadsAreValid
  <1> QED  BY <1>1, <1>2, <1>3 DEF EIInv

\* Every call, phase and late close preserves the strengthened invariant.
LEMMA EStepIInv == EIInv /\ [Next]_engineVars => EIInv'
  <1> SUFFICES ASSUME EIInv, [Next]_engineVars PROVE EIInv'
    OBVIOUS
  <1> USE EngineAssumption
      DEF EIInv, configVars, reloadVars, clientVars, resourceVars
  <1>1. ASSUME NEW c \in Clients, SetConfig(c) PROVE EIInv'
    <2>1. EngineTypeOK'
      <3>1. arg[c] \in Config /\ [arg[c] EXCEPT !.mesh = TRUE] \in Config
        BY DEF EngineTypeOK, Config
      <3>2. pc' \in [Clients -> Calls] /\ arg' \in [Clients -> Config]
        <4>1. CASE pc[c] = "import"
          <5>1. /\ pc' = [pc EXCEPT ![c] = "importMesh"]
                /\ arg' = [arg EXCEPT ![c] = [arg[c] EXCEPT !.mesh = TRUE]]
            BY <1>1, <4>1 DEF SetConfig
          <5> QED  BY <5>1, <3>1 DEF EngineTypeOK, Calls
        <4>2. CASE pc[c] # "import"
          BY <1>1, <4>2 DEF SetConfig, Return, EngineTypeOK, Calls
        <4> QED  BY <4>1, <4>2
      <3>3. cfg' \in Config /\ overwritten' \in BOOLEAN
        BY <1>1, <3>1 DEF SetConfig, EngineTypeOK
      <3>4. written' \subseteq Fields
        BY <1>1 DEF SetConfig, EngineTypeOK, Differing
      <3>5. calls' \in 0..MaxCalls
        BY <1>1 DEF SetConfig, Return, EngineTypeOK
      <3> QED
        BY <1>1, <3>2, <3>3, <3>4, <3>5 DEF SetConfig, EngineTypeOK
    <2>2. HolderHasPhase'
      BY <1>1 DEF SetConfig, Return, EngineTypeOK, HolderHasPhase
    <2>3. PhaseHasState'
      BY <1>1 DEF SetConfig, Return, EngineTypeOK, EngineStates,
         PhaseHasState, HolderHasPhase, Starting
    <2>4. PhaseHasResources'
      BY <1>1 DEF SetConfig, Return, EngineTypeOK, Kinds, PhaseHasState,
         PhaseHasResources, Starting
    <2>5. ReloadsAreValid'
      BY <1>1 DEF SetConfig, Return, EngineTypeOK, ReloadsAreValid, Loads
    <2> QED  BY <2>1, <2>2, <2>3, <2>4, <2>5
  <1>2. ASSUME NEW c \in Clients, ReloadValidates(c) PROVE EIInv'
    <2>1. EngineTypeOK'
      <3>1. pc' \in [Clients -> Calls] /\ arg' \in [Clients -> Config]
        BY <1>2 DEF ReloadValidates, Return, EngineTypeOK, Calls
      <3>2. lastConfigErr' \in BOOLEAN /\ calls' = calls
        BY <1>2 DEF ReloadValidates, Return
      <3> QED
        BY <1>2, <3>1, <3>2 DEF ReloadValidates, EngineTypeOK
    <2>2. HolderHasPhase'
      BY <1>2 DEF ReloadValidates, Return, EngineTypeOK, HolderHasPhase
    <2>3. PhaseHasState'
      BY <1>2 DEF ReloadValidates, Return, EngineTypeOK, EngineStates,
         PhaseHasState, HolderHasPhase, Starting
    <2>4. PhaseHasResources'
      BY <1>2 DEF ReloadValidates, Return, EngineTypeOK, Kinds, PhaseHasState,
         PhaseHasResources, Starting
    <2>5. ReloadsAreValid'
      BY <1>2 DEF ReloadValidates, Return, EngineTypeOK, ReloadsAreValid,
         Loads
    <2> QED  BY <2>1, <2>2, <2>3, <2>4, <2>5
  <1>3. ASSUME NEW c \in Clients, Lock(c) PROVE EIInv'
    <2>1. EngineTypeOK'
      <3>1. step' \in Phases
        BY <1>3 DEF Lock, Phases
      <3>2. /\ lifecycleMu' \in Clients \cup {NoClient}
            /\ failed' \in BOOLEAN
        BY <1>3 DEF Lock
      <3> QED
        BY <1>3, <3>1, <3>2 DEF Lock, EngineTypeOK
    <2>2. HolderHasPhase'
      BY <1>3 DEF Lock, EngineTypeOK, HolderHasPhase
    <2>3. PhaseHasState'
      BY <1>3 DEF Lock, EngineTypeOK, EngineStates, PhaseHasState,
         HolderHasPhase, Starting
    <2>4. PhaseHasResources'
      BY <1>3 DEF Lock, EngineTypeOK, Kinds, PhaseHasState, PhaseHasResources,
         Starting, HolderHasPhase
    <2>5. ReloadsAreValid'
      BY <1>3 DEF Lock, EngineTypeOK, ReloadsAreValid, Loads
    <2> QED  BY <2>1, <2>2, <2>3, <2>4, <2>5
  <1>4. ASSUME NEW c \in Clients, Unlock(c) PROVE EIInv'
    <2>1. EngineTypeOK'
      <3>1. pc' \in [Clients -> Calls] /\ arg' \in [Clients -> Config]
        BY <1>4 DEF Unlock, Return, EngineTypeOK, Calls
      <3>2. step' \in Phases
        BY <1>4 DEF Unlock, Phases
      <3> QED
        BY <1>4, <3>1, <3>2 DEF Unlock, Return, EngineTypeOK
    <2>2. HolderHasPhase'
      BY <1>4 DEF Unlock, Return, EngineTypeOK, HolderHasPhase
    <2>3. PhaseHasState'
      BY <1>4 DEF Unlock, Return, EngineTypeOK, EngineStates, PhaseHasState,
         HolderHasPhase, Starting
    <2>4. PhaseHasResources'
      BY <1>4 DEF Unlock, Return, EngineTypeOK, Kinds, PhaseHasState,
         PhaseHasResources, Starting, HolderHasPhase
    <2>5. ReloadsAreValid'
      BY <1>4 DEF Unlock, Return, EngineTypeOK, ReloadsAreValid, Loads
    <2> QED  BY <2>1, <2>2, <2>3, <2>4, <2>5
  <1>5. CASE StartBegin
    <2>1. EngineTypeOK'
      <3>1. open' \in [Kinds -> Nat] /\ closing' \in Nat
        BY <1>5 DEF StartBegin, Opened, EngineTypeOK, Kinds, PhaseHasState,
           PhaseHasResources, Starting
      <3> QED
        BY <1>5, <3>1 DEF StartBegin, EngineTypeOK, Phases, EngineStates,
           Config
    <2>2. HolderHasPhase'
      BY <1>5 DEF StartBegin, EngineTypeOK, HolderHasPhase
    <2>3. PhaseHasState'
      BY <1>5 DEF StartBegin, EngineTypeOK, EngineStates, PhaseHasState,
         HolderHasPhase, Starting
    <2>4. PhaseHasResources'
      BY <1>5 DEF StartBegin, Opened, EngineTypeOK, Kinds, PhaseHasState,
         PhaseHasResources, Starting
    <2>5. ReloadsAreValid'
      BY <1>5 DEF StartBegin, EngineTypeOK, ReloadsAreValid, Loads
    <2> QED  BY <2>1, <2>2, <2>3, <2>4, <2>5
  <1>6. CASE StartSnapshot
    <2>1. EngineTypeOK'
      <3>1. open' \in [Kinds -> Nat] /\ closing' \in Nat
        BY <1>6 DEF StartSnapshot, Fail, Closed, AfterFailure, EngineTypeOK,
           Kinds, PhaseHasState, PhaseHasResources, Starting
      <3>2. lastConfigErr' \in BOOLEAN
        BY <1>6 DEF StartSnapshot
      <3> QED
        BY <1>6, <3>1, <3>2 DEF StartSnapshot, Fail, AfterFailure,
           EngineTypeOK, Phases, EngineStates
    <2>2. HolderHasPhase'
      BY <1>6 DEF StartSnapshot, Fail, AfterFailure, EngineTypeOK,
         HolderHasPhase
    <2>3. PhaseHasState'
      BY <1>6 DEF StartSnapshot, Fail, AfterFailure, EngineTypeOK,
         EngineStates, PhaseHasState, HolderHasPhase, Starting
    <2>4. PhaseHasResources'
      BY <1>6 DEF StartSnapshot, Fail, Closed, AfterFailure, EngineTypeOK,
         Kinds, PhaseHasState, PhaseHasResources, Starting
    <2>5. ReloadsAreValid'
      BY <1>6 DEF StartSnapshot, EngineTypeOK, ReloadsAreValid, Loads
    <2> QED  BY <2>1, <2>2, <2>3, <2>4, <2>5
  <1>7. CASE StartSelector
    <2>1. EngineTypeOK'
      <3>1. open' \in [Kinds -> Nat] /\ closing' \in Nat
        BY <1>7 DEF StartSelector, Fail, Opened, Closed, AfterFailure,
           EngineTypeOK, Kinds, PhaseHasState, PhaseHasResources, Starting
      <3> QED
        BY <1>7, <3>1 DEF StartSelector, Fail, AfterFailure, EngineTypeOK,
           Phases, EngineStates, Config
    <2>2. HolderHasPhase'
      BY <1>7 DEF StartSelector, Fail, AfterFailure, EngineTypeOK,
         HolderHasPhase
    <2>3. PhaseHasState'
      BY <1>7 DEF StartSelector, Fail, AfterFailure, EngineTypeOK,
         EngineStates, PhaseHasState, HolderHasPhase, Starting
    <2>4. PhaseHasResources'
      BY <1>7 DEF StartSelector, Fail, Opened, Closed, AfterFailure,
         EngineTypeOK, Kinds, PhaseHasState, PhaseHasResources, Starting
    <2>5. ReloadsAreValid'
      BY <1>7 DEF StartSelector, EngineTypeOK, ReloadsAreValid, Loads
    <2> QED  BY <2>1, <2>2, <2>3, <2>4, <2>5
  <1>8. CASE StartRouter
    <2>1. EngineTypeOK'
      <3>1. open' \in [Kinds -> Nat] /\ closing' \in Nat
        BY <1>8 DEF StartRouter, Opened, EngineTypeOK, Kinds, PhaseHasState,
           PhaseHasResources, Starting
      <3> QED
        BY <1>8, <3>1 DEF StartRouter, EngineTypeOK, Phases, EngineStates,
           Config
    <2>2. HolderHasPhase'
      BY <1>8 DEF StartRouter, EngineTypeOK, HolderHasPhase
    <2>3. PhaseHasState'
      BY <1>8 DEF StartRouter, EngineTypeOK, EngineStates, PhaseHasState,
         HolderHasPhase, Starting
    <2>4. PhaseHasResources'
      BY <1>8 DEF StartRouter, Opened, EngineTypeOK, Kinds, PhaseHasState,
         PhaseHasResources, Starting
    <2>5. ReloadsAreValid'
      BY <1>8 DEF StartRouter, EngineTypeOK, ReloadsAreValid, Loads
    <2> QED  BY <2>1, <2>2, <2>3, <2>4, <2>5
  <1>9. CASE StartInbounds
    <2>1. EngineTypeOK'
      <3>1. open' \in [Kinds -> Nat] /\ closing' \in Nat
        BY <1>9 DEF StartInbounds, Opened, EngineTypeOK, Kinds,
           PhaseHasState, PhaseHasResources, Starting
      <3> QED
        BY <1>9, <3>1 DEF StartInbounds, EngineTypeOK,
           Phases, EngineStates, Config
    <2>2. HolderHasPhase'
      BY <1>9 DEF StartInbounds, EngineTypeOK, HolderHasPhase
    <2>3. PhaseHasState'
      BY <1>9 DEF StartInbounds, EngineTypeOK,
         EngineStates, PhaseHasState, HolderHasPhase, Starting
    <2>4. PhaseHasResources'
      BY <1>9 DEF StartInbounds, Opened, EngineTypeOK, Kinds,
         PhaseHasState, PhaseHasResources, Starting
    <2>5. ReloadsAreValid'
      BY <1>9 DEF StartInbounds, EngineTypeOK, ReloadsAreValid, Loads
    <2> QED  BY <2>1, <2>2, <2>3, <2>4, <2>5
  <1>10. CASE StartPublish
    <2>1. EngineTypeOK'
      <3>1. snap.mesh \in BOOLEAN
        BY DEF EngineTypeOK, Config
      <3> QED
        BY <1>10, <3>1 DEF StartPublish, EngineTypeOK, Phases, EngineStates
    <2>2. HolderHasPhase'
      BY <1>10 DEF StartPublish, EngineTypeOK, HolderHasPhase
    <2>3. PhaseHasState'
      BY <1>10 DEF StartPublish, EngineTypeOK, EngineStates, PhaseHasState,
         HolderHasPhase, Starting
    <2>4. PhaseHasResources'
      BY <1>10 DEF StartPublish, EngineTypeOK, Kinds, PhaseHasState,
         PhaseHasResources, Starting
    <2>5. ReloadsAreValid'
      BY <1>10 DEF StartPublish, EngineTypeOK, ReloadsAreValid, Loads
    <2> QED  BY <2>1, <2>2, <2>3, <2>4, <2>5
  <1>11. CASE StopCancel
    <2>1. EngineTypeOK'
      <3>1. open' \in [Kinds -> Nat] /\ closing' \in Nat
        BY <1>11 DEF StopCancel, Closed, EngineTypeOK, Kinds, PhaseHasState,
           PhaseHasResources, Starting
      <3> QED
        BY <1>11, <3>1 DEF StopCancel, EngineTypeOK, Phases, EngineStates,
           Config
    <2>2. HolderHasPhase'
      BY <1>11 DEF StopCancel, EngineTypeOK, HolderHasPhase
    <2>3. PhaseHasState'
      BY <1>11 DEF StopCancel, EngineTypeOK, EngineStates, PhaseHasState,
         HolderHasPhase, Starting
    <2>4. PhaseHasResources'
      BY <1>11 DEF StopCancel, Closed, EngineTypeOK, Kinds, PhaseHasState,
         PhaseHasResources, Starting
    <2>5. ReloadsAreValid'
      BY <1>11 DEF StopCancel, EngineTypeOK, ReloadsAreValid, Loads
    <2> QED  BY <2>1, <2>2, <2>3, <2>4, <2>5
  <1>12. CASE StopClose
    <2>1. EngineTypeOK'
      <3>1. open' \in [Kinds -> Nat] /\ closing' \in Nat
        BY <1>12 DEF StopClose, Closed, EngineTypeOK, Kinds, PhaseHasState,
           PhaseHasResources, Starting
      <3> QED
        BY <1>12, <3>1 DEF StopClose, EngineTypeOK, Phases, EngineStates,
           Config
    <2>2. HolderHasPhase'
      BY <1>12 DEF StopClose, EngineTypeOK, HolderHasPhase
    <2>3. PhaseHasState'
      BY <1>12 DEF StopClose, EngineTypeOK, EngineStates, PhaseHasState,
         HolderHasPhase, Starting
    <2>4. PhaseHasResources'
      BY <1>12 DEF StopClose, Closed, EngineTypeOK, Kinds, PhaseHasState,
         PhaseHasResources, Starting
    <2>5. ReloadsAreValid'
      BY <1>12 DEF StopClose, EngineTypeOK, ReloadsAreValid, Loads
    <2> QED  BY <2>1, <2>2, <2>3, <2>4, <2>5
  <1>13. CASE StopFinish
    <2>1. EngineTypeOK'
      <3>1. open' \in [Kinds -> Nat] /\ closing' \in Nat
        BY <1>13 DEF StopFinish, Closed, EngineTypeOK, Kinds, PhaseHasState,
           PhaseHasResources, Starting
      <3> QED
        BY <1>13, <3>1 DEF StopFinish, EngineTypeOK, Phases, EngineStates,
           Config
    <2>2. HolderHasPhase'
      BY <1>13 DEF StopFinish, EngineTypeOK, HolderHasPhase
    <2>3. PhaseHasState'
      BY <1>13 DEF StopFinish, EngineTypeOK, EngineStates, PhaseHasState,
         HolderHasPhase, Starting
    <2>4. PhaseHasResources'
      BY <1>13 DEF StopFinish, Closed, EngineTypeOK, Kinds, PhaseHasState,
         PhaseHasResources, Starting
    <2>5. ReloadsAreValid'
      BY <1>13 DEF StopFinish, EngineTypeOK, ReloadsAreValid, Loads
    <2> QED  BY <2>1, <2>2, <2>3, <2>4, <2>5
  <1>14. CASE ReloadRead
    <2>1. EngineTypeOK'
      BY <1>14 DEF ReloadRead, EngineTypeOK, Calls, Phases, EngineStates
    <2>2. HolderHasPhase'
      BY <1>14 DEF ReloadRead, EngineTypeOK, HolderHasPhase
    <2>3. PhaseHasState'
      BY <1>14 DEF ReloadRead, EngineTypeOK, EngineStates, PhaseHasState,
         HolderHasPhase, Starting
    <2>4. PhaseHasResources'
      BY <1>14 DEF ReloadRead, EngineTypeOK, Kinds, PhaseHasState,
         PhaseHasResources, Starting
    <2>5. ReloadsAreValid'
      BY <1>14 DEF ReloadRead, EngineTypeOK, ReloadsAreValid, Loads
    <2> QED  BY <2>1, <2>2, <2>3, <2>4, <2>5
  <1>15. CASE ReloadRouterOnly
    <2>1. EngineTypeOK'
      <3>1. lifecycleMu \in Clients
        BY <1>15 DEF ReloadRouterOnly, EngineTypeOK, HolderHasPhase
      <3>2. arg[lifecycleMu] \in Config
        BY <3>1 DEF EngineTypeOK
      <3>3. arg[lifecycleMu].routing \in Routings
        BY <3>2 DEF Config
      <3> QED
        BY <1>15, <3>2, <3>3 DEF ReloadRouterOnly, EngineTypeOK, Phases
    <2>2. HolderHasPhase'
      BY <1>15 DEF ReloadRouterOnly, EngineTypeOK, HolderHasPhase
    <2>3. PhaseHasState'
      BY <1>15 DEF ReloadRouterOnly, EngineTypeOK, EngineStates,
         PhaseHasState, HolderHasPhase, Starting
    <2>4. PhaseHasResources'
      BY <1>15 DEF ReloadRouterOnly, EngineTypeOK, Kinds, PhaseHasState,
         PhaseHasResources, Starting
    <2>5. ReloadsAreValid'
      BY <1>15 DEF ReloadRouterOnly, EngineTypeOK, ReloadsAreValid, Loads
    <2> QED  BY <2>1, <2>2, <2>3, <2>4, <2>5
  <1>16. CASE ReloadStrategyOnly
    <2>1. EngineTypeOK'
      <3>1. lifecycleMu \in Clients
        BY <1>16 DEF ReloadStrategyOnly, EngineTypeOK, HolderHasPhase
      <3>2. arg[lifecycleMu] \in Config
        BY <3>1 DEF EngineTypeOK
      <3> QED
        BY <1>16, <3>2 DEF ReloadStrategyOnly, EngineTypeOK, Phases
    <2>2. HolderHasPhase'
      BY <1>16 DEF ReloadStrategyOnly, EngineTypeOK, HolderHasPhase
    <2>3. PhaseHasState'
      BY <1>16 DEF ReloadStrategyOnly, EngineTypeOK, EngineStates,
         PhaseHasState, HolderHasPhase, Starting
    <2>4. PhaseHasResources'
      BY <1>16 DEF ReloadStrategyOnly, EngineTypeOK, Kinds, PhaseHasState,
         PhaseHasResources, Starting
    <2>5. ReloadsAreValid'
      BY <1>16 DEF ReloadStrategyOnly, EngineTypeOK, ReloadsAreValid, Loads
    <2> QED  BY <2>1, <2>2, <2>3, <2>4, <2>5
  <1>17. CASE ReloadFull
    <2>1. EngineTypeOK'
      BY <1>17 DEF ReloadFull, EngineTypeOK, Calls, Phases, EngineStates
    <2>2. HolderHasPhase'
      BY <1>17 DEF ReloadFull, EngineTypeOK, HolderHasPhase
    <2>3. PhaseHasState'
      BY <1>17 DEF ReloadFull, EngineTypeOK, EngineStates, PhaseHasState,
         HolderHasPhase, Starting
    <2>4. PhaseHasResources'
      BY <1>17 DEF ReloadFull, EngineTypeOK, Kinds, PhaseHasState,
         PhaseHasResources, Starting
    <2>5. ReloadsAreValid'
      BY <1>17 DEF ReloadFull, EngineTypeOK, ReloadsAreValid, Loads
    <2> QED  BY <2>1, <2>2, <2>3, <2>4, <2>5
  <1>18. CASE ReloadInstall
    <2>1. EngineTypeOK'
      <3>1. lifecycleMu \in Clients
        BY <1>18 DEF ReloadInstall, EngineTypeOK, HolderHasPhase
      <3>2. arg[lifecycleMu] \in Config
        BY <3>1 DEF EngineTypeOK
      <3> QED
        BY <1>18, <3>2 DEF ReloadInstall, EngineTypeOK, Phases
    <2>2. HolderHasPhase'
      BY <1>18 DEF ReloadInstall, EngineTypeOK, HolderHasPhase
    <2>3. PhaseHasState'
      BY <1>18 DEF ReloadInstall, EngineTypeOK, EngineStates, PhaseHasState,
         HolderHasPhase, Starting
    <2>4. PhaseHasResources'
      BY <1>18 DEF ReloadInstall, EngineTypeOK, Kinds, PhaseHasState,
         PhaseHasResources, Starting
    <2>5. ReloadsAreValid'
      BY <1>18 DEF ReloadInstall, EngineTypeOK, ReloadsAreValid, Loads
    <2> QED  BY <2>1, <2>2, <2>3, <2>4, <2>5
  <1>19. CASE ReloadRollback
    <2>1. EngineTypeOK'
      BY <1>19 DEF ReloadRollback, EngineTypeOK, Calls, Phases, EngineStates
    <2>2. HolderHasPhase'
      BY <1>19 DEF ReloadRollback, EngineTypeOK, HolderHasPhase
    <2>3. PhaseHasState'
      BY <1>19 DEF ReloadRollback, EngineTypeOK, EngineStates, PhaseHasState,
         HolderHasPhase, Starting
    <2>4. PhaseHasResources'
      BY <1>19 DEF ReloadRollback, EngineTypeOK, Kinds, PhaseHasState,
         PhaseHasResources, Starting
    <2>5. ReloadsAreValid'
      BY <1>19 DEF ReloadRollback, EngineTypeOK, ReloadsAreValid, Loads
    <2> QED  BY <2>1, <2>2, <2>3, <2>4, <2>5
  <1>20. CASE LateClose
    <2>1. EngineTypeOK'
      <3>1. open' \in [Kinds -> Nat] /\ closing' \in Nat
        BY <1>20 DEF LateClose, Closed, EngineTypeOK, Kinds, PhaseHasState,
           PhaseHasResources, Starting
      <3> QED
        BY <1>20, <3>1 DEF LateClose, EngineTypeOK, Phases, EngineStates,
           Config
    <2>2. HolderHasPhase'
      BY <1>20 DEF LateClose, EngineTypeOK, HolderHasPhase
    <2>3. PhaseHasState'
      BY <1>20 DEF LateClose, EngineTypeOK, EngineStates, PhaseHasState,
         HolderHasPhase, Starting
    <2>4. PhaseHasResources'
      BY <1>20 DEF LateClose, Closed, EngineTypeOK, Kinds, PhaseHasState,
         PhaseHasResources, Starting
    <2>5. ReloadsAreValid'
      BY <1>20 DEF LateClose, EngineTypeOK, ReloadsAreValid, Loads
    <2> QED  BY <2>1, <2>2, <2>3, <2>4, <2>5
  <1>21. ASSUME NEW c \in Clients, ClientCalls(c) PROVE EIInv'
    <2>0. PICK w \in Calls \ {"reload"}, a \in Config : Call(c, w, a)
      BY <1>21 DEF ClientCalls, CallStart, CallStop, CallReload, CallSave,
                   CallImport, Calls, EngineTypeOK, Config
    <2>1. EngineTypeOK'
      BY <2>0 DEF Call, EngineTypeOK
    <2>2. HolderHasPhase'
      BY <2>0 DEF Call, EngineTypeOK, HolderHasPhase
    <2>3. PhaseHasState'
      BY <2>0 DEF Call, PhaseHasState
    <2>4. PhaseHasResources'
      BY <2>0 DEF Call, PhaseHasResources
    <2>5. ReloadsAreValid'
      BY <2>0 DEF Call, EngineTypeOK, ReloadsAreValid, Loads
    <2> QED  BY <2>1, <2>2, <2>3, <2>4, <2>5
  <1>22. CASE StartAbort
    <2>1. EngineTypeOK'
      <3>1. open' \in [Kinds -> Nat] /\ closing' \in Nat
        BY <1>22 DEF StartAbort, Fail, Closed, AfterFailure, EngineTypeOK,
           Kinds, PhaseHasState, PhaseHasResources, Starting
      <3> QED
        BY <1>22, <3>1 DEF StartAbort, Fail, AfterFailure, EngineTypeOK,
           Phases, EngineStates
    <2>2. HolderHasPhase'
      BY <1>22 DEF StartAbort, Fail, AfterFailure, EngineTypeOK,
         HolderHasPhase
    <2>3. PhaseHasState'
      BY <1>22 DEF StartAbort, Fail, AfterFailure, EngineTypeOK,
         EngineStates, PhaseHasState, HolderHasPhase, Starting
    <2>4. PhaseHasResources'
      BY <1>22 DEF StartAbort, Fail, Closed, AfterFailure, EngineTypeOK,
         Kinds, PhaseHasState, PhaseHasResources, Starting
    <2>5. ReloadsAreValid'
      BY <1>22 DEF StartAbort, EngineTypeOK, ReloadsAreValid, Loads
    <2> QED  BY <2>1, <2>2, <2>3, <2>4, <2>5
  <1>23. CASE StopMesh
    <2>1. EngineTypeOK'
      BY <1>23 DEF StopMesh, EngineTypeOK, Phases, EngineStates
    <2>2. HolderHasPhase'
      BY <1>23 DEF StopMesh, EngineTypeOK, HolderHasPhase
    <2>3. PhaseHasState'
      BY <1>23 DEF StopMesh, EngineTypeOK, EngineStates, PhaseHasState,
         HolderHasPhase, Starting
    <2>4. PhaseHasResources'
      BY <1>23 DEF StopMesh, EngineTypeOK, Kinds, PhaseHasState,
         PhaseHasResources, Starting
    <2>5. ReloadsAreValid'
      BY <1>23 DEF StopMesh, EngineTypeOK, ReloadsAreValid, Loads
    <2> QED  BY <2>1, <2>2, <2>3, <2>4, <2>5
  <1>24. CASE UNCHANGED engineVars
    <2>1. EngineTypeOK'
      BY <1>24 DEF engineVars, EngineTypeOK
    <2>2. HolderHasPhase'
      BY <1>24 DEF engineVars, HolderHasPhase
    <2>3. PhaseHasState'
      BY <1>24 DEF engineVars, PhaseHasState
    <2>4. PhaseHasResources'
      BY <1>24 DEF engineVars, PhaseHasResources
    <2>5. ReloadsAreValid'
      BY <1>24 DEF engineVars, ReloadsAreValid
    <2> QED  BY <2>1, <2>2, <2>3, <2>4, <2>5
  <1> QED
    BY <1>1, <1>2, <1>3, <1>4, <1>5, <1>6, <1>7, <1>8, <1>9, <1>10, <1>11,
       <1>12, <1>13, <1>14, <1>15, <1>16, <1>17, <1>18, <1>19, <1>20, <1>21,
       <1>22, <1>23, <1>24
       DEF Next, Phase, startInternal, stopInternal, Reload

\* The strengthened invariant holds in every reachable state.
THEOREM EngineInvariance == Spec => []EIInv
  BY EInitIInv, EStepIInv, PTL DEF Spec

\* Type correctness: in particular no resource is closed more often than it was
\* opened.
THEOREM EngineTypes == Spec => []EngineTypeOK
  <1>1. EIInv => EngineTypeOK
    BY DEF EIInv
  <1> QED  BY <1>1, EngineInvariance, PTL

\* Whenever no Start, Stop or Reload is in progress the engine is stopped or
\* running.
THEOREM EngineSettled == Spec => []Settled
  <1>1. EIInv => Settled
    BY DEF EIInv, EngineTypeOK, EngineStates, HolderHasPhase, PhaseHasState,
           Starting, Settled
  <1> QED  BY <1>1, EngineInvariance, PTL

\* A running engine has one resource of each kind, a stopped one has none,
\* besides the selectors that timed-out stops are still closing.
THEOREM EngineOwnsResources == Spec => [](RunningIsWhole /\ StoppedIsQuiet)
  <1>1. EIInv => RunningIsWhole /\ StoppedIsQuiet
    BY DEF EIInv, EngineTypeOK, PhaseHasState, PhaseHasResources, Starting,
           RunningIsWhole, StoppedIsQuiet
  <1> QED  BY <1>1, EngineInvariance, PTL

\* Only Stop, or a Reload whose configuration passed validation, ever takes a
\* running engine out of service.
THEOREM EngineKeepsRunning == Spec => InvalidReloadKeepsRunning
  <1> DEFINE Kept == state = "running" /\ state' # "running" =>
                 \/ pc[lifecycleMu] = "stop"
                 \/ pc[lifecycleMu] = "reload" /\ Loads(arg[lifecycleMu])
  <1>1. EIInv /\ [Next]_engineVars => [Kept]_engineVars
    <2> SUFFICES ASSUME EIInv, [Next]_engineVars, state = "running",
                        state' # "running"
                 PROVE  Kept
      OBVIOUS
    <2>1. StopCancel
      BY DEF EIInv, PhaseHasState, Starting, Next, Phase, ClientCalls,
             CallStart, CallStop, CallReload, CallSave, CallImport, Call,
             SetConfig, ReloadValidates, Lock, Unlock, startInternal,
             StartBegin, StartSnapshot, StartSelector, StartRouter,
             StartInbounds, StartAbort, StartPublish, stopInternal, StopMesh,
             StopClose, StopFinish, LateClose, Reload, ReloadRead,
             ReloadRouterOnly, ReloadStrategyOnly, ReloadFull, ReloadInstall,
             ReloadRollback, engineVars
    <2>2. lifecycleMu \in Clients /\ pc[lifecycleMu] \in {"stop", "reload"}
      BY <2>1 DEF StopCancel, EIInv, EngineTypeOK, HolderHasPhase
    <2> QED  BY <2>2 DEF EIInv, ReloadsAreValid
  <1> QED
    BY <1>1, EngineInvariance, PTL DEF Spec, InvalidReloadKeepsRunning
-----------------------------------------------------------------------------
(* Drift between e.cfg and the running engine. *)

\* Configuration a differs from an engine with routing r, mesh m and rest t
\* only in parts that SetConfig wrote.
DriftsFrom(a, r, m, t) ==
    /\ a.routing # r => "routing" \in written
    /\ a.mesh # m => "mesh" \in written
    /\ a.rest # t => "rest" \in written

\* What the writes since the snapshot explain, phase by phase: e.cfg against
\* the snapshot while the engine starts, and e.cfg and the configuration a
\* Reload compares with against the engine while it runs.
DriftInv ==
    /\ step \in {"selector", "router", "inbounds", "publish"} =>
        DriftsFrom(cfg, snap.routing, snap.mesh, snap.rest)
    /\ step \in {"router", "inbounds", "publish"} => built.rest = snap.rest
    /\ step \in {"inbounds", "publish"} => router = snap.routing
    /\ state = "running" => DriftsFrom(cfg, router, built.mesh, built.rest)
    /\ step = "decide" /\ running =>
        DriftsFrom(old, router, built.mesh, built.rest)

\* Every step preserves it, given the invariant of the phases.
LEMMA DriftStep == EIInv /\ DriftInv /\ [Next]_engineVars => DriftInv'
  <1> SUFFICES ASSUME EIInv, DriftInv, [Next]_engineVars PROVE DriftInv'
    OBVIOUS
  <1> USE DEF configVars, reloadVars, clientVars, resourceVars
  <1>t. /\ cfg \in Config /\ snap \in Config /\ old \in Config
        /\ built \in [routing : Routings \cup {NoRouter}, mesh : BOOLEAN,
                      rest : Rests]
        /\ written \subseteq Fields
        /\ arg \in [Clients -> Config]
        /\ pc \in [Clients -> Calls]
    BY DEF EIInv, EngineTypeOK
  <1>s. /\ PhaseHasState
        /\ step # "none" => lifecycleMu \in Clients
    BY DEF EIInv, EngineTypeOK, HolderHasPhase
  <1>1. ASSUME NEW c \in Clients, SetConfig(c) PROVE DriftInv'
    <2>1. /\ \A f \in Fields : cfg'[f] # cfg[f] => f \in written'
          /\ written \subseteq written'
      BY <1>1, <1>t DEF SetConfig, Differing
    <2>2. /\ cfg'.routing # cfg.routing => "routing" \in written'
          /\ cfg'.mesh # cfg.mesh => "mesh" \in written'
          /\ cfg'.rest # cfg.rest => "rest" \in written'
      BY <2>1 DEF Fields
    <2>3. UNCHANGED <<state, router, step, old, running, snap, built>>
      BY <1>1 DEF SetConfig
    <2> QED  BY <2>1, <2>2, <2>3 DEF DriftInv, DriftsFrom
  <1>2. ASSUME \/ \E c \in Clients : \/ ClientCalls(c)
                                     \/ ReloadValidates(c)
               \/ LateClose
               \/ UNCHANGED engineVars
        PROVE  DriftInv'
    <2>1. UNCHANGED <<state, router, step, old, running, snap, built, cfg,
                      written>>
      BY <1>2 DEF ClientCalls, CallStart, CallStop, CallReload, CallSave,
         CallImport, Call, ReloadValidates, LateClose, engineVars
    <2> QED  BY <2>1 DEF DriftInv, DriftsFrom
  <1>3. ASSUME NEW c \in Clients, Lock(c) \/ Unlock(c) PROVE DriftInv'
    <2>1. /\ UNCHANGED <<state, router, built, cfg, written>>
          /\ step' \in {"none", "begin", "cancel", "read"}
      BY <1>3 DEF Lock, Unlock
    <2> QED  BY <2>1 DEF DriftInv, DriftsFrom
  <1>4. CASE StartBegin
    <2>1. /\ UNCHANGED <<router, built, cfg, written>>
          /\ step' \in {"return", "snapshot"}
          /\ state' = "running" => state = "running"
      BY <1>4 DEF StartBegin
    <2> QED  BY <2>1 DEF DriftInv, DriftsFrom
  <1>5. CASE StartSnapshot
    <2>1. /\ step' \in {"selector", "rollback", "return"}
          /\ state' # "running"
          /\ snap' = cfg /\ cfg' = cfg
      BY <1>5, <1>s
         DEF StartSnapshot, Fail, AfterFailure, PhaseHasState, Starting
    <2> QED  BY <2>1 DEF DriftInv, DriftsFrom
  <1>6. CASE StartSelector
    <2>1. /\ step' \in {"router", "rollback", "return"}
          /\ step' = "router" => built'.rest = snap.rest
          /\ state' # "running"
          /\ UNCHANGED <<snap, cfg, written>>
      BY <1>6, <1>s, <1>t
         DEF StartSelector, Fail, AfterFailure, PhaseHasState, Starting
    <2> QED  BY <2>1, <1>6 DEF DriftInv, DriftsFrom, StartSelector
  <1>7. CASE StartRouter
    <2>1. state' # "running"
      BY <1>7, <1>s DEF StartRouter, PhaseHasState, Starting
    <2> QED  BY <2>1, <1>7 DEF DriftInv, DriftsFrom, StartRouter
  <1>8. CASE StartInbounds
    <2>1. /\ step' \in {"publish", "abort"}
          /\ state' # "running"
          /\ built'.rest = built.rest
          /\ UNCHANGED <<snap, cfg, written, router>>
      BY <1>8, <1>s, <1>t DEF StartInbounds, PhaseHasState, Starting
    <2> QED  BY <2>1, <1>8 DEF DriftInv, DriftsFrom, StartInbounds
  <1>9. CASE StartPublish
    <2>1. /\ built'.mesh = snap.mesh /\ built'.rest = built.rest
          /\ step' = "return"
          /\ UNCHANGED <<cfg, written, router>>
      BY <1>9, <1>t DEF StartPublish
    <2> QED  BY <2>1, <1>9 DEF DriftInv, DriftsFrom, StartPublish
  <1>10. CASE StartAbort
    BY <1>10 DEF StartAbort, Fail, AfterFailure, DriftInv
  <1>11. CASE stopInternal
    <2>1. /\ step' \in {"return", "mesh", "close", "finish", "install"}
          /\ state' = "running" => state = "running" /\ router' = router
          /\ UNCHANGED <<built, cfg, written>>
      BY <1>11, <1>s DEF stopInternal, StopCancel, StopMesh, StopClose,
         StopFinish, PhaseHasState
    <2> QED  BY <2>1 DEF DriftInv, DriftsFrom
  <1>12. CASE ReloadRead
    BY <1>12 DEF ReloadRead, DriftInv, DriftsFrom
  <1>13. CASE ReloadRouterOnly
    <2> DEFINE n == arg[lifecycleMu]
    <2>1. n.mesh = old.mesh /\ n.rest = old.rest
      BY <1>13, <1>s, <1>t DEF ReloadRouterOnly, isRouterOnlyChange, Config
    <2>2. /\ cfg' = n /\ router' = n.routing /\ built' = built
          /\ step' = "return"
          /\ "mesh" \in written => "mesh" \in written'
          /\ "rest" \in written => "rest" \in written'
      BY <1>13 DEF ReloadRouterOnly
    <2>3. DriftsFrom(old, router, built.mesh, built.rest)
      BY <1>13 DEF DriftInv, ReloadRouterOnly
    <2> QED  BY <2>1, <2>2, <2>3 DEF DriftInv, DriftsFrom
  <1>14. CASE ReloadStrategyOnly
    <2> DEFINE n == arg[lifecycleMu]
    <2>1. n.routing = old.routing /\ n.mesh = old.mesh /\ n.rest = old.rest
      BY <1>14, <1>s, <1>t
         DEF ReloadStrategyOnly, isStrategyOnlyChange, Config
    <2>2. /\ cfg' = n
          /\ step' = "return"
          /\ UNCHANGED <<router, built, written>>
      BY <1>14 DEF ReloadStrategyOnly
    <2>3. DriftsFrom(old, router, built.mesh, built.rest)
      BY <1>14 DEF DriftInv, ReloadStrategyOnly
    <2> QED  BY <2>1, <2>2, <2>3 DEF DriftInv, DriftsFrom
  <1>15. CASE ReloadFull
    <2>1. /\ step' \in {"cancel", "install"}
          /\ UNCHANGED <<state, router, built, cfg, written>>
      BY <1>15 DEF ReloadFull
    <2> QED  BY <2>1 DEF DriftInv, DriftsFrom
  <1>16. CASE ReloadInstall \/ ReloadRollback
    <2>1. step' \in {"begin", "return"} /\ state' # "running"
      BY <1>16, <1>s DEF ReloadInstall, ReloadRollback, PhaseHasState
    <2> QED  BY <2>1 DEF DriftInv
  <1> QED
    BY <1>1, <1>2, <1>3, <1>4, <1>5, <1>6, <1>7, <1>8, <1>9, <1>10, <1>11,
       <1>12, <1>13, <1>14, <1>15, <1>16
       DEF Next, Phase, startInternal, Reload

\* A running engine differs from e.cfg only in what a SetConfig changed since
\* it was last started: no order of starts, stops, fast paths, failed starts,
\* rollbacks and writes between their phases makes the two drift otherwise.
THEOREM EngineDriftsOnlyByWrites == Spec => []DriftOnlyByWrites
  <1>1. Init => DriftInv
    BY DEF Init, DriftInv
  <1>2. EIInv /\ DriftInv => DriftOnlyByWrites
    <2> SUFFICES ASSUME EIInv, DriftInv, state = "running",
                        NEW f \in Fields,
                        cfg[f] # InService[f]
                 PROVE  f \in written
      BY DEF DriftOnlyByWrites, Differing
    <2>1. DriftsFrom(cfg, router, built.mesh, built.rest)
      BY DEF DriftInv
    <2>2. built \in [routing : Routings \cup {NoRouter}, mesh : BOOLEAN,
                     rest : Rests]
      BY DEF EIInv, EngineTypeOK
    <2> QED  BY <2>1, <2>2 DEF DriftsFrom, Fields, InService
  <1> QED
    BY <1>1, <1>2, DriftStep, EngineInvariance, PTL DEF Spec
=============================================================================
