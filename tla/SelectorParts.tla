---------------------------- MODULE SelectorParts ----------------------------
(***************************************************************************)
(* The parts of the selector that hold connections: the Migrator, which    *)
(* every selector has, and the pools Selector.Start creates, a             *)
(* MultipathPool for the multipath strategy or a ConnPool when warm-up     *)
(* connections are configured.  Dial takes a connection from one of the    *)
(* three and they share no state, so it is enough to look at each with the *)
(* other two idle.                                                         *)
(***************************************************************************)
EXTENDS MultipathPool, ConnPool, Migrator

VARIABLE used  \* the part this configuration dials through

partsVars == <<multipathVars, poolVars, migratorVars, used>>

PartsInit ==
    /\ MultipathInit
    /\ PoolInit
    /\ MInit
    /\ \/ used = "multipath"
       \/ used \in {"pool", "migrator"} /\ \A p \in Paths : conn[p] = "live"

PartsNext ==
    \/ /\ used = "multipath"
       /\ MultipathNext
       /\ UNCHANGED <<poolVars, migratorVars, used>>
    \/ /\ used = "pool"
       /\ PoolNext
       /\ UNCHANGED <<multipathVars, migratorVars, used>>
    \/ /\ used = "migrator"
       /\ MNext
       /\ UNCHANGED <<multipathVars, poolVars, used>>

PartsSpec ==
    /\ PartsInit
    /\ [][PartsNext]_partsVars
    /\ MultipathFairness
    /\ MFairness
==============================================================================
