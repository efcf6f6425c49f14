----------------------------- MODULE MCSelector -----------------------------
(***************************************************************************)
(* The transports of the Selector runs, in order of preference, and the    *)
(* symmetry of the runs that check no temporal formula.                    *)
(***************************************************************************)
EXTENDS Selector, TLC

MCOrder == <<"h3", "reality">>
MCSingle == <<"h3">>
Symmetry == Permutations(Streams) \cup Permutations(Handles)
=============================================================================
