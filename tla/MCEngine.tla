------------------------------- MODULE MCEngine -------------------------------
(***************************************************************************)
(* The configurations of the runs on the engine.                           *)
(***************************************************************************)
EXTENDS Engine

MCDefaultConfig == [routing |-> "r1", preferred |-> "h3", mesh |-> FALSE,
                    rest |-> "a", saved |-> "s1"]

\* The default, a change of its routing, one more of the transport, which is a
\* change of two parts against the default, and two that do not load.
MCUploads ==
    LET c == MCDefaultConfig
    IN  {c, [c EXCEPT !.routing = "r2"],
         [c EXCEPT !.routing = "r2", !.preferred = "multipath"],
         [c EXCEPT !.rest = "invalid"], [c EXCEPT !.rest = "empty"]}
===============================================================================
