--------------------------- MODULE MCOutboundGroup ---------------------------
(***************************************************************************)
(* Two members.  A check or probe takes 1 or 60 ms, a difference beyond    *)
(* both tolerances; the quality thresholds let every member pass, only     *)
(* fast ones, or only probed ones.                                         *)
(***************************************************************************)
EXTENDS OutboundGroup

MCOutboundOrder == <<"tokyo", "paris">>

MCQualityConfigs ==
    {[maxLatency |-> 0, maxLossPercent |-> 0, tolerance |-> 0],
     [maxLatency |-> 50, maxLossPercent |-> 0, tolerance |-> -1],
     [maxLatency |-> 0, maxLossPercent |-> 20, tolerance |-> 1]}
==============================================================================
