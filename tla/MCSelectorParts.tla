--------------------------- MODULE MCSelectorParts ---------------------------
(***************************************************************************)
(* The paths of the runs on the selector's parts.                          *)
(***************************************************************************)
EXTENDS SelectorParts

MCPaths == <<"h3", "reality">>
==============================================================================
