-------------------------- MODULE MCSuggestionCache --------------------------
(***************************************************************************)
(* SuggestionCache on small instances: one process is initialized twice,   *)
(* the other once.                                                         *)
(***************************************************************************)
EXTENDS SuggestionCache, TLC

CONSTANTS i1, i2, i3, p1, p2

TwoProcesses == (i1 :> p1) @@ (i2 :> p1) @@ (i3 :> p2)
=============================================================================
