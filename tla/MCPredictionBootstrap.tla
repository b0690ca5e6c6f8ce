----------------------- MODULE MCPredictionBootstrap -----------------------
(***************************************************************************)
(* PredictionBootstrap on small instances; sessions that import are        *)
(* interchangeable in the run that checks safety only.                     *)
(***************************************************************************)
EXTENDS PredictionBootstrap, TLC

Symmetry == Permutations(Importers)
=============================================================================
