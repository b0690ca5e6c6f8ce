------------------------- MODULE MCPredictionEngine -------------------------
(***************************************************************************)
(* PredictionEngine on small instances.  Engines, suggestions and lines    *)
(* are interchangeable in the runs that check safety only.                 *)
(***************************************************************************)
EXTENDS PredictionEngine, TLC

Symmetry ==
  Permutations(Sessions) \cup Permutations(Readers) \cup Permutations(Lines)
=============================================================================
