------------------------- MODULE MCPluginLifecycle -------------------------
(***************************************************************************)
(* PluginLifecycle on a small instance.  No symmetry is declared: its one  *)
(* run checks liveness as well.                                            *)
(***************************************************************************)
EXTENDS PluginLifecycle
=============================================================================
