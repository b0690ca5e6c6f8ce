--------------------------- MODULE MCAutosuggest ---------------------------
(***************************************************************************)
(* Autosuggest on small instances: histories and imports of few commands.  *)
(***************************************************************************)
EXTENDS Autosuggest, TLC

CONSTANTS good, better, broken, other

FewEntries == SeqOf([line : {good, better, broken}, ok : BOOLEAN], 2)
TwoShells == SeqOf({good, other}, 3) \X SeqOf({better, other}, 1)
=============================================================================
