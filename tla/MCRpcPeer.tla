----------------------------- MODULE MCRpcPeer -----------------------------
(***************************************************************************)
(* RpcPeer on small instances: every call serves the same request, as the  *)
(* two history queries of a suggestion do.                                 *)
(***************************************************************************)
EXTENDS RpcPeer, TLC

OneParent == LET r == CHOOSE r \in Requests : TRUE IN [c \in Calls |-> r]

CallSymmetry == Permutations(Calls)
=============================================================================
