------------------------------ MODULE MCCodexRpc ------------------------------
(***************************************************************************)
(* CodexRpc with two callers, who make two calls between them: one caller's *)
(* second call follows its first, or the two callers' calls overlap.       *)
(***************************************************************************)
EXTENDS CodexRpc

MCSpec == RpcSpec /\ RpcFairness
===============================================================================
