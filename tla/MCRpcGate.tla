----------------------------- MODULE MCRpcGate -----------------------------
(* TLC instances of RpcGate. *)
EXTENDS RpcGate
=============================================================================
