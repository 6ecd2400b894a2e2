---------------------------- MODULE MCRpcRouter ----------------------------
(* Small instances of RpcRouter for TLC. *)
EXTENDS RpcRouter

CONSTANTS c1, c2, srv
=============================================================================
