------------------------------- MODULE MCRpc -------------------------------
(* Instances of Rpc for the model checker. *)
EXTENDS RpcService
=============================================================================
