----------------------------- MODULE RpcService -----------------------------
(***************************************************************************)
(* The process management of Rpc implements Service: the flag              *)
(* ctx->initialized, the pid in struct rpc and the kernel's process table  *)
(* together are the handle the abstract specification speaks of.           *)
(***************************************************************************)
EXTENDS RpcInvariant

(* The pid in the struct still is a running process of that service. *)
Running(s) ==
  rpc[s].pid \in Pids /\ owner[rpc[s].pid] = s /\ st[rpc[s].pid] \in Live

handleOf ==
  [s \in Services |->
     IF parent /\ ctxinit[s]
     THEN [life |-> IF Running(s) THEN "up" ELSE "gone", proc |-> {rpc[s].pid}]
     ELSE [life |-> "down", proc |-> {}]]

S == INSTANCE Service WITH Processes <- Pids, alive <- parent, handle <- handleOf

(* rpc_init, call_rpc, reap_process and rpc_shutdown implement Service: as  *)
(* long as a context is initialized it means one process, no other          *)
(* service's; a process that died is never taken for a living one, though   *)
(* its number may be in use again; a shutdown that returns 0 leaves no      *)
(* running process behind.                                                  *)
ImplementsService == S!ServiceSpec
=============================================================================
