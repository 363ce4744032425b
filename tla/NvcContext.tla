----------------------------- MODULE NvcContext -----------------------------
(***************************************************************************)
(* The library context: nvc_init and nvc_shutdown of nvc.c, on top of the  *)
(* driver and nvcgo services of module Rpc.  The two services share the    *)
(* descriptor table and the process table of the caller; what one leaves   *)
(* behind in them is what the other finds.                                 *)
(***************************************************************************)
EXTENDS Rpc

(* Of the two, only driver_init has a path to join before rpc_init; and    *)
(* the context opens the namespace.                                        *)
ASSUME NvcContextAssumption ==
  Services = {"driver", "nvcgo"} /\ PathJoinMayFail \subseteq {"driver"} /\ MaxOwn > 0

VARIABLES
  lib,     \* where the library call is: "out" when none is executing
  ctx,     \* ctx->initialized and ctx->mnt_ns
  rv,      \* the value nvc_init or nvc_shutdown is returning, or returned last
  dirty,   \* an nvc_init or nvc_shutdown failed since the last clean shutdown
  retried  \* history: nvc_init was called on such a context

libvars == <<lib, ctx, rv, dirty, retried>>
allvars == <<vars, libvars>>

-----------------------------------------------------------------------------
(* nvc_init *)

(* Up to the descriptor of the mount namespace.  Nothing is kept when the  *)
(* arguments, the options, the configuration or the open fail.  On an      *)
(* initialized context the call returns 0 and changes nothing.             *)
nvc_init ==
  /\ parent
  /\ lib = "out" /\ pc = "idle"
  /\ ~ctx.initialized
  /\ retried' = (retried \/ dirty)
  /\ \/ \E n \in Fd :
          /\ LowestFree(n)
          /\ fdt' = [fdt EXCEPT ![n] = MntNs]
          /\ ctx' = [ctx EXCEPT !.mnt_ns = n]
          /\ lib' = "init_driver"
          /\ UNCHANGED <<rv, dirty>>
     \/ /\ ctx' = [ctx EXCEPT !.mnt_ns = NoFd]
        /\ rv' = -1
        /\ dirty' = TRUE
        /\ UNCHANGED <<fdt, lib>>
  /\ UNCHANGED <<parent, mainvars, rpcvars, procvars>>

(* dxcore without an adapter, or kernel modules that do not load *)
EnvironmentFails ==
  /\ parent
  /\ lib = "init_driver" /\ pc = "idle"
  /\ lib' = "fail"
  /\ UNCHANGED <<vars, ctx, rv, dirty, retried>>

(* driver_init, then nvcgo_init *)
InitService ==
  /\ parent
  /\ pc = "idle"
  /\ \/ lib = "init_driver" /\ service_init("driver")
     \/ lib = "init_nvcgo" /\ service_init("nvcgo")
  /\ UNCHANGED libvars

ServiceInitReturns ==
  /\ parent
  /\ pc = "returned"
  /\ pc' = "idle"
  /\ \/ /\ lib = "init_driver" /\ ret = 0
        /\ lib' = "init_nvcgo"
        /\ UNCHANGED <<ctx, rv>>
     \/ /\ lib = "init_nvcgo" /\ ret = 0
        /\ lib' = "out"
        /\ ctx' = [ctx EXCEPT !.initialized = TRUE]
        /\ rv' = 0
     \/ /\ lib \in {"init_driver", "init_nvcgo"} /\ ret # 0
        /\ lib' = "fail"
        /\ UNCHANGED <<ctx, rv>>
  /\ UNCHANGED <<parent, op, cur, caller, force, ret, reply, rpcvars, fdt,
                 procvars, dirty, retried>>

(* The fail label: a driver service that did start is left running. *)
InitFails ==
  /\ parent
  /\ lib = "fail"
  /\ fdt' = Close(fdt, {ctx.mnt_ns})
  /\ lib' = "out"
  /\ rv' = -1
  /\ dirty' = TRUE
  /\ UNCHANGED <<parent, mainvars, rpcvars, procvars, ctx, retried>>

(* variant: a context that is not initialized has nothing to shut down *)
nvc_shutdown_Early ==
  /\ parent
  /\ lib = "out" /\ pc = "idle"
  /\ lib' = IF ctx.initialized THEN "shut_nvcgo" ELSE "shut_ctx"
  /\ rv' = 0
  /\ UNCHANGED <<vars, ctx, dirty, retried>>

-----------------------------------------------------------------------------
(* nvc_shutdown *)

(* variant: the services are shut down in the order they were started *)
ShutdownService_Swapped ==
  /\ parent
  /\ pc = "idle"
  /\ \/ lib = "shut_nvcgo" /\ service_shutdown("driver")
     \/ lib = "shut_driver" /\ service_shutdown("nvcgo")
  /\ UNCHANGED libvars

nvc_shutdown ==
  /\ parent
  /\ lib = "out" /\ pc = "idle"
  /\ lib' = "shut_nvcgo"
  /\ rv' = 0
  /\ UNCHANGED <<vars, ctx, dirty, retried>>

ShutdownService ==
  /\ parent
  /\ pc = "idle"
  /\ \/ lib = "shut_nvcgo" /\ service_shutdown("nvcgo")
     \/ lib = "shut_driver" /\ service_shutdown("driver")
  /\ UNCHANGED libvars

(* The driver is shut down even if nvcgo could not be. *)
ServiceShutdownReturns ==
  /\ parent
  /\ pc = "returned"
  /\ pc' = "idle"
  /\ \/ lib = "shut_nvcgo" /\ lib' = "shut_driver"
     \/ lib = "shut_driver" /\ lib' = "shut_ctx"
  /\ rv' = IF ret < 0 THEN -1 ELSE rv
  /\ UNCHANGED <<parent, op, cur, caller, force, ret, reply, rpcvars, fdt,
                 procvars, ctx, dirty, retried>>

(* The context is given up whether or not the services were. *)
ShutdownReturns ==
  /\ parent
  /\ lib = "shut_ctx"
  /\ lib' = "out"
  /\ dirty' = (rv # 0)
  /\ IF ctx.initialized
     THEN /\ fdt' = Close(fdt, {ctx.mnt_ns})
          /\ ctx' = [initialized |-> FALSE, mnt_ns |-> NoFd]
     ELSE UNCHANGED <<fdt, ctx>>
  /\ UNCHANGED <<parent, mainvars, rpcvars, procvars, rv, retried>>

(* variant: no validate_context *)
Query_Unvalidated ==
  /\ parent
  /\ lib = "out" /\ pc = "idle"
  /\ \E s \in Services : service_query(s)
  /\ lib' = "query"
  /\ UNCHANGED <<ctx, rv, dirty, retried>>

-----------------------------------------------------------------------------
(* The other entry points: validate_context, then a call to a service. *)

Query ==
  /\ parent
  /\ lib = "out" /\ pc = "idle"
  /\ ctx.initialized
  /\ \E s \in Services : service_query(s)
  /\ lib' = "query"
  /\ UNCHANGED <<ctx, rv, dirty, retried>>

QueryReturns ==
  /\ parent
  /\ lib = "query" /\ pc = "returned"
  /\ pc' = "idle"
  /\ lib' = "out"
  /\ UNCHANGED <<parent, op, cur, caller, force, ret, reply, rpcvars, fdt,
                 procvars, ctx, rv, dirty, retried>>

NvcInit ==
  /\ RpcInit
  /\ lib = "out"
  /\ ctx = [initialized |-> FALSE, mnt_ns |-> NoFd]
  /\ rv = 0
  /\ dirty = FALSE
  /\ retried = FALSE

NvcNext ==
  \/ nvc_init \/ EnvironmentFails \/ InitService \/ ServiceInitReturns
  \/ InitFails
  \/ nvc_shutdown \/ ShutdownService \/ ServiceShutdownReturns
  \/ ShutdownReturns
  \/ Query \/ QueryReturns
  \/ SystemStep /\ UNCHANGED libvars

NvcSpec == NvcInit /\ [][NvcNext]_allvars

-----------------------------------------------------------------------------
(* Properties *)

(* After an nvc_shutdown that reports success the caller has no child, not *)
(* even a zombie, and every descriptor the library opened is closed,       *)
(* whatever init or shutdown failed half-way before it, if nvc_init was    *)
(* not called again in between: that overwrites the driver service.        *)
ShutdownLeavesNothing ==
  ~retried /\ parent /\ lib = "out" /\ rv = 0 /\ ~dirty /\ ~ctx.initialized =>
    /\ \A p \in Pids : ~Child(p)
    /\ \A n \in Fd : fdt[n] \in {Free, Caller}

(* The context drives its services the way Rpc lets a caller do: it never  *)
(* initializes a service that is initialized, which would lose the old     *)
(* process, and never queries one that is not.  It does so for as long as  *)
(* the application follows a failure by an nvc_shutdown that succeeds; and *)
(* when it calls nvc_init again instead, still no process is signalled     *)
(* that is not a child, but in the case SignalsOnlyItsChild names.         *)
UsesServicesAsAllowed ==
  RpcInit /\ [][~retried' => [Next]_vars]_allvars /\ SignalsOnlyItsChild

(* A step closes only what it owns: a service's shutdown its own socket,   *)
(* though fd[SOCK_SVC] has been a stale number since setup_client; the     *)
(* context its namespace.  driver_init is the exception when path_join     *)
(* fails: the struct rpc it shuts down is all zeroes, and descriptor 0 is  *)
(* closed.  A context that is initialized again after a failure is left    *)
(* out: the overwritten struct rpc is not closed by anybody.               *)
ClosesOnlyItsOwn ==
  [][\A n \in Fd : ~retried /\ fdt[n] # Free /\ fdt'[n] = Free =>
       \/ fdt[n] \in {<<rpc[cur].pid, "clt">>, <<rpc[cur].pid, "svc">>}
       \/ fdt[n] = MntNs /\ ctx.mnt_ns = n /\ lib' = "out"
       \/ n = 0 /\ lib = "init_driver"]_allvars
=============================================================================
