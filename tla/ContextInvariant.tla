-------------------------- MODULE ContextInvariant --------------------------
(***************************************************************************)
(* The inductive invariants behind the properties of NvcContext: what      *)
(* holds whatever may fail, and what holds in addition when poll is not    *)
(* interrupted and no signal is refused.                                   *)
(***************************************************************************)
EXTENDS NvcContext, RpcInvariant

(* The part of the invariant of Rpc that a second nvc_init keeps. *)
CoreInv == TypeOK /\ ProcInv /\ ControlInv /\ PidInv /\ InitializedPidIsChild

(* What a call on a service that returns has done to its flag. *)
ReturnInv ==
  pc = "returned" =>
    /\ op = "init" => (ctxinit[cur] <=> ret = 0)
    /\ op = "shutdown" /\ ret = 0 => ~ctxinit[cur]

Places == {"out", "query", "init_driver", "init_nvcgo", "fail",
           "shut_nvcgo", "shut_driver", "shut_ctx"}

(* Where the library call is fits where the call on the service is, and    *)
(* which services are initialized by then.                                 *)
LibInv ==
  /\ ctx \in [initialized : BOOLEAN, mnt_ns : Fd \cup {NoFd}] /\ rv \in {0, -1}
  /\ lib \in Places /\ dirty \in BOOLEAN /\ retried \in BOOLEAN
  /\ lib \in {"out", "fail", "shut_ctx"} => pc = "idle"
  /\ lib = "query" => op = "query" /\ ctx.initialized
  /\ lib = "init_driver" /\ pc # "idle" => op = "init" /\ cur = "driver"
  /\ lib = "init_nvcgo" /\ pc # "idle" => op = "init" /\ cur = "nvcgo"
  /\ lib = "shut_driver" /\ pc # "idle" => op = "shutdown" /\ cur = "driver"
  /\ lib = "shut_nvcgo" /\ pc # "idle" => op = "shutdown" /\ cur = "nvcgo"
  /\ ctx.initialized => lib \in {"out", "query", "shut_nvcgo", "shut_driver", "shut_ctx"}
  /\ ctx.initialized /\ lib \in {"out", "query"} => \A s \in Services : ctxinit[s]
  /\ lib = "init_nvcgo" => ctxinit["driver"]
  /\ lib \in {"shut_driver", "shut_ctx"} /\ rv = 0 => ~ctxinit["nvcgo"]
  /\ lib = "shut_ctx" /\ rv = 0 => ~ctxinit["driver"]

MntOpen == ctx.initialized \/ lib \in {"init_driver", "init_nvcgo", "fail"}

(* The namespace has one descriptor while the context holds one, unless a  *)
(* failed init closed that number; setup_client closes its own socket.     *)
MntInv ==
  /\ pc = "setup_client" => rpc[cur].svc_fd \in Fd /\ fdt[rpc[cur].svc_fd] = <<mypid, "svc">>
  /\ MntOpen => ctx.mnt_ns \in Fd /\ fdt[ctx.mnt_ns] \in {MntNs, Free}
  /\ lib \in {"init_driver", "init_nvcgo"}
       /\ (pc \in Calling \cup {"idle"} \/ (pc = "returned" /\ ret = 0)) =>
       fdt[ctx.mnt_ns] = MntNs
  /\ \A n \in Fd : fdt[n] = MntNs => MntOpen /\ n = ctx.mnt_ns

(* Until nvc_init is called after a failure, no service is initialized     *)
(* that the context goes on to initialize.                                 *)
FirstInv ==
  ~retried =>
    /\ lib = "out" /\ ~dirty /\ ~ctx.initialized => \A s \in Services : ~ctxinit[s]
    /\ lib = "init_driver" => ~ctxinit["nvcgo"] /\ (pc = "idle" => ~ctxinit["driver"])
    /\ lib = "init_nvcgo" /\ pc = "idle" => ~ctxinit["nvcgo"]

ContextInv == CoreInv /\ ReturnInv /\ LibInv /\ MntInv /\ FirstInv

-----------------------------------------------------------------------------
(* The poll of reap_process is not interrupted, and no signal is refused. *)
NothingRefused == ~PollMayFail /\ KillDenied = {}

(* A service with a process: it is initialized, or being so. *)
InUse(s) == ctxinit[s] \/ (cur = s /\ pc \in Calling \cup Reaping)

(* A failed setup_client was reaped, and is reaped again. *)
Again == pc \in Reaping /\ caller = "rpc_shutdown" /\ ~rpc[cur].initialized

(* A reap collects its child, and only the second one finds none. *)
ReapInv ==
  /\ pc \in {"call", "wait"} => rpc[cur].initialized
  /\ \A s \in Services : ctxinit[s] => rpc[s].initialized
  /\ pc \in Reaping \ {"reaped"} => (Again <=> ~Child(mypid))
  /\ pc = "reaped" => ~Child(mypid) /\ (ret = 0 <=> ~Again)
  /\ pc = "returned" /\ op = "shutdown" => ret = 0
  /\ lib \in {"shut_driver", "shut_ctx"} => ~ctxinit["nvcgo"]

(* Every child is the process of a service in use. *)
ChildInv == \A p \in Pids : Child(p) => rpc[owner[p]].pid = p /\ InUse(owner[p])

(* The socket of a service in use is open, and of its stale fd[SOCK_SVC]   *)
(* only the driver's may have been given out again: to nvcgo.              *)
SocketInv ==
  \A s \in Services : InUse(s) =>
    /\ rpc[s].clt_fd \in Fd /\ rpc[s].svc_fd \in Fd /\ rpc[s].clt_fd # rpc[s].svc_fd
    /\ ~(Again /\ cur = s) => fdt[rpc[s].clt_fd] = <<rpc[s].pid, "clt">>
    /\ ~(pc = "setup_client" /\ cur = s) =>
         \/ fdt[rpc[s].svc_fd] = Free
         \/ /\ s = "driver" /\ InUse("nvcgo")
            /\ fdt[rpc[s].svc_fd] \in {<<rpc["nvcgo"].pid, "clt">>, <<rpc["nvcgo"].pid, "svc">>}

(* Every descriptor is the caller's, the namespace's or such a socket. *)
TableInv ==
  \A n \in Fd :
    \/ fdt[n] \in {Free, Caller, MntNs}
    \/ \E s \in Services : /\ InUse(s) /\ ~(Again /\ cur = s)
                           /\ n = rpc[s].clt_fd /\ fdt[n] = <<rpc[s].pid, "clt">>
    \/ pc = "setup_client" /\ n = rpc[cur].svc_fd

CleanInv == ~retried /\ parent => ReapInv /\ ChildInv /\ SocketInv /\ TableInv
=============================================================================
