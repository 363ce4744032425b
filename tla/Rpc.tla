-------------------------------- MODULE Rpc --------------------------------
(***************************************************************************)
(* The life of the RPC service processes (rpc.c, and the init, shutdown    *)
(* and query entry points of driver.c and nvcgo.c that drive it).          *)
(*                                                                         *)
(* A caller (the process that loaded the library) forks one service        *)
(* process per program, talks to it over a socketpair, and later asks it   *)
(* to leave, reaps it and closes its end.  The caller may die at any       *)
(* moment, a service may crash, hang or be slow, a call may time out, and  *)
(* the number of a reaped process may be given to an unrelated one.        *)
(***************************************************************************)
EXTENDS Integers, Sequences, FiniteSets

CONSTANTS
  Services,         \* the RPC programs ("driver" and "nvcgo" in the library)
  Pids,             \* process numbers fork can return
  NoPid,            \* a pid field that is not > 0
  MaxFd,            \* highest descriptor number of the caller
  MaxOwn,           \* bound: descriptors the caller opens for itself
  MaxQueue,         \* bound: requests waiting in one socket
  ChangesCreds,     \* services whose init handler changes its uid or gid
  ShutdownMayFail,  \* services whose shutdown handler can report an error
  PathJoinMayFail,  \* services whose init can fail before rpc_init (dxcore)
  KillDenied,       \* services the caller lacks the privilege to signal
  PollMayFail,      \* poll can be interrupted by a signal handler
  TermBlocked       \* the caller runs, hence forks, with SIGTERM blocked

NoFd    == -1
NoSvc   == "none"
Foreign == "foreign"
Fd   == 0..MaxFd
Ops  == {"init", "query", "shutdown"}

ASSUME RpcAssumption ==
  /\ NoPid \notin Pids
  /\ MaxFd \in Nat
  /\ MaxOwn \in Nat
  /\ MaxQueue \in Nat
  /\ ChangesCreds \subseteq Services
  /\ ShutdownMayFail \subseteq Services
  /\ PathJoinMayFail \subseteq Services
  /\ KillDenied \subseteq Services
  /\ NoSvc \notin Services /\ Foreign \notin Services
  /\ PollMayFail \in BOOLEAN
  /\ TermBlocked \in BOOLEAN

(* What a descriptor number of the caller refers to: nothing, a descriptor *)
(* the caller had before, one end of the socketpair made for a child, or   *)
(* the mount namespace nvc_init keeps open.                                *)
FdKinds == {"free", "caller", "clt", "svc", "mnt"}
Free    == <<NoPid, "free">>
Caller  == <<NoPid, "caller">>
MntNs   == <<NoPid, "mnt">>

(* Where a process is.  "other" is a process that is no child of the       *)
(* caller; "born" to "checked" are the steps of setup_service before the   *)
(* transport is registered; "run" is svc_run, "leaving" is svc_run after   *)
(* svc_exit, "closed" follows svc_destroy, "zombie" awaits waitpid.        *)
Starting == {"born", "armed", "checked"}
Live     == Starting \cup {"run", "leaving", "closed"}
SockOpen == Starting \cup {"run", "leaving"}
States   == Live \cup {"free", "other", "zombie"}

VARIABLES
  (* the caller's thread *)
  parent,      \* is the caller alive
  pc,          \* where its thread is
  op,          \* the entry point being executed
  cur,         \* the service it is executed on
  caller,      \* which of rpc_init and rpc_shutdown called reap_process
  force,       \* the force argument of reap_process
  ret,         \* the value being returned, 0 or -1
  reply,       \* the reply received by the pending call
  (* struct rpc and the initialized flag of the driver and nvcgo contexts *)
  rpc,         \* initialized, fd[SOCK_CLT], fd[SOCK_SVC], pid and clt
  ctxinit,     \* ctx->initialized
  (* the kernel's view *)
  fdt,         \* descriptor table of the caller
  owner,       \* which service a process runs, if any
  st,          \* where the process is
  pdeath,      \* PR_SET_PDEATHSIG is in force
  term,        \* a SIGTERM is pending
  kill,        \* a SIGKILL is pending
  reqs         \* requests written to the process's socket and not handled

mainvars == <<pc, op, cur, caller, force, ret, reply>>
rpcvars  == <<rpc, ctxinit>>
procvars == <<owner, st, pdeath, term, kill, reqs>>
vars     == <<parent, mainvars, rpcvars, fdt, procvars>>

PcLabels == {"idle", "setup_client", "call", "wait", "reap", "poll",
             "waitpid", "reaped", "returned"}

RpcStruct == [initialized : BOOLEAN, clt_fd : Fd \cup {NoFd},
              svc_fd : Fd \cup {NoFd}, pid : Pids \cup {NoPid}, clt : BOOLEAN]

ResetRpc == [initialized |-> FALSE, clt_fd |-> NoFd, svc_fd |-> NoFd,
             pid |-> NoPid, clt |-> FALSE]

-----------------------------------------------------------------------------
(* Helpers *)

Child(p) == owner[p] \in Services
mypid    == rpc[cur].pid

(* the number open(2) and socketpair(2) hand out next *)
LowestFree(n) == n \in Fd /\ fdt[n] = Free /\ \A m \in Fd : m < n => fdt[m] # Free

Close(t, N) == [n \in Fd |-> IF n \in N THEN Free ELSE t[n]]

(* the descriptor still is the client end made together with the child *)
ClientSocket(s) ==
  rpc[s].clt_fd \in Fd /\ fdt[rpc[s].clt_fd] = <<rpc[s].pid, "clt">>

(* kill(2) on a pid that may be stale: it reaches whoever has the number *)
Signalled(sig, p) ==
  IF (st[p] \in Live \/ st[p] = "other") /\ owner[p] \notin KillDenied
  THEN [sig EXCEPT ![p] = TRUE]
  ELSE sig

(* the process table once p is gone and its number is free again *)
Released(p) ==
  /\ owner'  = [owner EXCEPT ![p] = NoSvc]
  /\ st'     = [st EXCEPT ![p] = "free"]
  /\ pdeath' = [pdeath EXCEPT ![p] = FALSE]
  /\ term'   = [term EXCEPT ![p] = FALSE]
  /\ kill'   = [kill EXCEPT ![p] = FALSE]
  /\ reqs'   = [reqs EXCEPT ![p] = <<>>]

(* p terminates: a zombie while the caller lives, else init collects it *)
Dies(p) ==
  IF parent
  THEN /\ st'   = [st EXCEPT ![p] = "zombie"]
       /\ reqs' = [reqs EXCEPT ![p] = <<>>]
       /\ UNCHANGED <<owner, pdeath, term, kill>>
  ELSE Released(p)

-----------------------------------------------------------------------------
(* The caller: driver_init, nvcgo_init and rpc_init *)

(* The new struct rpc, with the lowest two free descriptors and the child. *)
ForkService(s) ==
  \E p \in Pids, a, b \in Fd :
    /\ st[p] = "free"
    /\ LowestFree(a)
    /\ a < b /\ fdt[b] = Free
    /\ \A n \in Fd : fdt[n] = Free => n = a \/ n >= b
    /\ rpc' = [rpc EXCEPT ![s] = [initialized |-> FALSE, clt_fd |-> a,
                                  svc_fd |-> b, pid |-> p, clt |-> FALSE]]
    /\ fdt' = [fdt EXCEPT ![a] = <<p, "clt">>, ![b] = <<p, "svc">>]
    /\ owner' = [owner EXCEPT ![p] = s]
    /\ st' = [st EXCEPT ![p] = "born"]
    /\ UNCHANGED <<pdeath, term, kill, reqs>>

(* driver_init/nvcgo_init up to the fork.  Both clear the context first,   *)
(* so rpc_init never finds it initialized.                                 *)
InitFork(s) ==
  /\ ForkService(s)
  /\ ctxinit' = [ctxinit EXCEPT ![s] = FALSE]
  /\ pc' = "setup_client"
  /\ op' = "init"
  /\ cur' = s
  /\ UNCHANGED <<parent, caller, force, ret, reply>>

(* The socketpair or the fork fails: rpc_init closes what it opened, and   *)
(* the rpc_shutdown of the init's fail label closes the same numbers again *)
(* before anything can reuse them.                                         *)
InitNoFork(s) ==
  /\ rpc' = [rpc EXCEPT ![s] = ResetRpc]
  /\ ctxinit' = [ctxinit EXCEPT ![s] = FALSE]
  /\ pc' = "returned"
  /\ op' = "init"
  /\ cur' = s
  /\ ret' = -1
  /\ UNCHANGED <<parent, caller, force, reply, fdt, procvars>>

(* path_join fails: rpc_shutdown runs on a zeroed struct rpc, whose        *)
(* descriptors are both 0.                                                 *)
InitNoPath(s) ==
  /\ s \in PathJoinMayFail
  /\ rpc' = [rpc EXCEPT ![s] = ResetRpc]
  /\ ctxinit' = [ctxinit EXCEPT ![s] = FALSE]
  /\ fdt' = Close(fdt, {0})
  /\ pc' = "returned"
  /\ op' = "init"
  /\ cur' = s
  /\ ret' = -1
  /\ UNCHANGED <<parent, caller, force, reply, procvars>>

service_init(s) == InitFork(s) \/ InitNoFork(s) \/ InitNoPath(s)

setup_client ==
  /\ pc = "setup_client"
  /\ fdt' = Close(fdt, {rpc[cur].svc_fd})
  /\ \/ /\ rpc' = [rpc EXCEPT ![cur] = [@ EXCEPT !.clt = TRUE,
                                             !.initialized = TRUE]]
        /\ pc' = "call"
        /\ UNCHANGED <<caller, force>>
     \/ /\ pc' = "reap"
        /\ caller' = "rpc_init"
        /\ force' = TRUE
        /\ UNCHANGED rpc
  /\ UNCHANGED <<parent, op, cur, ret, reply, ctxinit, procvars>>

-----------------------------------------------------------------------------
(* The caller: call_rpc *)

(* The request reaches the service if both ends of the socket are open. *)
Send ==
  /\ pc = "call"
  /\ reqs' = IF ClientSocket(cur) /\ st[mypid] \in SockOpen
             THEN [reqs EXCEPT ![mypid] = Append(@, op)]
             ELSE reqs
  /\ pc' = "wait"
  /\ reply' = "none"
  /\ UNCHANGED <<parent, op, cur, caller, force, ret, rpcvars, fdt,
                 owner, st, pdeath, term, kill>>

(* variant: a failed init call returns at once instead of going to fail *)
CallReturns_NoFail(r) ==
  /\ pc = "wait"
  /\ r = reply \/ r = "error"
  /\ r # "none"
  /\ reply' = "none"
  /\ IF op \in {"query", "init"}
     THEN /\ pc' = "returned"
          /\ ret' = IF r = "ok" THEN 0 ELSE -1
          /\ ctxinit' = [ctxinit EXCEPT ![cur] = @ \/ (op = "init" /\ r = "ok")]
          /\ UNCHANGED <<caller, force>>
     ELSE /\ pc' = "reap"
          /\ caller' = "rpc_shutdown"
          /\ force' = (r # "ok")
          /\ UNCHANGED <<ret, ctxinit>>
  /\ UNCHANGED <<parent, op, cur, rpc, fdt, procvars>>

(* The reply is there, or the call fails: no answer before the timeout,    *)
(* or the socket is closed.  A late answer is dropped, its xid is old.     *)
CallReturns(r) ==
  /\ pc = "wait"
  /\ r = reply \/ r = "error"
  /\ r # "none"
  /\ reply' = "none"
  /\ CASE op = "query" ->
            /\ pc' = "returned"
            /\ ret' = IF r = "ok" THEN 0 ELSE -1
            /\ UNCHANGED <<caller, force, ctxinit>>
       [] op = "init" /\ r = "ok" ->
            /\ pc' = "returned"
            /\ ret' = 0
            /\ ctxinit' = [ctxinit EXCEPT ![cur] = TRUE]
            /\ UNCHANGED <<caller, force>>
       [] OTHER ->
            /\ pc' = "reap"
            /\ caller' = "rpc_shutdown"
            /\ force' = (r # "ok")
            /\ UNCHANGED <<ret, ctxinit>>
  /\ UNCHANGED <<parent, op, cur, rpc, fdt, procvars>>

service_query(s) ==
  /\ rpc[s].pid \in Pids => Len(reqs[rpc[s].pid]) < MaxQueue
  /\ pc' = "call"
  /\ op' = "query"
  /\ cur' = s
  /\ UNCHANGED <<parent, caller, force, ret, reply, rpcvars, fdt, procvars>>

(* driver_shutdown and nvcgo_shutdown: nothing to do when not initialized *)
service_shutdown(s) ==
  /\ ctxinit[s] => Len(reqs[rpc[s].pid]) < MaxQueue
  /\ op' = "shutdown"
  /\ cur' = s
  /\ IF ctxinit[s] THEN pc' = "call" /\ UNCHANGED ret
                   ELSE pc' = "returned" /\ ret' = 0
  /\ UNCHANGED <<parent, caller, force, reply, rpcvars, fdt, procvars>>

-----------------------------------------------------------------------------
(* The caller: reap_process *)

(* waitpid(WNOHANG) collects a zombie child; otherwise, the number being   *)
(* unknown to the caller included, a forced reap sends SIGTERM.            *)
Reap ==
  /\ pc = "reap"
  /\ IF Child(mypid) /\ st[mypid] = "zombie"
     THEN /\ Released(mypid)
          /\ pc' = "reaped"
          /\ ret' = 0
     ELSE /\ pc' = "poll"
          /\ term' = IF force THEN Signalled(term, mypid) ELSE term
          /\ UNCHANGED <<owner, st, pdeath, kill, reqs, ret>>
  /\ UNCHANGED <<parent, op, cur, caller, force, reply, rpcvars, fdt>>

(* The peer's end is closed, or the descriptor is (POLLNVAL). *)
HungUp == ~ClientSocket(cur) \/ st[mypid] \notin SockOpen

(* variant: the hangup is taken for the end of the process *)
PollReady_NoWait ==
  /\ pc = "poll"
  /\ HungUp
  /\ pc' = "reaped"
  /\ ret' = 0
  /\ UNCHANGED <<parent, op, cur, caller, force, reply, rpcvars, fdt, procvars>>

PollFails ==
  /\ pc = "poll"
  /\ PollMayFail
  /\ pc' = "reaped"
  /\ ret' = -1
  /\ UNCHANGED <<parent, op, cur, caller, force, reply, rpcvars, fdt, procvars>>

PollReady ==
  /\ pc = "poll"
  /\ HungUp
  /\ pc' = "waitpid"
  /\ UNCHANGED <<parent, op, cur, caller, force, ret, reply, rpcvars, fdt,
                 procvars>>

(* variant: a timeout falls through to waitpid without SIGKILL *)
PollTimeout_NoKill ==
  /\ pc = "poll"
  /\ ~HungUp
  /\ pc' = "waitpid"
  /\ UNCHANGED <<parent, op, cur, caller, force, ret, reply, rpcvars, fdt,
                 procvars>>

(* variant: the result of kill is not looked at *)
PollTimeout_IgnoresKill ==
  /\ pc = "poll"
  /\ ~HungUp
  /\ kill' = Signalled(kill, mypid)
  /\ pc' = "waitpid"
  /\ UNCHANGED <<parent, op, cur, caller, force, ret, reply, rpcvars, fdt,
                 owner, st, pdeath, term, reqs>>

(* No hangup in REAP_TIMEOUT_MS: SIGKILL, and an error if it is refused. *)
PollTimeout ==
  /\ pc = "poll"
  /\ ~HungUp
  /\ kill' = Signalled(kill, mypid)
  /\ IF owner[mypid] \in KillDenied THEN pc' = "reaped" /\ ret' = -1
                                    ELSE pc' = "waitpid" /\ UNCHANGED ret
  /\ UNCHANGED <<parent, op, cur, caller, force, reply, rpcvars, fdt,
                 owner, st, pdeath, term, reqs>>

(* The blocking waitpid: a child is awaited, a stranger is an error. *)
Waitpid ==
  /\ pc = "waitpid"
  /\ IF Child(mypid)
     THEN /\ st[mypid] = "zombie"
          /\ Released(mypid)
          /\ ret' = 0
     ELSE ret' = -1 /\ UNCHANGED procvars
  /\ pc' = "reaped"
  /\ UNCHANGED <<parent, op, cur, caller, force, reply, rpcvars, fdt>>

(* The rest of rpc_init's fail label: both descriptors are closed and the  *)
(* struct is left as it is, then the init's own fail label reaps again.    *)
RpcInitFailed ==
  /\ pc = "reaped"
  /\ caller = "rpc_init"
  /\ fdt' = Close(fdt, {rpc[cur].clt_fd, rpc[cur].svc_fd})
  /\ pc' = "reap"
  /\ caller' = "rpc_shutdown"
  /\ force' = TRUE
  /\ UNCHANGED <<parent, op, cur, ret, reply, rpcvars, procvars>>

(* variant: the context stays initialized after a shutdown *)
RpcShutdownDone_StaysInit ==
  /\ pc = "reaped"
  /\ caller = "rpc_shutdown"
  /\ pc' = "returned"
  /\ IF ret = 0
     THEN /\ fdt' = Close(fdt, {rpc[cur].clt_fd, rpc[cur].svc_fd})
          /\ rpc' = [rpc EXCEPT ![cur] = ResetRpc]
     ELSE UNCHANGED <<fdt, rpc>>
  /\ ret' = IF op = "shutdown" THEN ret ELSE -1
  /\ UNCHANGED <<parent, op, cur, caller, force, reply, ctxinit, procvars>>

(* variant: nor is the struct rpc reset, so the collected pid stays in it *)
RpcShutdownDone_NoReset ==
  /\ pc = "reaped"
  /\ caller = "rpc_shutdown"
  /\ pc' = "returned"
  /\ fdt' = IF ret = 0 THEN Close(fdt, {rpc[cur].clt_fd, rpc[cur].svc_fd})
                       ELSE fdt
  /\ ret' = IF op = "shutdown" THEN ret ELSE -1
  /\ UNCHANGED <<parent, op, cur, caller, force, reply, rpcvars, procvars>>

(* The rest of rpc_shutdown, and of the entry point that called it. *)
RpcShutdownDone ==
  /\ pc = "reaped"
  /\ caller = "rpc_shutdown"
  /\ pc' = "returned"
  /\ IF ret = 0
     THEN /\ fdt' = Close(fdt, {rpc[cur].clt_fd, rpc[cur].svc_fd})
          /\ rpc' = [rpc EXCEPT ![cur] = ResetRpc]
     ELSE UNCHANGED <<fdt, rpc>>
  /\ IF op = "shutdown" /\ ret = 0
     THEN ctxinit' = [ctxinit EXCEPT ![cur] = FALSE]
     ELSE UNCHANGED ctxinit
  /\ ret' = IF op = "shutdown" THEN ret ELSE -1
  /\ UNCHANGED <<parent, op, cur, caller, force, reply, procvars>>

(* The caller's thread inside an entry point. *)
MainStep ==
  /\ parent
  /\ \/ setup_client
     \/ Send
     \/ \E r \in {"ok", "error"} : CallReturns(r)
     \/ Reap
     \/ PollFails
     \/ PollReady
     \/ PollTimeout
     \/ Waitpid
     \/ RpcInitFailed
     \/ RpcShutdownDone

-----------------------------------------------------------------------------
(* The service process: setup_service *)

SetPdeathsig(p) ==
  /\ st[p] = "born"
  /\ \/ /\ st' = [st EXCEPT ![p] = "armed"]
        /\ pdeath' = [pdeath EXCEPT ![p] = TRUE]
        /\ UNCHANGED <<owner, term, kill, reqs>>
     \/ Dies(p)
  /\ UNCHANGED <<parent, mainvars, rpcvars, fdt>>

(* variant: no getppid check after PR_SET_PDEATHSIG *)
CheckParent_Skipped(p) ==
  /\ st[p] = "armed"
  /\ st' = [st EXCEPT ![p] = "checked"]
  /\ UNCHANGED <<parent, mainvars, rpcvars, fdt, owner, pdeath, term, kill, reqs>>

(* getppid differs once the caller is gone; the SIGTERM the process sends  *)
(* itself is delivered before kill returns, unless it is blocked.          *)
CheckParent(p) ==
  /\ st[p] = "armed"
  /\ IF parent
     THEN /\ st' = [st EXCEPT ![p] = "checked"]
          /\ UNCHANGED <<owner, pdeath, term, kill, reqs>>
     ELSE IF TermBlocked
          THEN /\ st' = [st EXCEPT ![p] = "checked"]
               /\ term' = [term EXCEPT ![p] = TRUE]
               /\ UNCHANGED <<owner, pdeath, kill, reqs>>
          ELSE Dies(p)
  /\ UNCHANGED <<parent, mainvars, rpcvars, fdt>>

Register(p) ==
  /\ st[p] = "checked"
  /\ \/ /\ st' = [st EXCEPT ![p] = "run"]
        /\ UNCHANGED <<owner, pdeath, term, kill, reqs>>
     \/ Dies(p)
  /\ UNCHANGED <<parent, mainvars, rpcvars, fdt>>

(* svc_exit was called: svc_run returns, svc_destroy closes the socket *)
SvcDestroy(p) ==
  /\ st[p] = "leaving"
  /\ st' = [st EXCEPT ![p] = "closed"]
  /\ reqs' = [reqs EXCEPT ![p] = <<>>]
  /\ UNCHANGED <<parent, mainvars, rpcvars, fdt, owner, pdeath, term, kill>>

Exit(p) ==
  /\ st[p] = "closed"
  /\ Dies(p)
  /\ UNCHANGED <<parent, mainvars, rpcvars, fdt>>

-----------------------------------------------------------------------------
(* The service process: the handlers svc_run dispatches to *)

(* The answer to the oldest request; only the newest one is waited for. *)
Replies(p, r) ==
  /\ reqs' = [reqs EXCEPT ![p] = Tail(@)]
  /\ reply' = IF /\ parent /\ pc = "wait" /\ mypid = p
                 /\ ClientSocket(cur) /\ Len(reqs[p]) = 1
              THEN r ELSE reply
  /\ UNCHANGED <<parent, pc, op, cur, caller, force, ret, rpcvars, fdt,
                 owner, term, kill>>

Dispatches(p, o) == st[p] = "run" /\ reqs[p] # <<>> /\ Head(reqs[p]) = o

(* driver_init_1_svc, nvcgo_init_1_svc.  The kernel drops the parent death *)
(* signal when the credentials change.  A handler that fails may do so     *)
(* before or after that; the service stays in svc_run either way.          *)
HandleInit(p) ==
  /\ Dispatches(p, "init")
  /\ \/ /\ Replies(p, "ok")
        /\ pdeath' = [pdeath EXCEPT ![p] = @ /\ owner[p] \notin ChangesCreds]
     \/ /\ Replies(p, "error")
        /\ \/ UNCHANGED pdeath
           \/ /\ owner[p] \in ChangesCreds
              /\ pdeath' = [pdeath EXCEPT ![p] = FALSE]
  /\ UNCHANGED st

HandleQuery(p) ==
  /\ Dispatches(p, "query")
  /\ \E r \in {"ok", "error"} : Replies(p, r)
  /\ UNCHANGED <<st, pdeath>>

(* driver_shutdown_1_svc leaves svc_run only if the driver library shut    *)
(* down; nvcgo_shutdown_1_svc always does.                                 *)
HandleShutdown(p) ==
  /\ Dispatches(p, "shutdown")
  /\ \/ /\ Replies(p, "ok")
        /\ st' = [st EXCEPT ![p] = "leaving"]
     \/ /\ owner[p] \in ShutdownMayFail
        /\ Replies(p, "error")
        /\ UNCHANGED st
  /\ UNCHANGED pdeath

(* The library called by a handler takes the process down. *)
HandlerCrashes(p) ==
  /\ st[p] = "run"
  /\ reqs[p] # <<>>
  /\ Dies(p)
  /\ UNCHANGED <<parent, mainvars, rpcvars, fdt>>

Handle(p) ==
  \/ HandleInit(p)
  \/ HandleQuery(p)
  \/ HandleShutdown(p)
  \/ HandlerCrashes(p)

-----------------------------------------------------------------------------
(* The kernel *)

DeliverSignal(p) ==
  /\ st[p] \in Live
  /\ kill[p] \/ (term[p] /\ ~TermBlocked)
  /\ Dies(p)
  /\ UNCHANGED <<parent, mainvars, rpcvars, fdt>>

(* The caller exits or is killed: its zombies go to init, and the children *)
(* that asked for it get SIGTERM.                                          *)
ParentDies ==
  /\ parent
  /\ parent' = FALSE
  /\ LET gone == {p \in Pids : st[p] = "zombie"} IN
     /\ owner' = [p \in Pids |-> IF p \in gone THEN NoSvc ELSE owner[p]]
     /\ st' = [p \in Pids |-> IF p \in gone THEN "free" ELSE st[p]]
     /\ pdeath' = [p \in Pids |-> pdeath[p] /\ p \notin gone]
     /\ term' = [p \in Pids |->
                  IF p \in gone THEN FALSE
                  ELSE term[p] \/ (pdeath[p] /\ st[p] \in Live)]
     /\ kill' = [p \in Pids |-> kill[p] /\ p \notin gone]
  /\ UNCHANGED <<mainvars, rpcvars, fdt, reqs>>

(* A free number goes to an unrelated process, which later ends.  It is of *)
(* no interest once the caller, who may signal it, is gone.                *)
ForeignStarts(p) ==
  /\ parent
  /\ st[p] = "free"
  /\ st' = [st EXCEPT ![p] = "other"]
  /\ owner' = [owner EXCEPT ![p] = Foreign]
  /\ UNCHANGED <<parent, mainvars, rpcvars, fdt, pdeath, term, kill, reqs>>

ForeignEnds(p) ==
  /\ parent
  /\ st[p] = "other"
  /\ Released(p)
  /\ UNCHANGED <<parent, mainvars, rpcvars, fdt>>

ServiceStep(p) ==
  \/ SetPdeathsig(p)
  \/ CheckParent(p)
  \/ Register(p)
  \/ SvcDestroy(p)
  \/ Exit(p)
  \/ DeliverSignal(p)

Environment ==
  \/ ParentDies
  \/ \E p \in Pids : Handle(p) \/ ForeignStarts(p) \/ ForeignEnds(p)

SystemStep ==
  \/ MainStep
  \/ \E p \in Pids : ServiceStep(p)
  \/ Environment

-----------------------------------------------------------------------------
(* A caller that uses each service by itself: it initializes what is not   *)
(* initialized, queries what is, and shuts down whenever it likes.         *)

Begin ==
  /\ parent
  /\ pc = "idle"
  /\ \E s \in Services :
       \/ ~ctxinit[s] /\ service_init(s)
       \/ ctxinit[s] /\ service_query(s)
       \/ service_shutdown(s)

Return ==
  /\ parent
  /\ pc = "returned"
  /\ pc' = "idle"
  /\ UNCHANGED <<parent, op, cur, caller, force, ret, reply, rpcvars, fdt,
                 procvars>>

(* Between two entry points the caller opens and closes descriptors of its *)
(* own: the mount namespace, in the library.                               *)
CallerOpens ==
  /\ parent
  /\ pc = "idle"
  /\ Cardinality({n \in Fd : fdt[n] = MntNs}) < MaxOwn
  /\ \E n \in Fd : LowestFree(n) /\ fdt' = [fdt EXCEPT ![n] = MntNs]
  /\ UNCHANGED <<parent, mainvars, rpcvars, procvars>>

CallerCloses ==
  /\ parent
  /\ pc = "idle"
  /\ \E n \in Fd : fdt[n] = MntNs /\ fdt' = Close(fdt, {n})
  /\ UNCHANGED <<parent, mainvars, rpcvars, procvars>>

RpcInit ==
  /\ parent = TRUE
  /\ pc = "idle"
  /\ op = "query"
  /\ cur \in Services
  /\ caller = "rpc_shutdown"
  /\ force = FALSE
  /\ ret = 0
  /\ reply = "none"
  /\ rpc = [s \in Services |-> ResetRpc]
  /\ ctxinit = [s \in Services |-> FALSE]
  /\ fdt = [n \in Fd |-> IF n = 0 THEN Caller ELSE Free]
  /\ owner = [p \in Pids |-> NoSvc]
  /\ st = [p \in Pids |-> "free"]
  /\ pdeath = [p \in Pids |-> FALSE]
  /\ term = [p \in Pids |-> FALSE]
  /\ kill = [p \in Pids |-> FALSE]
  /\ reqs = [p \in Pids |-> <<>>]

Next == Begin \/ Return \/ CallerOpens \/ CallerCloses \/ SystemStep

Spec == RpcInit /\ [][Next]_vars

(* The caller's thread is scheduled while it lives, a call has a timeout,  *)
(* and the kernel runs a process that starts, leaves or has a signal to    *)
(* take.  Nothing is assumed of the handlers: they may hang.               *)
Fairness ==
  /\ WF_vars(MainStep)
  /\ \A p \in Pids : WF_vars(ServiceStep(p))

FairSpec == Spec /\ Fairness

-----------------------------------------------------------------------------
(* Properties *)

TypeOK ==
  /\ parent \in BOOLEAN
  /\ pc \in PcLabels
  /\ op \in Ops
  /\ cur \in Services
  /\ caller \in {"rpc_init", "rpc_shutdown"}
  /\ force \in BOOLEAN
  /\ ret \in {0, -1}
  /\ reply \in {"none", "ok", "error"}
  /\ rpc \in [Services -> RpcStruct]
  /\ ctxinit \in [Services -> BOOLEAN]
  /\ fdt \in [Fd -> (Pids \cup {NoPid}) \X FdKinds]
  /\ owner \in [Pids -> Services \cup {NoSvc, Foreign}]
  /\ st \in [Pids -> States]
  /\ pdeath \in [Pids -> BOOLEAN]
  /\ term \in [Pids -> BOOLEAN]
  /\ kill \in [Pids -> BOOLEAN]
  /\ reqs \in [Pids -> Seq(Ops)]

(* poll reports a closed client descriptor at once, so a reap that runs    *)
(* without one never gets to SIGKILL and waits for a child that SIGTERM    *)
(* need not end.  This is so when the init's fail label reaps a second     *)
(* time, and when another service's rpc_shutdown closed the descriptor     *)
(* through its stale fd[SOCK_SVC].                                         *)
ReapsWithoutSocket == ~ClientSocket(cur) /\ (TermBlocked \/ cur \in KillDenied)

(* reap_process blocks in waitpid without a timeout.  It does so only on a *)
(* child that is on its way out: it left svc_run, is dead, or has a fatal  *)
(* signal it cannot hold off.  A reap without a socket is the exception.   *)
WaitsOnlyForTheDying ==
  parent /\ pc = "waitpid" /\ Child(mypid) =>
    \/ st[mypid] \in {"leaving", "closed", "zombie"}
    \/ kill[mypid]
    \/ term[mypid] /\ ~TermBlocked
    \/ ReapsWithoutSocket

(* A service that runs, and was sent no signal though it could be, can     *)
(* still be shut down: its pid is the one in struct rpc, and the context   *)
(* is initialized or the entry point that settles the matter is executing. *)
RunningServiceIsReachable ==
  parent => \A p \in Pids :
    Child(p) /\ owner[p] \notin KillDenied
      /\ st[p] \in Live /\ ~term[p] /\ ~kill[p] =>
      /\ rpc[owner[p]].pid = p
      /\ ctxinit[owner[p]] \/ (cur = owner[p] /\ pc \notin {"idle", "returned"})

(* An initialized context never holds the number of a process that was     *)
(* already collected, so what rpc_shutdown signals and waits for is its    *)
(* own child.  (Between the waitpid and the reset, nothing uses the pid.)  *)
InitializedPidIsChild ==
  parent => \A s \in Services :
    ctxinit[s] /\ ~(cur = s /\ pc = "reaped" /\ ret = 0) =>
      rpc[s].pid \in Pids /\ owner[rpc[s].pid] = s

(* The caller signals a process that is not its child in one case only:    *)
(* setup_client failed, rpc_init reaped the child and left its pid in the  *)
(* struct, and the init's fail label reaps it a second time.               *)
SignalsOnlyItsChild ==
  [][\A p \in Pids :
       st[p] = "other" /\ st'[p] = "other"
         /\ <<term'[p], kill'[p]>> # <<term[p], kill[p]>>
       => op = "init" /\ ~rpc[cur].initialized]_vars

(* Every entry point returns, whatever the service does: the timeout of    *)
(* the call and the SIGKILL after REAP_TIMEOUT_MS see to it.  Only a reap  *)
(* without a socket can be stuck on a child that SIGTERM does not end.     *)
CallsReturn ==
  (pc \notin {"idle", "returned"}) ~>
    (pc \in {"idle", "returned"} \/ ~parent \/ (pc = "waitpid" /\ ReapsWithoutSocket))

(* "Set PDEATHSIG in case our parent terminates unexpectedly": once the    *)
(* caller is gone, every service process goes too.                         *)
OrphansTerminate ==
  \A p \in Pids : (~parent /\ st[p] \in Live) ~> (st[p] \notin Live)
=============================================================================
