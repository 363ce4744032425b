---------------------------- MODULE RpcInvariant ----------------------------
(***************************************************************************)
(* The inductive invariant behind the safety properties of Rpc. The named  *)
(* parts say what the thread in the library knows from where it is; the    *)
(* properties of Rpc are among them.                                       *)
(***************************************************************************)
EXTENDS Rpc

(* Where a call waits for the service, where it reaps it, and the states of *)
(* a service that will not serve again.                                     *)
Calling == {"setup_client", "call", "wait"}
Reaping == {"reap", "poll", "waitpid", "reaped"}
Gone    == {"leaving", "closed", "zombie"}

(* The process table is consistent. *)
ProcInv ==
  \A p \in Pids :
    /\ st[p] = "free" <=> owner[p] = NoSvc
    /\ st[p] = "other" <=> owner[p] = Foreign

(* What the caller's thread knows from where it is. *)
ControlInv ==
  /\ pc = "setup_client" => op = "init" /\ ~rpc[cur].initialized
  /\ pc \in Reaping => op # "query"
  /\ pc \in Reaping /\ op = "init" => force
  /\ pc \in Reaping /\ caller = "rpc_init" => op = "init" /\ ~rpc[cur].initialized
  /\ pc \in Calling \cup Reaping => (ctxinit[cur] <=> op # "init")

(* Whose the pid of the service in use is. *)
PidInv ==
  parent =>
    /\ pc \in Calling => mypid \in Pids /\ owner[mypid] = cur
    /\ pc \in Reaping => mypid \in Pids /\ (owner[mypid] = cur \/ ~Child(mypid))
    /\ pc = "reaped" /\ ret = 0 => ~Child(mypid)
    /\ pc \in Reaping \ {"reaped"} /\ rpc[cur].initialized => owner[mypid] = cur

(* Why the process being reaped is about to end. *)
DyingInv ==
  parent =>
    /\ pc = "wait" /\ op = "shutdown" /\ reply = "ok" => st[mypid] \in Gone
    /\ pc = "wait" /\ ClientSocket(cur) /\ st[mypid] \in SockOpen
         /\ reqs[mypid] # <<>> => reqs[mypid][Len(reqs[mypid])] = op
    /\ pc \in {"reap", "poll"} /\ ~force /\ Child(mypid) => st[mypid] \in Gone
    /\ pc \in {"poll", "waitpid", "reaped"} /\ force /\ Child(mypid) =>
         term[mypid] \/ st[mypid] = "zombie" \/ cur \in KillDenied

(* The inductive invariant: the types, the table, the control state, and the *)
(* properties of Rpc. *)
Inv ==
  /\ TypeOK
  /\ ProcInv
  /\ ControlInv
  /\ PidInv
  /\ InitializedPidIsChild
  /\ DyingInv
  /\ WaitsOnlyForTheDying
  /\ RunningServiceIsReachable
=============================================================================
